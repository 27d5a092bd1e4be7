------------------------------- MODULE Serve -------------------------------
(***************************************************************************)
(* nooma serve over one vault (cmd/nooma/serve.go): it takes the vault     *)
(* lock, opens the database, starts the scheduler's three goroutines       *)
(* (internal/scheduler: the nightly cron, the boot catch-up and the        *)
(* proactive check) and the goroutine that listens for HTTP and, on a      *)
(* signal, joins them for as long as the grace lasts before it closes the  *)
(* database and releases the lock.  A hand-run nooma consolidate contends  *)
(* for the same lock.                                                      *)
(*                                                                         *)
(* The scheduler's goroutines write to one process log under one mutex,    *)
(* serve and its listener to the same streams without it, and any write    *)
(* may block for as long as nobody reads the other end.                    *)
(*                                                                         *)
(* Time is cyclic, so nothing bounds a behaviour: hour is the hour of the  *)
(* day, age how long ago the last whole pass completed, up to one past     *)
(* CatchUpStaleness, and wait what is left of a goroutine's timer.         *)
(***************************************************************************)
EXTENDS Integers, FiniteSets

CONSTANTS
    DayLen, ConsolidationHour,
    CatchUpStaleness,       \* CatchUpStalenessHours
    BootDelay,              \* BootConsolidationDelay
    CheckInterval,          \* ProactiveCheckInterval
    MaxFaults               \* bound: failed loads, aborted passes and checks

ASSUME ServeAssumption ==
    /\ DayLen \in Nat \ {0} /\ ConsolidationHour \in 0 .. DayLen - 1
    /\ {CatchUpStaleness, BootDelay, CheckInterval, MaxFaults} \subseteq Nat

Consolidators == {"cron", "catchup"}
Jobs == Consolidators \cup {"proactive"}
Slots == {"slot", "proactiveSlot"}
Free == "free"

VARIABLES
    phase,      \* where serve's main goroutine is
    listener,   \* where its listening goroutine is; once "done", errc is ready
    lock,       \* nooma.lock's holder: "none", "serve" or "cli"
    job,        \* [Jobs -> where the goroutine is]
    wait,       \* [Jobs -> ticks left of its timer]
    slot,       \* [Slots -> holder]: Scheduler.slot and proactiveSlot
    logMu,      \* the log mutex's holder
    stalled,    \* nobody reads what serve writes: a write blocks
    enabled,    \* config.consolidation_enabled
    hour, age, faults

clock == << hour, age >>
vars == << phase, listener, lock, job, wait, slot, logMu, stalled, enabled, clock, faults >>

NeverRun == CatchUpStaleness + 1

(* The consolidators share a slot; the proactive check has its own.        *)
SlotOf(j) == IF j \in Consolidators THEN "slot" ELSE "proactiveSlot"

(* NextDailyRun: strictly after now.                                       *)
TillNext == IF hour < ConsolidationHour THEN ConsolidationHour - hour
            ELSE ConsolidationHour - hour + DayLen

Init ==
    /\ phase = "down" /\ listener = "off" /\ lock = "none"
    /\ job = [j \in Jobs |-> "off"] /\ wait = [j \in Jobs |-> 0]
    /\ slot = [s \in Slots |-> Free] /\ logMu = Free
    /\ stalled = FALSE /\ enabled \in BOOLEAN
    /\ hour = 0 /\ age \in 0 .. NeverRun /\ faults = 0

----------------------------------------------------------------------------
(* ctx is done from the signal on, and calls under it may fail for free.   *)
Cancelled == phase # "up"

Fail ==
    /\ Cancelled \/ faults < MaxFaults
    /\ faults' = IF Cancelled THEN faults ELSE faults + 1

Become(j, state) == job' = [job EXCEPT ![j] = state] /\ UNCHANGED wait

(* runPass and runProactivePass return: the loops wait for their next      *)
(* instant, the catch-up is over.  Mutant: the cron runs once.             *)
BugReturn(j) ==
    IF j \in Consolidators THEN Become(j, "off")
    ELSE job' = [job EXCEPT ![j] = "wait"] /\ wait' = [wait EXCEPT ![j] = CheckInterval]

Return(j) ==
    IF j = "catchup" THEN Become(j, "off")
    ELSE /\ job' = [job EXCEPT ![j] = "wait"]
         /\ wait' = [wait EXCEPT ![j] = IF j = "cron" THEN TillNext ELSE CheckInterval]

(* runCatchUp's gates: a config it cannot read, consolidation off, or a    *)
(* pass recent enough end it.                                              *)
CatchUpCheck ==
    /\ job["catchup"] = "check"
    /\ \/ /\ enabled /\ age > CatchUpStaleness
          /\ job' = [job EXCEPT !["catchup"] = "wait"]
          /\ wait' = [wait EXCEPT !["catchup"] = BootDelay]
          /\ UNCHANGED faults
       \/ ~(enabled /\ age > CatchUpStaleness) /\ Become("catchup", "off") /\ UNCHANGED faults
       \/ Fail /\ Become("catchup", "off")
    /\ UNCHANGED << phase, listener, lock, slot, logMu, stalled, enabled, clock >>

(* The select on the timer and ctx: either may win when both are ready.    *)
Fire(j) ==
    /\ job[j] = "wait" /\ wait[j] = 0
    /\ Become(j, IF j \in Consolidators THEN "load" ELSE "take")
    /\ UNCHANGED << phase, listener, lock, slot, logMu, stalled, enabled, clock, faults >>

Quit(j) ==
    /\ job[j] = "wait" /\ Cancelled
    /\ job' = [job EXCEPT ![j] = "off"] /\ wait' = [wait EXCEPT ![j] = 0]
    /\ UNCHANGED << phase, listener, lock, slot, logMu, stalled, enabled, clock, faults >>

LoadConfig(j) ==
    /\ job[j] = "load"
    /\ \/ enabled /\ Become(j, "take") /\ UNCHANGED faults
       \/ ~enabled /\ Return(j) /\ UNCHANGED faults
       \/ Fail /\ Return(j)
    /\ UNCHANGED << phase, listener, lock, slot, logMu, stalled, enabled, clock >>

(* The try-lock: a fire that cannot take the slot says so and is skipped.  *)
TakeSlot(j) ==
    /\ job[j] = "take"
    /\ \/ /\ slot[SlotOf(j)] = Free
          /\ slot' = [slot EXCEPT ![SlotOf(j)] = j] /\ Become(j, "run")
       \/ slot[SlotOf(j)] # Free /\ Become(j, "say") /\ UNCHANGED slot
    /\ UNCHANGED << phase, listener, lock, logMu, stalled, enabled, clock, faults >>

(* Mutant: a pass with something to log keeps the slot.                    *)
BugGiveBackLate(j, quiet) == 
    IF quiet THEN slot' = [slot EXCEPT ![SlotOf(j)] = Free] ELSE UNCHANGED slot

GiveBack(j, quiet) == slot' = [slot EXCEPT ![SlotOf(j)] = Free]

(* Consolidate or Check returns and the slot is given back, before the     *)
(* log.  A consolidation that completes stamps consolidation_last_run_at,  *)
(* and may have refused units to name; one that aborts stamps nothing.  On *)
(* a closed database everything fails.                                     *)
Finish(j) ==
    /\ job[j] = "run"
    /\ \/ /\ phase # "closed"
          /\ \E refused \in IF j \in Consolidators THEN BOOLEAN ELSE {FALSE} :
                /\ GiveBack(j, ~refused)
                /\ IF refused THEN Become(j, "say") ELSE Return(j)
          /\ age' = IF j \in Consolidators THEN 0 ELSE age
          /\ UNCHANGED faults
       \/ Fail /\ GiveBack(j, FALSE) /\ Become(j, "say") /\ UNCHANGED age
    /\ UNCHANGED << phase, listener, lock, logMu, stalled, enabled, hour >>

(* logf.                                                                   *)
LockLog(j) ==
    /\ job[j] = "say" /\ logMu = Free
    /\ logMu' = j /\ Become(j, "write")
    /\ UNCHANGED << phase, listener, lock, slot, stalled, enabled, clock, faults >>

WriteLog(j) ==
    /\ job[j] = "write" /\ ~stalled
    /\ logMu' = Free /\ Return(j)
    /\ UNCHANGED << phase, listener, lock, slot, stalled, enabled, clock, faults >>

JobStep(j) ==
    \/ Fire(j) \/ Quit(j) \/ TakeSlot(j) \/ Finish(j) \/ LockLog(j) \/ WriteLog(j)
    \/ LoadConfig(j)
    \/ j = "catchup" /\ CatchUpCheck

----------------------------------------------------------------------------
(* serve's main goroutine.                                                 *)

(* vaultlock.Acquire: whoever finds the lock held refuses to start.         *)
Acquire(who) == lock = "none" /\ lock' = who

Boot ==
    /\ phase = "down" /\ Acquire("serve")
    /\ phase' = "up" /\ listener' = "announce"
    /\ job' = [j \in Jobs |-> IF j = "catchup" THEN "check" ELSE "wait"]
    /\ wait' = [j \in Jobs |-> CASE j = "cron" -> TillNext
                                 [] j = "proactive" -> CheckInterval
                                 [] j = "catchup" -> 0]
    /\ UNCHANGED << slot, logMu, stalled, enabled, clock, faults >>

Advance(from, to) ==
    /\ phase = from /\ phase' = to
    /\ UNCHANGED << listener, lock, job, wait, slot, logMu, stalled, enabled, clock, faults >>

(* The first select: a signal, or an errc that is ready, and then serve    *)
(* returns what is in it without any join.                                 *)
Signal == Advance("up", "notice")
ListenerFailed == listener = "done" /\ Advance("up", "closing")

(* The line about shutting down, and then the grace begins.                *)
Notice == ~stalled /\ Advance("notice", "draining")

(* The channel's poller stops in time, or the grace is over and serve says *)
(* so itself, outside the log's mutex.                                     *)
JoinPoller == Advance("draining", "joining") \/ Advance("draining", "warning")
Warn == ~stalled /\ Advance("warning", "joining")

(* server.Shutdown and Scheduler.Wait, one after the other within what is  *)
(* left of the one grace: they return at its end at the latest.  If a slow *)
(* client outlived it serve returns that error, and otherwise what the     *)
(* listener ends with.  Mutant: the join has no deadline.                  *)
BugJoin ==
    /\ \A j \in Jobs : job[j] = "off"
    /\ Advance("joining", "closing") \/ Advance("joining", "reaping")

Join == Advance("joining", "closing") \/ Advance("joining", "reaping")
Reap == listener = "done" /\ Advance("reaping", "closing")

(* The listening goroutine: net.Listen, which may fail, and the line that  *)
(* announces the port; then server.Serve, which may fail at any moment and *)
(* returns once Shutdown has begun, even if it is called only then.        *)
Move(from, to) ==
    /\ listener = from /\ listener' = to
    /\ UNCHANGED << phase, lock, job, wait, slot, logMu, stalled, enabled, clock, faults >>

Announce == ~stalled /\ Move("announce", "serving")
ListenerFails == Move("announce", "done") \/ Move("serving", "done")

ShutdownBegun == phase \in {"joining", "reaping", "closing", "closed"}
ServeReturns == ShutdownBegun /\ Move("serving", "done")

(* The deferred calls, last registered first.  Mutant: the lock is         *)
(* released before the database is closed.                                 *)
BugCloseDb ==
    /\ phase = "closing"
    /\ phase' = IF lock = "serve" THEN phase ELSE "closed"
    /\ lock' = IF lock = "serve" THEN "none" ELSE lock
    /\ UNCHANGED << listener, job, wait, slot, logMu, stalled, enabled, clock, faults >>

CloseDb == Advance("closing", "closed")

Gone ==
    /\ phase' = "down" /\ listener' = "off"
    /\ lock' = IF lock = "serve" THEN "none" ELSE lock
    /\ job' = [j \in Jobs |-> "off"] /\ wait' = [j \in Jobs |-> 0]
    /\ slot' = [s \in Slots |-> Free] /\ logMu' = Free
    /\ UNCHANGED << stalled, enabled, clock, faults >>

ReleaseLock == phase = "closed" /\ Gone

(* The process dies at any moment, and the kernel drops its lock.          *)
Crash == phase \notin {"down", "closed"} /\ Gone

----------------------------------------------------------------------------
(* The world: nooma consolidate by hand, the log's reader, the switch in   *)
(* the settings, and time.                                                 *)

CliTake ==
    /\ Acquire("cli")
    /\ UNCHANGED << phase, listener, job, wait, slot, logMu, stalled, enabled, clock, faults >>

CliDone ==
    /\ lock = "cli"
    /\ lock' = "none" /\ age' \in {age, 0}
    /\ UNCHANGED << phase, listener, job, wait, slot, logMu, stalled, enabled, hour, faults >>

Switch ==
    /\ \/ stalled' = ~stalled /\ UNCHANGED enabled
       \/ enabled' = ~enabled /\ UNCHANGED stalled
    /\ UNCHANGED << phase, listener, lock, job, wait, slot, logMu, clock, faults >>

Tick ==
    /\ hour' = (hour + 1) % DayLen
    /\ age' = IF age < NeverRun THEN age + 1 ELSE age
    /\ wait' = [j \in Jobs |-> IF wait[j] > 0 THEN wait[j] - 1 ELSE 0]
    /\ UNCHANGED << phase, listener, lock, job, slot, logMu, stalled, enabled, faults >>

Main ==
    \/ ListenerFailed \/ Notice \/ JoinPoller \/ Warn \/ Join \/ Reap
    \/ CloseDb \/ ReleaseLock

Listener == Announce \/ ListenerFails \/ ServeReturns

Next ==
    \/ \E j \in Jobs : JobStep(j)
    \/ Listener
    \/ Boot \/ Signal \/ Main \/ Crash
    \/ CliTake \/ CliDone \/ Switch \/ Tick

Spec == Init /\ [][Next]_vars

(* Goroutines run on, a pass ends (its provider calls have deadlines), the *)
(* mutex starves nobody, the grace ends, a closed server stops serving and *)
(* time passes.  Nothing makes anybody read a stalled stream again.        *)
FairSpec ==
    /\ Spec
    /\ \A j \in Jobs : WF_vars(JobStep(j)) /\ SF_vars(LockLog(j))
    /\ WF_vars(Main) /\ WF_vars(Announce \/ ServeReturns) /\ WF_vars(Tick)

----------------------------------------------------------------------------
(* Types: timers never run backwards, and ages stop at the cap.            *)
TypeOK ==
    /\ phase \in {"down", "up", "notice", "draining", "warning", "joining", "reaping", "closing",
                  "closed"}
    /\ listener \in {"off", "announce", "serving", "done"}
    /\ lock \in {"none", "serve", "cli"}
    /\ job \in [Jobs -> {"off", "check", "wait", "load", "take", "run", "say", "write"}]
    /\ wait \in [Jobs -> Nat]
    /\ slot \in [Slots -> {Free} \cup Jobs]
    /\ logMu \in {Free} \cup Jobs
    /\ stalled \in BOOLEAN /\ enabled \in BOOLEAN
    /\ hour \in 0 .. DayLen - 1 /\ age \in 0 .. NeverRun /\ faults \in 0 .. MaxFaults

(* One consolidation writes the vault at a time: the cron's, the           *)
(* catch-up's or the one run by hand, through signals, a join that gave up *)
(* on a running pass, a listener that failed and crashes.                  *)
Writers ==
    {j \in Consolidators : job[j] = "run" /\ phase # "closed"}
    \cup (IF lock = "cli" THEN {"cli"} ELSE {})
OnePass == \A w, x \in Writers : w = x

(* JD-6-01: a fire is skipped only for a pass that is running, never for   *)
(* one that has ended and is stuck in its log line.                        *)
SkippedForARunningPass ==
    [][\A j \in Jobs : job[j] = "take" /\ job'[j] = "say" =>
            \E k \in Jobs \ {j} : SlotOf(k) = SlotOf(j) /\ job[k] = "run"]_vars

(* While serve is up, consolidation on and the log read, whole passes      *)
(* complete again and again, and so do proactive checks.                   *)
Serving == phase = "up" /\ ~stalled
KeepsRunning ==
    /\ <>[](Serving /\ enabled) => []<>(age = 0)
    /\ <>[]Serving => []<>(job["proactive"] = "run")

(* A shutdown ends whatever a goroutine of the scheduler is stuck in, its  *)
(* log line included.  One that does not is found, again and again, in one *)
(* of three writes nobody reads: serve's line about shutting down, its     *)
(* line about a poller it gave up, or the listener's announcement, whose   *)
(* end serve waits for with no deadline.                                   *)
Stuck ==
    /\ stalled
    /\ phase \in {"notice", "warning"} \/ (phase = "reaping" /\ listener = "announce")
ShuttingDown == phase \notin {"down", "up"}
ShutdownEnds == ShuttingDown ~> (phase = "down" \/ Stuck)
============================================================================
