---------------------------- MODULE ServeProofs ----------------------------
(***************************************************************************)
(* Serve, for every length of the day, delay and number of failures.       *)
(*                                                                         *)
(* OnePass is not inductive: it needs to know that serve holds the vault   *)
(* lock for as long as it is not down (Locked), and that a job is inside   *)
(* its pass exactly while it holds its slot (Held), which is its own slot  *)
(* (Owned).  The two consolidators share a slot and so exclude each other; *)
(* the hand-run one is excluded by the lock.                               *)
(***************************************************************************)
EXTENDS Serve, TLAPS

Locked == lock = "serve" <=> phase # "down"
Held == \A j \in Jobs : job[j] = "run" <=> slot[SlotOf(j)] = j
Unwound == phase = "down" => \A j \in Jobs : job[j] = "off"

Owned == \A s \in Slots : slot[s] # Free => SlotOf(slot[s]) = s

Inv == TypeOK /\ Locked /\ Held /\ Unwound /\ Owned

(* The delays and bounds are numbers.                                      *)
LEMMA Bounds ==
    /\ CatchUpStaleness \in Nat /\ BootDelay \in Nat /\ CheckInterval \in Nat /\ MaxFaults \in Nat
    /\ NeverRun \in Nat
BY ServeAssumption DEF NeverRun

(* Init: nothing runs and nobody holds anything.                           *)
LEMMA Start == Init => Inv
<1> SUFFICES ASSUME Init PROVE Inv
    OBVIOUS
<1>1. TypeOK
      <2>1. hour \in 0 .. DayLen - 1 /\ faults \in 0 .. MaxFaults
            BY Bounds, ServeAssumption DEF Init
      <2>2. QED BY <2>1 DEF Init, TypeOK
<1>2. Locked /\ Held /\ Unwound /\ Owned
      BY DEF Init, Locked, Held, Unwound, Owned, Jobs, Consolidators, Slots, SlotOf, Free
<1>3. QED BY <1>1, <1>2 DEF Inv

(* The next daily run is ahead.                                            *)
LEMMA NextIsAhead == TypeOK => TillNext \in Nat
BY ServeAssumption DEF TypeOK, TillNext

(* A pass that returns leaves its job waiting or off, never inside a pass. *)
LEMMA Returned ==
    ASSUME TypeOK, NEW j \in Jobs, Return(j)
    PROVE  /\ job' = [job EXCEPT ![j] = "wait"] \/ job' = [job EXCEPT ![j] = "off"]
           /\ wait' \in [Jobs -> Nat]
BY NextIsAhead, ServeAssumption DEF Return, Become, TypeOK

(* A step of a goroutine.                                                  *)
LEMMA Goroutine ==
    ASSUME Inv, NEW j \in Jobs, JobStep(j)
    PROVE  Inv'
<1> USE ServeAssumption DEF Inv, Locked, Unwound
<1>1. CASE Fire(j)
      BY <1>1 DEF Fire, Become, TypeOK, Held, Owned, clock
<1>2. CASE Quit(j)
      BY <1>2 DEF Quit, Become, TypeOK, Held, Owned, clock
<1>3. CASE TakeSlot(j)
      BY <1>3 DEF TakeSlot, Become, TypeOK, Held, Owned, clock, SlotOf, Slots, Jobs, Consolidators, Free
<1>4. CASE Finish(j)
      <2>1. /\ slot' = [slot EXCEPT ![SlotOf(j)] = Free]
            /\ \/ job' = [job EXCEPT ![j] = "wait"]
               \/ job' = [job EXCEPT ![j] = "off"]
               \/ job' = [job EXCEPT ![j] = "say"]
            /\ wait' \in [Jobs -> Nat]
            BY <1>4, Returned DEF Finish, GiveBack, Become, TypeOK
      <2>2. age' \in 0 .. NeverRun /\ faults' \in 0 .. MaxFaults
            <3>1. /\ age' \in {0, age}
                  /\ faults' \in {faults, faults + 1} /\ (faults' = faults \/ faults < MaxFaults)
                  BY <1>4 DEF Finish, Fail
            <3>2. QED BY <3>1, Bounds DEF TypeOK
      <2>3. TypeOK'
            BY <1>4, <2>1, <2>2 DEF Finish, TypeOK
      <2>4. Held'
            BY <1>4, <2>1 DEF Finish, TypeOK, Held, SlotOf, Slots, Jobs, Consolidators, Free
      <2>5. Owned'
            BY <1>4, <2>1 DEF Finish, TypeOK, Owned, SlotOf, Slots, Jobs, Consolidators, Free
      <2>6. QED BY <1>4, <2>1, <2>3, <2>4, <2>5 DEF Finish, TypeOK
<1>5. CASE LockLog(j)
      BY <1>5 DEF LockLog, Become, TypeOK, Held, Owned, clock
<1>6. CASE WriteLog(j)
      BY <1>6, Returned DEF WriteLog, TypeOK, Held, Owned, clock
<1>7. CASE LoadConfig(j)
      BY <1>7, Returned DEF LoadConfig, Become, Fail, TypeOK, Held, Owned, clock
<1>8. CASE j = "catchup" /\ CatchUpCheck
      BY <1>8 DEF CatchUpCheck, Become, Fail, TypeOK, Held, Owned, clock
<1>9. QED BY <1>1, <1>2, <1>3, <1>4, <1>5, <1>6, <1>7, <1>8 DEF JobStep

(* A step of serve's main goroutine, of another process or of the world.   *)
LEMMA Outside ==
    ASSUME Inv, Listener \/ Boot \/ Signal \/ Main \/ Crash \/ CliTake \/ CliDone \/ Switch \/ Tick
    PROVE  Inv'
<1> USE ServeAssumption DEF Inv, Locked, Unwound
<1>1. CASE Boot
      BY <1>1, NextIsAhead DEF Boot, Acquire, TypeOK, Held, Owned, clock, SlotOf, Slots, Jobs, Consolidators, Free
<1>2. CASE Signal \/ ListenerFailed \/ Notice \/ JoinPoller \/ Warn \/ Join \/ Reap \/ CloseDb
      <2>1. \E from, to \in {"up", "notice", "draining", "warning", "joining", "reaping", "closing",
                             "closed"} : Advance(from, to)
            BY <1>2 DEF Signal, ListenerFailed, Notice, JoinPoller, Warn, Join, Reap, CloseDb
      <2>2. QED BY <2>1 DEF Advance, TypeOK, Held, Owned, clock
<1>3. CASE ReleaseLock \/ Crash
      BY <1>3 DEF ReleaseLock, Crash, Gone, TypeOK, Held, Owned, clock, SlotOf, Slots, Jobs, Consolidators,
                  Free
<1>4. CASE CliTake \/ CliDone
      BY <1>4 DEF CliTake, Acquire, CliDone, TypeOK, Held, Owned, clock, NeverRun
<1>5. CASE Switch
      BY <1>5 DEF Switch, TypeOK, Held, Owned, clock
<1>6. CASE Tick
      <2>1. wait' \in [Jobs -> Nat] /\ hour' \in 0 .. DayLen - 1 /\ age' \in 0 .. NeverRun
            BY <1>6 DEF Tick, TypeOK, NeverRun
      <2>2. QED BY <1>6, <2>1 DEF Tick, TypeOK, Held, Owned
<1>7. CASE Listener
      <2>1. \E from \in {"announce", "serving"}, to \in {"serving", "done"} : Move(from, to)
            BY <1>7 DEF Listener, Announce, ListenerFails, ServeReturns
      <2>2. QED BY <2>1 DEF Move, TypeOK, Held, Owned, clock
<1>8. QED BY <1>1, <1>2, <1>3, <1>4, <1>5, <1>6, <1>7 DEF Main

(* Every step of Serve keeps the invariant.                                *)
LEMMA Kept == Inv /\ [Next]_vars => Inv'
<1>1. ASSUME Inv, UNCHANGED vars PROVE Inv'
      BY <1>1 DEF vars, clock, Inv, TypeOK, Locked, Held, Unwound, Owned
<1>2. QED BY <1>1, Goroutine, Outside DEF Next

(* So it holds in every reachable state.                                   *)
LEMMA Always == Spec => []Inv
BY Start, Kept, PTL DEF Spec

(* The types of Serve: timers and ages stay in range, however long serve   *)
(* runs and however often it restarts.                                     *)
THEOREM ServeTypes == Spec => []TypeOK
<1>1. Inv => TypeOK
      BY DEF Inv
<1>2. QED BY <1>1, Always, PTL

(* One consolidation writes the vault at a time, through every signal,     *)
(* abandoned join and crash: the slot keeps the cron and the catch-up      *)
(* apart, the lock keeps the hand-run pass away until the database closed. *)
THEOREM OneConsolidation == Spec => []OnePass
<1>1. Inv => OnePass
      BY DEF Inv, Locked, Held, Unwound, OnePass, Writers, Jobs, Consolidators, SlotOf
<1>2. QED BY <1>1, Always, PTL

(* A fire is skipped only for a running pass: a held slot belongs to a job *)
(* inside its pass, and a job that has gone on to its log line holds none. *)
THEOREM SkipsAreHonest == Spec => SkippedForARunningPass
<1>1. ASSUME Inv, [Next]_vars, NEW j \in Jobs, job[j] = "take", job'[j] = "say"
      PROVE  \E k \in Jobs \ {j} : SlotOf(k) = SlotOf(j) /\ job[k] = "run"
      <2>1. TakeSlot(j)
            <3>1. CASE UNCHANGED vars
                  BY <1>1, <3>1 DEF vars
            <3>2. ASSUME NEW k \in Jobs, JobStep(k) PROVE TakeSlot(j)
                  <4>1. TakeSlot(k) \/ \E s \in {"off", "check", "wait", "load", "take", "run", "say",
                                                "write"} :
                                job' = [job EXCEPT ![k] = s] /\ job[k] # "take"
                        BY <3>2, <1>1, Returned
                           DEF Inv, JobStep, Fire, Quit, Finish, LockLog, WriteLog, LoadConfig,
                               CatchUpCheck, Become
                  <4>2. k = j
                        BY <4>1, <1>1 DEF TakeSlot, Become, Inv, TypeOK
                  <4>3. QED BY <4>1, <4>2, <1>1
            <3>3. CASE Listener \/ Boot \/ Signal \/ Main \/ Crash \/ CliTake \/ CliDone \/ Switch \/ Tick
                  BY <1>1, <3>3 DEF Boot, Acquire, Signal, Main, ListenerFailed, Notice, JoinPoller,
                                    Warn, Join, Reap, CloseDb, Advance, ReleaseLock, Crash, Gone,
                                    Listener, Announce, ListenerFails, ServeReturns, Move,
                                    CliTake, CliDone, Switch, Tick
            <3>4. QED BY <1>1, <3>1, <3>2, <3>3 DEF Next
      <2>2. slot[SlotOf(j)] \in Jobs
            BY <2>1, <1>1 DEF TakeSlot, Become, Inv, TypeOK, SlotOf, Slots
      <2>3. SlotOf(slot[SlotOf(j)]) = SlotOf(j)
            BY <2>2, <1>1 DEF Inv, Owned, SlotOf, Slots, Jobs, Consolidators, Free
      <2>4. job[slot[SlotOf(j)]] = "run"
            BY <2>2, <2>3, <1>1 DEF Inv, Held
      <2>5. QED BY <2>2, <2>3, <2>4, <1>1
<1>2. Inv /\ [Next]_vars =>
        [\A j \in Jobs : job[j] = "take" /\ job'[j] = "say" =>
            \E k \in Jobs \ {j} : SlotOf(k) = SlotOf(j) /\ job[k] = "run"]_vars
      <2> SUFFICES ASSUME Inv, [Next]_vars
                   PROVE  \A j \in Jobs : job[j] = "take" /\ job'[j] = "say" =>
                            \E k \in Jobs \ {j} : SlotOf(k) = SlotOf(j) /\ job[k] = "run"
          OBVIOUS
      <2> TAKE j \in Jobs
      <2> HAVE job[j] = "take" /\ job'[j] = "say"
      <2> QED BY <1>1
<1>3. QED BY <1>2, Always, PTL DEF SkippedForARunningPass, Spec
============================================================================
