------------------------------- MODULE Timers -------------------------------
(***************************************************************************)
(* The timers: the rows (src/internal/store/sqlite/timerrepo.go), the      *)
(* proactive pass that rings them (src/internal/brain/check.go), the page  *)
(* that cancels one (timers.go) and the two statements the chat makes of   *)
(* them (arm.go, timers_chat.go).                                          *)
(***************************************************************************)
EXTENDS Integers, FiniteSets

CONSTANTS TimerIds,   \* ids timers may get
          Armed,      \* timers that may be set before the story begins
          Speaking,   \* whether there may be a channel and one chat to speak to: Booleans
          MaxSlips,   \* failed calls of the pass
          MaxStops    \* restarts

ASSUME TimersAssumption ==
    /\ TimerIds \subseteq Nat \ {0} /\ IsFiniteSet(TimerIds)
    /\ Armed \subseteq TimerIds /\ Speaking \subseteq BOOLEAN
    /\ MaxSlips \in Nat /\ MaxStops \in Nat

VARIABLES timer,    \* the status column, "none" before the row exists
          ripe,     \* the clock against fire_at
          speaks,   \* the pass has a channel and the one chat it may speak to
          told,     \* ghost: sends of each timer
          missed,   \* ghost: timers whose failed send a row records
          pass,     \* the pass over the timers
          slips, stops

timerVars == <<timer, ripe, speaks, told, missed, pass, slips, stops>>

Idle == [at |-> "idle", fire |-> {}, drop |-> {}, t |-> 0]

TimersInit ==
    /\ \E set \in SUBSET Armed :
        timer = [t \in TimerIds |-> IF t \in set THEN "pending" ELSE "none"]
    /\ ripe = [t \in TimerIds |-> "ahead"] /\ speaks \in Speaking
    /\ told = [t \in TimerIds |-> 0] /\ missed = {}
    /\ pass = Idle
    /\ slips = 0 /\ stops = 0

FreeTimers == {t \in TimerIds : timer[t] = "none"}
PendingTimers == {t \in TimerIds : timer[t] = "pending"}
DueTimers(when) == {t \in PendingTimers : ripe[t] = when}

Slip == slips < MaxSlips /\ slips' = slips + 1

---------------------------------------------------------------------------
(* The store's statements.  Cancel and Fire change a row that is pending.  *)

BugCancelRow(t) == timer' = [timer EXCEPT ![t] = "cancelled"]
CancelRow(t) ==
    timer' = IF timer[t] = "pending" THEN [timer EXCEPT ![t] = "cancelled"]
             ELSE timer

BugFireRow(t) == timer' = [timer EXCEPT ![t] = "fired"]
FireRow(t) ==
    timer' = IF timer[t] = "pending" THEN [timer EXCEPT ![t] = "fired"]
             ELSE timer

CreateRow(t) == timer' = [timer EXCEPT ![t] = "pending"]

(* The chat sets a timer. *)
ChatSets(t) ==
    /\ t \in FreeTimers /\ CreateRow(t)
    /\ UNCHANGED <<ripe, speaks, told, missed, pass, slips, stops>>

(* The chat cancels a timer its prompt listed, or TimersService.Cancel one *)
(* the page did; it may have left in between.                              *)
SomeoneCancels(t) ==
    /\ timer[t] # "none" /\ CancelRow(t)
    /\ UNCHANGED <<ripe, speaks, told, missed, pass, slips, stops>>

(* fire_at comes, and then lies longer ago than the staleness window. *)
Ripen ==
    /\ \E t \in PendingTimers :
        /\ ripe[t] # "stale"
        /\ ripe' = [ripe EXCEPT ![t] = IF @ = "ahead" THEN "due" ELSE "stale"]
    /\ UNCHANGED <<timer, speaks, told, missed, pass, slips, stops>>

---------------------------------------------------------------------------
(* The pass.                                                               *)

BeginTimers ==
    /\ pass.at = "idle"
    /\ DueTimers("due") \union DueTimers("stale") # {}
    /\ pass' = [Idle EXCEPT !.at = "next", !.fire = DueTimers("due"),
                            !.drop = DueTimers("stale")]
    /\ UNCHANGED <<timer, ripe, speaks, told, missed, slips, stops>>

EndTimers ==
    /\ pass.at = "next" /\ pass.fire \union pass.drop = {}
    /\ pass' = Idle
    /\ UNCHANGED <<timer, ripe, speaks, told, missed, slips, stops>>

(* A timer read as due is fired, and said when this pass fired it; one     *)
(* read as stale is cancelled; a failing store ends the pass.              *)
AfterFire(t, rest) ==
    IF timer[t] = "pending" THEN [rest EXCEPT !.at = "say", !.t = t] ELSE rest

JudgeTimer ==
    /\ pass.at = "next"
    /\ \E t \in pass.fire \union pass.drop :
        LET rest == [pass EXCEPT !.fire = @ \ {t}, !.drop = @ \ {t}] IN
        \/ /\ t \in pass.fire
           /\ FireRow(t)
           /\ pass' = AfterFire(t, rest)
           /\ UNCHANGED slips
        \/ /\ t \in pass.drop
           /\ CancelRow(t)
           /\ \/ pass' = rest /\ UNCHANGED slips
              \/ pass' = Idle /\ Slip
        \/ /\ Slip /\ pass' = Idle /\ UNCHANGED timer
    /\ UNCHANGED <<ripe, speaks, told, missed, stops>>

(* The row of the firing is written, and only then it is sent: a failed    *)
(* send is recorded and not repeated.  With no channel, or no chat that is *)
(* the one to speak to, it is not sent and nothing records that.           *)
SayTimer ==
    /\ pass.at = "say"
    /\ \/ /\ told' = IF speaks THEN [told EXCEPT ![pass.t] = @ + 1] ELSE told
          /\ pass' = [pass EXCEPT !.at = "next", !.t = 0]
          /\ UNCHANGED <<missed, slips>>
       \/ /\ Slip
          /\ \/ /\ speaks /\ missed' = missed \union {pass.t}
                /\ pass' = [pass EXCEPT !.at = "next", !.t = 0]
             \/ pass' = Idle /\ UNCHANGED missed
          /\ UNCHANGED told
    /\ UNCHANGED <<timer, ripe, speaks, stops>>

TimersRestart ==
    /\ stops < MaxStops /\ stops' = stops + 1
    /\ pass' = Idle
    /\ UNCHANGED <<timer, ripe, speaks, told, missed, slips>>

PassStep == BeginTimers \/ EndTimers \/ JudgeTimer \/ SayTimer

TimersNext ==
    \/ \E t \in TimerIds : ChatSets(t) \/ SomeoneCancels(t)
    \/ Ripen \/ PassStep \/ TimersRestart

TimersSpec == TimersInit /\ [][TimersNext]_timerVars /\ WF_timerVars(PassStep)

---------------------------------------------------------------------------

TimersTypeOK ==
    /\ timer \in [TimerIds -> {"none", "pending", "fired", "cancelled"}]
    /\ ripe \in [TimerIds -> {"ahead", "due", "stale"}] /\ speaks \in BOOLEAN
    /\ told \in [TimerIds -> Nat] /\ missed \subseteq TimerIds
    /\ pass \in [at : {"idle", "next", "say"}, fire : SUBSET TimerIds,
                 drop : SUBSET TimerIds, t : {0} \union TimerIds]
    /\ slips \in 0 .. MaxSlips /\ stops \in 0 .. MaxStops

(* A timer rings at most once, and never after the chat, the page or the   *)
(* pass cancelled it, whoever came first.                                  *)
RingsOnce ==
    \A t \in TimerIds : told[t] <= 1 /\ (timer[t] # "fired" => told[t] = 0)

(* Where the pass may speak, a timer that fired and never rang is one the  *)
(* row of a failed send tells of, but for one per row that failed too and  *)
(* one per crash: check.go fires before it sends.  Nothing is claimed of a *)
(* vault with no channel or more than one chat: there no timer rings and   *)
(* none is recorded as missed.                                             *)
Unheard == {t \in TimerIds : timer[t] = "fired" /\ told[t] = 0 /\ pass.t # t}
UnheardIsRecorded == speaks => Cardinality(Unheard \ missed) <= slips + stops

===========================================================================
