--------------------------- MODULE ReminderCases ---------------------------
(***************************************************************************)
(* One event told at one instant, and the clock running on from there: the *)
(* world in which the pure planning and judging operators are checked      *)
(* against each other.  Nothing is stored; every property recomputes what  *)
(* a capture, a saved preference or a due scan at this instant would       *)
(* decide.  Its names are its own, so that one module of proofs may speak  *)
(* of it and of ReminderPass.                                              *)
(***************************************************************************)
EXTENDS ReminderPlan

CONSTANTS
    Tolds,    \* the instants at which the event may be told
    Events,   \* the instants the event may have
    Until     \* how far the clock runs

ASSUME CasesAssumption == Tolds \subseteq Int /\ Events \subseteq Int /\ Until \in Int

VARIABLES toldAt, eventAt, isAsked, clock

caseVars == << toldAt, eventAt, isAsked, clock >>

CasesInit ==
    /\ toldAt \in Tolds
    /\ eventAt \in Events
    /\ isAsked \in BOOLEAN
    /\ clock = toldAt

CasesTick == clock < Until /\ clock' = clock + 1 /\ UNCHANGED << toldAt, eventAt, isAsked >>

CasesNext == CasesTick

CasesSpec == CasesInit /\ [][CasesNext]_caseVars

----------------------------------------------------------------------------
DayOnly == isAsked /\ IsDateOnly(eventAt)
End == EndOf(eventAt, IsDateOnly(eventAt))

(* What a capture at t of the event arms, told at that same instant.       *)
CapturedAt(t) ==
    IF isAsked THEN AskedReminders(eventAt, TRUE, DayOnly, t, t, {})
    ELSE EventReminders(eventAt, t, t, {})

(* What following the event at t decides, over the rows live.              *)
Followed(live, sent, t) ==
    IF isAsked THEN FollowAsked(eventAt, TRUE, DayOnly, live, sent, toldAt, t)
    ELSE FollowSent(eventAt, live, sent, toldAt, t)

Owed(sent, t) ==
    IF isAsked THEN CatchUpAsked(eventAt, TRUE, DayOnly, << >>, sent, t)
    ELSE CatchUp(eventAt, << >>, sent, t)

(* The gate's view of the row a plan becomes.                              *)
RowOf(p) ==
    [fireAt |-> p.fireAt, about |-> p.about, lead |-> p.lead, rule |-> FALSE,
     occurs |-> NoTime, current |-> eventAt, waiting |-> FALSE, newer |-> FALSE,
     asked |-> p.asked, dayOnly |-> p.dayOnly, nightExempt |-> p.nightExempt]

VerdictOf(p, t) == ReminderVerdict(QuietEnd, RowOf(p), t)

----------------------------------------------------------------------------
(* I34: no reminder is armed inside quiet hours, except one the user asked *)
(* for at a named instant; a catch-up never is.                            *)
PlansKeepTheNight ==
    /\ \A p \in CapturedAt(clock).plans : InNight(QuietEnd, p.fireAt) => p.nightExempt /\ p.asked
    /\ \A p \in Owed({}, clock).plans : ~InNight(QuietEnd, p.fireAt)

(* A plan and the gate agree: what a capture or a catch-up arms rings no   *)
(* earlier than now, before its event is over, and the scan that finds it  *)
(* at that instant delivers it rather than defers, expires or re-plans it. *)
PlannedRingIsDelivered ==
    \A p \in CapturedAt(clock).plans \cup Owed({}, clock).plans :
        /\ clock <= p.fireAt /\ p.fireAt < End
        /\ VerdictOf(p, p.fireAt) = Keep("deliver")

(* ADR-0032: once every reminder a capture armed has gone stale unsent and *)
(* the event is still ahead (what the user asked for, by the margin an     *)
(* at-once reminder needs), the scan that can speak owes it a catch-up or  *)
(* re-plans a lead; it is silent only for the night.                       *)
NeverSilentlyLost ==
    LET captured == CapturedAt(toldAt)
        again    == Followed(<< >>, {}, clock)
    IN  /\ Arms(captured) /\ (isAsked => End - clock >= AtOnceMargin)
        /\ \A p \in captured.plans : VerdictOf(p, clock) = Lapse("overdue")
        => \/ again.plans # << >>
           \/ Owed({}, clock).why # "not owed"
           \/ again.why = "quiet hours"
============================================================================
