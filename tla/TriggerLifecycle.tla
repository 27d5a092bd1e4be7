-------------------------- MODULE TriggerLifecycle --------------------------
(***************************************************************************)
(* What ports.TriggerRepo promises of a row of the triggers table: the     *)
(* guarded updates of internal/store/sqlite/triggerrepo.go, each one       *)
(* statement whose WHERE clause is its precondition.  A trigger is armed   *)
(* once, leaves armed once, is surfaced only while fired, and lapses only  *)
(* while fired and never surfaced; fired_at is written by the firing alone *)
(* and kept for ever.                                                      *)
(***************************************************************************)
CONSTANTS Ids, Moments, NoTime

VARIABLES status, surfaced, firedAt

rowVars == << status, surfaced, firedAt >>

LInit ==
    /\ status \in [Ids -> {"none", "armed"}]
    /\ surfaced = [i \in Ids |-> FALSE]
    /\ firedAt = [i \in Ids |-> NoTime]

Arm(i) ==
    /\ status[i] = "none"
    /\ status' = [status EXCEPT ![i] = "armed"]
    /\ UNCHANGED << surfaced, firedAt >>

Fire(i, at) ==
    /\ status[i] = "armed"
    /\ status' = [status EXCEPT ![i] = "fired"]
    /\ firedAt' = [firedAt EXCEPT ![i] = at]
    /\ UNCHANGED surfaced

Expire(i) ==
    /\ status[i] = "armed"
    /\ status' = [status EXCEPT ![i] = "expired"]
    /\ UNCHANGED << surfaced, firedAt >>

(* Fire or Expire, and Create of the successor, in one transaction.        *)
RearmFired(i, at, j) ==
    /\ status[i] = "armed" /\ status[j] = "none"
    /\ status' = [status EXCEPT ![i] = "fired", ![j] = "armed"]
    /\ firedAt' = [firedAt EXCEPT ![i] = at]
    /\ UNCHANGED surfaced

RearmExpired(i, j) ==
    /\ status[i] = "armed" /\ status[j] = "none"
    /\ status' = [status EXCEPT ![i] = "expired", ![j] = "armed"]
    /\ UNCHANGED << surfaced, firedAt >>

Surface(i) ==
    /\ status[i] = "fired" /\ ~surfaced[i]
    /\ surfaced' = [surfaced EXCEPT ![i] = TRUE]
    /\ UNCHANGED << status, firedAt >>

LapseUnsurfaced(i) ==
    /\ status[i] = "fired" /\ ~surfaced[i]
    /\ status' = [status EXCEPT ![i] = "expired"]
    /\ UNCHANGED << surfaced, firedAt >>

LNext ==
    \E i \in Ids :
        \/ Arm(i) \/ Expire(i) \/ Surface(i) \/ LapseUnsurfaced(i)
        \/ \E at \in Moments : Fire(i, at)
        \/ \E j \in Ids : RearmExpired(i, j)
        \/ \E at \in Moments, j \in Ids : RearmFired(i, at, j)

LSpec == LInit /\ [][LNext]_rowVars
============================================================================
