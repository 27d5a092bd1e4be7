--------------------------- MODULE ReminderProofs -----------------------------
(***************************************************************************)
(* The reminders, for every value of the constants.  Of ReminderPass: the  *)
(* table is only ever written as TriggerRepo promises (a refinement of     *)
(* TriggerLifecycle), what is recorded as delivered was sent, a process    *)
(* sends once what it knows was carried, a series keeps one armed row, and *)
(* no catch-up takes another's id.  Of ReminderPlan, through               *)
(* ReminderCases: where a plan rings, and that what it arms is not lost    *)
(* silently.  The first three do not look into the planning operators:     *)
(* whatever a plan asks for, the guards of the writes are what the         *)
(* argument rests on.                                                      *)
(***************************************************************************)
EXTENDS ReminderPass, ReminderCases, FiniteSetTheorems, TLAPS

(* The columns the results about the table need.                           *)
Columns ==
    /\ now \in Start .. Horizon
    /\ status \in [Ids -> {"none", "armed", "fired", "expired"}]
    /\ surfaced \in [Ids -> BOOLEAN]
    /\ firedAt \in [Ids -> Times]

RowStep == Lifecycle!LNext \/ UNCHANGED << status, surfaced, firedAt >>

LEMMA FreshIsUnused == Unused # {} => FreshId \in Ids /\ status[FreshId] = "none"
  BY DEF Unused, FreshId

(* Fire, Expire and Rearm.                                                 *)
LEMMA LeaveArmedStep ==
    ASSUME Columns, NEW r, NEW to \in {"fired", "expired"}, status[r.id] = "armed",
           LeaveArmed(r, to)
    PROVE  RowStep /\ status' \in [Ids -> {"none", "armed", "fired", "expired"}]
                   /\ firedAt' \in [Ids -> Times] /\ surfaced' = surfaced
<1>1. /\ status' \in [Ids -> {"none", "armed", "fired", "expired"}]
      /\ firedAt' \in [Ids -> Times] /\ surfaced' = surfaced
  <2>1. status' \in [Ids -> {"none", "armed", "fired", "expired"}]
    BY DEF LeaveArmed, Columns
  <2>2. now \in Times
    BY PassAssumption DEF Columns, Times
  <2>3. firedAt' \in [Ids -> Times] /\ surfaced' = surfaced
    BY <2>2 DEF LeaveArmed, Columns
  <2> QED BY <2>1, <2>3
<1>2. RowStep
  <2>1. CASE r.id \notin Ids /\ r.body.rule
    BY <2>1, FreshIsUnused
    DEF LeaveArmed, Columns, RowStep, Lifecycle!LNext, Lifecycle!Arm
  <2>2. CASE r.id \notin Ids /\ ~r.body.rule
    BY <2>2 DEF LeaveArmed, Columns, RowStep
  <2>3. CASE r.id \in Ids /\ r.body.rule
    <3>1. CASE to = "fired"
      <4>1. Lifecycle!RearmFired(r.id, now, FreshId)
        BY <2>3, <3>1, FreshIsUnused DEF LeaveArmed, Lifecycle!RearmFired
      <4> QED BY <4>1, <2>3, FreshIsUnused DEF LeaveArmed, Columns, RowStep, Lifecycle!LNext
    <3>2. CASE to = "expired"
      <4>1. Lifecycle!RearmExpired(r.id, FreshId)
        BY <2>3, <3>2, FreshIsUnused DEF LeaveArmed, Lifecycle!RearmExpired
      <4> QED BY <4>1, <2>3, FreshIsUnused DEF LeaveArmed, RowStep, Lifecycle!LNext
    <3> QED BY <3>1, <3>2
  <2>4. CASE r.id \in Ids /\ ~r.body.rule
    <3>1. CASE to = "fired"
      BY <2>4, <3>1 DEF LeaveArmed, Columns, RowStep, Lifecycle!LNext, Lifecycle!Fire
    <3>2. CASE to = "expired"
      BY <2>4, <3>2 DEF LeaveArmed, RowStep, Lifecycle!LNext, Lifecycle!Expire
    <3> QED BY <3>1, <3>2
  <2> QED BY <2>1, <2>2, <2>3, <2>4
<1> QED BY <1>1, <1>2

(* Expire without a successor, and Lapse.                                  *)
LEMMA ExpireRowStep ==
    ASSUME Columns, NEW i, status[i] = "armed" \/ Unsurfaced(i), ExpireRow(i)
    PROVE  RowStep /\ status' \in [Ids -> {"none", "armed", "fired", "expired"}]
                   /\ firedAt' = firedAt /\ surfaced' = surfaced
<1>1. CASE i \notin Ids
  BY <1>1 DEF ExpireRow, Columns, RowStep
<1>2. CASE i \in Ids
  BY <1>2 DEF ExpireRow, Unsurfaced, Columns, RowStep, Lifecycle!LNext, Lifecycle!Expire,
              Lifecycle!LapseUnsurfaced
<1> QED BY <1>1, <1>2

LEMMA CreateStep ==
    ASSUME Columns, NEW b, Create(b)
    PROVE  RowStep /\ status' \in [Ids -> {"none", "armed", "fired", "expired"}]
                   /\ firedAt' = firedAt /\ surfaced' = surfaced
  BY FreshIsUnused DEF Create, Columns, RowStep, Lifecycle!LNext, Lifecycle!Arm

(* A plan's write, when its row is still armed.                            *)
LEMMA ApplyStep ==
    ASSUME Columns, NEW op, NEW u, ~Conflicts(op), Apply(op, u)
    PROVE  RowStep /\ status' \in [Ids -> {"none", "armed", "fired", "expired"}]
                   /\ firedAt' = firedAt /\ surfaced' = surfaced
<1>1. CASE op.kind = "move" /\ Reschedule(op.id, BodyOf(u, op.plan, op.was.key))
  BY <1>1 DEF Reschedule, RowStep, Columns
<1>2. CASE op.kind = "expire" /\ ExpireRow(op.id)
  BY <1>2, ExpireRowStep DEF Conflicts
<1>3. CASE \E b : Create(b)
  BY <1>3, CreateStep
<1> QED BY <1>1, <1>2, <1>3 DEF Apply

(* The frame of a step that leaves the table alone.                        *)
LEMMA QuietStep ==
    ASSUME Columns, UNCHANGED dbVars, now' = now
    PROVE  RowStep /\ Columns'
  BY DEF dbVars, RowStep, Columns

(* Every step of the pass, the correction, the clock and the crash is a    *)
(* guarded write of one row (or of a series' pair), or leaves the table    *)
(* alone.                                                                  *)
LEMMA StepIsRowStep ==
    ASSUME Columns, [Next]_vars
    PROVE  RowStep /\ Columns'
<1>1. CASE WriteVerdict
  <2> DEFINE to == IF pc = "fire" THEN "fired" ELSE "expired"
  <2>1. PICK r \in due :
          now' = now /\ (UNCHANGED dbVars \/ (status[r.id] = "armed" /\ LeaveArmed(r, to)))
    BY <1>1 DEF WriteVerdict
  <2>2. to \in {"fired", "expired"}
    OBVIOUS
  <2> HIDE DEF to
  <2> QED BY <2>1, <2>2, QuietStep, LeaveArmedStep DEF Columns
<1>2. CASE ApplyPlan
  <2> DEFINE op == Head(ops)
  <2>1. PICK r \in group :
          now' = now /\ (UNCHANGED dbVars \/ (~Conflicts(op) /\ Apply(op, r.body.unit)))
    BY <1>2 DEF ApplyPlan
  <2> HIDE DEF op
  <2> QED BY <2>1, QuietStep, ApplyStep DEF Columns
<1>3. CASE Retire
  <2>1. PICK r \in group :
          /\ now' = now
          /\ \/ UNCHANGED dbVars
             \/ status[r.id] = "armed" /\ LeaveArmed(r, "expired")
             \/ Unsurfaced(r.id) /\ ExpireRow(r.id)
    BY <1>3 DEF Retire
  <2> QED BY <2>1, QuietStep, LeaveArmedStep, ExpireRowStep DEF Columns
<1>4. CASE CorrectReminder
  <2> DEFINE op == Head(cops)
  <2>1. now' = now /\ (UNCHANGED dbVars \/ (~Conflicts(op) /\ Apply(op, cunit)))
    BY <1>4 DEF CorrectReminder
  <2> HIDE DEF op
  <2> QED BY <2>1, QuietStep, ApplyStep DEF Columns
<1>5. CASE Mark
  <2>1. PICK i :
          /\ now' = now /\ status' = status /\ firedAt' = firedAt
          /\ \/ surfaced' = surfaced
             \/ Unsurfaced(i) /\ surfaced' = [surfaced EXCEPT ![i] = TRUE]
    BY <1>5 DEF Mark
  <2>2. Columns'
    BY <2>1 DEF Columns
  <2>3. RowStep
    <3>1. CASE i \notin Ids
      BY <2>1, <3>1 DEF Columns, RowStep
    <3>2. CASE i \in Ids
      BY <2>1, <3>2 DEF Unsurfaced, Columns, RowStep, Lifecycle!LNext, Lifecycle!Surface
    <3> QED BY <3>1, <3>2
  <2> QED BY <2>2, <2>3
<1>6. CASE Tick
  BY <1>6, PassAssumption DEF Tick, dbVars, Columns, RowStep
<1>7. CASE CorrectUnit
  BY <1>7 DEF CorrectUnit, Columns, RowStep
<1>8. CASE UNCHANGED vars
  BY <1>8, QuietStep DEF vars
<1>9. CASE BeginPass \/ JudgeDue \/ ScanDone \/ Sift \/ SiftDone \/ ReadUnit
  BY <1>9, QuietStep DEF BeginPass, JudgeDue, ScanDone, Sift, SiftDone, ReadUnit
<1>10. CASE DecidePlan
  BY <1>10, QuietStep DEF DecidePlan, Decided
<1>11. CASE ApplyDone \/ RetireDone \/ PlanDone \/ Flush \/ Send \/ MarkDone \/ SendDone \/ SweepDone
  BY <1>11, QuietStep
  DEF ApplyDone, RetireDone, PlanDone, Flush, Send, MarkDone, SendDone, SweepDone
<1>12. CASE FollowReminder \/ CorrectDone \/ Crash
  BY <1>12, QuietStep DEF FollowReminder, FollowedTo, CorrectDone, Crash
<1> QED BY <1>1, <1>2, <1>3, <1>4, <1>5, <1>6, <1>7, <1>8, <1>9, <1>10, <1>11, <1>12
        DEF Next, PassStep, CorrectionStep

LEMMA InitColumns == Init => Columns /\ Lifecycle!LInit
<1> SUFFICES ASSUME Init PROVE Columns /\ Lifecycle!LInit
  OBVIOUS
<1>1. now = Start /\ surfaced = [i \in Ids |-> FALSE] /\ firedAt = [i \in Ids |-> NoTime]
  BY DEF Init
<1>2. status \in [Ids -> {"none", "armed"}]
  BY DEF Init, Laid
<1> QED BY <1>1, <1>2, PassAssumption DEF Columns, Times, Lifecycle!LInit

(* The pass, the correction and every failure between them write the       *)
(* triggers table as TriggerRepo's guarded updates promise.                *)
THEOREM KeepsLifecycle == Spec => KeepsTheLifecycle
<1>1. Init => Columns /\ Lifecycle!LInit
  BY InitColumns
<1>2. Columns /\ [Next]_vars => Columns' /\ [Lifecycle!LNext]_(Lifecycle!rowVars)
  BY StepIsRowStep DEF RowStep, Lifecycle!rowVars
<1> QED BY <1>1, <1>2, PTL DEF Spec, KeepsTheLifecycle, Lifecycle!LSpec

----------------------------------------------------------------------------
(* Why a surfaced row was sent: while the rows of a message are being      *)
(* surfaced every one of them has been sent, and nothing unsends.          *)
SentInv ==
    /\ surfaced \in [Ids -> BOOLEAN]
    /\ sends \in [Ids -> Nat]
    /\ SurfacedWasSent
    /\ \A r \in message : r.id \in Ids => sends[r.id] > 0

LEMMA ToldCounts ==
    ASSUME NEW count \in [Ids -> Nat], NEW rows
    PROVE  /\ Told(count, rows) \in [Ids -> Nat]
           /\ \A i \in Ids : Told(count, rows)[i] >= count[i]
           /\ \A r \in rows : r.id \in Ids => Told(count, rows)[r.id] > 0
  BY DEF Told, IdsOf

LEMMA SentFrame ==
    ASSUME SentInv, UNCHANGED << surfaced, sends, message >>
    PROVE  SentInv'
  BY DEF SentInv, SurfacedWasSent

(* A re-plan's decision writes nothing, whatever it decided.                *)
LEMMA DecidePlanEnds ==
    ASSUME DecidePlan
    PROVE  /\ pc = "read" /\ UNCHANGED << dbVars, tellVars >>
           /\ Abort \/ (pc' = "apply" /\ UNCHANGED << scanVars, group, planEvent, sendVars >>)
<1>1. pc = "read" /\ UNCHANGED << dbVars, tellVars >>
  BY DEF DecidePlan
<1>2. Abort \/ \E u, live, f, owed : Decided(u, live, f, owed)
  BY Zenon DEF DecidePlan
<1>3. ASSUME NEW u, NEW live, NEW f, NEW owed, Decided(u, live, f, owed)
      PROVE  pc' = "apply" /\ UNCHANGED << scanVars, group, planEvent, sendVars >>
  BY <1>3 DEF Decided
<1> QED BY <1>1, <1>2, <1>3

LEMMA StepKeepsSent ==
    ASSUME SentInv, Columns, [Next]_vars
    PROVE  SentInv'
<1>1. CASE Send
  <2>1. PICK rows :
          /\ surfaced' = surfaced
          /\ \/ message' = rows /\ sends' = Told(sends, rows)
             \/ message' = message /\ sends' \in {sends, Told(sends, rows)}
    BY <1>1 DEF Send, Unsent, dbVars
  <2> QED BY <2>1, ToldCounts DEF SentInv, SurfacedWasSent
<1>2. CASE Mark
  <2>1. PICK r \in message :
          /\ sends' = sends /\ message' \subseteq message
          /\ surfaced' \in {surfaced, [surfaced EXCEPT ![r.id] = TRUE]}
    BY <1>2 DEF Mark
  <2>2. r.id \in Ids => sends[r.id] > 0
    BY DEF SentInv
  <2>3. surfaced' \in [Ids -> BOOLEAN] /\ SurfacedWasSent'
    BY <2>1, <2>2 DEF SentInv, SurfacedWasSent
  <2> QED BY <2>1, <2>3 DEF SentInv
<1>3. CASE WriteVerdict
  <2>1. UNCHANGED << surfaced, sends, message >>
    BY <1>3 DEF WriteVerdict, LeaveArmed, Abort, dbVars, sendVars, tellVars
  <2> QED BY <2>1, SentFrame
<1>4. CASE ApplyPlan
  <2>1. UNCHANGED << surfaced, sends, message >>
    BY <1>4 DEF ApplyPlan, Apply, Reschedule, ExpireRow, Create, Abort, dbVars, sendVars, tellVars
  <2> QED BY <2>1, SentFrame
<1>5. CASE Retire
  <2>1. UNCHANGED << surfaced, sends, message >>
    BY <1>5 DEF Retire, LeaveArmed, ExpireRow, Abort, dbVars, sendVars, tellVars
  <2> QED BY <2>1, SentFrame
<1>6. CASE CorrectReminder
  <2>1. UNCHANGED << surfaced, sends, message >>
    BY <1>6 DEF CorrectReminder, Apply, Reschedule, ExpireRow, Create, dbVars, sendVars, tellVars
  <2> QED BY <2>1, SentFrame
<1>7. CASE MarkDone \/ Crash
  <2>1. UNCHANGED << surfaced, sends >> /\ message' \subseteq message
    BY <1>7 DEF MarkDone, Crash, dbVars, sendVars, tellVars
  <2> QED BY <2>1 DEF SentInv, SurfacedWasSent
<1>8. CASE DecidePlan
  <2>1. UNCHANGED << surfaced, sends, message >>
    BY <1>8, DecidePlanEnds DEF Abort, dbVars, sendVars, tellVars
  <2> QED BY <2>1, SentFrame
<1>9. CASE ScanDone
  <2>1. UNCHANGED << surfaced, sends, message >>
    BY <1>9 DEF ScanDone, Abort, dbVars, sendVars, tellVars
  <2> QED BY <2>1, SentFrame
<1>10. CASE BeginPass \/ JudgeDue \/ Sift \/ SiftDone \/ ReadUnit \/ Flush \/ SendDone
  <2>1. UNCHANGED << surfaced, sends, message >>
    BY <1>10 DEF BeginPass, JudgeDue, Sift, SiftDone, ReadUnit, Flush, SendDone, dbVars, sendVars,
                 tellVars
  <2> QED BY <2>1, SentFrame
<1>11. CASE ApplyDone \/ RetireDone \/ PlanDone \/ SweepDone \/ Tick \/ CorrectUnit
            \/ FollowReminder \/ CorrectDone \/ UNCHANGED vars
  <2>1. UNCHANGED << surfaced, sends, message >>
    BY <1>11 DEF ApplyDone, RetireDone, PlanDone, SweepDone, Tick, CorrectUnit, FollowReminder,
              FollowedTo,
                 CorrectDone, vars, dbVars, sendVars, tellVars
  <2> QED BY <2>1, SentFrame
<1> QED BY <1>1, <1>2, <1>3, <1>4, <1>5, <1>6, <1>7, <1>8, <1>9, <1>10, <1>11
        DEF Next, PassStep, CorrectionStep

(* A reminder recorded as delivered was carried to the user at least once. *)
THEOREM SurfacedSent == Spec => []SurfacedWasSent
<1>1. Init => SentInv /\ Columns
  <2>1. Init => SentInv
    BY DEF Init, SentInv, SurfacedWasSent
  <2> QED BY <2>1, InitColumns
<1>2. SentInv /\ Columns /\ [Next]_vars => SentInv' /\ Columns'
  BY StepKeepsSent, StepIsRowStep
<1>3. SentInv => SurfacedWasSent
  BY DEF SentInv
<1> QED BY <1>1, <1>2, <1>3, PTL DEF Spec

----------------------------------------------------------------------------
(* Why a process tells a reminder once.  A row it knows was carried is no  *)
(* longer armed, and is unsurfaced only if it is still to be marked or is  *)
(* remembered as unmarked; what is queued, sifted out to retry or still in *)
(* the outbox has fired and was not carried yet; and each id is there once. *)
Acks ==
    /\ acked \in [Ids -> Nat]
    /\ ToldOncePerProcess
    /\ \A i \in Ids : acked[i] > 0 => status[i] \in {"fired", "expired"}
    /\ \A i \in Ids : acked[i] > 0 /\ i \notin cut /\ Unsurfaced(i)
                         => i \in unmarked \cup IdsOf(message)

OneEach(rows) == \A r, s \in rows : r.id = s.id => r = s

Untold(rows) == \A r \in rows : acked[r.id] = 0 \/ r.id \in cut

Pending ==
    /\ IdsOf(due) \subseteq Ids /\ IdsOf(queue) \subseteq Ids /\ IdsOf(retry) \subseteq Ids
    /\ IdsOf(outbox) \subseteq Ids /\ IdsOf(message) \subseteq Ids
    /\ Untold(queue) /\ Untold(retry) /\ Untold(outbox)
    /\ OneEach(queue) /\ OneEach(retry \cup due) /\ OneEach(outbox)

Stages ==
    /\ pc # "mark" => message = {}
    /\ pc \notin {"send", "mark"} => outbox = {}
    /\ pc \notin {"sift", "plan", "read", "apply", "retire"} => retry = {}
    /\ pc \in {"send", "mark", "sweep", "idle"} => queue = {}

Sifted == pc = "sift" => \A r \in due : Unsurfaced(r.id)

Left == \A r \in queue \cup retry \cup outbox : status[r.id] \in {"fired", "expired"}

ToldInv == Acks /\ Pending /\ Left /\ Stages /\ Sifted

(* What a step does to a row: it never comes back from fired or expired,   *)
(* and it comes to wait to be surfaced only by firing.                     *)
LEMMA RowsMove ==
    ASSUME Columns, [Next]_vars
    PROVE  /\ \A i \in Ids : status[i] \in {"fired", "expired"} => status'[i] \in {"fired", "expired"}
           /\ \A i \in Ids : Unsurfaced(i)' => Unsurfaced(i) \/ status[i] = "armed"
<1>1. RowStep
  BY StepIsRowStep
<1>2. CASE UNCHANGED << status, surfaced, firedAt >>
  BY <1>2 DEF Unsurfaced
<1>3. CASE Lifecycle!LNext
  BY <1>3
  DEF Columns, Unsurfaced, Lifecycle!LNext, Lifecycle!Arm, Lifecycle!Fire, Lifecycle!Expire,
      Lifecycle!RearmFired, Lifecycle!RearmExpired, Lifecycle!Surface, Lifecycle!LapseUnsurfaced
<1> QED BY <1>1, <1>2, <1>3 DEF RowStep

LEMMA AcksFrame ==
    ASSUME Columns, [Next]_vars, Acks, UNCHANGED << acked, cut >>, unmarked \subseteq unmarked',
           IdsOf(message) \subseteq IdsOf(message)'
    PROVE  Acks'
  BY RowsMove DEF Acks, ToldOncePerProcess

(* Retirements and aborts: the rows the pass held are let go.              *)
LEMMA AbortKeeps ==
    ASSUME ToldInv, Abort, UNCHANGED << acked, cut >>, pc \notin {"send", "mark"}
    PROVE  Pending' /\ Stages' /\ Sifted'
  BY DEF ToldInv, Abort, ClearWork, Pending, Stages, Sifted, Untold, OneEach, IdsOf

(* A step that leaves what is to be sent alone.                            *)
LEMMA HeldKeeps ==
    ASSUME ToldInv, UNCHANGED << acked, cut, queue, retry, outbox, message >>, due' \subseteq due,
           pc' \in {pc, "scan", "fire", "expire"}, pc' = pc \/ pc \in {"scan", "fire", "expire"},
           pc = "sift" => \A r \in due : Unsurfaced(r.id)'
    PROVE  Pending' /\ Stages' /\ Sifted'
  BY DEF ToldInv, Pending, Stages, Sifted, Untold, OneEach, IdsOf

LEMMA RowsAreOneEach ==
    ASSUME NEW S \in SUBSET Ids
    PROVE  IdsOf({Row(i) : i \in S}) \subseteq Ids /\ OneEach({Row(i) : i \in S})
<1>1. \A i : Row(i).id = i
  BY DEF Row
<1> QED BY <1>1 DEF IdsOf, OneEach

LEMMA EnqueueKeeps ==
    ASSUME NEW q, NEW rows, OneEach(q), OneEach(rows), Untold(q), Untold(rows)
    PROVE  /\ OneEach(Enqueue(q, rows)) /\ Untold(Enqueue(q, rows))
           /\ IdsOf(Enqueue(q, rows)) \subseteq IdsOf(q) \cup IdsOf(rows)
  BY DEF OneEach, Untold, Enqueue, IdsOf

LEMMA LeftFrame ==
    ASSUME ToldInv, Columns, [Next]_vars,
           queue' \cup retry' \cup outbox' \subseteq queue \cup retry \cup outbox
    PROVE  Left'
  BY RowsMove DEF ToldInv, Pending, Left, IdsOf

LEMMA StepKeepsLeft ==
    ASSUME ToldInv, Columns, [Next]_vars
    PROVE  Left'
<1>1. CASE WriteVerdict
  <2>1. PICK r \in due :
          /\ queue' \cup retry' \cup outbox' \subseteq queue \cup retry \cup outbox \cup {r}
          /\ \/ queue' \cup retry' \cup outbox' \subseteq queue \cup retry \cup outbox
             \/ status[r.id] = "armed" /\ LeaveArmed(r, "fired")
    BY <1>1 DEF WriteVerdict, Enqueue, sendVars, Abort, ClearWork
  <2>2. CASE queue' \cup retry' \cup outbox' \subseteq queue \cup retry \cup outbox
    BY <2>2, LeftFrame
  <2>3. CASE status[r.id] = "armed" /\ LeaveArmed(r, "fired")
    <3>1. r.id \in Ids
      BY DEF ToldInv, Pending, IdsOf
    <3>2. status'[r.id] = "fired"
      BY <2>3, <3>1, FreshIsUnused DEF LeaveArmed, Columns
    <3> QED BY <2>1, <3>2, RowsMove DEF ToldInv, Pending, Left, IdsOf
  <2> QED BY <2>1, <2>2, <2>3
<1>2. CASE Sift
  <2>1. PICK r \in due :
          /\ queue' \cup retry' \cup outbox' \subseteq queue \cup retry \cup outbox \cup {r}
          /\ pc = "sift" /\ UNCHANGED status
    BY <1>2 DEF Sift, sendVars, dbVars
  <2>2. status[r.id] = "fired"
    BY <2>1 DEF ToldInv, Sifted, Unsurfaced
  <2> QED BY <2>1, <2>2 DEF ToldInv, Left
<1>3. CASE PlanDone \/ Flush \/ Send \/ Mark \/ Crash
  BY <1>3, LeftFrame
  DEF PlanDone, Flush, Send, Unsent, Mark, Crash, Enqueue, scanVars, sendVars, ClearWork
<1>4. CASE BeginPass \/ JudgeDue \/ ScanDone \/ SiftDone \/ ReadUnit
  BY <1>4, LeftFrame
  DEF BeginPass, JudgeDue, ScanDone, SiftDone, ReadUnit, scanVars, sendVars, Abort, ClearWork
<1>5. CASE DecidePlan
  BY <1>5, DecidePlanEnds, LeftFrame DEF scanVars, sendVars, Abort, ClearWork
<1>6. CASE ApplyPlan \/ ApplyDone \/ Retire \/ RetireDone
  BY <1>6, LeftFrame DEF ApplyPlan, ApplyDone, Retire, RetireDone, scanVars, sendVars, Abort, ClearWork
<1>7. CASE MarkDone \/ SendDone \/ SweepDone \/ Tick \/ CorrectionStep \/ UNCHANGED vars
  BY <1>7, LeftFrame
  DEF MarkDone, SendDone, SweepDone, Tick, CorrectionStep, CorrectUnit, FollowReminder,
      CorrectReminder, CorrectDone, vars, scanVars, sendVars
<1> QED BY <1>1, <1>2, <1>3, <1>4, <1>5, <1>6, <1>7 DEF Next, PassStep

(* A message just carried: its rows have fired, and wait to be marked.     *)
LEMMA SentRowsAreTold ==
    ASSUME ToldInv, NEW rows \in SUBSET outbox, message' = rows, message = {},
           UNCHANGED << cut, unmarked, status, surfaced >>, acked' \in [Ids -> Nat],
           \A i \in Ids : /\ i \in IdsOf(rows) => acked[i] = 0 \/ i \in cut
                          /\ i \in IdsOf(rows) => acked'[i] = acked[i] + 1
                          /\ i \notin IdsOf(rows) => acked'[i] = acked[i]
    PROVE  Acks'
<1>1. \A i \in Ids : acked[i] \in Nat /\ (acked[i] <= 1 \/ i \in cut)
  BY DEF ToldInv, Acks, ToldOncePerProcess
<1>2. \A i \in Ids : acked'[i] <= 1 \/ i \in cut'
  BY <1>1
<1>3. \A i \in IdsOf(rows) : status[i] \in {"fired", "expired"}
  BY DEF ToldInv, Left, IdsOf
<1>4. \A i \in Ids : acked'[i] > 0 => status'[i] \in {"fired", "expired"}
  BY <1>3 DEF ToldInv, Acks
<1>5. IdsOf(message) = {} /\ IdsOf(message)' = IdsOf(rows)
  BY DEF IdsOf
<1>6. \A i \in Ids : Unsurfaced(i)' <=> Unsurfaced(i)
  BY DEF Unsurfaced
<1>7. \A i \in Ids : acked'[i] > 0 /\ i \notin cut' /\ Unsurfaced(i)'
                        => i \in unmarked' \cup IdsOf(message)'
  BY <1>5, <1>6 DEF ToldInv, Acks
<1> QED BY <1>2, <1>4, <1>7 DEF Acks, ToldOncePerProcess

LEMMA StepKeepsTold ==
    ASSUME ToldInv, Columns, [Next]_vars
    PROVE  Acks' /\ Pending' /\ Stages' /\ Sifted'
<1> USE DEF ToldInv
<1>1. CASE BeginPass
  <2>1. /\ UNCHANGED << acked, cut, unmarked, message, queue, retry, outbox >>
        /\ due' = Due(now) /\ pc = "idle" /\ pc' = "scan"
    BY <1>1 DEF BeginPass, tellVars
  <2>2. IdsOf(Due(now)) \subseteq Ids /\ OneEach(Due(now))
    BY RowsAreOneEach DEF Due
  <2>3. Pending' /\ Stages' /\ Sifted'
    BY <2>1, <2>2 DEF Pending, Stages, Sifted, Untold, OneEach, IdsOf
  <2> QED BY <2>1, <2>3, AcksFrame DEF IdsOf
<1>2. CASE JudgeDue
  <2>1. /\ UNCHANGED << acked, cut, unmarked, message, queue, retry, outbox >>
        /\ due' \subseteq due /\ pc = "scan" /\ pc' \in {"scan", "fire", "expire"}
    BY <1>2 DEF JudgeDue, tellVars, sendVars
  <2> QED BY <2>1, HeldKeeps, AcksFrame DEF IdsOf
<1>3. CASE WriteVerdict
  <2>1. PICK r \in due :
          /\ UNCHANGED << acked, cut, unmarked, message >> /\ pc \in {"fire", "expire"}
          /\ \/ Abort
             \/ /\ UNCHANGED << retry, outbox >> /\ due' \subseteq due /\ pc' = "scan"
                /\ \/ queue' = queue
                   \/ status[r.id] = "armed" /\ queue' = Enqueue(queue, {r})
    BY <1>3 DEF WriteVerdict, tellVars, sendVars, Abort
  <2>2. CASE Abort
    BY <2>1, <2>2, AbortKeeps, AcksFrame DEF IdsOf
  <2>3. CASE ~Abort /\ queue' = queue
    BY <2>1, <2>3, HeldKeeps, AcksFrame DEF IdsOf
  <2>4. CASE ~Abort /\ status[r.id] = "armed" /\ queue' = Enqueue(queue, {r})
    <3>1. r.id \in Ids
      BY DEF Pending, IdsOf
    <3>2. acked[r.id] = 0
      BY <3>1, <2>4 DEF Acks
    <3>3. OneEach({r}) /\ Untold({r}) /\ IdsOf({r}) \subseteq Ids
      BY <3>1, <3>2 DEF OneEach, Untold, IdsOf
    <3>4. OneEach(queue') /\ Untold(queue') /\ IdsOf(queue') \subseteq Ids
      BY <3>3, <2>4, EnqueueKeeps DEF Pending
    <3>5. UNCHANGED << acked, cut, unmarked, message, retry, outbox >> /\ due' \subseteq due /\ pc' = "scan"
      BY <2>1, <2>4
    <3>6. Pending'
      BY <3>4, <3>5 DEF Pending, Untold, OneEach, IdsOf
    <3>7. Stages' /\ Sifted'
      BY <2>1, <3>5 DEF Stages, Sifted
    <3> QED BY <3>5, <3>6, <3>7, AcksFrame DEF IdsOf
  <2> QED BY <2>1, <2>2, <2>3, <2>4
<1>4. CASE ScanDone
  <2>1. /\ UNCHANGED << acked, cut, unmarked, message, dbVars >> /\ pc = "scan"
        /\ \/ Abort
           \/ UNCHANGED << queue, retry, outbox >> /\ due' = Undelivered /\ pc' = "sift"
           \/ UNCHANGED << queue, retry, outbox, due >> /\ pc' = "flush"
    BY <1>4 DEF ScanDone, tellVars, sendVars, scanVars, Abort
  <2>2. CASE Abort
    BY <2>1, <2>2, AbortKeeps, AcksFrame DEF IdsOf
  <2>3. CASE UNCHANGED << queue, retry, outbox >> /\ due' = Undelivered /\ pc' = "sift"
    <3>1. IdsOf(Undelivered) \subseteq Ids /\ OneEach(Undelivered)
      BY RowsAreOneEach DEF Undelivered
    <3>2. \A r \in Undelivered : Unsurfaced(r.id)'
      BY <2>1 DEF Undelivered, Row, Unsurfaced, dbVars
    <3>3. Pending' /\ Stages' /\ Sifted'
      BY <2>1, <2>3, <3>1, <3>2 DEF Pending, Stages, Sifted, Untold, OneEach, IdsOf
    <3> QED BY <2>1, <3>3, AcksFrame DEF IdsOf
  <2>4. CASE UNCHANGED << queue, retry, outbox, due >> /\ pc' = "flush"
    <3>1. Pending' /\ Stages' /\ Sifted'
      BY <2>1, <2>4 DEF Pending, Stages, Sifted, Untold, OneEach, IdsOf
    <3> QED BY <2>1, <3>1, AcksFrame DEF IdsOf
  <2> QED BY <2>1, <2>2, <2>3, <2>4
<1>5. CASE Sift
  <2>1. PICK r \in due :
          /\ UNCHANGED << acked, cut, unmarked, message, queue, outbox, dbVars, pc >>
          /\ pc = "sift" /\ due' = due \ {r}
          /\ \/ retry' = retry
             \/ r.id \notin unmarked /\ retry' = retry \cup {r}
    BY <1>5 DEF Sift, Again, tellVars, sendVars
  <2>2. CASE retry' = retry
    BY <2>1, <2>2, HeldKeeps, AcksFrame DEF IdsOf, Sifted, Unsurfaced, dbVars
  <2>3. CASE r.id \notin unmarked /\ retry' = retry \cup {r}
    <3>1. r.id \in Ids /\ Unsurfaced(r.id) /\ message = {}
      BY <2>1 DEF Pending, Sifted, Stages, IdsOf
    <3>2. acked[r.id] = 0 \/ r.id \in cut
      BY <3>1, <2>3 DEF Acks, IdsOf
    <3>3. Pending'
      BY <2>1, <2>3, <3>1, <3>2 DEF Pending, Untold, OneEach, IdsOf
    <3>4. Stages' /\ Sifted'
      BY <2>1 DEF Stages, Sifted, Unsurfaced, dbVars
    <3> QED BY <2>1, <3>3, <3>4, AcksFrame DEF IdsOf
  <2> QED BY <2>1, <2>2, <2>3
<1>6. CASE SiftDone \/ ReadUnit \/ DecidePlan \/ ApplyPlan \/ ApplyDone \/ RetireDone \/ Retire
  <2>1. /\ UNCHANGED << acked, cut, unmarked, message >>
        /\ \/ Abort /\ pc \in {"read", "apply", "retire", "sweep"}
           \/ /\ UNCHANGED << queue, retry, outbox, due >>
              /\ \/ pc \in {"sift", "plan", "read", "apply", "retire"}
                    /\ pc' \in {"plan", "read", "apply", "retire"}
                 \/ pc = "sweep" /\ pc' = "sweep"
    <3>1. CASE SiftDone \/ ReadUnit \/ ApplyDone \/ RetireDone
      BY <3>1 DEF SiftDone, ReadUnit, ApplyDone, RetireDone, scanVars, sendVars, tellVars
    <3>2. CASE DecidePlan
      BY <3>2, DecidePlanEnds DEF scanVars, sendVars, tellVars, Abort
    <3>3. CASE ApplyPlan
      BY <3>3 DEF ApplyPlan, scanVars, sendVars, tellVars, Abort
    <3>4. CASE Retire
      BY <3>4 DEF Retire, scanVars, sendVars, tellVars, Abort
    <3> QED BY <1>6, <3>1, <3>2, <3>3, <3>4
  <2>2. CASE Abort
    BY <2>1, <2>2, AbortKeeps, AcksFrame DEF IdsOf, Abort
  <2>3. CASE ~Abort
    <3>1. Pending' /\ Stages' /\ Sifted'
      BY <2>1, <2>3 DEF Pending, Stages, Sifted, Untold, OneEach, IdsOf
    <3> QED BY <2>1, <3>1, AcksFrame DEF IdsOf
  <2> QED BY <2>2, <2>3
<1>7. CASE PlanDone
  <2>1. /\ UNCHANGED << acked, cut, unmarked, message, outbox, due >>
        /\ queue' = Enqueue(queue, retry) /\ retry' = {} /\ pc = "plan" /\ pc' = "flush"
    BY <1>7 DEF PlanDone, sendVars, tellVars
  <2>2. OneEach(retry)
    BY DEF Pending, OneEach
  <2>3. OneEach(queue') /\ Untold(queue') /\ IdsOf(queue') \subseteq Ids
    BY <2>1, <2>2, EnqueueKeeps DEF Pending
  <2>4. Pending' /\ Stages' /\ Sifted'
    BY <2>1, <2>3 DEF Pending, Stages, Sifted, Untold, OneEach, IdsOf
  <2> QED BY <2>1, <2>4, AcksFrame DEF IdsOf
<1>8. CASE Flush
  <2>1. /\ UNCHANGED << acked, cut, unmarked, message, retry, due >>
        /\ outbox' = queue /\ queue' = {} /\ pc = "flush" /\ pc' = "send"
    BY <1>8 DEF Flush, tellVars
  <2>2. Pending' /\ Stages' /\ Sifted'
    BY <2>1 DEF Pending, Stages, Sifted, Untold, OneEach, IdsOf
  <2> QED BY <2>1, <2>2, AcksFrame DEF IdsOf
<1>9. CASE Send
  <2>1. PICK r \in outbox :
          /\ UNCHANGED << cut, unmarked, queue, retry, due, dbVars >> /\ pc = "send"
          /\ \/ /\ acked' = acked /\ message' = message /\ pc' = "send" /\ outbox' \subseteq outbox
             \/ LET rows == OfUnit(outbox, r.body.unit)
                IN  /\ pc' = "mark" /\ message' = rows /\ outbox' = outbox \ rows
                    /\ acked' = Told(acked, rows)
    BY <1>9 DEF Send, Unsent, scanVars
  <2>2. CASE acked' = acked /\ message' = message /\ pc' = "send" /\ outbox' \subseteq outbox
    <3>1. Pending' /\ Stages' /\ Sifted'
      BY <2>1, <2>2 DEF Pending, Stages, Sifted, Untold, OneEach, IdsOf
    <3> QED BY <2>1, <2>2, <3>1, AcksFrame DEF IdsOf
  <2>3. CASE pc' = "mark"
    <3>1. PICK rows \in SUBSET outbox :
            message' = rows /\ outbox' = outbox \ rows /\ acked' = Told(acked, rows)
      BY <2>1, <2>3 DEF OfUnit
    <3>2. message = {} /\ queue = {} /\ retry = {}
      BY <2>1 DEF Stages
    <3>3. IdsOf(rows) \subseteq Ids /\ \A s \in outbox \ rows : s.id \notin IdsOf(rows)
      BY DEF Pending, OneEach, IdsOf
    <3>4. \A i \in Ids : /\ i \in IdsOf(rows) => acked[i] = 0 \/ i \in cut
                         /\ i \in IdsOf(rows) => acked'[i] = acked[i] + 1
                         /\ i \notin IdsOf(rows) => acked'[i] = acked[i]
      <4>1. \A i \in Ids : acked'[i] = IF i \in IdsOf(rows) THEN acked[i] + 1 ELSE acked[i]
        BY <3>1 DEF Told
      <4>2. \A i \in IdsOf(rows) : acked[i] = 0 \/ i \in cut
        BY DEF Pending, Untold, IdsOf
      <4> QED BY <4>1, <4>2
    <3>5. acked' \in [Ids -> Nat]
      BY <3>1, ToldCounts DEF Acks
    <3>6. UNCHANGED << cut, unmarked, status, surfaced, queue, retry, due >>
      BY <2>1 DEF dbVars
    <3>7. Acks'
      BY <3>1, <3>2, <3>4, <3>5, <3>6, SentRowsAreTold
    <3>8. Pending'
      <4>1. Untold(outbox')
        BY <3>1 DEF Pending, Untold
      <4>2. \A s \in outbox' : acked'[s.id] = acked[s.id]
        BY <3>1, <3>3, <3>4 DEF Pending, IdsOf
      <4>3. Untold(outbox)'
        BY <4>1, <4>2, <3>6 DEF Untold
      <4>4. Untold(queue)' /\ Untold(retry)' /\ OneEach(queue)' /\ OneEach(retry \cup due)'
        BY <3>2, <3>6 DEF Pending, Untold, OneEach
      <4>5. IdsOf(message)' \subseteq Ids /\ IdsOf(outbox)' \subseteq Ids /\ OneEach(outbox)'
        BY <3>1 DEF Pending, OneEach, IdsOf
      <4> QED BY <3>6, <4>3, <4>4, <4>5 DEF Pending, IdsOf
    <3>9. Stages' /\ Sifted'
      BY <2>3, <3>2, <3>6 DEF Stages, Sifted
    <3> QED BY <3>7, <3>8, <3>9
  <2> QED BY <2>1, <2>2, <2>3
<1>10. CASE Mark
  <2>1. PICK r \in message, o \in Outcomes :
          /\ UNCHANGED << acked, queue, retry, due, status, pc >> /\ pc = "mark"
          /\ surfaced' = IF o # "store" /\ Unsurfaced(r.id)
                         THEN [surfaced EXCEPT ![r.id] = TRUE] ELSE surfaced
          /\ unmarked' = IF o = "store" THEN unmarked \cup {r.id} ELSE unmarked
          /\ cut' = IF o = "log" THEN cut \cup IdsOf(message \ {r}) ELSE cut
          /\ message' = IF o = "log" THEN {} ELSE message \ {r}
          /\ outbox' \subseteq outbox
    BY <1>10 DEF Mark, scanVars
  <2>2. \A i \in Ids : i = r.id \/ i \in IdsOf(message') \/ i \in cut' \/ i \notin IdsOf(message)
    BY <2>1 DEF IdsOf
  <2>3. r.id \in Ids /\ (o # "store" => ~Unsurfaced(r.id)') /\ (o = "store" => r.id \in unmarked')
    BY <2>1 DEF Pending, IdsOf, Unsurfaced, Columns
  <2>4. \A i \in Ids : (Unsurfaced(i)' => Unsurfaced(i)) /\ (i \in cut => i \in cut')
                        /\ (i \in unmarked => i \in unmarked')
    BY <2>1, <2>3 DEF Unsurfaced, Columns
  <2>5. Acks'
    BY <2>1, <2>2, <2>3, <2>4 DEF Acks, ToldOncePerProcess
  <2>6. Pending' /\ Stages' /\ Sifted'
    BY <2>1, <2>4 DEF Pending, Stages, Sifted, Untold, OneEach, IdsOf
  <2> QED BY <2>5, <2>6
<1>11. CASE MarkDone \/ SendDone \/ SweepDone \/ Tick \/ CorrectUnit \/ FollowReminder
            \/ CorrectDone \/ UNCHANGED vars
  <2>1. /\ UNCHANGED << acked, cut, unmarked, message, queue, retry, outbox, due, status, surfaced >>
        /\ \/ pc' = pc
           \/ pc = "mark" /\ pc' = "send" /\ message = {}
           \/ pc = "send" /\ pc' \in {"sweep", "idle"} /\ outbox = {}
           \/ pc = "sweep" /\ pc' = "idle"
    <3>1. CASE MarkDone \/ SendDone \/ SweepDone
      BY <3>1 DEF MarkDone, SendDone, SweepDone, scanVars, sendVars, tellVars, dbVars
    <3>2. CASE Tick \/ CorrectUnit \/ FollowReminder \/ CorrectDone \/ UNCHANGED vars
      BY <3>2 DEF Tick, CorrectUnit, FollowReminder, CorrectDone, vars, scanVars, sendVars, tellVars,
                  dbVars
    <3> QED BY <1>11, <3>1, <3>2
  <2>2. Pending' /\ Stages' /\ Sifted'
    BY <2>1 DEF Pending, Stages, Sifted, Untold, OneEach, IdsOf, Unsurfaced
  <2> QED BY <2>1, <2>2, AcksFrame DEF IdsOf
<1>12. CASE CorrectReminder
  <2>1. /\ UNCHANGED << acked, cut, unmarked, message, queue, retry, outbox, due, pc >>
        /\ \A i \in Ids : Unsurfaced(i) => Unsurfaced(i)'
    <3>1. /\ UNCHANGED << acked, cut, unmarked, message, queue, retry, outbox, due, pc >>
          /\ UNCHANGED dbVars \/ (~Conflicts(Head(cops)) /\ Apply(Head(cops), cunit))
      BY <1>12 DEF CorrectReminder, scanVars, sendVars, tellVars
    <3>2. ASSUME NEW op, NEW u, ~Conflicts(op), Apply(op, u)
          PROVE  \A i \in Ids : Unsurfaced(i) => Unsurfaced(i)'
      <4>1. CASE op.kind = "expire" /\ ExpireRow(op.id)
        BY <3>2, <4>1 DEF Conflicts, ExpireRow, Unsurfaced, Columns
      <4>2. CASE \E b : Create(b)
        BY <4>2, FreshIsUnused DEF Create, Unsurfaced, Columns
      <4>3. CASE \E b : Reschedule(op.id, b)
        BY <4>3 DEF Reschedule, Unsurfaced
      <4> QED BY <3>2, <4>1, <4>2, <4>3 DEF Apply
    <3>3. UNCHANGED dbVars => \A i \in Ids : Unsurfaced(i) => Unsurfaced(i)'
      BY DEF dbVars, Unsurfaced
    <3> QED BY <3>1, <3>2, <3>3
  <2>2. pc = "sift" => \A r \in due : Unsurfaced(r.id)'
    BY <2>1 DEF Sifted, Pending, IdsOf
  <2> QED BY <2>1, <2>2, HeldKeeps, AcksFrame DEF IdsOf
<1>13. CASE Crash
  <2>1. /\ acked' = [i \in Ids |-> 0] /\ pc' = "idle"
        /\ due' = {} /\ queue' = {} /\ retry' = {} /\ outbox' = {} /\ message' = {}
    BY <1>13 DEF Crash, ClearWork
  <2>2. Acks'
    BY <2>1 DEF Acks, ToldOncePerProcess
  <2>3. Pending' /\ Stages' /\ Sifted'
    BY <2>1 DEF Pending, Stages, Sifted, Untold, OneEach, IdsOf
  <2> QED BY <2>2, <2>3
<1> QED BY <1>1, <1>2, <1>3, <1>4, <1>5, <1>6, <1>7, <1>8, <1>9, <1>10, <1>11, <1>12, <1>13
        DEF Next, PassStep, CorrectionStep

(* A process tells the user of a reminder once, whatever fails: what it    *)
(* surfaced leaves the undelivered rows, what it could not surface it      *)
(* remembers.  Only the rows after a failed log row are the exception.     *)
THEOREM TellsOnce == Spec => []ToldOncePerProcess
<1>1. Init => ToldInv /\ Columns
  <2>1. Init => ToldInv
    BY DEF Init, ToldInv, Acks, ToldOncePerProcess, Pending, Left, Stages, Sifted, Untold, OneEach,
           IdsOf
  <2> QED BY <2>1, InitColumns
<1>2. ToldInv /\ Columns /\ [Next]_vars => ToldInv' /\ Columns'
  BY StepKeepsTold, StepKeepsLeft, StepIsRowStep DEF ToldInv
<1>3. ToldInv => ToldOncePerProcess
  BY DEF ToldInv, Acks
<1> QED BY <1>1, <1>2, <1>3, PTL DEF Spec

----------------------------------------------------------------------------
(* The arithmetic of days and hours.                                       *)
LEMMA DayArith ==
    ASSUME NEW t \in Int
    PROVE  /\ DayOf(t) \in Int /\ HourOf(t) \in 0 .. DayLen - 1
           /\ t = DayOf(t) * DayLen + HourOf(t) /\ DayOf(t) * DayLen \in Int
<1>1. DayLen \in Nat \ {0}
  BY ClockAssumption
<1>2. DayOf(t) \in Int /\ HourOf(t) \in 0 .. DayLen - 1 /\ t = DayOf(t) * DayLen + HourOf(t)
  BY <1>1 DEF DayOf, HourOf
<1>3. DayOf(t) * DayLen \in Int
  BY <1>1, <1>2
<1> QED BY <1>2, <1>3

LEMMA HourAt ==
    ASSUME NEW t \in Int, NEW h \in 0 .. DayLen - 1
    PROVE  /\ At(t, h) \in Int /\ HourOf(At(t, h)) = h
           /\ HourOf(At(t, h) - DayLen) = h
           /\ At(t, h) - DayLen < t /\ At(t, h) < NextMidnight(t)
           /\ NextMidnight(t) \in Int /\ t < NextMidnight(t)
<1>1. DayLen \in Nat \ {0}
  BY ClockAssumption
<1> DEFINE d == DayOf(t)
<1>2. d \in Int /\ d * DayLen \in Int /\ t \in Int /\ t = d * DayLen + HourOf(t)
      /\ HourOf(t) \in 0 .. DayLen - 1
  BY DayArith
<1>3. At(t, h) = d * DayLen + h /\ NextMidnight(t) = (d + 1) * DayLen
  BY DEF At, NextMidnight
<1> HIDE DEF d
<1>4. (d + 1) * DayLen = d * DayLen + DayLen
  BY <1>1, <1>2
<1>5. \A k \in Int : (k * DayLen + h) % DayLen = h
  BY <1>1
<1>6. HourOf(d * DayLen + h) = h
  BY <1>2, <1>5 DEF HourOf
<1>7. d * DayLen + h - DayLen = (d - 1) * DayLen + h
  BY <1>1, <1>2
<1>8. HourOf(d * DayLen + h - DayLen) = h
  BY <1>2, <1>5, <1>7 DEF HourOf
<1> QED BY <1>1, <1>2, <1>3, <1>4, <1>6, <1>8

(* Where a lead rings: never before now, out of the night, and before any  *)
(* bound its nominal instant, its event and now are all before.            *)
LEMMA DueAtLands ==
    ASSUME NEW nominal \in Int, NEW ev \in Int
    PROVE  /\ DueAt(nominal, ev) \in Int
           /\ ~InNight(QuietEnd, DueAt(nominal, ev))
           /\ DueAt(nominal, ev) <= nominal \/ DueAt(nominal, ev) < ev
<1>1. QuietEnd \in 0 .. DayLen - 1 /\ EveningAt \in 0 .. DayLen - 1 /\ EveningAt >= QuietEnd
  BY PrefsAssumption
<1>2. CASE ~InNight(QuietEnd, nominal)
  BY <1>2 DEF DueAt
<1>3. CASE InNight(QuietEnd, nominal) /\ DeliverableFrom(QuietEnd, nominal) < ev
  <2>1. DueAt(nominal, ev) = At(nominal, QuietEnd)
    BY <1>3 DEF DueAt, DeliverableFrom
  <2>2. At(nominal, QuietEnd) < ev
    BY <1>3 DEF DeliverableFrom
  <2>3. At(nominal, QuietEnd) \in Int /\ HourOf(At(nominal, QuietEnd)) = QuietEnd
    BY <1>1, HourAt
  <2> QED BY <1>1, <2>1, <2>2, <2>3 DEF InNight
<1>4. CASE InNight(QuietEnd, nominal) /\ ~(DeliverableFrom(QuietEnd, nominal) < ev)
  <2>1. DueAt(nominal, ev) = At(nominal, EveningAt) - DayLen
    BY <1>4 DEF DueAt
  <2>2. /\ At(nominal, EveningAt) \in Int
        /\ HourOf(At(nominal, EveningAt) - DayLen) = EveningAt
        /\ At(nominal, EveningAt) - DayLen < nominal
    BY <1>1, HourAt
  <2>3. DayLen \in Nat
    BY ClockAssumption
  <2> QED BY <1>1, <2>1, <2>2, <2>3 DEF InNight
<1> QED BY <1>2, <1>3, <1>4

LEMMA DeliverAtLands ==
    ASSUME NEW nominal \in Int, NEW ev \in Int, NEW t \in Int, NEW by \in Int,
           nominal < by, ev <= by, t < by, DeliverAt(nominal, ev, t) # NoTime
    PROVE  /\ DeliverAt(nominal, ev, t) \in t .. by - 1
           /\ ~InNight(QuietEnd, DeliverAt(nominal, ev, t))
<1> DEFINE at == DueAt(nominal, ev)
<1>1. at \in Int /\ ~InNight(QuietEnd, at) /\ (at <= nominal \/ at < ev)
  BY DueAtLands
<1>2. DeliverAt(nominal, ev, t) =
        IF at >= t THEN at ELSE IF InNight(QuietEnd, t) THEN NoTime ELSE t
  BY DEF DeliverAt
<1> HIDE DEF at
<1>3. CASE at >= t
  <2>1. DeliverAt(nominal, ev, t) = at
    BY <1>2, <1>3
  <2> QED BY <1>1, <1>3, <2>1
<1>4. CASE ~(at >= t)
  <2>1. DeliverAt(nominal, ev, t) = t /\ ~InNight(QuietEnd, t)
    BY <1>2, <1>4
  <2> QED BY <2>1
<1> QED BY <1>3, <1>4

----------------------------------------------------------------------------
(* What a set of leads gives: every plan rings from now on and before by,  *)
(* in the night only when someone asked for it then, about the event.      *)
LeadsBefore(leads, by) ==
    /\ DOMAIN leads \subseteq Nat \ {0} /\ IsFiniteSet(DOMAIN leads)
    /\ \A i \in DOMAIN leads : /\ leads[i].at \in Int /\ leads[i].at < by
                               /\ leads[i].asked \in BOOLEAN /\ leads[i].own \in BOOLEAN

AskedIn(leads) == \E i \in DOMAIN leads : leads[i].asked

LEMMA ItemsAhead ==
    ASSUME NEW leads, NEW by \in Int, LeadsBefore(leads, by), NEW t \in Int, t < by
    PROVE  LET items == RingItems(leads, t)
           IN  /\ DOMAIN items \subseteq Nat /\ IsFiniteSet(DOMAIN items)
               /\ \A i \in DOMAIN items :
                     /\ items[i].at \in t .. by - 1 /\ items[i].own \in BOOLEAN
                     /\ items[i].asked \in BOOLEAN /\ items[i].once \in BOOLEAN
                     /\ items[i].asked => AskedIn(leads)
<1> DEFINE ahead == {i \in DOMAIN leads : leads[i].at >= t}
           behind == \E i \in DOMAIN leads \ ahead : leads[i].asked
           once == IF behind \/ ahead = {} THEN {OnceAt} ELSE {}
           items == RingItems(leads, t)
<1>1. items = [i \in ahead \cup once |->
            IF i = OnceAt THEN [at |-> t, asked |-> behind, own |-> FALSE, once |-> TRUE]
            ELSE [at |-> leads[i].at, asked |-> leads[i].asked, own |-> leads[i].own,
                  once |-> FALSE]]
  BY DEF RingItems
<1>2. once \subseteq {0} /\ IsFiniteSet(once)
  BY FS_EmptySet, FS_Singleton DEF OnceAt
<1>3. ahead \subseteq DOMAIN leads /\ IsFiniteSet(ahead)
  BY FS_Subset DEF LeadsBefore
<1>4. IsFiniteSet(ahead \cup once)
  BY <1>2, <1>3, FS_Union
<1>5. \A i \in ahead : leads[i].at \in t .. by - 1
  BY DEF LeadsBefore
<1>10. \A i \in ahead :
         /\ leads[i].asked \in BOOLEAN /\ leads[i].own \in BOOLEAN
         /\ leads[i].asked => AskedIn(leads)
  BY DEF LeadsBefore, AskedIn
<1>6. behind \in BOOLEAN /\ (behind => AskedIn(leads))
  BY DEF AskedIn
<1>7. ahead \subseteq Nat \ {0}
  BY <1>3 DEF LeadsBefore
<1> HIDE DEF ahead, behind, once, items
<1>8. DOMAIN items = ahead \cup once
  BY <1>1
<1>9. ASSUME NEW i \in DOMAIN items
      PROVE  /\ items[i].at \in t .. by - 1 /\ items[i].own \in BOOLEAN
             /\ items[i].asked \in BOOLEAN /\ items[i].once \in BOOLEAN
             /\ items[i].asked => AskedIn(leads)
  <2>1. CASE i = OnceAt
    <3>1. items[i] = [at |-> t, asked |-> behind, own |-> FALSE, once |-> TRUE]
      BY <1>1, <1>8, <1>9, <2>1
    <3>2. items[i].at = t /\ items[i].own = FALSE /\ items[i].asked = behind /\ items[i].once = TRUE
      BY <3>1
    <3>3. items[i].at \in t .. by - 1
      BY <3>2
    <3> QED BY <3>2, <3>3, <1>6
  <2>2. CASE i # OnceAt
    <3>1. items[i] = [at |-> leads[i].at, asked |-> leads[i].asked, own |-> leads[i].own,
                      once |-> FALSE]
      BY <1>1, <1>8, <1>9, <2>2
    <3>2. i \in ahead
      BY <1>2, <1>8, <1>9, <2>2 DEF OnceAt
    <3>3. /\ items[i].at = leads[i].at /\ items[i].own = leads[i].own
          /\ items[i].asked = leads[i].asked /\ items[i].once = FALSE
      BY <3>1
    <3> QED BY <3>2, <3>3, <1>5, <1>10
  <2> QED BY <2>1, <2>2
<1> QED BY <1>2, <1>4, <1>7, <1>8, <1>9 DEF items

LEMMA RingLands ==
    ASSUME NEW it, NEW at \in Int, NEW dayOnly \in BOOLEAN, NEW told, NEW t \in Int, NEW sent,
           NEW by \in Int, EndOf(at, dayOnly) <= by, t < by, it.at \in t .. by - 1,
           it.own \in BOOLEAN, it.asked \in BOOLEAN, it.once \in BOOLEAN
    PROVE  LET ring == RingOf(it, at, dayOnly, told, t, sent)
           IN  /\ ring.asked = it.asked /\ ring.exempt \in BOOLEAN /\ (ring.exempt => ring.asked)
               /\ ring.immediate \in BOOLEAN /\ ring.leads \in SUBSET Int
               /\ ring.fate = "rings" => /\ ring.fireAt \in t .. by - 1
                                         /\ ring.exempt \/ ~InNight(QuietEnd, ring.fireAt)
<1> DEFINE ring == RingOf(it, at, dayOnly, told, t, sent)
           end == EndOf(at, dayOnly)
           exempt == it.asked /\ (it.once \/ ~dayOnly)
           where == RingAt(it, exempt, end, t)
<1>1. /\ ring.fireAt = where.fireAt /\ ring.exempt = exempt /\ ring.asked = it.asked
      /\ ring.fate = Fate(it, where, end - t, at, told, t, sent)
      /\ ring.immediate \in BOOLEAN /\ ring.leads \in SUBSET {at - it.at}
  BY DEF RingOf
<1>2. ring.fate = "rings" => where.fireAt # NoTime
  BY <1>1 DEF Fate
<1>3. where.fireAt = IF exempt THEN it.at ELSE DeliverAt(it.at, end, t)
  BY DEF RingAt
<1>4. end \in Int
  BY HourAt, DayArith, PrefsAssumption DEF EndOf
<1> HIDE DEF ring, end, where
<1>5. ASSUME ring.fate = "rings"
      PROVE  ring.fireAt \in t .. by - 1 /\ (ring.exempt \/ ~InNight(QuietEnd, ring.fireAt))
  <2>1. CASE exempt
    BY <1>1, <1>3, <2>1
  <2>2. CASE ~exempt
    <3>1. ring.fireAt = DeliverAt(it.at, end, t) /\ ring.fireAt # NoTime
      BY <1>1, <1>2, <1>3, <1>5, <2>2
    <3>2. it.at \in Int /\ it.at < by /\ end <= by
      BY DEF end
    <3> QED BY <1>4, <3>1, <3>2, DeliverAtLands
  <2> QED BY <2>1, <2>2
<1> QED BY <1>1, <1>5 DEF ring

(* A plan: what Reminders arms.                                            *)
Plans(by, t) ==
    [fireAt : t .. by - 1, about : Int, immediate : BOOLEAN, lead : Int, leads : SUBSET Int,
     asked : BOOLEAN, dayOnly : BOOLEAN, nightExempt : BOOLEAN]

OneAnInstant(plans) == \A p, q \in plans : p.fireAt = q.fireAt => p = q

Land(plans, at, dayOnly, by, t) ==
    /\ IsFiniteSet(plans) /\ OneAnInstant(plans) /\ plans \subseteq Plans(by, t)
    /\ \A p \in plans : p.about = at /\ p.dayOnly = dayOnly
    /\ \A p \in plans : InNight(QuietEnd, p.fireAt) => p.nightExempt /\ p.asked

LEMMA NothingLands ==
    ASSUME NEW at, NEW dayOnly, NEW by, NEW t
    PROVE  Land({}, at, dayOnly, by, t)
  BY FS_EmptySet DEF Land, OneAnInstant

LEMMA UnrungArmsNothing == \A rings, leads : Unrung(rings, leads).plans = {}
<1>1. \A why : Refuse(why).plans = {}
  BY DEF Refuse
<1>2. \A rings, leads : \E why : Unrung(rings, leads) = Refuse(why)
  BY DEF Unrung
<1> QED BY <1>1, <1>2

LEMMA RemindersLand ==
    ASSUME NEW at \in Int, NEW dayOnly \in BOOLEAN, NEW leads, NEW told, NEW t \in Int, NEW sent,
           NEW by \in Int, EndOf(at, dayOnly) <= by, LeadsBefore(leads, by)
    PROVE  LET R == Reminders(at, dayOnly, leads, told, t, sent)
           IN  /\ Land(R.plans, at, dayOnly, by, t)
               /\ Arms(R) => t < EndOf(at, dayOnly)
               /\ \A p \in R.plans : (p.asked => AskedIn(leads)) /\ (p.nightExempt => p.asked)
<1> DEFINE R == Reminders(at, dayOnly, leads, told, t, sent)
           items == RingItems(leads, t)
           rings == RingsOf(items, at, dayOnly, told, t, sent)
<1>0. EndOf(at, dayOnly) \in Int
  BY HourAt, DayArith, PrefsAssumption DEF EndOf
<1>1. CASE EndOf(at, dayOnly) <= t
  <2>1. R.plans = {}
    BY <1>1 DEF Reminders, Refuse
  <2> QED BY <2>1, NothingLands DEF Arms
<1>2. CASE ~(EndOf(at, dayOnly) <= t)
  <2>1. t < EndOf(at, dayOnly) /\ t < by
    BY <1>0, <1>2
  <2>2. /\ DOMAIN items \subseteq Nat /\ IsFiniteSet(DOMAIN items)
        /\ \A i \in DOMAIN items :
              /\ items[i].at \in t .. by - 1 /\ items[i].own \in BOOLEAN
              /\ items[i].asked \in BOOLEAN /\ items[i].once \in BOOLEAN
              /\ items[i].asked => AskedIn(leads)
    BY <2>1, ItemsAhead
  <2>3. R = Rung(rings, leads, at, dayOnly)
    BY <1>2 DEF Reminders
  <2>4. DOMAIN rings = DOMAIN items
        /\ \A i \in DOMAIN items : rings[i] = RingOf(items[i], at, dayOnly, told, t, sent)
    BY DEF RingsOf
  <2> HIDE DEF items, rings
  <2>5. \A i \in DOMAIN rings :
           /\ rings[i].exempt \in BOOLEAN /\ rings[i].asked \in BOOLEAN
           /\ rings[i].immediate \in BOOLEAN /\ rings[i].leads \in SUBSET Int
           /\ rings[i].exempt => rings[i].asked
           /\ rings[i].asked => AskedIn(leads)
           /\ rings[i].fate = "rings" => rings[i].fireAt \in t .. by - 1
           /\ rings[i].fate = "rings" => rings[i].exempt \/ ~InNight(QuietEnd, rings[i].fireAt)
    <3> SUFFICES ASSUME NEW i \in DOMAIN items
        PROVE  LET ring == RingOf(items[i], at, dayOnly, told, t, sent)
               IN  /\ ring.exempt \in BOOLEAN /\ ring.asked \in BOOLEAN
                   /\ ring.immediate \in BOOLEAN /\ ring.leads \in SUBSET Int
                   /\ ring.exempt => ring.asked
                   /\ ring.asked => AskedIn(leads)
                   /\ ring.fate = "rings" => ring.fireAt \in t .. by - 1
                   /\ ring.fate = "rings" => ring.exempt \/ ~InNight(QuietEnd, ring.fireAt)
      BY <2>4
    <3> DEFINE it == items[i]
    <3>1. /\ it.at \in t .. by - 1 /\ it.own \in BOOLEAN /\ it.asked \in BOOLEAN
          /\ it.once \in BOOLEAN /\ (it.asked => AskedIn(leads))
      BY <2>2
    <3> HIDE DEF it
    <3>2. LET ring == RingOf(it, at, dayOnly, told, t, sent)
          IN  /\ ring.asked = it.asked /\ ring.exempt \in BOOLEAN /\ (ring.exempt => ring.asked)
              /\ ring.immediate \in BOOLEAN /\ ring.leads \in SUBSET Int
              /\ ring.fate = "rings" => /\ ring.fireAt \in t .. by - 1
                                        /\ ring.exempt \/ ~InNight(QuietEnd, ring.fireAt)
      BY <2>1, <3>1, RingLands
    <3> QED BY <3>1, <3>2 DEF it
  <2> DEFINE planOf(i) == PlanOf(rings[i], {rings[j] : j \in Joined(rings, i)}, at, dayOnly)
             S == {planOf(i) : i \in Opens(rings)}
  <2>6. R.plans = S
    <3>1. CASE Opens(rings) = {}
      <4>1. R = Unrung(rings, leads)
        BY <2>3, <3>1 DEF Rung
      <4>2. R.plans = {}
        BY <4>1, UnrungArmsNothing
      <4>3. S = {}
        BY <3>1
      <4> QED BY <4>2, <4>3
    <3>2. CASE Opens(rings) # {}
      <4>1. R = Armed(S)
        BY <2>3, <3>2 DEF Rung
      <4> HIDE DEF S
      <4> QED BY <4>1 DEF Armed
    <3> QED BY <3>1, <3>2
  <2>7. Opens(rings) \subseteq DOMAIN rings /\ IsFiniteSet(Opens(rings))
    <3>1. Opens(rings) \subseteq DOMAIN rings
      BY DEF Opens
    <3> QED BY <2>2, <2>4, <3>1, FS_Subset
  <2>8. IsFiniteSet(R.plans)
    <3> DEFINE f == [i \in Opens(rings) |-> planOf(i)]
    <3> HIDE DEF planOf
    <3>1. f \in Surjection(Opens(rings), S)
      BY DEF Surjection
    <3> HIDE DEF f, S
    <3> QED BY <2>6, <2>7, <3>1, FS_Surjection
  <2>9. ASSUME NEW i \in Opens(rings)
        PROVE  /\ planOf(i).fireAt = rings[i].fireAt /\ planOf(i) \in Plans(by, t)
               /\ planOf(i).about = at /\ planOf(i).dayOnly = dayOnly
               /\ planOf(i).asked => AskedIn(leads)
               /\ planOf(i).nightExempt => planOf(i).asked
               /\ InNight(QuietEnd, planOf(i).fireAt) => planOf(i).nightExempt /\ planOf(i).asked
    <3> DEFINE joined == {rings[j] : j \in Joined(rings, i)}
               first == rings[i]
    <3>1. i \in DOMAIN rings /\ first.fate = "rings" /\ first \in joined
      BY DEF Opens, Joined, Earlier
    <3>2. \A r \in joined : /\ r.exempt \in BOOLEAN /\ r.asked \in BOOLEAN /\ r.leads \in SUBSET Int
                            /\ r.exempt => r.asked
                            /\ r.asked => AskedIn(leads)
      BY <2>5 DEF Joined
    <3>3. /\ first.fireAt \in t .. by - 1 /\ first.immediate \in BOOLEAN
          /\ InNight(QuietEnd, first.fireAt) => first.exempt /\ first.asked
      BY <2>5, <3>1
    <3> HIDE DEF joined, first
    <3> DEFINE lead == IF first.immediate THEN 0 ELSE Larger(0, at - first.fireAt)
               asked == \E r \in joined : r.asked
               exempt == \E r \in joined : r.exempt
               leadsOf == UNION {r.leads : r \in joined}
    <3>4. planOf(i) = Plan(first.fireAt, at, first.immediate, lead, leadsOf, asked, dayOnly, exempt)
      BY DEF PlanOf, joined, first
    <3>5. lead \in Int /\ leadsOf \in SUBSET Int /\ asked \in BOOLEAN /\ exempt \in BOOLEAN
      BY <3>2, <3>3 DEF Larger
    <3>6. (asked => AskedIn(leads)) /\ (exempt => asked)
      BY <3>2
    <3>7. InNight(QuietEnd, first.fireAt) => exempt /\ asked
      BY <3>1, <3>3
    <3> HIDE DEF lead, asked, exempt, leadsOf, planOf
    <3>8. planOf(i) \in Plans(by, t)
      BY <3>3, <3>4, <3>5 DEF Plan, Plans
    <3>9. /\ planOf(i).fireAt = first.fireAt /\ planOf(i).about = at /\ planOf(i).dayOnly = dayOnly
          /\ planOf(i).asked = asked /\ planOf(i).nightExempt = exempt
      BY <3>4 DEF Plan
    <3> QED BY <3>6, <3>7, <3>8, <3>9 DEF first
  <2>10. ASSUME NEW i \in Opens(rings), NEW j \in Opens(rings), rings[i].fireAt = rings[j].fireAt
         PROVE  i = j
    <3>1. i \in Nat /\ j \in Nat /\ i \in DOMAIN rings /\ j \in DOMAIN rings
      BY <2>2, <2>4, <2>7
    <3>2. ~Earlier(i, j) /\ ~Earlier(j, i)
      BY <2>10, <3>1 DEF Opens
    <3> QED BY <3>1, <3>2 DEF Earlier, OnceAt
  <2> HIDE DEF R, planOf
  <2>11. OneAnInstant(R.plans)
    BY <2>6, <2>9, <2>10 DEF OneAnInstant
  <2>12. R.plans \subseteq Plans(by, t)
    BY <2>6, <2>9
  <2>13. \A p \in R.plans :
            /\ p.about = at /\ p.dayOnly = dayOnly
            /\ p.asked => AskedIn(leads)
            /\ p.nightExempt => p.asked
            /\ InNight(QuietEnd, p.fireAt) => p.nightExempt /\ p.asked
    BY <2>6, <2>9
  <2> QED BY <2>1, <2>8, <2>11, <2>12, <2>13 DEF R, Land, Arms
<1> QED BY <1>1, <1>2

(* The leads an event has, and those left of them on the day it is told.   *)
LEMMA InstantsBefore ==
    ASSUME NEW at \in Int, NEW dateOnly \in BOOLEAN
    PROVE  /\ Instants(at, dateOnly) \in Seq(Int)
           /\ \A i \in DOMAIN Instants(at, dateOnly) : Instants(at, dateOnly)[i] < at
<1>1. CASE dateOnly
  <2>1. At(at, DateOnlyAt) - DayLen \in Int /\ At(at, DateOnlyAt) - DayLen < at
    <3>1. DateOnlyAt \in 0 .. DayLen - 1 /\ DayLen \in Nat
      BY PrefsAssumption, ClockAssumption
    <3>2. At(at, DateOnlyAt) \in Int /\ At(at, DateOnlyAt) - DayLen < at
      BY <3>1, HourAt
    <3> QED BY <3>1, <3>2
  <2>2. Instants(at, dateOnly) = << At(at, DateOnlyAt) - DayLen >>
    BY <1>1 DEF Instants
  <2> QED BY <2>1, <2>2
<1>2. CASE ~dateOnly
  <2>1. Instants(at, dateOnly) = [i \in DOMAIN TimedLeads |-> at - TimedLeads[i]]
    BY <1>2 DEF Instants
  <2>2. DOMAIN TimedLeads = 1 .. Len(TimedLeads) /\ Len(TimedLeads) \in Nat
        /\ \A i \in DOMAIN TimedLeads : TimedLeads[i] \in Nat \ {0}
    BY PrefsAssumption
  <2> QED BY <2>1, <2>2
<1> QED BY <1>1, <1>2

Leads == [at : Int, asked : BOOLEAN, own : BOOLEAN]

LEMMA LeadSeqBefore ==
    ASSUME NEW s \in Seq(Leads), NEW by, \A i \in DOMAIN s : s[i].at < by
    PROVE  LeadsBefore(s, by)
<1>1. DOMAIN s = 1 .. Len(s) /\ Len(s) \in Nat
  OBVIOUS
<1>2. IsFiniteSet(1 .. Len(s))
  BY <1>1, FS_Interval
<1>3. \A i \in DOMAIN s : s[i] \in Leads
  OBVIOUS
<1>4. \A l \in Leads : l.at \in Int /\ l.asked \in BOOLEAN /\ l.own \in BOOLEAN
  BY DEF Leads
<1> QED BY <1>1, <1>2, <1>3, <1>4 DEF LeadsBefore

LEMMA LeadSetBefore ==
    ASSUME NEW at \in Int, NEW asked \in BOOLEAN, NEW dayOnly \in BOOLEAN, NEW isEvent \in BOOLEAN,
           NEW by \in Int, EndOf(at, dayOnly) <= by
    PROVE  /\ LeadsBefore(LeadSet(isEvent, asked, at, dayOnly), by)
           /\ AskedIn(LeadSet(isEvent, asked, at, dayOnly)) => asked
<1> DEFINE dateOnly == IF asked THEN dayOnly ELSE IsDateOnly(at)
           instants == Instants(at, dateOnly)
           timed == IF isEvent
                    THEN [i \in DOMAIN instants |-> [at |-> instants[i], asked |-> FALSE, own |-> FALSE]]
                    ELSE << >>
           namedAt == IF dayOnly THEN At(at, DateOnlyAt) ELSE at - RemindMeLead
           named == [at |-> namedAt, asked |-> TRUE, own |-> FALSE]
<1>1. at <= EndOf(at, dayOnly) /\ at <= by
  <2>1. NextMidnight(at) \in Int /\ at < NextMidnight(at)
    BY HourAt, PrefsAssumption
  <2> QED BY <2>1 DEF EndOf
<1>2. namedAt \in Int /\ namedAt < by
  <2>1. CASE dayOnly
    <3>1. At(at, DateOnlyAt) \in Int /\ At(at, DateOnlyAt) < NextMidnight(at) /\ NextMidnight(at) \in Int
      BY HourAt, PrefsAssumption
    <3> QED BY <2>1, <3>1 DEF EndOf
  <2>2. CASE ~dayOnly
    BY <1>1, <2>2, PrefsAssumption
  <2> QED BY <2>1, <2>2
<1>3. instants \in Seq(Int) /\ \A i \in DOMAIN instants : instants[i] < by
  <2>1. dateOnly \in BOOLEAN
    BY DEF IsDateOnly
  <2> HIDE DEF dateOnly
  <2>2. instants \in Seq(Int) /\ \A i \in DOMAIN instants : instants[i] < at
    BY <2>1, InstantsBefore
  <2> HIDE DEF instants
  <2> QED BY <1>1, <2>2
<1>4. LeadSet(isEvent, asked, at, dayOnly) = IF asked THEN Append(timed, named) ELSE timed
  BY DEF LeadSet
<1> HIDE DEF instants, dateOnly, namedAt
<1>5. /\ timed \in Seq(Leads)
      /\ \A i \in DOMAIN timed : timed[i].at < by /\ timed[i].asked = FALSE
  <2>1. CASE isEvent
    <3>1. timed = [i \in 1 .. Len(instants) |-> [at |-> instants[i], asked |-> FALSE, own |-> FALSE]]
      BY <1>3, <2>1
    <3>2. \A i \in 1 .. Len(instants) : instants[i] \in Int /\ instants[i] < by
      BY <1>3
    <3>3. Len(instants) \in Nat
      BY <1>3
    <3> HIDE DEF timed
    <3> QED BY <3>1, <3>2, <3>3 DEF Leads
  <2>2. CASE ~isEvent
    BY <2>2
  <2> QED BY <2>1, <2>2
<1>6. named \in Leads /\ named.at < by
  BY <1>2 DEF Leads
<1> HIDE DEF timed, named
<1>8. CASE asked
  <2>1. Append(timed, named) \in Seq(Leads) /\ \A i \in DOMAIN Append(timed, named) : Append(timed, named)[i].at < by
    BY <1>5, <1>6
  <2> QED BY <1>4, <1>8, <2>1, LeadSeqBefore
<1>9. CASE ~asked
  BY <1>4, <1>5, <1>9, LeadSeqBefore DEF AskedIn
<1> QED BY <1>8, <1>9

LEMMA SkipToldDayBefore ==
    ASSUME NEW leads, NEW by, LeadsBefore(leads, by), NEW at, NEW told, NEW t
    PROVE  /\ LeadsBefore(SkipToldDay(leads, at, told, t), by)
           /\ AskedIn(SkipToldDay(leads, at, told, t)) => AskedIn(leads)
<1>1. \E kept \in SUBSET DOMAIN leads : SkipToldDay(leads, at, told, t) = [i \in kept |-> leads[i]]
  BY DEF SkipToldDay
<1>2. PICK kept \in SUBSET DOMAIN leads : SkipToldDay(leads, at, told, t) = [i \in kept |-> leads[i]]
  BY <1>1
<1>3. IsFiniteSet(kept)
  BY FS_Subset DEF LeadsBefore
<1> QED BY <1>2, <1>3 DEF LeadsBefore, AskedIn

(* What a capture, a correction or a re-plan asks for: of an event, and of *)
(* a reminder the user asked for.                                          *)
LEMMA EndIs ==
    ASSUME NEW at \in Int, NEW dayOnly \in BOOLEAN
    PROVE  EndOf(at, dayOnly) \in Int /\ at <= EndOf(at, dayOnly)
<1>1. NextMidnight(at) \in Int /\ at < NextMidnight(at)
  BY HourAt, PrefsAssumption
<1> QED BY <1>1 DEF EndOf

LEMMA EventRemindersLand ==
    ASSUME NEW ev \in Int, NEW told, NEW t \in Int, NEW sent
    PROVE  /\ Land(EventReminders(ev, told, t, sent).plans, ev, FALSE,
                   EndOf(ev, IsDateOnly(ev)), t)
           /\ \A p \in EventReminders(ev, told, t, sent).plans : ~p.asked /\ ~p.nightExempt
<1> DEFINE by == EndOf(ev, IsDateOnly(ev))
           set == LeadSet(TRUE, FALSE, ev, FALSE)
           left == SkipToldDay(set, ev, told, t)
           planned == Reminders(ev, FALSE, left, told, t, sent)
           ring == RingOnTheDay(ev)
           onDay == << [at |-> ring, asked |-> FALSE, own |-> TRUE] >>
           again == Reminders(ev, FALSE, onDay, told, t, sent)
<1>1. by \in Int /\ ev <= by /\ EndOf(ev, FALSE) = ev
  BY EndIs DEF EndOf, IsDateOnly
<1>2. LeadsBefore(set, by) /\ ~AskedIn(set)
  BY <1>1, LeadSetBefore
<1>3. LeadsBefore(left, by) /\ ~AskedIn(left)
  BY <1>2, SkipToldDayBefore
<1>4. ring # NoTime => ring \in Int /\ ring < by
  <2>1. At(ev, DateOnlyAt) \in Int /\ At(ev, QuietEnd) \in Int
    BY HourAt, PrefsAssumption
  <2> QED BY <2>1 DEF RingOnTheDay, EndOf
<1>5. ring # NoTime => LeadsBefore(onDay, by) /\ ~AskedIn(onDay)
  <2> SUFFICES ASSUME ring # NoTime PROVE LeadsBefore(onDay, by) /\ ~AskedIn(onDay)
    OBVIOUS
  <2> HIDE DEF ring, by
  <2>1. onDay \in Seq(Leads) /\ \A i \in DOMAIN onDay : onDay[i].at < by /\ ~onDay[i].asked
    BY <1>4 DEF Leads
  <2> HIDE DEF onDay
  <2> QED BY <2>1, LeadSeqBefore DEF AskedIn
<1> HIDE DEF set, left, by, ring, onDay
<1>6. Land(planned.plans, ev, FALSE, by, t) /\ \A p \in planned.plans : ~p.asked /\ ~p.nightExempt
  BY <1>1, <1>3, RemindersLand
<1>7. ring # NoTime => Land(again.plans, ev, FALSE, by, t) /\ \A p \in again.plans : ~p.asked /\ ~p.nightExempt
  BY <1>1, <1>5, RemindersLand
<1>8. EventReminders(ev, told, t, sent) =
         IF planned.why # "leads behind" \/ ~ToldToday(ev, told, t) THEN planned
         ELSE IF ring = NoTime THEN Refuse("quiet hours") ELSE again
  BY DEF EventReminders, OrOnTheDay, set, left, ring, onDay
<1>9. Refuse("quiet hours").plans = {}
  BY DEF Refuse
<1> HIDE DEF planned, again
<1>10. EventReminders(ev, told, t, sent).plans \in
          {planned.plans, {}} \cup (IF ring = NoTime THEN {} ELSE {again.plans})
  BY <1>8, <1>9
<1> HIDE DEF by
<1> DEFINE plans == EventReminders(ev, told, t, sent).plans
<1>11. CASE plans = {}
  BY <1>11, NothingLands DEF by
<1>12. CASE plans = planned.plans
  BY <1>6, <1>12 DEF by
<1>13. CASE ring # NoTime /\ plans = again.plans
  BY <1>7, <1>13 DEF by
<1> QED BY <1>10, <1>11, <1>12, <1>13

LEMMA AskedRemindersLand ==
    ASSUME NEW at \in Int, NEW isEvent \in BOOLEAN, NEW dayOnly \in BOOLEAN, NEW told,
           NEW t \in Int, NEW sent
    PROVE  /\ Land(AskedReminders(at, isEvent, dayOnly, told, t, sent).plans, at, dayOnly,
                   EndOf(at, dayOnly), t)
           /\ Arms(AskedReminders(at, isEvent, dayOnly, told, t, sent)) => t < EndOf(at, dayOnly)
<1> DEFINE by == EndOf(at, dayOnly)
           set == LeadSet(isEvent, TRUE, at, dayOnly)
           left == SkipToldDay(set, at, told, t)
<1>1. by \in Int /\ by <= by
  BY EndIs
<1>2. LeadsBefore(set, by)
  BY <1>1, LeadSetBefore
<1>3. LeadsBefore(left, by)
  BY <1>2, SkipToldDayBefore
<1> HIDE DEF left
<1>4. LET R == Reminders(at, dayOnly, left, told, t, sent)
      IN  Land(R.plans, at, dayOnly, by, t) /\ (Arms(R) => t < by)
  BY <1>1, <1>3, RemindersLand
<1> QED BY <1>4 DEF AskedReminders, left

(* A catch-up: from now on, out of the night, before the event is over.    *)
LEMMA CatchUpLands ==
    ASSUME NEW ev \in Int, NEW live, NEW sent, NEW t \in Int
    PROVE  LET plans == CatchUp(ev, live, sent, t).plans
           IN  /\ Land(plans, ev, FALSE, EndOf(ev, IsDateOnly(ev)), t)
               /\ \A p \in plans : ~p.asked /\ ~p.nightExempt /\ ~InNight(QuietEnd, p.fireAt)
<1> DEFINE by == EndOf(ev, IsDateOnly(ev))
           at == DeliverAt(t, by, t)
           lead == IF at = t THEN 0 ELSE Larger(0, ev - at)
           p == Plan(at, ev, at = t, lead, {}, FALSE, FALSE, FALSE)
           R == CatchUp(ev, live, sent, t)
<1>1. by \in Int
  BY EndIs DEF IsDateOnly
<1>2. R.plans = {} \/ (t < by /\ at # NoTime /\ R.plans = {p})
  <2>1. \A why : Refuse(why).plans = {}
    BY DEF Refuse
  <2>2. Armed({p}).plans = {p}
    BY DEF Armed
  <2>3. \/ \E why : R = Refuse(why)
        \/ ~(by <= t) /\ at # NoTime /\ R = Armed({p})
    BY DEF CatchUp
  <2> HIDE DEF R, by, p
  <2> QED BY <1>1, <2>1, <2>2, <2>3
<1>3. ASSUME t < by, at # NoTime
      PROVE  /\ p \in Plans(by, t) /\ p.about = ev /\ p.dayOnly = FALSE /\ p.asked = FALSE
             /\ p.nightExempt = FALSE /\ ~InNight(QuietEnd, p.fireAt)
  <2> HIDE DEF by
  <2>1. at \in t .. by - 1 /\ ~InNight(QuietEnd, at)
    BY <1>1, <1>3, DeliverAtLands
  <2> HIDE DEF at
  <2>2. lead \in Int
    BY <2>1 DEF Larger
  <2> HIDE DEF lead
  <2> QED BY <2>1, <2>2 DEF Plan, Plans
<1> HIDE DEF R, p, by
<1>4. CASE R.plans = {}
  BY <1>4, NothingLands DEF R, by
<1>5. CASE t < by /\ at # NoTime /\ R.plans = {p}
  <2>1. IsFiniteSet({p}) /\ OneAnInstant({p})
    BY FS_Singleton DEF OneAnInstant
  <2> QED BY <1>3, <1>5, <2>1 DEF R, by, Land
<1> QED BY <1>2, <1>4, <1>5

LEMMA CatchUpAskedLands ==
    ASSUME NEW at \in Int, NEW isEvent \in BOOLEAN, NEW dayOnly \in BOOLEAN, NEW live, NEW sent,
           NEW t \in Int
    PROVE  LET plans == CatchUpAsked(at, isEvent, dayOnly, live, sent, t).plans
           IN  /\ Land(plans, at, dayOnly, EndOf(at, dayOnly), t)
               /\ \A p \in plans : ~p.nightExempt /\ ~InNight(QuietEnd, p.fireAt)
<1> DEFINE by == EndOf(at, dayOnly)
           planned == AskedReminders(at, isEvent, dayOnly, NoTime, t, {})
           fire == DeliverAt(t, by, t)
           moved(p) == [p EXCEPT !.fireAt = fire, !.immediate = (fire = t), !.nightExempt = FALSE,
                                 !.lead = IF fire # t /\ ~dayOnly THEN at - fire ELSE @]
           R == CatchUpAsked(at, isEvent, dayOnly, live, sent, t)
<1>1. by \in Int
  BY EndIs
<1>2. Land(planned.plans, at, dayOnly, by, t) /\ (Arms(planned) => t < by)
  BY AskedRemindersLand
<1>3. \/ \E why : R = Refuse(why)
      \/ /\ Cardinality(planned.plans) = 1 /\ fire # NoTime
         /\ R = Armed({moved(p) : p \in planned.plans})
  BY DEF CatchUpAsked, RingAtOnce
<1>4. CASE \E why : R = Refuse(why)
  BY <1>4, NothingLands DEF Refuse
<1>5. CASE /\ Cardinality(planned.plans) = 1 /\ fire # NoTime
           /\ R = Armed({moved(p) : p \in planned.plans})
  <2> HIDE DEF planned, R
  <2>1. PICK p : planned.plans = {p}
    BY <1>2, <1>5, FS_Singleton DEF Land
  <2>2. t < by /\ p \in Plans(by, t) /\ p.about = at /\ p.dayOnly = dayOnly
    BY <1>2, <2>1 DEF Arms, Land
  <2>3. fire \in t .. by - 1 /\ ~InNight(QuietEnd, fire)
    <3> HIDE DEF by
    <3>1. t < by /\ by <= by
      BY <1>1, <2>2
    <3>2. fire # NoTime
      BY <1>5
    <3> QED BY <1>1, <3>1, <3>2, DeliverAtLands
  <2> HIDE DEF fire, by
  <2> DEFINE lead == IF fire # t /\ ~dayOnly THEN at - fire ELSE p.lead
             q == moved(p)
  <2>4. lead \in Int
    BY <2>2, <2>3 DEF Plans
  <2>5. q = [p EXCEPT !.fireAt = fire, !.immediate = (fire = t), !.nightExempt = FALSE, !.lead = lead]
    BY <2>2 DEF Plans
  <2> HIDE DEF lead, q
  <2>6. q \in Plans(by, t)
    BY <2>2, <2>3, <2>4, <2>5 DEF Plans
  <2>7. q.about = at /\ q.dayOnly = dayOnly /\ q.fireAt = fire /\ q.nightExempt = FALSE
    BY <2>2, <2>5 DEF Plans
  <2>8. R.plans = {q}
    BY <1>5, <2>1 DEF Armed, q
  <2>9. IsFiniteSet({q}) /\ OneAnInstant({q})
    BY FS_Singleton DEF OneAnInstant
  <2> QED BY <2>3, <2>6, <2>7, <2>8, <2>9 DEF Land, R, by
<1> QED BY <1>3, <1>4, <1>5

----------------------------------------------------------------------------
(* Ranked lists a finite set by a strict order: every place holds a member.*)
StrictOrder(S, R) ==
    /\ R \subseteq S \X S
    /\ \A x \in S : << x, x >> \notin R
    /\ \A x, y, z \in S : << x, y >> \in R /\ << y, z >> \in R => << x, z >> \in R
    /\ \A x, y \in S : x = y \/ << x, y >> \in R \/ << y, x >> \in R

Under(S, R, x) == {y \in S : << y, x >> \in R}
RanksBy(S, R, rank) == rank \in [S -> Nat] /\ \A x \in S : rank[x] = Cardinality(Under(S, R, x))

(* What a list of a set by rank is: as long as the set, the member of rank  *)
(* k - 1 at each place k, every member at some place.                       *)
Picks(S, rank, list) ==
    /\ Cardinality(S) \in Nat
    /\ DOMAIN list = 1 .. Cardinality(S)
    /\ \A k \in 1 .. Cardinality(S) : list[k] \in S /\ rank[list[k]] = k - 1
    /\ \A x \in S : \E k \in 1 .. Cardinality(S) : list[k] = x

LEMMA RankedPicks ==
    ASSUME NEW S, IsFiniteSet(S), NEW R, StrictOrder(S, R), NEW rank, RanksBy(S, R, rank)
    PROVE  Picks(S, rank, Ranked(S, rank))
<1> DEFINE n == Cardinality(S)
<1> USE DEF RanksBy
<1>1. n \in Nat
  BY FS_CardinalityType
<1>2. ASSUME NEW x \in S PROVE IsFiniteSet(Under(S, R, x)) /\ Cardinality(Under(S, R, x)) \in 0 .. n - 1
  <2> DEFINE U == Under(S, R, x)
  <2>1. U \subseteq S /\ x \notin U
    BY DEF StrictOrder, Under
  <2> HIDE DEF U
  <2>2. IsFiniteSet(U) /\ Cardinality(U) <= Cardinality(S) /\ (Cardinality(S) = Cardinality(U) => S = U)
    BY <2>1, FS_Subset
  <2>3. Cardinality(U) \in Nat
    BY <2>2, FS_CardinalityType
  <2> QED BY <1>1, <2>1, <2>2, <2>3 DEF U
<1>3. ASSUME NEW x \in S, NEW y \in S, << x, y >> \in R
      PROVE  Cardinality(Under(S, R, x)) # Cardinality(Under(S, R, y))
  <2> DEFINE U == Under(S, R, x)
             V == Under(S, R, y)
  <2>1. U \subseteq V /\ x \in V /\ x \notin U
    BY <1>3 DEF StrictOrder, Under
  <2>2. IsFiniteSet(V)
    BY <1>2
  <2> HIDE DEF U, V
  <2>3. Cardinality(V) = Cardinality(U) => V = U
    BY <2>1, <2>2, FS_Subset
  <2> QED BY <2>1, <2>3 DEF U, V
<1>4. rank \in [S -> 0 .. n - 1]
  BY <1>2
<1>5. ASSUME NEW x \in S, NEW y \in S, rank[x] = rank[y] PROVE x = y
  <2>1. rank[x] = Cardinality(Under(S, R, x)) /\ rank[y] = Cardinality(Under(S, R, y))
    OBVIOUS
  <2>2. << x, y >> \notin R /\ << y, x >> \notin R
    BY <1>3, <1>5, <2>1
  <2> QED BY <2>2 DEF StrictOrder
<1>6. rank \in Injection(S, 0 .. n - 1)
  BY <1>4, <1>5 DEF Injection, IsInjective
<1>7. IsFiniteSet(0 .. n - 1) /\ Cardinality(0 .. n - 1) = n
  BY <1>1, FS_Interval
<1>8. rank \in Surjection(S, 0 .. n - 1)
  BY <1>6, <1>7, FS_Injection
<1> HIDE DEF n
<1>9. \A k \in 1 .. n : \E x \in S : rank[x] = k - 1
  <2>1. \A k \in 1 .. n : k - 1 \in 0 .. n - 1
    BY <1>1
  <2> QED BY <1>8, <2>1 DEF Surjection
<1>10. Ranked(S, rank) = [k \in 1 .. n |-> CHOOSE x \in S : rank[x] = k - 1]
  BY DEF Ranked, n
<1>11. \A k \in 1 .. n : Ranked(S, rank)[k] \in S /\ rank[Ranked(S, rank)[k]] = k - 1
  BY <1>9, <1>10
<1>12. ASSUME NEW x \in S PROVE \E k \in 1 .. n : Ranked(S, rank)[k] = x
  <2>1. rank[x] \in 0 .. n - 1
    BY <1>4
  <2>2. rank[x] + 1 \in 1 .. n /\ (rank[x] + 1) - 1 = rank[x]
    BY <1>1, <2>1
  <2>3. rank[Ranked(S, rank)[rank[x] + 1]] = rank[x] /\ Ranked(S, rank)[rank[x] + 1] \in S
    BY <1>11, <2>2
  <2> QED BY <1>5, <2>2, <2>3
<1> QED BY <1>1, <1>10, <1>11, <1>12 DEF n, Picks

(* A finite set has a member no other comes before.                        *)
LEMMA ForemostExists ==
    ASSUME NEW S, IsFiniteSet(S), S # {}, NEW R, StrictOrder(S, R)
    PROVE  \E x \in S : Under(S, R, x) = {}
<1> DEFINE rank == [x \in S |-> Cardinality(Under(S, R, x))]
           listed == Ranked(S, rank)
           n == Cardinality(S)
<1>1. ASSUME NEW x \in S PROVE IsFiniteSet(Under(S, R, x)) /\ Cardinality(Under(S, R, x)) \in Nat
  <2>1. Under(S, R, x) \subseteq S
    BY DEF Under
  <2>2. IsFiniteSet(Under(S, R, x))
    BY <2>1, FS_Subset
  <2> QED BY <2>2, FS_CardinalityType
<1>2. rank \in [S -> Nat]
  BY <1>1
<1>3. \A x \in S : rank[x] = Cardinality(Under(S, R, x))
  OBVIOUS
<1> HIDE DEF rank
<1>4. n \in Nat /\ \A k \in 1 .. n : listed[k] \in S /\ rank[listed[k]] = k - 1
  <2>1. RanksBy(S, R, rank)
    BY <1>2, <1>3 DEF RanksBy
  <2>2. Picks(S, rank, listed)
    BY <2>1, RankedPicks
  <2> QED BY <2>2 DEF Picks
<1>5. n # 0
  BY FS_EmptySet
<1> HIDE DEF n, listed
<1>6. 1 \in 1 .. n
  BY <1>4, <1>5
<1>7. listed[1] \in S /\ rank[listed[1]] = 0
  BY <1>4, <1>6
<1>8. Under(S, R, listed[1]) = {}
  BY <1>1, <1>3, <1>7, FS_EmptySet
<1> QED BY <1>7, <1>8

(* The plans in firing order.                                              *)
LEMMA InOrderLists ==
    ASSUME NEW plans, IsFiniteSet(plans), OneAnInstant(plans), \A p \in plans : p.fireAt \in Int
    PROVE  /\ Cardinality(plans) \in Nat /\ InOrder(plans) \in Seq(plans)
           /\ Len(InOrder(plans)) = Cardinality(plans)
           /\ \A p \in plans : \E k \in 1 .. Cardinality(plans) : InOrder(plans)[k] = p
<1> DEFINE R == {z \in plans \X plans : z[1].fireAt < z[2].fireAt}
           rank == [p \in plans |-> Cardinality({q \in plans : q.fireAt < p.fireAt})]
<1>1. StrictOrder(plans, R)
  BY DEF StrictOrder, OneAnInstant
<1>2. rank \in [plans -> Nat] /\ \A x \in plans : rank[x] = Cardinality(Under(plans, R, x))
  <2>1. ASSUME NEW x \in plans
        PROVE  /\ Under(plans, R, x) = {q \in plans : q.fireAt < x.fireAt}
               /\ Cardinality(Under(plans, R, x)) \in Nat
    <3>1. Under(plans, R, x) = {q \in plans : q.fireAt < x.fireAt}
      BY DEF Under
    <3>2. Under(plans, R, x) \subseteq plans
      BY <3>1
    <3> QED BY <3>1, <3>2, FS_Subset, FS_CardinalityType
  <2> HIDE DEF R
  <2> QED BY <2>1
<1>3. InOrder(plans) = Ranked(plans, rank)
  BY DEF InOrder
<1> HIDE DEF R, rank
<1>4. /\ Cardinality(plans) \in Nat
      /\ DOMAIN InOrder(plans) = 1 .. Cardinality(plans)
      /\ \A k \in 1 .. Cardinality(plans) : InOrder(plans)[k] \in plans
      /\ \A p \in plans : \E k \in 1 .. Cardinality(plans) : InOrder(plans)[k] = p
  <2>1. RanksBy(plans, R, rank)
    BY <1>2 DEF RanksBy
  <2>2. Picks(plans, rank, Ranked(plans, rank))
    BY <1>1, <2>1, RankedPicks
  <2> QED BY <1>3, <2>2 DEF Picks
<1>5. PICK n \in Nat : n = Cardinality(plans)
  BY <1>4
<1>6. PICK f : InOrder(plans) = [k \in 1 .. n |-> f[k]]
  <2>1. Ranked(plans, rank) = [k \in 1 .. n |-> Ranked(plans, rank)[k]]
    BY <1>5 DEF Ranked
  <2> QED BY <1>3, <2>1
<1>7. ASSUME NEW k \in 1 .. n PROVE f[k] \in plans
  <2>1. InOrder(plans)[k] = f[k]
    BY <1>6
  <2>2. InOrder(plans)[k] \in plans
    BY <1>4, <1>5
  <2> QED BY <2>1, <2>2
<1>8. InOrder(plans) \in Seq(plans) /\ Len(InOrder(plans)) = n
  BY <1>6, <1>7
<1> QED BY <1>4, <1>5, <1>8

----------------------------------------------------------------------------
(***************************************************************************)
(* ReminderCases: one event told at one instant, any of each, and whatever *)
(* the hours, leads, margins and windows of the instance.                  *)
(***************************************************************************)
CaseTypes == toldAt \in Int /\ eventAt \in Int /\ isAsked \in BOOLEAN /\ clock \in Int

LEMMA CasesKeepTypes ==
    /\ CasesInit => CaseTypes
    /\ CaseTypes /\ [CasesNext]_caseVars => CaseTypes'
<1>1. CasesInit => CaseTypes
  BY CasesAssumption DEF CasesInit, CaseTypes
<1>2. CaseTypes /\ CasesTick => CaseTypes'
  BY DEF CasesTick, CaseTypes
<1>3. CaseTypes /\ UNCHANGED caseVars => CaseTypes'
  BY DEF caseVars, CaseTypes
<1> QED BY <1>1, <1>2, <1>3 DEF CasesNext

LEMMA CasesLand ==
    ASSUME CaseTypes
    PROVE  LET captured == CapturedAt(clock).plans
               owed     == Owed({}, clock).plans
           IN  /\ Land(captured, eventAt, DayOnly, End, clock)
               /\ Land(owed, eventAt, DayOnly, End, clock)
               /\ \A p \in captured \cup owed : p.asked => isAsked
               /\ \A p \in owed : ~InNight(QuietEnd, p.fireAt)
<1>1. CASE isAsked
  <2>1. DayOnly \in BOOLEAN /\ End = EndOf(eventAt, DayOnly)
    BY <1>1 DEF DayOnly, End, IsDateOnly
  <2>2. /\ CapturedAt(clock) = AskedReminders(eventAt, TRUE, DayOnly, clock, clock, {})
        /\ Owed({}, clock) = CatchUpAsked(eventAt, TRUE, DayOnly, << >>, {}, clock)
    BY <1>1 DEF CapturedAt, Owed
  <2>3. eventAt \in Int /\ clock \in Int
    BY DEF CaseTypes
  <2> QED BY <1>1, <2>1, <2>2, <2>3, AskedRemindersLand, CatchUpAskedLands
<1>2. CASE ~isAsked
  <2>1. DayOnly = FALSE /\ End = EndOf(eventAt, IsDateOnly(eventAt))
    BY <1>2 DEF DayOnly, End
  <2>2. /\ CapturedAt(clock) = EventReminders(eventAt, clock, clock, {})
        /\ Owed({}, clock) = CatchUp(eventAt, << >>, {}, clock)
    BY <1>2 DEF CapturedAt, Owed
  <2>3. eventAt \in Int /\ clock \in Int
    BY DEF CaseTypes
  <2> QED BY <2>1, <2>2, <2>3, EventRemindersLand, CatchUpLands
<1> QED BY <1>1, <1>2

(* I34, for any hours and leads: nothing is armed in the night that nobody *)
(* asked to ring then, and a catch-up never is (reminders.go, catchup.go). *)
THEOREM NightIsKept == CasesSpec => []PlansKeepTheNight
<1>1. CaseTypes => PlansKeepTheNight
  BY CasesLand DEF Land, PlansKeepTheNight
<1> QED BY <1>1, CasesKeepTypes, PTL DEF CasesSpec

LEMMA RingIsDelivered ==
    ASSUME NEW at \in Int, NEW p, p.fireAt \in Int, p.about = at, p.dayOnly \in BOOLEAN,
           p.fireAt < EndOf(at, IsDateOnly(at)), p.dayOnly => IsDateOnly(at),
           p.asked /\ IsDateOnly(at) => p.dayOnly,
           InNight(QuietEnd, p.fireAt) => p.nightExempt,
           NEW row, row.fireAt = p.fireAt, row.about = p.about, row.rule = FALSE, row.current = at,
           row.waiting = FALSE, row.asked = p.asked, row.dayOnly = p.dayOnly,
           row.nightExempt = p.nightExempt
    PROVE  ReminderVerdict(QuietEnd, row, p.fireAt) = Keep("deliver")
<1>1. at # NoTime /\ TriggerStaleness \in Nat
  BY ClockAssumption
<1>2. ~Superseded(row)
  BY <1>1 DEF Superseded
<1>3. About(row) = at
  BY <1>1 DEF About
<1>4. ~Passed(row, at, p.fireAt)
  <2>1. DayGranular(row, at) <=> IsDateOnly(at)
    BY DEF DayGranular
  <2>2. NextMidnight(at) \in Int
    BY HourAt, PrefsAssumption
  <2> QED BY <2>1, <2>2 DEF Passed, EndOf
<1>5. \A t \in Int : Verdict(t, t, TriggerStaleness, t, FALSE) = "deliver"
  BY <1>1 DEF Verdict
<1>6. ~InNight(QuietEnd, p.fireAt) => TriggerVerdict(QuietEnd, p.fireAt, p.fireAt) = "deliver"
  BY <1>1 DEF TriggerVerdict, DeliverableFrom, Verdict
<1> DEFINE v == IF row.nightExempt
                THEN Verdict(row.fireAt, row.fireAt, TriggerStaleness, p.fireAt, FALSE)
                ELSE TriggerVerdict(QuietEnd, row.fireAt, p.fireAt)
<1>7. v = "deliver"
  BY <1>5, <1>6
<1> HIDE DEF v
<1>8. ReminderVerdict(QuietEnd, row, p.fireAt) = IF v = "stale" THEN Lapse("overdue") ELSE Keep(v)
  BY <1>2, <1>3, <1>4 DEF ReminderVerdict, v
<1> QED BY <1>7, <1>8

(* Whatever the hours, leads and windows: what is armed rings from now on  *)
(* and before its event is over, and the scan that finds it then delivers  *)
(* it; the planner and the gate never disagree (reminders.go, due.go).     *)
THEOREM RingsAreDelivered == CasesSpec => []PlannedRingIsDelivered
<1>1. ASSUME CaseTypes PROVE PlannedRingIsDelivered
  <2> SUFFICES ASSUME NEW p \in CapturedAt(clock).plans \cup Owed({}, clock).plans
      PROVE  /\ clock <= p.fireAt /\ p.fireAt < End
             /\ VerdictOf(p, p.fireAt) = Keep("deliver")
    BY DEF PlannedRingIsDelivered
  <2>1. /\ p \in Plans(End, clock) /\ p.about = eventAt /\ p.dayOnly = DayOnly
        /\ InNight(QuietEnd, p.fireAt) => p.nightExempt
        /\ p.asked => isAsked
    BY <1>1, CasesLand DEF Land
  <2>2. /\ End = EndOf(eventAt, IsDateOnly(eventAt)) /\ eventAt \in Int /\ clock \in Int
        /\ End \in Int
    BY <1>1, EndIs DEF End, CaseTypes, IsDateOnly
  <2>3. p.fireAt \in Int /\ clock <= p.fireAt /\ p.fireAt < End
    BY <2>1, <2>2 DEF Plans
  <2>4. /\ p.dayOnly \in BOOLEAN /\ (p.dayOnly => IsDateOnly(eventAt))
        /\ p.asked /\ IsDateOnly(eventAt) => p.dayOnly
    BY <1>1, <2>1 DEF DayOnly, CaseTypes, IsDateOnly
  <2> DEFINE row == RowOf(p)
  <2>5. /\ row.fireAt = p.fireAt /\ row.about = p.about /\ row.rule = FALSE /\ row.current = eventAt
        /\ row.waiting = FALSE /\ row.asked = p.asked /\ row.dayOnly = p.dayOnly
        /\ row.nightExempt = p.nightExempt
    BY DEF RowOf
  <2> HIDE DEF row
  <2>6. ReminderVerdict(QuietEnd, row, p.fireAt) = Keep("deliver")
    BY <2>1, <2>2, <2>3, <2>4, <2>5, RingIsDelivered
  <2> QED BY <2>3, <2>6 DEF VerdictOf, row
<1> QED BY <1>1, CasesKeepTypes, PTL DEF CasesSpec

----------------------------------------------------------------------------
(* What is armed is not lost (ADR-0032): how an overdue row reads, which   *)
(* items ring, and what a plan then holds.                                 *)

LEMMA DaysFollow ==
    ASSUME NEW x \in Int, NEW y \in Int, x <= y
    PROVE  /\ DayOf(x) <= DayOf(y)
           /\ DayOf(x) = DayOf(y) => HourOf(x) <= HourOf(y)
<1>1. DayLen \in Nat \ {0}
  BY ClockAssumption
<1> DEFINE a == DayOf(x)
           b == DayOf(y)
           h == HourOf(x)
           k == HourOf(y)
<1>2. a \in Int /\ b \in Int /\ h \in 0 .. DayLen - 1 /\ k \in 0 .. DayLen - 1
      /\ x = a * DayLen + h /\ y = b * DayLen + k
  BY DayArith
<1> HIDE DEF a, b, h, k
<1>3. a <= b
  <2> SUFFICES ASSUME b + 1 <= a PROVE FALSE
    BY <1>2
  <2> DEFINE d == a - b - 1
  <2>1. d \in Nat
    BY <1>2
  <2>2. a = b + 1 + d
    BY <1>2
  <2> HIDE DEF d
  <2>3. a * DayLen = b * DayLen + DayLen + d * DayLen /\ d * DayLen \in Nat
    BY <1>1, <1>2, <2>1, <2>2
  <2>4. b * DayLen \in Int
    BY <1>1, <1>2
  <2> QED BY <1>1, <1>2, <2>3, <2>4
<1>4. a = b => h <= k
  <2> SUFFICES ASSUME a = b PROVE h <= k
    OBVIOUS
  <2>1. b * DayLen \in Int /\ a * DayLen = b * DayLen
    BY <1>1, <1>2
  <2> QED BY <1>1, <1>2, <2>1
<1> QED BY <1>3, <1>4 DEF a, b, h, k

(* A row overdue: its event is ahead, its instant more than the window     *)
(* behind, and the scan could speak.                                       *)
LEMMA OverdueIs ==
    ASSUME NEW at \in Int, NEW t \in Int, NEW p, p.fireAt \in Int, p.about = at,
           p.dayOnly \in BOOLEAN, p.dayOnly => IsDateOnly(at), p.asked /\ IsDateOnly(at) => p.dayOnly,
           NEW row, row.fireAt = p.fireAt, row.about = p.about, row.rule = FALSE, row.current = at,
           row.waiting = FALSE, row.asked = p.asked, row.dayOnly = p.dayOnly,
           row.nightExempt = p.nightExempt,
           ReminderVerdict(QuietEnd, row, t) = Lapse("overdue")
    PROVE  /\ t < EndOf(at, IsDateOnly(at))
           /\ p.fireAt + TriggerStaleness < t
           /\ p.nightExempt \/ ~InNight(QuietEnd, t)
<1>1. at # NoTime /\ TriggerStaleness \in Nat
  BY ClockAssumption
<1>2. ~Superseded(row)
  BY <1>1 DEF Superseded
<1>3. About(row) = at
  BY <1>1 DEF About
<1>4. Lapse("passed") # Lapse("overdue")
  BY DEF Lapse
<1>5. ~Passed(row, at, t)
  BY <1>1, <1>2, <1>3, <1>4 DEF ReminderVerdict
<1>6. t < EndOf(at, IsDateOnly(at))
  <2>1. DayGranular(row, at) <=> IsDateOnly(at)
    BY DEF DayGranular
  <2>2. NextMidnight(at) \in Int
    BY HourAt, PrefsAssumption
  <2> QED BY <1>5, <2>1, <2>2 DEF Passed, EndOf
<1> DEFINE v == IF row.nightExempt
                THEN Verdict(row.fireAt, row.fireAt, TriggerStaleness, t, FALSE)
                ELSE TriggerVerdict(QuietEnd, row.fireAt, t)
<1>7. v = "stale"
  <2>1. \A w : Keep(w) # Lapse("overdue")
    BY DEF Keep, Lapse
  <2>2. ReminderVerdict(QuietEnd, row, t) = IF v = "stale" THEN Lapse("overdue") ELSE Keep(v)
    BY <1>2, <1>3, <1>5 DEF ReminderVerdict
  <2> QED BY <2>1, <2>2
<1>8. \A from \in Int : \A deferred \in BOOLEAN :
         Verdict(p.fireAt, from, TriggerStaleness, t, deferred) = "stale"
            => ~deferred /\ t - from > TriggerStaleness
  BY <1>1 DEF Verdict
<1>9. CASE p.nightExempt
  <2>1. v = Verdict(p.fireAt, p.fireAt, TriggerStaleness, t, FALSE)
    BY <1>9
  <2> HIDE DEF v
  <2>2. t - p.fireAt > TriggerStaleness
    BY <1>7, <1>8, <2>1
  <2> QED BY <1>1, <1>6, <1>9, <2>2
<1>10. CASE ~p.nightExempt
  <2> DEFINE from == DeliverableFrom(QuietEnd, p.fireAt)
  <2>1. from \in Int /\ p.fireAt <= from
    <3>1. QuietEnd \in 0 .. DayLen - 1
      BY PrefsAssumption
    <3>2. CASE ~InNight(QuietEnd, p.fireAt)
      BY <3>2 DEF DeliverableFrom
    <3>3. CASE InNight(QuietEnd, p.fireAt)
      <4>1. p.fireAt = DayOf(p.fireAt) * DayLen + HourOf(p.fireAt) /\ DayOf(p.fireAt) * DayLen \in Int
        BY DayArith
      <4>2. HourOf(p.fireAt) < QuietEnd /\ HourOf(p.fireAt) \in 0 .. DayLen - 1
        BY <3>3, DayArith DEF InNight
      <4>3. from = DayOf(p.fireAt) * DayLen + QuietEnd
        BY <3>3 DEF DeliverableFrom, At
      <4> QED BY <3>1, <4>1, <4>2, <4>3
    <3> QED BY <3>2, <3>3
  <2>2. v = Verdict(p.fireAt, from, TriggerStaleness, t, InNight(QuietEnd, t))
    BY <1>10 DEF TriggerVerdict
  <2> HIDE DEF from, v
  <2>3. InNight(QuietEnd, t) \in BOOLEAN
    BY DEF InNight
  <2>4. ~InNight(QuietEnd, t) /\ t - from > TriggerStaleness
    BY <1>7, <1>8, <2>1, <2>2, <2>3
  <2> QED BY <1>1, <1>6, <2>1, <2>4
<1> QED BY <1>9, <1>10

(* Where one item rings, a plan does.                                      *)
LEMMA RingIsPlanned ==
    ASSUME NEW rings, DOMAIN rings \subseteq Nat, IsFiniteSet(DOMAIN rings), NEW leads, NEW at,
           NEW dayOnly, NEW i \in DOMAIN rings, rings[i].fate = "rings"
    PROVE  /\ \E j \in Opens(rings) : rings[j].fireAt = rings[i].fireAt
           /\ \E p \in Rung(rings, leads, at, dayOnly).plans : p.fireAt = rings[i].fireAt
<1> DEFINE S == {j \in DOMAIN rings : rings[j].fate = "rings" /\ rings[j].fireAt = rings[i].fireAt}
           R == {z \in S \X S : Earlier(z[1], z[2])}
<1>1. IsFiniteSet(S) /\ S # {} /\ S \subseteq Nat
  BY FS_Subset
<1>2. \A x, y \in S : << x, y >> \in R <=> Earlier(x, y)
  OBVIOUS
<1>3. R \subseteq S \X S
  OBVIOUS
<1>4. S \subseteq DOMAIN rings /\ \A j \in S : rings[j].fate = "rings" /\ rings[j].fireAt = rings[i].fireAt
  OBVIOUS
<1>5. \A j \in DOMAIN rings : rings[j].fate = "rings" /\ rings[j].fireAt = rings[i].fireAt => j \in S
  OBVIOUS
<1> HIDE DEF S, R
<1>6. \A x, y, z \in Nat : /\ ~Earlier(x, x)
                           /\ Earlier(x, y) /\ Earlier(y, z) => Earlier(x, z)
                           /\ x = y \/ Earlier(x, y) \/ Earlier(y, x)
  BY DEF Earlier, OnceAt
<1>7. StrictOrder(S, R)
  BY <1>1, <1>2, <1>3, <1>6 DEF StrictOrder
<1>8. PICK j \in S : Under(S, R, j) = {}
  BY <1>1, <1>7, ForemostExists
<1>9. \A k \in S : ~Earlier(k, j)
  BY <1>2, <1>8 DEF Under
<1>10. j \in Opens(rings) /\ rings[j].fireAt = rings[i].fireAt
  BY <1>4, <1>5, <1>9 DEF Opens
<1> DEFINE plan(k) == PlanOf(rings[k], {rings[m] : m \in Joined(rings, k)}, at, dayOnly)
<1>11. plan(j).fireAt = rings[j].fireAt
  BY DEF PlanOf, Plan
<1>12. Rung(rings, leads, at, dayOnly) = Armed({plan(k) : k \in Opens(rings)})
  BY <1>10 DEF Rung
<1> HIDE DEF plan
<1>13. plan(j) \in Rung(rings, leads, at, dayOnly).plans
  BY <1>10, <1>12 DEF Armed
<1> QED BY <1>10, <1>11, <1>13

(* An item nobody asked for that is ahead, when the scan can speak: it     *)
(* rings, or it is hushed, and then it was moved out of the night.         *)
LEMMA AheadRings ==
    ASSUME NEW it, NEW at \in Int, NEW told, NEW t \in Int, ~InNight(QuietEnd, t),
           it.at \in Int, t <= it.at, it.asked = FALSE, it.once = FALSE, it.own \in BOOLEAN
    PROVE  LET ring == RingOf(it, at, FALSE, told, t, {})
           IN  /\ ring.fate \in {"rings", "hushed"}
               /\ ring.fate = "hushed" => ToldOn(told, t) /\ InNight(QuietEnd, it.at)
<1> DEFINE ring == RingOf(it, at, FALSE, told, t, {})
           where == RingAt(it, FALSE, EndOf(at, FALSE), t)
           moved == DueAt(it.at, EndOf(at, FALSE))
<1>1. ring.fate = Fate(it, where, EndOf(at, FALSE) - t, at, told, t, {})
  BY DEF RingOf
<1>2. where.fireAt = IF moved >= t THEN moved ELSE t
  BY DEF RingAt, DeliverAt
<1>3. EndOf(at, FALSE) \in Int
  BY EndIs
<1>4. moved \in Int
  BY <1>3, DueAtLands
<1>5. ~InNight(QuietEnd, it.at) => moved = it.at
  BY DEF DueAt
<1>6. t # NoTime /\ moved # NoTime
  BY <1>4, ClockAssumption
<1> HIDE DEF ring, where, moved
<1>7. where.fireAt # NoTime
  BY <1>2, <1>6
<1>8. \A nominal, d : ~CoveredBy({}, at, nominal, d)
  BY DEF CoveredBy
<1>9. ring.fate = IF where.fireAt = t /\ it.at # t /\ ToldOn(told, t) THEN "hushed" ELSE "rings"
  BY <1>1, <1>7, <1>8 DEF Fate
<1>10. where.fireAt = t /\ it.at # t => InNight(QuietEnd, it.at)
  BY <1>2, <1>4, <1>5
<1> QED BY <1>9, <1>10 DEF ring

(* Some lead ahead of an event nobody asked about: something rings, or all *)
(* of it is hushed, on the day it was told.                                *)
LEMMA LeadsAheadRing ==
    ASSUME NEW ev \in Int, NEW told, NEW t \in Int, t < ev, ~InNight(QuietEnd, t),
           NEW leads, NEW by, LeadsBefore(leads, by), ~AskedIn(leads),
           NEW i \in DOMAIN leads, leads[i].at >= t
    PROVE  LET R == Reminders(ev, FALSE, leads, told, t, {})
           IN  \/ Arms(R)
               \/ R.why = "leads behind" /\ ToldOn(told, t) /\ InNight(QuietEnd, leads[i].at)
<1> DEFINE R == Reminders(ev, FALSE, leads, told, t, {})
           ahead == {j \in DOMAIN leads : leads[j].at >= t}
           items == RingItems(leads, t)
           rings == RingsOf(items, ev, FALSE, told, t, {})
<1>1. DOMAIN leads \subseteq Nat \ {0} /\ IsFiniteSet(DOMAIN leads)
      /\ \A j \in DOMAIN leads : /\ leads[j].at \in Int
                                 /\ leads[j].asked = FALSE /\ leads[j].own \in BOOLEAN
  BY DEF LeadsBefore, AskedIn
<1>2. items = [j \in ahead |-> [at |-> leads[j].at, asked |-> leads[j].asked, own |-> leads[j].own,
                                once |-> FALSE]]
  <2>1. \A j \in ahead : j # OnceAt
    BY <1>1 DEF OnceAt
  <2>2. ~(\E j \in DOMAIN leads \ ahead : leads[j].asked) /\ ahead # {}
    BY <1>1
  <2>3. items = [j \in ahead \cup {} |->
            IF j = OnceAt THEN [at |-> t, asked |-> FALSE, own |-> FALSE, once |-> TRUE]
            ELSE [at |-> leads[j].at, asked |-> leads[j].asked, own |-> leads[j].own,
                  once |-> FALSE]]
    BY <2>1, <2>2 DEF RingItems
  <2> HIDE DEF ahead, items
  <2> QED BY <2>1, <2>3
<1>3. R = Rung(rings, leads, ev, FALSE)
  <2>1. ~(EndOf(ev, FALSE) <= t)
    BY DEF EndOf
  <2> QED BY <2>1, Zenon DEF Reminders
<1>4. DOMAIN rings = ahead /\ \A j \in ahead : rings[j] = RingOf(items[j], ev, FALSE, told, t, {})
  BY <1>2 DEF RingsOf
<1>5. ASSUME NEW j \in ahead
      PROVE  /\ rings[j].fate \in {"rings", "hushed"}
             /\ rings[j].fate = "hushed" => ToldOn(told, t) /\ InNight(QuietEnd, leads[j].at)
  <2> DEFINE it == items[j]
  <2>1. it.at = leads[j].at /\ it.asked = FALSE /\ it.own \in BOOLEAN /\ it.once = FALSE
        /\ it.at \in Int /\ t <= it.at
    BY <1>1, <1>2
  <2>2. rings[j] = RingOf(it, ev, FALSE, told, t, {})
    BY <1>4
  <2> HIDE DEF it
  <2>3. LET ring == RingOf(it, ev, FALSE, told, t, {})
        IN  /\ ring.fate \in {"rings", "hushed"}
            /\ ring.fate = "hushed" => ToldOn(told, t) /\ InNight(QuietEnd, it.at)
    BY <2>1, AheadRings
  <2> QED BY <2>1, <2>2, <2>3
<1>6. ahead \subseteq Nat /\ IsFiniteSet(ahead) /\ i \in ahead
  BY <1>1, FS_Subset
<1> HIDE DEF items, rings, ahead, R
<1>7. ASSUME \E j \in ahead : rings[j].fate = "rings" PROVE Arms(R)
  <2>1. PICK j \in ahead : rings[j].fate = "rings"
    BY <1>7
  <2>2. \E p \in Rung(rings, leads, ev, FALSE).plans : p.fireAt = rings[j].fireAt
    BY <1>4, <1>6, <2>1, RingIsPlanned
  <2> QED BY <1>3, <2>2 DEF Arms
<1>8. ASSUME ~(\E j \in ahead : rings[j].fate = "rings")
      PROVE  R.why = "leads behind" /\ ToldOn(told, t) /\ InNight(QuietEnd, leads[i].at)
  <2>1. \A j \in ahead : rings[j].fate = "hushed"
    BY <1>5, <1>8
  <2>2. Opens(rings) = {}
    BY <1>4, <1>8 DEF Opens
  <2>3. R = Unrung(rings, leads)
    BY <1>3, <2>2 DEF Rung
  <2>4. "hushed" \in {rings[j].fate : j \in DOMAIN rings}
    BY <1>4, <1>6, <2>1
  <2>5. \A j \in DOMAIN leads : ~leads[j].asked
    BY <1>1
  <2>6. R = Refuse("leads behind")
    BY <2>3, <2>4, <2>5 DEF Unrung
  <2> QED BY <1>5, <1>6, <2>1, <2>6 DEF Refuse
<1> QED BY <1>7, <1>8 DEF R

(* The told day never takes the last lead ahead.                           *)
LEMMA NearestStays ==
    ASSUME NEW leads, NEW by, LeadsBefore(leads, by), ~AskedIn(leads), NEW at, NEW told,
           NEW t \in Int, NEW i \in DOMAIN leads, leads[i].at >= t
    PROVE  LET left == SkipToldDay(leads, at, told, t)
           IN  \E j \in DOMAIN left : left[j].at >= t
<1> DEFINE onTold == {k \in DOMAIN leads : /\ ~leads[k].asked /\ leads[k].at >= t
                                           /\ DayOf(leads[k].at) = DayOf(told)}
           others == DOMAIN leads \ onTold
           left == \E k \in others : leads[k].at >= t \/ leads[k].asked
           nearest == {k \in onTold : \A j \in onTold :
                         leads[j].at < leads[k].at \/ (leads[j].at = leads[k].at /\ k <= j)}
           kept == IF told = NoTime \/ DayOf(at) <= DayOf(told) THEN DOMAIN leads
                   ELSE IF left THEN others ELSE others \cup nearest
<1>1. SkipToldDay(leads, at, told, t) = [k \in kept |-> leads[k]]
  BY DEF SkipToldDay
<1>2. /\ DOMAIN leads \subseteq Nat /\ IsFiniteSet(DOMAIN leads)
      /\ \A k \in DOMAIN leads : leads[k].at \in Int /\ ~leads[k].asked
  BY DEF LeadsBefore, AskedIn
<1>3. onTold \subseteq DOMAIN leads /\ \A k \in onTold : leads[k].at >= t
  OBVIOUS
<1>4. i \in others \/ i \in onTold
  OBVIOUS
<1>5. onTold # {} => nearest # {}
  <2> SUFFICES ASSUME onTold # {} PROVE nearest # {}
    OBVIOUS
  <2> DEFINE R == {z \in onTold \X onTold :
                     \/ leads[z[1]].at > leads[z[2]].at
                     \/ leads[z[1]].at = leads[z[2]].at /\ z[1] < z[2]}
  <2>1. R \subseteq onTold \X onTold
    OBVIOUS
  <2>2. \A x, y \in onTold : << x, y >> \in R <=> \/ leads[x].at > leads[y].at
                                                  \/ leads[x].at = leads[y].at /\ x < y
    OBVIOUS
  <2>3. IsFiniteSet(onTold) /\ \A x \in onTold : x \in Nat /\ leads[x].at \in Int
    BY <1>2, <1>3, FS_Subset
  <2> HIDE DEF R, onTold
  <2>4. StrictOrder(onTold, R)
    BY <2>1, <2>2, <2>3 DEF StrictOrder
  <2>5. PICK x \in onTold : Under(onTold, R, x) = {}
    BY <2>3, <2>4, ForemostExists
  <2>6. ASSUME NEW j \in onTold
        PROVE  leads[j].at < leads[x].at \/ (leads[j].at = leads[x].at /\ x <= j)
    <3>1. << j, x >> \notin R
      BY <2>5 DEF Under
    <3> QED BY <2>2, <2>3, <3>1
  <2> QED BY <2>6
<1>6. nearest \subseteq onTold
  OBVIOUS
<1>7. left => \E k \in others : leads[k].at >= t
  BY <1>2
<1>8. others \subseteq DOMAIN leads
  OBVIOUS
<1>9. i \in others => left
  OBVIOUS
<1> HIDE DEF onTold, others, left, nearest
<1>10. \E j \in kept : leads[j].at >= t
  BY <1>3, <1>4, <1>5, <1>6, <1>7, <1>8, <1>9
<1> HIDE DEF kept
<1> QED BY <1>1, <1>10

LEMMA HourOfDay ==
    ASSUME NEW t \in Int, NEW h \in 0 .. DayLen - 1
    PROVE  DayOf(At(t, h)) = DayOf(t)
<1>1. DayLen \in Nat \ {0}
  BY ClockAssumption
<1>2. DayOf(t) \in Int
  BY DayArith
<1>3. \A k \in Int : (k * DayLen + h) \div DayLen = k
  BY <1>1
<1> QED BY <1>2, <1>3 DEF At, DayOf

(* An event with a lead ahead is planned again, or only its night is left. *)
LEMMA EventIsReplanned ==
    ASSUME NEW ev \in Int, NEW told, NEW t \in Int, ~InNight(QuietEnd, t),
           ~EveryLeadBehind(ev, t), QuietEnd <= DateOnlyAt
    PROVE  LET R == EventReminders(ev, told, t, {})
           IN  Arms(R) \/ R = Refuse("quiet hours")
<1> DEFINE instants == Instants(ev, IsDateOnly(ev))
           set == LeadSet(TRUE, FALSE, ev, FALSE)
           left == SkipToldDay(set, ev, told, t)
           planned == Reminders(ev, FALSE, left, told, t, {})
           ring == RingOnTheDay(ev)
           onDay == << [at |-> ring, asked |-> FALSE, own |-> TRUE] >>
           again == Reminders(ev, FALSE, onDay, told, t, {})
<1>1. IsDateOnly(ev) \in BOOLEAN
  BY DEF IsDateOnly
<1>2. /\ instants \in Seq(Int)
      /\ \A i \in DOMAIN instants : instants[i] \in Int /\ instants[i] < ev
  BY <1>1, InstantsBefore
<1>3. PICK i \in DOMAIN instants : ~(instants[i] < t)
  BY DEF EveryLeadBehind
<1>4. t < ev
  BY <1>2, <1>3
<1>5. set = [k \in DOMAIN instants |-> [at |-> instants[k], asked |-> FALSE, own |-> FALSE]]
  BY DEF LeadSet
<1>6. LeadsBefore(set, ev) /\ ~AskedIn(set)
  <2>1. EndOf(ev, FALSE) <= ev
    BY DEF EndOf
  <2> QED BY <2>1, LeadSetBefore
<1>7. LeadsBefore(left, ev) /\ ~AskedIn(left)
  BY <1>6, SkipToldDayBefore
<1>8. PICK j \in DOMAIN left : left[j].at >= t
  <2> HIDE DEF instants, set
  <2>1. i \in DOMAIN set /\ set[i] = [at |-> instants[i], asked |-> FALSE, own |-> FALSE]
    BY <1>3, <1>5
  <2>2. set[i].at >= t
    BY <1>2, <1>3, <2>1
  <2> QED BY <1>6, <2>1, <2>2, NearestStays
<1>9. left[j].at \in Int /\ left[j].at < ev
  BY <1>7 DEF LeadsBefore
<1>10. EventReminders(ev, told, t, {}) =
         IF planned.why # "leads behind" \/ ~ToldToday(ev, told, t) THEN planned
         ELSE IF ring = NoTime THEN Refuse("quiet hours") ELSE again
  BY DEF EventReminders, OrOnTheDay
<1> HIDE DEF left, set, instants
<1>11. \/ Arms(planned)
       \/ planned.why = "leads behind" /\ ToldOn(told, t) /\ InNight(QuietEnd, left[j].at)
  BY <1>4, <1>7, <1>8, LeadsAheadRing
<1>12. Arms(planned) => planned.why # "leads behind"
  <2>1. \A why : ~Arms(Refuse(why))
    BY DEF Arms, Refuse
  <2>2. \A ps : Armed(ps).why # "leads behind"
    BY DEF Armed
  <2>3. \A rings, leads : \E why : Unrung(rings, leads) = Refuse(why)
    BY DEF Unrung
  <2>4. \A rings, leads : \/ \E why : Rung(rings, leads, ev, FALSE) = Refuse(why)
                          \/ \E ps : Rung(rings, leads, ev, FALSE) = Armed(ps)
    BY <2>3 DEF Rung
  <2>5. \/ \E why : planned = Refuse(why)
        \/ \E ps : planned = Armed(ps)
    BY <2>4 DEF Reminders
  <2> HIDE DEF planned
  <2> QED BY <2>1, <2>2, <2>5
<1>13. CASE Arms(planned)
  BY <1>10, <1>12, <1>13
<1>14. CASE ToldOn(told, t) /\ InNight(QuietEnd, left[j].at) /\ planned.why = "leads behind"
  <2>1. DayOf(t) < DayOf(ev)
    <3>1. DayOf(t) \in Int /\ DayOf(left[j].at) \in Int /\ DayOf(ev) \in Int
          /\ HourOf(t) \in Int /\ HourOf(left[j].at) \in Int
      BY <1>9, DayArith
    <3>2. DayOf(t) <= DayOf(left[j].at) /\ DayOf(left[j].at) <= DayOf(ev)
      BY <1>8, <1>9, DaysFollow
    <3>3. DayOf(t) # DayOf(left[j].at)
      <4>1. QuietEnd \in Int
        BY PrefsAssumption
      <4>2. HourOf(left[j].at) < QuietEnd /\ ~(HourOf(t) < QuietEnd)
        BY <1>14 DEF InNight
      <4>3. DayOf(t) = DayOf(left[j].at) => HourOf(t) <= HourOf(left[j].at)
        BY <1>8, <1>9, DaysFollow
      <4> QED BY <3>1, <4>1, <4>2, <4>3
    <3> QED BY <3>1, <3>2, <3>3
  <2>2. ToldToday(ev, told, t)
    BY <1>14, <2>1 DEF ToldToday, ToldOn
  <2>3. CASE ring = NoTime
    BY <1>10, <1>14, <2>2, <2>3
  <2>4. CASE ring # NoTime
    <3>1. PICK h \in {DateOnlyAt, QuietEnd} : ring = At(ev, h)
      BY <2>4 DEF RingOnTheDay
    <3>2. h \in 0 .. DayLen - 1 /\ QuietEnd <= h /\ QuietEnd \in Int
      BY PrefsAssumption
    <3>3. ring \in Int /\ HourOf(ring) = h /\ DayOf(ring) = DayOf(ev)
      BY <3>1, <3>2, HourAt, HourOfDay
    <3>4. ~InNight(QuietEnd, ring)
      BY <3>2, <3>3 DEF InNight
    <3>5. ring >= t
      <4>1. DayOf(t) \in Int /\ DayOf(ev) \in Int
        BY DayArith
      <4>2. ring <= t => DayOf(ring) <= DayOf(t)
        BY <3>3, DaysFollow
      <4> QED BY <2>1, <3>3, <4>1, <4>2
    <3> DEFINE by == ring + 1
    <3> HIDE DEF ring
    <3>6. LeadsBefore(onDay, by) /\ ~AskedIn(onDay) /\ 1 \in DOMAIN onDay /\ onDay[1].at = ring
      <4>1. onDay \in Seq(Leads) /\ \A k \in DOMAIN onDay : onDay[k].at < by /\ ~onDay[k].asked
        BY <3>3 DEF Leads
      <4>2. 1 \in DOMAIN onDay /\ onDay[1].at = ring
        OBVIOUS
      <4> HIDE DEF onDay
      <4> QED BY <4>1, <4>2, LeadSeqBefore DEF AskedIn
    <3> HIDE DEF onDay, by
    <3>7. Arms(again)
      <4>1. onDay[1].at >= t /\ ~InNight(QuietEnd, onDay[1].at)
        BY <3>4, <3>5, <3>6
      <4> QED BY <1>4, <3>6, <4>1, LeadsAheadRing
    <3> QED BY <1>10, <1>14, <2>2, <2>4, <3>7 DEF ring
  <2> QED BY <2>3, <2>4
<1> QED BY <1>11, <1>13, <1>14

(* Plans that are armed are carried onto rows, or make rows of their own.  *)
LEMMA CarriesPlans ==
    ASSUME NEW plans, plans # {}, NEW at, NEW dayOnly, NEW by \in Int, NEW t \in Int,
           Land(plans, at, dayOnly, by, t)
    PROVE  CarryOnto(InOrder(plans), << >>, t).plans # << >>
<1> DEFINE listed == InOrder(plans)
<1>1. IsFiniteSet(plans) /\ OneAnInstant(plans) /\ plans \subseteq Plans(by, t)
  BY DEF Land
<1>2. \A p \in Plans(by, t) : p.fireAt \in Int
  BY DEF Plans
<1>3. /\ Cardinality(plans) \in Nat /\ listed \in Seq(plans) /\ Len(listed) = Cardinality(plans)
      /\ \A p \in plans : \E k \in 1 .. Cardinality(plans) : listed[k] = p
  BY <1>1, <1>2, InOrderLists
<1> HIDE DEF listed
<1>4. 1 \in DOMAIN listed
  BY <1>3
<1>5. DOMAIN CarryOnto(listed, << >>, t).plans = DOMAIN listed
  BY DEF CarryOnto, Settle
<1>6. DOMAIN << >> = {}
  OBVIOUS
<1> QED BY <1>4, <1>5, <1>6, Zenon DEF listed

(* What is planned of an event with a lead ahead is what following it does.*)
LEMMA EventIsFollowed ==
    ASSUME NEW ev \in Int, NEW told, NEW t \in Int, ~EveryLeadBehind(ev, t),
           LET R == EventReminders(ev, told, t, {}) IN Arms(R) \/ R = Refuse("quiet hours")
    PROVE  LET again == FollowSent(ev, << >>, {}, told, t)
           IN  again.plans # << >> \/ again.why = "quiet hours"
<1> DEFINE R == EventReminders(ev, told, t, {})
           listed == InOrder(R.plans)
           again == FollowSent(ev, << >>, {}, told, t)
           by == EndOf(ev, IsDateOnly(ev))
<1>1. again = IF ~Arms(R) THEN CarryNothing(R.why, << >>) ELSE CarryOnto(listed, << >>, t)
  BY DEF FollowSent, Onto
<1>2. Land(R.plans, ev, FALSE, by, t)
  BY EventRemindersLand
<1>3. Arms(R) \/ R = Refuse("quiet hours")
  OBVIOUS
<1>4. by \in Int
  BY EndIs DEF IsDateOnly
<1> HIDE DEF R, again, by
<1>5. CASE Arms(R)
  <2>1. CarryOnto(listed, << >>, t).plans # << >>
    BY <1>2, <1>4, <1>5, CarriesPlans DEF Arms
  <2> QED BY <1>1, <1>5, <2>1 DEF again
<1>6. CASE R = Refuse("quiet hours")
  <2>1. ~Arms(R) /\ R.why = "quiet hours"
    BY <1>6 DEF Arms, Refuse
  <2>2. CarryNothing("quiet hours", << >>).why = "quiet hours"
    BY DEF CarryNothing, Settle
  <2> QED BY <1>1, <2>1, <2>2 DEF again
<1> QED BY <1>3, <1>5, <1>6

(* An event whose leads are all behind, of which nothing went out, is owed *)
(* a catch-up, or only its night is left.                                  *)
LEMMA BehindIsOwed ==
    ASSUME NEW ev \in Int, NEW t \in Int, t < EndOf(ev, IsDateOnly(ev)), EveryLeadBehind(ev, t)
    PROVE  CatchUp(ev, << >>, {}, t).why # "not owed"
<1> DEFINE by == EndOf(ev, IsDateOnly(ev))
           R == CatchUp(ev, << >>, {}, t)
<1>1. by \in Int
  BY EndIs DEF IsDateOnly
<1>2. ~SpokenFor({}, ev)
  BY DEF SpokenFor
<1>3. \/ R = Refuse("quiet hours")
      \/ \E plans : R = Armed(plans)
  <2>1. ~(by <= t \/ << >> # << >> \/ ~EveryLeadBehind(ev, t) \/ SpokenFor({}, ev))
    BY <1>1, <1>2
  <2> QED BY <2>1 DEF CatchUp
<1>4. Refuse("quiet hours").why = "quiet hours" /\ \A plans : Armed(plans).why = "none"
  BY DEF Refuse, Armed
<1> HIDE DEF R
<1> QED BY <1>3, <1>4 DEF R

(* The instant the user asked for: among the leads, whatever the day it    *)
(* was told; an item, at its instant or at once; and where that rings.     *)
NamedAt(at, dayOnly) == IF dayOnly THEN At(at, DateOnlyAt) ELSE at - RemindMeLead

Named(leads, named) ==
    \E k \in DOMAIN leads : k # OnceAt /\ leads[k] = [at |-> named, asked |-> TRUE, own |-> FALSE]

AskedItem(it, named, t) ==
    IF named >= t THEN it = [at |-> named, asked |-> TRUE, own |-> FALSE, once |-> FALSE]
    ELSE it = [at |-> t, asked |-> TRUE, own |-> FALSE, once |-> TRUE]

RingsAsNamed(ring, named, t) ==
    /\ ring.fate = "rings" /\ ring.fireAt = Larger(named, t) /\ ring.asked = TRUE
    /\ named < t => ring.immediate = TRUE /\ ring.leads = {}

LEMMA NamedIsAmong ==
    ASSUME NEW at \in Int, NEW dayOnly \in BOOLEAN, NEW told, NEW t \in Int
    PROVE  Named(SkipToldDay(LeadSet(TRUE, TRUE, at, dayOnly), at, told, t), NamedAt(at, dayOnly))
<1> DEFINE instants == Instants(at, dayOnly)
           timed == [i \in DOMAIN instants |-> [at |-> instants[i], asked |-> FALSE, own |-> FALSE]]
           named == [at |-> NamedAt(at, dayOnly), asked |-> TRUE, own |-> FALSE]
           set == Append(timed, named)
           left == SkipToldDay(set, at, told, t)
           k == Len(instants) + 1
<1>1. LeadSet(TRUE, TRUE, at, dayOnly) = set
  BY DEF LeadSet, NamedAt
<1>2. instants \in Seq(Int)
  BY InstantsBefore
<1> HIDE DEF instants, named
<1>3. timed = [i \in 1 .. Len(instants) |-> [at |-> instants[i], asked |-> FALSE, own |-> FALSE]]
      /\ Len(instants) \in Nat
  BY <1>2
<1>4. timed \in Seq(Leads) /\ Len(timed) = Len(instants)
  <2>1. \A i \in 1 .. Len(instants) : instants[i] \in Int
    BY <1>2
  <2> HIDE DEF timed
  <2> QED BY <1>3, <2>1 DEF Leads
<1> HIDE DEF timed
<1>5. k \in DOMAIN set /\ set[k] = named /\ k # OnceAt
  BY <1>3, <1>4 DEF OnceAt
<1> HIDE DEF set, k
<1>6. named.asked
  BY DEF named
<1>7. k \in DOMAIN left /\ left[k] = set[k]
  <2> DEFINE onTold == {i \in DOMAIN set : /\ ~set[i].asked /\ set[i].at >= t
                                           /\ DayOf(set[i].at) = DayOf(told)}
             others == DOMAIN set \ onTold
             ahead == \E i \in others : set[i].at >= t \/ set[i].asked
             nearest == {i \in onTold : \A j \in onTold :
                           set[j].at < set[i].at \/ (set[j].at = set[i].at /\ i <= j)}
             kept == IF told = NoTime \/ DayOf(at) <= DayOf(told) THEN DOMAIN set
                     ELSE IF ahead THEN others ELSE others \cup nearest
  <2>1. left = [i \in kept |-> set[i]]
    BY DEF SkipToldDay
  <2>2. k \in others
    BY <1>5, <1>6
  <2>3. k \in kept
    BY <1>5, <2>2
  <2> HIDE DEF kept, left
  <2> QED BY <2>1, <2>3
<1> HIDE DEF left
<1>8. Named(left, NamedAt(at, dayOnly))
  BY <1>5, <1>7 DEF Named, named
<1> QED BY <1>1, <1>8 DEF left

LEMMA NamedItem ==
    ASSUME NEW leads, NEW named \in Int, Named(leads, named), NEW t \in Int
    PROVE  \E i \in DOMAIN RingItems(leads, t) : AskedItem(RingItems(leads, t)[i], named, t)
<1> DEFINE ahead == {i \in DOMAIN leads : leads[i].at >= t}
           behind == \E i \in DOMAIN leads \ ahead : leads[i].asked
           once == IF behind \/ ahead = {} THEN {OnceAt} ELSE {}
           items == RingItems(leads, t)
<1>1. items = [i \in ahead \cup once |->
            IF i = OnceAt THEN [at |-> t, asked |-> behind, own |-> FALSE, once |-> TRUE]
            ELSE [at |-> leads[i].at, asked |-> leads[i].asked, own |-> leads[i].own,
                  once |-> FALSE]]
  BY DEF RingItems
<1>2. PICK k \in DOMAIN leads :
         k # OnceAt /\ leads[k] = [at |-> named, asked |-> TRUE, own |-> FALSE]
  BY DEF Named
<1>3. CASE named >= t
  <2>1. k \in ahead
    BY <1>2, <1>3
  <2> HIDE DEF ahead, behind, once, items
  <2>2. /\ k \in DOMAIN items
        /\ items[k] = [at |-> named, asked |-> TRUE, own |-> FALSE, once |-> FALSE]
    <3>1. leads[k].at = named /\ leads[k].asked = TRUE /\ leads[k].own = FALSE
      BY <1>2
    <3>2. /\ k \in DOMAIN items
          /\ items[k] = [at |-> leads[k].at, asked |-> leads[k].asked, own |-> leads[k].own,
                         once |-> FALSE]
      BY <1>1, <1>2, <2>1
    <3> QED BY <3>1, <3>2
  <2>3. AskedItem(items[k], named, t)
    BY <1>3, <2>2 DEF AskedItem
  <2> QED BY <2>2, <2>3 DEF items
<1>4. CASE ~(named >= t)
  <2>1. behind = TRUE /\ OnceAt \in once
    BY <1>2, <1>4
  <2> HIDE DEF ahead, behind, once, items
  <2>2. /\ OnceAt \in DOMAIN items
        /\ items[OnceAt] = [at |-> t, asked |-> TRUE, own |-> FALSE, once |-> TRUE]
    BY <1>1, <2>1
  <2>3. AskedItem(items[OnceAt], named, t)
    BY <1>4, <2>2 DEF AskedItem
  <2> QED BY <2>2, <2>3 DEF items
<1> QED BY <1>3, <1>4, Zenon

LEMMA NamedItemRings ==
    ASSUME NEW it, NEW at \in Int, NEW dayOnly \in BOOLEAN, NEW told, NEW t \in Int,
           NEW named \in Int, AskedItem(it, named, t),
           EndOf(at, dayOnly) - t >= AtOnceMargin, dayOnly => ~InNight(QuietEnd, named)
    PROVE  RingsAsNamed(RingOf(it, at, dayOnly, told, t, {}), named, t)
<1> DEFINE ring == RingOf(it, at, dayOnly, told, t, {})
           end == EndOf(at, dayOnly)
           exempt == it.asked /\ (it.once \/ ~dayOnly)
           where == RingAt(it, exempt, end, t)
<1>1. /\ ring.fireAt = where.fireAt /\ ring.asked = it.asked
      /\ ring.fate = Fate(it, where, end - t, at, told, t, {})
      /\ ring.immediate = (where.fireAt = t /\ (it.once \/ it.at # t))
      /\ it.once => ring.leads = {}
  BY DEF RingOf
<1>2. /\ it.asked = TRUE /\ it.at \in Int /\ it.at >= t /\ it.at = Larger(named, t)
      /\ \/ named >= t /\ it.once = FALSE /\ it.at = named
         \/ named < t /\ it.once = TRUE /\ it.at = t
  <2>1. CASE named >= t
    <3>1. it = [at |-> named, asked |-> TRUE, own |-> FALSE, once |-> FALSE]
      BY <2>1 DEF AskedItem
    <3>2. it.asked = TRUE /\ it.at = named /\ it.once = FALSE
      BY <3>1
    <3>3. named = Larger(named, t)
      BY <2>1 DEF Larger
    <3> QED BY <2>1, <3>2, <3>3
  <2>2. CASE ~(named >= t)
    <3>1. it = [at |-> t, asked |-> TRUE, own |-> FALSE, once |-> TRUE]
      BY <2>2 DEF AskedItem
    <3>2. it.asked = TRUE /\ it.at = t /\ it.once = TRUE
      BY <3>1
    <3>3. t = Larger(named, t) /\ named < t
      BY <2>2 DEF Larger
    <3> QED BY <3>2, <3>3
  <2> QED BY <2>1, <2>2
<1>3. where.fireAt = it.at
  <2>1. CASE exempt
    BY <2>1 DEF RingAt
  <2>2. CASE ~exempt
    <3>1. ~InNight(QuietEnd, it.at) /\ it.at >= t
      BY <1>2, <2>2
    <3> QED BY <2>2, <3>1 DEF RingAt, DeliverAt, DueAt
  <2> QED BY <2>1, <2>2
<1>4. end \in Int /\ AtOnceMargin \in Nat
  BY EndIs, PrefsAssumption
<1>5. \A nominal, d : ~CoveredBy({}, at, nominal, d)
  BY DEF CoveredBy
<1>6. it.at # NoTime
  BY <1>2, ClockAssumption
<1>7. ~(end - t < AtOnceMargin)
  BY <1>4
<1> HIDE DEF ring, where, end
<1>8. ring.fate = "rings"
  BY <1>1, <1>2, <1>3, <1>5, <1>6, <1>7 DEF Fate
<1>9. ASSUME named < t PROVE ring.immediate = TRUE /\ ring.leads = {}
  <2>1. it.once = TRUE /\ it.at = t
    BY <1>2, <1>9
  <2>2. where.fireAt = t /\ it.once
    BY <1>3, <2>1
  <2>3. ring.immediate = TRUE
    BY <1>1, <2>2, Zenon
  <2> QED BY <1>1, <2>2, <2>3
<1> QED BY <1>1, <1>2, <1>3, <1>8, <1>9 DEF RingsAsNamed, ring

LEMMA NamedIs ==
    ASSUME NEW at \in Int, NEW dayOnly \in BOOLEAN, QuietEnd <= DateOnlyAt
    PROVE  /\ NamedAt(at, dayOnly) \in Int
           /\ dayOnly => ~InNight(QuietEnd, NamedAt(at, dayOnly))
<1>1. /\ At(at, DateOnlyAt) \in Int /\ HourOf(At(at, DateOnlyAt)) = DateOnlyAt
      /\ QuietEnd \in Int /\ DateOnlyAt \in Int /\ RemindMeLead \in Int
  <2>1. DateOnlyAt \in 0 .. DayLen - 1 /\ QuietEnd \in 0 .. DayLen - 1 /\ RemindMeLead \in Nat
    BY PrefsAssumption
  <2>2. At(at, DateOnlyAt) \in Int /\ HourOf(At(at, DateOnlyAt)) = DateOnlyAt
    BY <2>1, HourAt
  <2> QED BY <2>1, <2>2
<1>2. dayOnly => NamedAt(at, dayOnly) = At(at, DateOnlyAt)
  BY DEF NamedAt
<1>3. ~dayOnly => NamedAt(at, dayOnly) = at - RemindMeLead
  BY DEF NamedAt
<1>4. ~InNight(QuietEnd, At(at, DateOnlyAt))
  BY <1>1 DEF InNight
<1> QED BY <1>1, <1>2, <1>3, <1>4

(* What the user asked for rings no earlier than they named, whatever they *)
(* were told and when, as long as the margin is left.                      *)
LEMMA NamedRings ==
    ASSUME NEW at \in Int, NEW dayOnly \in BOOLEAN, NEW told, NEW t \in Int,
           t < EndOf(at, dayOnly), EndOf(at, dayOnly) - t >= AtOnceMargin,
           QuietEnd <= DateOnlyAt
    PROVE  \E p \in AskedReminders(at, TRUE, dayOnly, told, t, {}).plans :
              p.fireAt >= NamedAt(at, dayOnly)
<1> DEFINE by == EndOf(at, dayOnly)
           set == LeadSet(TRUE, TRUE, at, dayOnly)
           left == SkipToldDay(set, at, told, t)
           items == RingItems(left, t)
           rings == RingsOf(items, at, dayOnly, told, t, {})
           named == NamedAt(at, dayOnly)
           yes == TRUE
<1>1. by \in Int /\ by <= by /\ t < by /\ ~(by <= t)
  BY EndIs
<1>2. LeadsBefore(set, by)
  <2>1. yes \in BOOLEAN
    OBVIOUS
  <2> HIDE DEF yes
  <2>2. LeadsBefore(LeadSet(yes, yes, at, dayOnly), by)
    BY <1>1, <2>1, LeadSetBefore
  <2> QED BY <2>2 DEF yes
<1>3. LeadsBefore(left, by)
  BY <1>2, SkipToldDayBefore
<1>4. Named(left, named)
  BY NamedIsAmong
<1>5. named \in Int /\ (dayOnly => ~InNight(QuietEnd, named))
  BY NamedIs
<1>6. AskedReminders(at, TRUE, dayOnly, told, t, {}) = Rung(rings, left, at, dayOnly)
  BY <1>1 DEF AskedReminders, Reminders
<1> HIDE DEF set, left, named
<1>7. PICK i \in DOMAIN items : AskedItem(items[i], named, t)
  BY <1>4, <1>5, NamedItem
<1>8. DOMAIN items \subseteq Nat /\ IsFiniteSet(DOMAIN items)
  BY <1>1, <1>3, ItemsAhead
<1> HIDE DEF items
<1>9. DOMAIN rings = DOMAIN items /\ rings[i] = RingOf(items[i], at, dayOnly, told, t, {})
  BY DEF RingsOf
<1>10. RingsAsNamed(rings[i], named, t)
  BY <1>5, <1>7, <1>9, NamedItemRings
<1> HIDE DEF rings
<1>11. rings[i].fate = "rings" /\ rings[i].fireAt = Larger(named, t)
  BY <1>10 DEF RingsAsNamed
<1>12. \E p \in Rung(rings, left, at, dayOnly).plans : p.fireAt = rings[i].fireAt
  BY <1>8, <1>9, <1>11, RingIsPlanned
<1>13. Larger(named, t) >= named
  BY <1>5 DEF Larger
<1> QED BY <1>6, <1>11, <1>12, <1>13, Zenon DEF named

(* Of a day the user asked to be reminded of, its instant gone by unsent:  *)
(* one at-once reminder is all there is to plan, and it is owed.           *)
LEMMA AskedIsOwed ==
    ASSUME NEW at \in Int, NEW t \in Int, At(at, DateOnlyAt) < t, t < NextMidnight(at),
           NextMidnight(at) - t >= AtOnceMargin, QuietEnd <= DateOnlyAt
    PROVE  CatchUpAsked(at, TRUE, TRUE, << >>, {}, t).why # "not owed"
<1> DEFINE set == LeadSet(TRUE, TRUE, at, TRUE)
           left == SkipToldDay(set, at, NoTime, t)
           items == RingItems(left, t)
           rings == RingsOf(items, at, TRUE, NoTime, t, {})
           R == AskedReminders(at, TRUE, TRUE, NoTime, t, {})
           first == rings[OnceAt]
           plan == PlanOf(first, {first}, at, TRUE)
           named == At(at, DateOnlyAt)
           instant == At(at, DateOnlyAt) - DayLen
           fire == DeliverAt(t, EndOf(at, TRUE), t)
<1>1. named \in Int /\ instant \in Int /\ instant < t /\ named < t /\ ~(named >= t)
      /\ NextMidnight(at) \in Int /\ ~(NextMidnight(at) <= t)
  <2>1. DateOnlyAt \in 0 .. DayLen - 1 /\ DayLen \in Nat \ {0}
    BY PrefsAssumption, ClockAssumption
  <2>2. At(at, DateOnlyAt) \in Int /\ NextMidnight(at) \in Int
    BY <2>1, HourAt
  <2> QED BY <2>1, <2>2
<1>2. EndOf(at, TRUE) = NextMidnight(at)
  BY DEF EndOf
<1>3. Instants(at, TRUE) = << instant >>
  BY DEF Instants
<1> DEFINE timed == [k \in DOMAIN << instant >> |->
                       [at |-> << instant >>[k], asked |-> FALSE, own |-> FALSE]]
           last == [at |-> named, asked |-> TRUE, own |-> FALSE]
<1>4. set = Append(timed, last) /\ left = [k \in DOMAIN set |-> set[k]]
  <2>1. set = Append([k \in DOMAIN Instants(at, TRUE) |->
                        [at |-> Instants(at, TRUE)[k], asked |-> FALSE, own |-> FALSE]], last)
    BY DEF LeadSet
  <2>2. left = [k \in DOMAIN set |-> set[k]]
    BY DEF SkipToldDay
  <2> HIDE DEF left, set, instant, last
  <2> QED BY <1>3, <2>1, <2>2
<1> HIDE DEF named, instant, set, left
<1>5. /\ DOMAIN left = {1, 2} /\ left[1].at = instant /\ left[2].at = named
      /\ left[2].asked = TRUE
  <2> DEFINE item == [at |-> instant, asked |-> FALSE, own |-> FALSE]
  <2>1. timed = [k \in 1 .. 1 |-> item]
    <3>1. DOMAIN << instant >> = 1 .. 1 /\ \A k \in 1 .. 1 : << instant >>[k] = instant
      OBVIOUS
    <3> QED BY <3>1
  <2>2. item.at = instant /\ last.at = named /\ last.asked = TRUE
    OBVIOUS
  <2> HIDE DEF timed, last, item
  <2>3. timed \in Seq({item}) /\ Len(timed) = 1
    BY <2>1
  <2>4. DOMAIN Append(timed, last) = 1 .. 2
    BY <2>1, <2>3
  <2>5. Append(timed, last)[1] = item
    BY <2>1, <2>3
  <2>6. Append(timed, last)[2] = last
    BY <2>1, <2>3
  <2>7. 1 .. 2 = {1, 2}
    OBVIOUS
  <2> QED BY <1>4, <2>2, <2>4, <2>5, <2>6, <2>7
<1> HIDE DEF timed, last
<1>6. items = [k \in {OnceAt} |-> [at |-> t, asked |-> TRUE, own |-> FALSE, once |-> TRUE]]
  <2> DEFINE ahead == {k \in DOMAIN left : left[k].at >= t}
             behind == \E k \in DOMAIN left \ ahead : left[k].asked
             once == IF behind \/ ahead = {} THEN {OnceAt} ELSE {}
  <2>1. ahead = {}
    BY <1>1, <1>5
  <2>2. behind = TRUE
    BY <1>5, <2>1
  <2>3. items = [k \in ahead \cup once |->
            IF k = OnceAt THEN [at |-> t, asked |-> behind, own |-> FALSE, once |-> TRUE]
            ELSE [at |-> left[k].at, asked |-> left[k].asked, own |-> left[k].own,
                  once |-> FALSE]]
    BY DEF RingItems
  <2> HIDE DEF ahead, behind, items
  <2> QED BY <2>1, <2>2, <2>3
<1>7. AskedItem(items[OnceAt], named, t)
  BY <1>1, <1>6 DEF AskedItem
<1>8. R = Rung(rings, left, at, TRUE)
  <2>1. ~(EndOf(at, TRUE) <= t)
    BY <1>1, <1>2, Zenon
  <2> QED BY <2>1 DEF AskedReminders, Reminders, left, set
<1>9. DOMAIN rings = {OnceAt} /\ rings[OnceAt] = RingOf(items[OnceAt], at, TRUE, NoTime, t, {})
  BY <1>6 DEF RingsOf
<1> HIDE DEF items, rings, R
<1>10. RingsAsNamed(rings[OnceAt], named, t)
  <2> DEFINE yes == TRUE
  <2>1. yes \in BOOLEAN /\ EndOf(at, yes) - t >= AtOnceMargin
    BY <1>2
  <2>2. yes => ~InNight(QuietEnd, named)
    <3>1. HourOf(named) = DateOnlyAt /\ QuietEnd \in Int /\ DateOnlyAt \in Int
      BY HourAt, PrefsAssumption DEF named
    <3> QED BY <3>1 DEF InNight
  <2> HIDE DEF yes
  <2>3. RingsAsNamed(RingOf(items[OnceAt], at, yes, NoTime, t, {}), named, t)
    BY <1>1, <1>7, <2>1, <2>2, NamedItemRings
  <2> QED BY <1>9, <2>3 DEF yes
<1>11. first.fate = "rings" /\ first.asked = TRUE /\ first.immediate = TRUE /\ first.leads = {}
  BY <1>1, <1>10 DEF RingsAsNamed
<1>12. Opens(rings) = {OnceAt} /\ Joined(rings, OnceAt) = {OnceAt}
  <2>1. ~Earlier(OnceAt, OnceAt)
    BY DEF Earlier
  <2> QED BY <1>9, <1>11, <2>1 DEF Opens, Joined
<1>13. R.plans = {plan}
  <2> DEFINE planOf(k) == PlanOf(rings[k], {rings[j] : j \in Joined(rings, k)}, at, TRUE)
  <2>1. R = Armed({planOf(k) : k \in Opens(rings)})
    BY <1>8, <1>12 DEF Rung
  <2>2. {rings[j] : j \in Joined(rings, OnceAt)} = {first}
    BY <1>12
  <2>3. planOf(OnceAt) = plan
    BY <2>2
  <2> HIDE DEF planOf, plan
  <2>4. {planOf(k) : k \in Opens(rings)} = {plan}
    BY <1>12, <2>3
  <2>5. \A ps : Armed(ps).plans = ps
    BY DEF Armed
  <2> QED BY <2>1, <2>4, <2>5
<1>14. AtOnce(plan)
  <2> HIDE DEF first
  <2>1. UNION {r.leads : r \in {first}} = {}
    BY <1>11
  <2>2. \E r \in {first} : r.asked
    BY <1>11
  <2> QED BY <1>11, <2>1, <2>2 DEF PlanOf, Plan, AtOnce
<1> HIDE DEF plan, fire
<1>15. Cardinality(R.plans) = 1 /\ ~(\E p \in R.plans : ~AtOnce(p))
  BY <1>13, <1>14, FS_Singleton
<1>16. ~SpokenFor({}, at)
  BY DEF SpokenFor
<1>17. CatchUpAsked(at, TRUE, TRUE, << >>, {}, t) = RingAtOnce(R, at, TRUE, fire, t)
  BY <1>16 DEF CatchUpAsked, R, fire
<1>18. \/ RingAtOnce(R, at, TRUE, fire, t) = Refuse("quiet hours")
       \/ \E plans : RingAtOnce(R, at, TRUE, fire, t) = Armed(plans)
  BY <1>15 DEF RingAtOnce
<1>19. Refuse("quiet hours").why = "quiet hours" /\ \A plans : Armed(plans).why = "none"
  BY DEF Refuse, Armed
<1> QED BY <1>17, <1>18, <1>19

(* What a capture armed and the scan now finds overdue.                    *)
LEMMA OverdueCaptured ==
    ASSUME CaseTypes, NEW p \in CapturedAt(toldAt).plans, VerdictOf(p, clock) = Lapse("overdue")
    PROVE  /\ p.fireAt \in Int /\ clock < End /\ p.fireAt + TriggerStaleness < clock
           /\ ~isAsked => ~InNight(QuietEnd, clock)
<1>1. eventAt \in Int /\ toldAt \in Int /\ clock \in Int /\ isAsked \in BOOLEAN
  BY DEF CaseTypes
<1>2. DayOnly \in BOOLEAN /\ (DayOnly => IsDateOnly(eventAt)) /\ (isAsked /\ IsDateOnly(eventAt) => DayOnly)
      /\ (~isAsked => ~DayOnly)
  BY <1>1 DEF DayOnly, IsDateOnly
<1>3. End \in Int /\ End = EndOf(eventAt, IsDateOnly(eventAt))
  BY <1>1, EndIs DEF End, IsDateOnly
<1>4. /\ p \in Plans(End, toldAt) /\ p.about = eventAt /\ p.dayOnly = DayOnly
      /\ p.asked => isAsked
      /\ ~isAsked => ~p.nightExempt
  <2>1. CASE isAsked
    <3>1. End = EndOf(eventAt, DayOnly)
      BY <1>1, <1>2, <1>3, <2>1 DEF EndOf
    <3>2. p \in AskedReminders(eventAt, TRUE, DayOnly, toldAt, toldAt, {}).plans
      BY <2>1 DEF CapturedAt
    <3>3. Land(AskedReminders(eventAt, TRUE, DayOnly, toldAt, toldAt, {}).plans, eventAt, DayOnly,
               End, toldAt)
      BY <1>1, <1>2, <3>1, AskedRemindersLand
    <3> QED BY <2>1, <3>2, <3>3 DEF Land
  <2>2. CASE ~isAsked
    <3>1. p \in EventReminders(eventAt, toldAt, toldAt, {}).plans
      BY <2>2 DEF CapturedAt
    <3>2. /\ Land(EventReminders(eventAt, toldAt, toldAt, {}).plans, eventAt, FALSE, End, toldAt)
          /\ ~p.asked /\ ~p.nightExempt
      BY <1>1, <1>3, <3>1, EventRemindersLand
    <3>3. DayOnly = FALSE
      BY <1>2, <2>2
    <3> QED BY <3>1, <3>2, <3>3 DEF Land
  <2> QED BY <2>1, <2>2
<1>5. p.fireAt \in Int
  BY <1>1, <1>3, <1>4 DEF Plans
<1> DEFINE row == RowOf(p)
<1>6. /\ row.fireAt = p.fireAt /\ row.about = p.about /\ row.rule = FALSE /\ row.current = eventAt
      /\ row.waiting = FALSE /\ row.asked = p.asked /\ row.dayOnly = p.dayOnly
      /\ row.nightExempt = p.nightExempt
  BY DEF RowOf
<1>7. ReminderVerdict(QuietEnd, row, clock) = Lapse("overdue")
  BY DEF VerdictOf
<1> HIDE DEF row
<1>8. /\ p.dayOnly \in BOOLEAN /\ (p.dayOnly => IsDateOnly(eventAt))
      /\ p.asked /\ IsDateOnly(eventAt) => p.dayOnly
  BY <1>2, <1>4
<1>9. /\ clock < EndOf(eventAt, IsDateOnly(eventAt)) /\ p.fireAt + TriggerStaleness < clock
      /\ p.nightExempt \/ ~InNight(QuietEnd, clock)
  BY <1>1, <1>4, <1>5, <1>6, <1>7, <1>8, OverdueIs
<1> QED BY <1>3, <1>4, <1>5, <1>9

LEMMA EventIsNotLost ==
    ASSUME CaseTypes, ~isAsked, clock < End, ~InNight(QuietEnd, clock), QuietEnd <= DateOnlyAt
    PROVE  LET again == Followed(<< >>, {}, clock)
           IN  \/ again.plans # << >>
               \/ Owed({}, clock).why # "not owed"
               \/ again.why = "quiet hours"
<1>1. eventAt \in Int /\ clock \in Int
  BY DEF CaseTypes
<1>2. CASE EveryLeadBehind(eventAt, clock)
  <2>1. clock < EndOf(eventAt, IsDateOnly(eventAt))
    BY DEF End
  <2>2. CatchUp(eventAt, << >>, {}, clock).why # "not owed"
    BY <1>1, <1>2, <2>1, BehindIsOwed
  <2> QED BY <2>2 DEF Owed
<1>3. CASE ~EveryLeadBehind(eventAt, clock)
  <2>1. LET R == EventReminders(eventAt, toldAt, clock, {})
        IN  Arms(R) \/ R = Refuse("quiet hours")
    BY <1>1, <1>3, EventIsReplanned
  <2>2. LET again == FollowSent(eventAt, << >>, {}, toldAt, clock)
        IN  again.plans # << >> \/ again.why = "quiet hours"
    BY <1>1, <1>3, <2>1, EventIsFollowed
  <2>3. Followed(<< >>, {}, clock) = FollowSent(eventAt, << >>, {}, toldAt, clock)
    BY DEF Followed
  <2> QED BY <2>2, <2>3
<1> QED BY <1>2, <1>3

(* What the user asked for at a time cannot be overdue before it; what     *)
(* they asked for on a day is owed at once.                                *)
LEMMA AskedIsNotLost ==
    ASSUME CaseTypes, isAsked, toldAt <= clock, clock < End, End - clock >= AtOnceMargin,
           \A p \in CapturedAt(toldAt).plans :
               p.fireAt \in Int /\ p.fireAt + TriggerStaleness < clock,
           RemindMeLead <= TriggerStaleness, QuietEnd <= DateOnlyAt
    PROVE  Owed({}, clock).why # "not owed"
<1>1. eventAt \in Int /\ toldAt \in Int /\ clock \in Int
  BY DEF CaseTypes
<1>2. DayOnly \in BOOLEAN /\ End = EndOf(eventAt, DayOnly) /\ End \in Int
  BY <1>1, EndIs DEF DayOnly, End, EndOf, IsDateOnly
<1>3. TriggerStaleness \in Nat /\ RemindMeLead \in Nat /\ AtOnceMargin \in Nat
  BY ClockAssumption, PrefsAssumption
<1>4. toldAt < EndOf(eventAt, DayOnly) /\ EndOf(eventAt, DayOnly) - toldAt >= AtOnceMargin
  BY <1>1, <1>2, <1>3
<1>5. \E p \in AskedReminders(eventAt, TRUE, DayOnly, toldAt, toldAt, {}).plans :
         p.fireAt >= NamedAt(eventAt, DayOnly)
  BY <1>1, <1>2, <1>4, NamedRings
<1>6. CapturedAt(toldAt) = AskedReminders(eventAt, TRUE, DayOnly, toldAt, toldAt, {})
  BY DEF CapturedAt
<1>7. PICK p \in CapturedAt(toldAt).plans : p.fireAt >= NamedAt(eventAt, DayOnly)
  BY <1>5, <1>6
<1>8. p.fireAt \in Int /\ p.fireAt + TriggerStaleness < clock
  BY <1>7
<1>9. NamedAt(eventAt, DayOnly) \in Int
  BY <1>1, <1>2, NamedIs
<1>10. CASE ~DayOnly
  <2>1. End = eventAt /\ NamedAt(eventAt, DayOnly) = eventAt - RemindMeLead
    BY <1>2, <1>10 DEF EndOf, NamedAt
  <2>2. FALSE
    BY <1>1, <1>3, <1>7, <1>8, <2>1
  <2> QED BY <2>2
<1>11. CASE DayOnly
  <2>1. End = NextMidnight(eventAt) /\ NamedAt(eventAt, DayOnly) = At(eventAt, DateOnlyAt)
    BY <1>2, <1>11 DEF EndOf, NamedAt
  <2>2. At(eventAt, DateOnlyAt) < clock
    BY <1>1, <1>3, <1>7, <1>8, <1>9, <2>1
  <2>3. clock < NextMidnight(eventAt) /\ NextMidnight(eventAt) - clock >= AtOnceMargin
    BY <2>1
  <2>4. CatchUpAsked(eventAt, TRUE, TRUE, << >>, {}, clock).why # "not owed"
    BY <1>1, <2>2, <2>3, AskedIsOwed
  <2>5. DayOnly = TRUE
    BY <1>2, <1>11
  <2> QED BY <2>4, <2>5 DEF Owed
<1> QED BY <1>10, <1>11

CasesInv == CaseTypes /\ toldAt <= clock

(* ADR-0032, for any hours, leads and windows such that a reminder asked   *)
(* for at a time is still fresh at that time and a day's is out of the     *)
(* night, as the defaults are: whatever a capture armed, once all of it is *)
(* overdue unsent a scan owes the user a catch-up or plans again what is   *)
(* left, and only the night may silence it (catchup.go, follow.go).        *)
THEOREM NothingIsLostSilently ==
    ASSUME RemindMeLead <= TriggerStaleness, QuietEnd <= DateOnlyAt
    PROVE  CasesSpec => []NeverSilentlyLost
<1>1. ASSUME CasesInv PROVE NeverSilentlyLost
  <2>1. ASSUME Arms(CapturedAt(toldAt)), isAsked => End - clock >= AtOnceMargin,
               \A p \in CapturedAt(toldAt).plans : VerdictOf(p, clock) = Lapse("overdue")
        PROVE  LET again == Followed(<< >>, {}, clock)
               IN  \/ again.plans # << >>
                   \/ Owed({}, clock).why # "not owed"
                   \/ again.why = "quiet hours"
    <3>1. \A p \in CapturedAt(toldAt).plans :
             /\ p.fireAt \in Int /\ clock < End /\ p.fireAt + TriggerStaleness < clock
             /\ ~isAsked => ~InNight(QuietEnd, clock)
      BY <1>1, <2>1, OverdueCaptured DEF CasesInv
    <3>2. clock < End /\ (~isAsked => ~InNight(QuietEnd, clock))
      BY <2>1, <3>1 DEF Arms
    <3>3. CASE isAsked
      <4>1. Owed({}, clock).why # "not owed"
        BY <1>1, <2>1, <3>1, <3>2, <3>3, AskedIsNotLost DEF CasesInv
      <4> QED BY <4>1
    <3>4. CASE ~isAsked
      BY <1>1, <3>2, <3>4, EventIsNotLost DEF CasesInv
    <3> QED BY <3>3, <3>4
  <2> QED BY <2>1 DEF NeverSilentlyLost
<1>2. CasesInit => CasesInv
  BY CasesKeepTypes DEF CasesInit, CaseTypes, CasesInv
<1>3. CasesInv /\ [CasesNext]_caseVars => CasesInv'
  <2> SUFFICES ASSUME CasesInv, [CasesNext]_caseVars PROVE CasesInv'
    OBVIOUS
  <2>1. CaseTypes'
    BY CasesKeepTypes DEF CasesInv
  <2>2. toldAt' = toldAt /\ (clock' = clock \/ clock' = clock + 1)
    BY DEF CasesNext, CasesTick, caseVars
  <2> QED BY <2>1, <2>2 DEF CaseTypes, CasesInv
<1> QED BY <1>1, <1>2, <1>3, PTL DEF CasesSpec

----------------------------------------------------------------------------
(***************************************************************************)
(* Why a series always has one armed row.  A row of a series is a rule and *)
(* the others are not, in the table and in what the pass holds of it; what *)
(* is re-planned or corrected is never a series' row; and the one write    *)
(* that takes a series' row out of armed puts its successor there.         *)
(***************************************************************************)
BodyFits(b) ==
    /\ b.unit \in Units /\ b.fireAt \in Int /\ b.dayOnly \in BOOLEAN /\ b.rule \in BOOLEAN
    /\ b.rule <=> b.unit \in Series
    /\ b.rule => b.about = NoTime

RowsFit == DOMAIN body = Ids /\ \A i \in Ids : status[i] # "none" => BodyFits(body[i])

ArmedFor(u, i) == status[i] = "armed" /\ body[i].unit = u

Alive == \A u \in Series : \E i \in Ids : ArmedFor(u, i) /\ \A j \in Ids : ArmedFor(u, j) => j = i

(* A row the pass holds, and a write it or a correction is to make.        *)
Held(r) ==
    /\ r.id \in Ids /\ status[r.id] # "none" /\ BodyFits(r.body)
    /\ r.body.rule <=> body[r.id].rule
    /\ r.body.rule => r.body = body[r.id]

OneOff(r) == ~r.body.rule

SafeOp(op) ==
    /\ op.kind \in {"move", "expire", "arm", "catch-up"}
    /\ op.kind \in {"move", "expire"}
          => op.id \in Ids /\ status[op.id] # "none" /\ ~body[op.id].rule
    /\ op.kind # "expire" => op.plan.fireAt \in Int /\ op.plan.dayOnly \in BOOLEAN

SafeOps(s) == (\E X : s \in Seq(X)) /\ \A k \in 1 .. Len(s) : SafeOp(s[k])

(* A move that is u's: the row it names is of u, and keeps its own id.     *)
Aimed(op, u) == op.kind = "move" => body[op.id].unit = u /\ body[op.id].key = op.was.key

AimedOps(s, u) == \A k \in 1 .. Len(s) : Aimed(s[k], u)

Plain == Units \ Series

Table == RowsFit /\ Alive

PassRows ==
    /\ \A r \in due \cup stale \cup group : Held(r)
    /\ \A r \in stale : OneOff(r)
    /\ pc \in {"read", "apply"} => \A r \in group : OneOff(r)

PlansSafe ==
    /\ SafeOps(ops) /\ SafeOps(cops)
    /\ cpc # "idle" => cunit \in Plain
    /\ event \in [Units -> Times] /\ \A u \in Plain : event[u] \in Int
    /\ pc = "read" => planEvent \in Int

SeriesInv == Table /\ PassRows /\ PlansSafe

(* What every write of the table keeps of the rows it does not create.     *)
KeepsRows ==
    \A i \in Ids : status[i] # "none" =>
        /\ status'[i] # "none" /\ (body'[i].rule <=> body[i].rule)
        /\ body[i].rule => body'[i] = body[i]

LEMMA AliveIs == Alive => SeriesAlive
<1> SUFFICES ASSUME Alive, NEW u \in Series
             PROVE  Cardinality({i \in Ids : status[i] = "armed" /\ body[i].unit = u}) = 1
  BY DEF SeriesAlive
<1>1. PICK i \in Ids : ArmedFor(u, i) /\ \A j \in Ids : ArmedFor(u, j) => j = i
  BY DEF Alive
<1>2. {j \in Ids : status[j] = "armed" /\ body[j].unit = u} = {i}
  BY <1>1 DEF ArmedFor
<1> QED BY <1>2, FS_Singleton

LEMMA HeldStays ==
    ASSUME KeepsRows, kind' = kind, NEW r, Held(r)
    PROVE  Held(r)'
  BY DEF KeepsRows, Held, BodyFits, Series

LEMMA SafeStays ==
    ASSUME KeepsRows, NEW s, SafeOps(s)
    PROVE  SafeOps(s)'
  BY DEF KeepsRows, SafeOps, SafeOp

(* The five kinds of write.                                                *)
LEMMA TableFrame ==
    ASSUME Table, UNCHANGED << kind, status, body >>
    PROVE  Table' /\ KeepsRows
  BY DEF Table, RowsFit, Alive, ArmedFor, BodyFits, Series, KeepsRows

LEMMA DaysAreInts ==
    ASSUME NEW a \in Int, NEW t \in Int
    PROVE  Rearmed(a, t) \in Int
<1>1. DayLen \in Nat \ {0}
  BY ClockAssumption
<1>2. /\ HourOf(a) \in 0 .. DayLen - 1
      /\ \A h \in 0 .. DayLen - 1 : \A x \in Int : At(x, h) \in Int
  BY DayArith, HourAt
<1>3. \A h \in 0 .. DayLen - 1 : \A x \in Int : DailyAfter(h, x) \in Int
  BY <1>1, <1>2 DEF DailyAfter
<1>4. (IF a < At(t, 0) THEN At(t, 0) - 1 ELSE a) \in Int
  BY <1>1, <1>2
<1> QED BY <1>2, <1>3, <1>4 DEF Rearmed

LEMMA LeaveArmedKeeps ==
    ASSUME Table, Columns, kind' = kind, NEW r, Held(r), NEW to \in {"fired", "expired"},
           status[r.id] = "armed", LeaveArmed(r, to)
    PROVE  Table' /\ KeepsRows
<1>1. CASE ~r.body.rule
  <2>1. status' = [status EXCEPT ![r.id] = to] /\ body' = body
    BY <1>1 DEF LeaveArmed
  <2>2. r.id \in Ids /\ ~body[r.id].rule /\ BodyFits(body[r.id])
    BY <1>1 DEF Held, Table, RowsFit
  <2>3. body[r.id].unit \notin Series
    BY <2>2 DEF BodyFits
  <2>4. RowsFit'
    BY <2>1 DEF Table, RowsFit, Columns, BodyFits, Series
  <2>5. \A u \in Series : \A i \in Ids : ArmedFor(u, i)' <=> ArmedFor(u, i)
    BY <2>1, <2>3 DEF ArmedFor, Columns
  <2>6. Alive'
    BY <2>5 DEF Table, Alive, Series
  <2> QED BY <2>1, <2>4, <2>6 DEF Table, KeepsRows, Columns
<1>2. CASE r.body.rule
  <2>1. PICK n \in Ids, b \in {Successor(r)} :
            /\ status[n] = "none" /\ b = Successor(r)
            /\ status' = [status EXCEPT ![r.id] = to, ![n] = "armed"]
            /\ body' = [body EXCEPT ![n] = b]
    BY <1>2, FreshIsUnused DEF LeaveArmed
  <2>2. r.id \in Ids /\ n # r.id
    BY <2>1 DEF Held
  <2>3. r.body.unit \in Series /\ body[r.id].unit = r.body.unit /\ r.body.fireAt \in Int
    BY <1>2 DEF Held, BodyFits
  <2>4. now \in Int
    BY PassAssumption DEF Columns
  <2>5. BodyFits(b) /\ b.unit = r.body.unit
    <3>1. Rearmed(r.body.fireAt, now) \in Int
      BY <2>3, <2>4, DaysAreInts
    <3> QED BY <2>1, <2>3, <3>1 DEF Successor, SeriesBody, BodyFits, Series
  <2>6. \A i \in Ids : /\ status'[i] = IF i = n THEN "armed" ELSE IF i = r.id THEN to ELSE status[i]
                       /\ body'[i] = IF i = n THEN b ELSE body[i]
    BY <2>1, <2>2 DEF Columns, Table, RowsFit
  <2>7. RowsFit'
    BY <2>1, <2>2, <2>5, <2>6 DEF Table, RowsFit, BodyFits, Series
  <2>8. Alive'
    <3> SUFFICES ASSUME NEW u \in Series
                 PROVE  \E i \in Ids : ArmedFor(u, i)' /\ \A j \in Ids : ArmedFor(u, j)' => j = i
      BY DEF Alive, Series
    <3>1. PICK i \in Ids : ArmedFor(u, i) /\ \A j \in Ids : ArmedFor(u, j) => j = i
      BY DEF Table, Alive
    <3>2. CASE u = r.body.unit
      <4>1. i = r.id
        BY <2>2, <2>3, <3>1, <3>2 DEF ArmedFor
      <4>2. ArmedFor(u, n)' /\ \A j \in Ids : ArmedFor(u, j)' => j = n
        BY <2>2, <2>5, <2>6, <3>1, <3>2, <4>1 DEF ArmedFor
      <4> QED BY <2>2, <4>2
    <3>3. CASE u # r.body.unit
      <4>1. \A j \in Ids : ArmedFor(u, j)' <=> ArmedFor(u, j)
        BY <2>1, <2>2, <2>3, <2>5, <2>6, <3>3 DEF ArmedFor
      <4> QED BY <3>1, <4>1
    <3> QED BY <3>2, <3>3
  <2>9. KeepsRows
    BY <2>1, <2>2, <2>6 DEF KeepsRows
  <2> QED BY <2>7, <2>8, <2>9 DEF Table
<1> QED BY <1>1, <1>2

LEMMA ExpireKeeps ==
    ASSUME Table, Columns, kind' = kind, NEW i \in Ids, status[i] # "none",
           status[i] = "armed" => ~body[i].rule, ExpireRow(i)
    PROVE  Table' /\ KeepsRows
<1>1. status' = [status EXCEPT ![i] = "expired"] /\ body' = body
  BY DEF ExpireRow
<1>2. \A u \in Series : \A j \in Ids : ArmedFor(u, j)' <=> ArmedFor(u, j)
  BY <1>1 DEF ArmedFor, Columns, Table, RowsFit, BodyFits
<1>3. Alive'
  BY <1>2 DEF Table, Alive, Series
<1>4. KeepsRows
  BY <1>1 DEF KeepsRows, Columns
<1>5. \A j \in Ids : status'[j] # "none" => status[j] # "none"
  BY <1>1 DEF Columns
<1> QED BY <1>1, <1>3, <1>4, <1>5 DEF Table, RowsFit, BodyFits, Series

LEMMA CreateKeeps ==
    ASSUME Table, Columns, kind' = kind, NEW b, BodyFits(b), ~b.rule, Create(b)
    PROVE  Table' /\ KeepsRows
<1>1. PICK n \in Ids :
        /\ status[n] = "none" /\ status' = [status EXCEPT ![n] = "armed"]
        /\ body' = [body EXCEPT ![n] = b]
  BY FreshIsUnused DEF Create
<1>2. \A i \in Ids : /\ status'[i] = IF i = n THEN "armed" ELSE status[i]
                     /\ body'[i] = IF i = n THEN b ELSE body[i]
  BY <1>1 DEF Columns, Table, RowsFit
<1>3. RowsFit'
  BY <1>1, <1>2 DEF Table, RowsFit, BodyFits, Series
<1>4. \A u \in Series : \A j \in Ids : ArmedFor(u, j)' <=> ArmedFor(u, j)
  BY <1>1, <1>2 DEF ArmedFor, BodyFits
<1>5. Alive'
  BY <1>4 DEF Table, Alive, Series
<1>6. KeepsRows
  BY <1>1, <1>2 DEF KeepsRows
<1> QED BY <1>3, <1>5, <1>6 DEF Table

LEMMA RescheduleKeeps ==
    ASSUME Table, Columns, kind' = kind, NEW i \in Ids, status[i] # "none", ~body[i].rule,
           NEW b, BodyFits(b), ~b.rule, Reschedule(i, b)
    PROVE  Table' /\ KeepsRows
<1>1. body' = [body EXCEPT ![i] = b] /\ status' = status
  BY DEF Reschedule
<1>2. \A j \in Ids : body'[j] = IF j = i THEN b ELSE body[j]
  BY <1>1 DEF Table, RowsFit
<1>3. RowsFit'
  BY <1>1, <1>2 DEF Table, RowsFit, BodyFits, Series
<1>4. body[i].unit \notin Series /\ b.unit \notin Series
  BY DEF Table, RowsFit, BodyFits
<1>5. \A u \in Series : \A j \in Ids : ArmedFor(u, j)' <=> ArmedFor(u, j)
  BY <1>1, <1>2, <1>4 DEF ArmedFor
<1>6. Alive'
  BY <1>5 DEF Table, Alive, Series
<1>7. KeepsRows
  BY <1>1, <1>2 DEF KeepsRows
<1> QED BY <1>3, <1>6, <1>7 DEF Table

LEMMA ApplyKeeps ==
    ASSUME Table, Columns, kind' = kind, NEW op, SafeOp(op), NEW u \in Plain, Apply(op, u)
    PROVE  Table' /\ KeepsRows
<1>1. \A p, key : p.fireAt \in Int /\ p.dayOnly \in BOOLEAN
                  => BodyFits(BodyOf(u, p, key)) /\ ~BodyOf(u, p, key).rule
  BY DEF BodyFits, BodyOf, Plain
<1>2. CASE op.kind = "move" /\ Reschedule(op.id, BodyOf(u, op.plan, op.was.key))
  BY <1>1, <1>2, RescheduleKeeps DEF SafeOp
<1>3. CASE op.kind = "expire" /\ ExpireRow(op.id)
  BY <1>3, ExpireKeeps DEF SafeOp
<1>4. CASE op.kind = "arm" /\ Create(BodyOf(u, op.plan, NoKey))
  BY <1>1, <1>4, CreateKeeps DEF SafeOp
<1>5. CASE /\ op.kind = "catch-up"
           /\ Create(BodyOf(u, op.plan, << op.plan.about, Attempt(u, op.plan.about) >>))
  BY <1>1, <1>5, CreateKeeps DEF SafeOp
<1> QED BY <1>2, <1>3, <1>4, <1>5 DEF Apply

(* What following and catching up write: rows of the set they were given,  *)
(* and plans that name an instant.                                         *)
Planned ==
    [fireAt : Int, about : Int, immediate : BOOLEAN, lead : Int, leads : SUBSET Int,
     asked : BOOLEAN, dayOnly : BOOLEAN, nightExempt : BOOLEAN]

LiveRow(ids) == [id : ids, fireAt : Int]

Following(f, ids) ==
    /\ f.plans \in Seq(Planned)
    /\ f.carry \in [1 .. Len(f.plans) -> ids \cup {0}]
    /\ f.expire \in Seq(ids)

LEMMA SettleFollows ==
    ASSUME NEW why, NEW ids, NEW plans \in Seq(Planned), NEW live \in Seq(LiveRow(ids)),
           NEW n \in Nat, n <= Len(live)
    PROVE  Following(Settle(why, plans, live, n), ids)
<1> DEFINE f == Settle(why, plans, live, n)
<1>1. \A i \in 1 .. Len(live) : live[i].id \in ids
  <2>1. \A i \in 1 .. Len(live) : live[i] \in LiveRow(ids)
    OBVIOUS
  <2> QED BY <2>1 DEF LiveRow
<1>2. DOMAIN plans = 1 .. Len(plans)
  OBVIOUS
<1>3. \A i \in 1 .. Len(plans) : (IF i <= n THEN live[i].id ELSE 0) \in ids \cup {0}
  BY <1>1
<1>4. f.carry \in [1 .. Len(plans) -> ids \cup {0}]
  BY <1>2, <1>3 DEF Settle
<1>5. Len(live) - n \in Nat /\ \A k \in 1 .. Len(live) - n : live[n + k].id \in ids
  BY <1>1
<1>6. f.expire \in Seq(ids)
  BY <1>5 DEF Settle
<1>7. f.plans = plans
  BY DEF Settle
<1> QED BY <1>4, <1>6, <1>7 DEF Following

LEMMA CarryNothingFollows ==
    ASSUME NEW why, NEW ids, NEW live \in Seq(LiveRow(ids))
    PROVE  Following(CarryNothing(why, live), ids)
<1>1. << >> \in Seq(Planned) /\ 0 \in Nat /\ 0 <= Len(live)
  OBVIOUS
<1> QED BY <1>1, SettleFollows DEF CarryNothing

LEMMA CarryOntoFollows ==
    ASSUME NEW ids, NEW plans \in Seq(Planned), NEW live \in Seq(LiveRow(ids)), NEW t \in Int
    PROVE  Following(CarryOnto(plans, live, t), ids)
<1> DEFINE n == IF Len(plans) < Len(live) THEN Len(plans) ELSE Len(live)
           kept(i) == IF i <= n /\ plans[i].immediate /\ live[i].fireAt <= t
                      THEN [plans[i] EXCEPT !.fireAt = live[i].fireAt] ELSE plans[i]
           carried == [i \in DOMAIN plans |-> kept(i)]
<1>1. n \in Nat /\ n <= Len(live)
  OBVIOUS
<1>2. \A p \in Planned : \A at \in Int : [p EXCEPT !.fireAt = at] \in Planned
  BY DEF Planned
<1>3. \A i \in 1 .. Len(live) : live[i].fireAt \in Int
  <2>1. \A i \in 1 .. Len(live) : live[i] \in LiveRow(ids)
    OBVIOUS
  <2> QED BY <2>1 DEF LiveRow
<1>4. \A i \in 1 .. Len(plans) : plans[i] \in Planned
  OBVIOUS
<1>5. \A i \in 1 .. Len(plans) : kept(i) \in Planned
  BY <1>1, <1>2, <1>3, <1>4
<1>6. DOMAIN plans = 1 .. Len(plans) /\ Len(plans) \in Nat
  OBVIOUS
<1> HIDE DEF kept, n
<1>7. carried \in Seq(Planned)
  BY <1>5, <1>6
<1>8. CarryOnto(plans, live, t) = Settle("none", carried, live, n)
  BY DEF CarryOnto, kept, n
<1> HIDE DEF carried
<1> QED BY <1>1, <1>7, <1>8, SettleFollows

(* A set of plans that land is listed as plans.                            *)
LEMMA PlansAreListed ==
    ASSUME NEW plans, NEW at, NEW dayOnly, NEW by \in Int, NEW t \in Int,
           Land(plans, at, dayOnly, by, t), NEW some \in SUBSET plans
    PROVE  InOrder(some) \in Seq(Planned)
<1>1. IsFiniteSet(some)
  BY FS_Subset DEF Land
<1>2. Plans(by, t) \subseteq Planned
  BY DEF Plans, Planned
<1>3. some \subseteq Planned
  BY <1>2 DEF Land
<1>4. \A p \in some : p.fireAt \in Int
  BY <1>3 DEF Planned
<1>5. OneAnInstant(some)
  BY DEF Land, OneAnInstant
<1>6. InOrder(some) \in Seq(some)
  BY <1>1, <1>4, <1>5, InOrderLists
<1> QED BY <1>3, <1>6

LEMMA FollowSentFollows ==
    ASSUME NEW ev \in Int, NEW ids, NEW live \in Seq(LiveRow(ids)), NEW sent, NEW told,
           NEW t \in Int
    PROVE  Following(FollowSent(ev, live, sent, told, t), ids)
<1> DEFINE r == EventReminders(ev, told, t, sent)
           now1 == Plan(t, ev, TRUE, 0, {}, FALSE, FALSE, FALSE)
<1>1. IsDateOnly(ev) \in BOOLEAN
  BY DEF IsDateOnly
<1>2. EndOf(ev, IsDateOnly(ev)) \in Int
  BY <1>1, EndIs
<1>3. Land(r.plans, ev, FALSE, EndOf(ev, IsDateOnly(ev)), t)
  BY EventRemindersLand
<1> HIDE DEF r
<1>4. InOrder(r.plans) \in Seq(Planned)
  BY <1>2, <1>3, PlansAreListed
<1>5. now1 \in Planned
  BY DEF Plan, Planned
<1> HIDE DEF now1
<1>6. << now1 >> \in Seq(Planned)
  BY <1>5
<1>7. \/ Onto(r, ev, live, told, t) = CarryOnto(<< now1 >>, live, t)
      \/ Onto(r, ev, live, told, t) = CarryNothing(r.why, live)
      \/ Onto(r, ev, live, told, t) = CarryOnto(InOrder(r.plans), live, t)
  BY Zenon DEF Onto, now1
<1>8. Following(Onto(r, ev, live, told, t), ids)
  BY <1>4, <1>6, <1>7, CarryOntoFollows, CarryNothingFollows
<1> QED BY <1>8 DEF FollowSent, r

LEMMA FollowAskedFollows ==
    ASSUME NEW at \in Int, NEW dayOnly \in BOOLEAN, NEW ids, NEW live \in Seq(LiveRow(ids)),
           NEW sent, NEW told, NEW t \in Int
    PROVE  Following(FollowAsked(at, TRUE, dayOnly, live, sent, told, t), ids)
<1> DEFINE r == AskedReminders(at, TRUE, dayOnly, told, t, sent)
           ahead == {p \in r.plans : ~AtOnce(p)}
<1>1. EndOf(at, dayOnly) \in Int
  BY EndIs
<1>2. Land(r.plans, at, dayOnly, EndOf(at, dayOnly), t)
  BY AskedRemindersLand
<1> HIDE DEF r
<1>3. ahead \in SUBSET r.plans
  OBVIOUS
<1>4. InOrder(ahead) \in Seq(Planned)
  BY <1>1, <1>2, <1>3, PlansAreListed
<1>5. \/ OntoAhead(r, live, t) = CarryNothing(r.why, live)
      \/ OntoAhead(r, live, t) = CarryOnto(InOrder(ahead), live, t)
  BY Zenon DEF OntoAhead
<1>6. Following(OntoAhead(r, live, t), ids)
  BY <1>4, <1>5, CarryOntoFollows, CarryNothingFollows
<1> QED BY <1>6 DEF FollowAsked, r

(* The live rows, read of a finite table, are listed by (fire_at, id).     *)
LEMMA LiveSetLists ==
    ASSUME NEW rows, IsFiniteSet(rows), OneEach(rows),
           \A r \in rows : r.id \in Nat /\ r.body.fireAt \in Int
    PROVE  LiveSet(rows) \in Seq(LiveRow(IdsOf(rows)))
<1> DEFINE R == {z \in rows \X rows : Before(z[1], z[2])}
           rank == [r \in rows |-> Cardinality({s \in rows : Before(s, r)})]
           listed == Ranked(rows, rank)
           n == Cardinality(rows)
<1>1. StrictOrder(rows, R)
  <2>1. \A x \in rows : ~Before(x, x)
    BY DEF Before
  <2>2. \A x, y, z \in rows : Before(x, y) /\ Before(y, z) => Before(x, z)
    BY DEF Before
  <2>3. \A x, y \in rows : x = y \/ Before(x, y) \/ Before(y, x)
    <3>1. \A x, y \in rows : x.id = y.id => x = y
      BY DEF OneEach
    <3> QED BY <3>1 DEF Before
  <2> HIDE DEF R
  <2>4. \A x, y \in rows : << x, y >> \in R <=> Before(x, y)
    BY DEF R
  <2>5. R \subseteq rows \X rows
    BY DEF R
  <2> QED BY <2>1, <2>2, <2>3, <2>4, <2>5 DEF StrictOrder
<1>2. \A x \in rows : Under(rows, R, x) = {s \in rows : Before(s, x)}
  BY DEF Under
<1>3. \A x \in rows : Cardinality({s \in rows : Before(s, x)}) \in Nat
  BY FS_Subset, FS_CardinalityType
<1>4. rank \in [rows -> Nat]
  BY <1>3
<1>5. \A x \in rows : rank[x] = Cardinality(Under(rows, R, x))
  BY <1>2
<1> HIDE DEF R, rank
<1>6. /\ n \in Nat /\ DOMAIN listed = 1 .. n
      /\ \A k \in 1 .. n : listed[k] \in rows
  <2>1. RanksBy(rows, R, rank)
    BY <1>4, <1>5 DEF RanksBy
  <2>2. Picks(rows, rank, listed)
    BY <1>1, <2>1, RankedPicks
  <2> QED BY <2>2 DEF Picks
<1> HIDE DEF listed, n
<1>7. \A k \in 1 .. n : [id |-> listed[k].id, fireAt |-> listed[k].body.fireAt]
                            \in LiveRow(IdsOf(rows))
  BY <1>6 DEF LiveRow, IdsOf
<1>8. LiveSet(rows) = [k \in 1 .. n |-> [id |-> listed[k].id, fireAt |-> listed[k].body.fireAt]]
  BY <1>6, Zenon DEF LiveSet, listed, rank
<1> QED BY <1>6, <1>7, <1>8

LEMMA OpsAreSafe ==
    ASSUME NEW ids \in SUBSET Ids, \A i \in ids : status[i] # "none" /\ ~body[i].rule,
           NEW f, Following(f, ids)
    PROVE  /\ SafeOps(OpsOf(f))
           /\ \A u : (\A i \in ids : body[i].unit = u) => AimedOps(OpsOf(f), u)
<1> DEFINE X == {Op("move", i, p, body[i]) : i \in ids, p \in Planned}
                \cup {Op("arm", 0, p, NoBody) : p \in Planned}
                \cup {Op("expire", i, NoPlan, body[i]) : i \in ids}
           first == [i \in DOMAIN f.plans |->
                        IF f.carry[i] # 0 THEN Op("move", f.carry[i], f.plans[i], body[f.carry[i]])
                        ELSE Op("arm", 0, f.plans[i], NoBody)]
           last == [i \in DOMAIN f.expire |-> Op("expire", f.expire[i], NoPlan, body[f.expire[i]])]
<1>0. /\ \A i \in ids, p \in Planned : Op("move", i, p, body[i]) \in X
      /\ \A p \in Planned : Op("arm", 0, p, NoBody) \in X
      /\ \A i \in ids : Op("expire", i, NoPlan, body[i]) \in X
  OBVIOUS
<1>1. \A op \in X : \/ \E i \in ids, p \in Planned : op = Op("move", i, p, body[i])
                    \/ \E p \in Planned : op = Op("arm", 0, p, NoBody)
                    \/ \E i \in ids : op = Op("expire", i, NoPlan, body[i])
  OBVIOUS
<1> HIDE DEF X
<1>2. first \in Seq(X)
  <2>1. DOMAIN f.plans = 1 .. Len(f.plans) /\ Len(f.plans) \in Nat
    BY DEF Following
  <2>2. \A i \in 1 .. Len(f.plans) : f.plans[i] \in Planned /\ f.carry[i] \in ids \cup {0}
    BY DEF Following
  <2>3. \A i \in 1 .. Len(f.plans) :
          (IF f.carry[i] # 0 THEN Op("move", f.carry[i], f.plans[i], body[f.carry[i]])
           ELSE Op("arm", 0, f.plans[i], NoBody)) \in X
    BY <1>0, <2>2
  <2> QED BY <2>1, <2>3
<1>3. last \in Seq(X)
  <2>1. DOMAIN f.expire = 1 .. Len(f.expire) /\ Len(f.expire) \in Nat
    BY DEF Following
  <2>2. \A i \in 1 .. Len(f.expire) : f.expire[i] \in ids
    BY DEF Following
  <2>3. \A i \in 1 .. Len(f.expire) : Op("expire", f.expire[i], NoPlan, body[f.expire[i]]) \in X
    BY <1>0, <2>2
  <2> QED BY <2>1, <2>3
<1>4. \A op \in X : SafeOp(op)
  <2>1. \A p \in Planned : p.fireAt \in Int /\ p.dayOnly \in BOOLEAN
    BY DEF Planned
  <2>2. \A i \in ids, p \in Planned : SafeOp(Op("move", i, p, body[i]))
    BY <2>1 DEF SafeOp, Op
  <2>3. \A p \in Planned : SafeOp(Op("arm", 0, p, NoBody))
    BY <2>1 DEF SafeOp, Op
  <2>4. \A i \in ids : SafeOp(Op("expire", i, NoPlan, body[i]))
    BY DEF SafeOp, Op
  <2> QED BY <1>1, <2>2, <2>3, <2>4
<1>b. ASSUME NEW u, \A i \in ids : body[i].unit = u, NEW op \in X
      PROVE  Aimed(op, u)
  <2>1. \A i \in ids, p \in Planned : Aimed(Op("move", i, p, body[i]), u)
    BY <1>b DEF Aimed, Op
  <2>2. \A p \in Planned : Aimed(Op("arm", 0, p, NoBody), u)
    BY DEF Aimed, Op
  <2>3. \A i \in ids : Aimed(Op("expire", i, NoPlan, body[i]), u)
    BY DEF Aimed, Op
  <2> QED BY <1>1, <1>b, <2>1, <2>2, <2>3
<1>5. OpsOf(f) = first \o last
  BY DEF OpsOf
<1> HIDE DEF first, last
<1>a. first \o last \in Seq(X)
  BY <1>2, <1>3
<1>6. PICK s : s = OpsOf(f) /\ s \in Seq(X)
  BY <1>5, <1>a
<1>7. \A k \in 1 .. Len(s) : s[k] \in X
  BY <1>6
<1>8. SafeOps(s)
  BY <1>4, <1>6, <1>7 DEF SafeOps
<1>9. \A u : (\A i \in ids : body[i].unit = u) => AimedOps(s, u)
  BY <1>b, <1>7 DEF AimedOps
<1> QED BY <1>6, <1>8, <1>9

LEMMA OneOpIsSafe ==
    ASSUME NEW op, SafeOp(op)
    PROVE  SafeOps(<< op >>) /\ \A u : Aimed(op, u) => AimedOps(<< op >>, u)
<1>1. << op >> \in Seq({op})
  OBVIOUS
<1>2. \A k \in 1 .. Len(<< op >>) : << op >>[k] = op
  OBVIOUS
<1>3. \E X : << op >> \in Seq(X)
  BY <1>1, Zenon
<1>4. SafeOps(<< op >>)
  BY <1>2, <1>3, Zenon DEF SafeOps
<1>5. \A u : Aimed(op, u) => AimedOps(<< op >>, u)
  BY <1>2, Zenon DEF AimedOps
<1> QED BY <1>4, <1>5

LEMMA NoOpsAreSafe == SafeOps(<< >>) /\ \A u : AimedOps(<< >>, u)
  BY DEF SafeOps, AimedOps

LEMMA TailIsSafe ==
    ASSUME NEW s, SafeOps(s), s # << >>
    PROVE  /\ SafeOp(Head(s)) /\ SafeOps(Tail(s))
           /\ \A u : AimedOps(s, u) => Aimed(Head(s), u) /\ AimedOps(Tail(s), u)
<1>1. PICK X : s \in Seq(X)
  BY DEF SafeOps
<1>2. /\ Tail(s) \in Seq(X) /\ Len(Tail(s)) = Len(s) - 1 /\ Len(s) \in Nat /\ Len(s) > 0
      /\ Head(s) = s[1] /\ \A k \in 1 .. Len(s) - 1 : Tail(s)[k] = s[k + 1]
  BY <1>1
<1>3. \A k \in 1 .. Len(Tail(s)) : k + 1 \in 1 .. Len(s) /\ Tail(s)[k] = s[k + 1]
  BY <1>2
<1>4. 1 \in 1 .. Len(s)
  BY <1>2
<1>5. SafeOp(Head(s)) /\ SafeOps(Tail(s))
  BY <1>2, <1>3, <1>4 DEF SafeOps
<1>6. \A u : AimedOps(s, u) => Aimed(Head(s), u) /\ AimedOps(Tail(s), u)
  BY <1>2, <1>3, <1>4 DEF AimedOps
<1> QED BY <1>5, <1>6

(* The rows a read of the table gives.                                     *)
LEMMA ReadRowHeld ==
    ASSUME RowsFit, NEW i \in Ids, status[i] # "none"
    PROVE  Held(Row(i))
<1>1. Row(i).id = i /\ Row(i).body = body[i]
  BY DEF Row
<1> QED BY <1>1 DEF RowsFit, Held

LEMMA ReadRowsListed ==
    ASSUME RowsFit, NEW S \in SUBSET Ids, \A i \in S : status[i] # "none"
    PROVE  LiveSet({Row(i) : i \in S}) \in Seq(LiveRow(S))
<1> DEFINE rows == {Row(i) : i \in S}
<1>1. IsFiniteSet(rows)
  <2>1. IsFiniteSet(S)
    BY PassAssumption, FS_Subset
  <2> DEFINE g == [i \in S |-> Row(i)]
  <2>2. g \in Surjection(S, rows)
    BY DEF Surjection
  <2> QED BY <2>1, <2>2, FS_Surjection
<1>2. IdsOf(rows) = S /\ OneEach(rows)
  <2>1. \A i \in S : Row(i).id = i
    BY DEF Row
  <2> QED BY <2>1, RowsAreOneEach DEF IdsOf
<1>3. \A r \in rows : r.id \in Nat /\ r.body.fireAt \in Int
  <2>1. \A i \in S : Row(i).id = i /\ Row(i).body = body[i]
    BY DEF Row
  <2>2. \A i \in S : body[i].fireAt \in Int /\ i \in Nat
    BY PassAssumption DEF RowsFit, BodyFits
  <2> QED BY <2>1, <2>2
<1> HIDE DEF rows
<1>4. LiveSet(rows) \in Seq(LiveRow(IdsOf(rows)))
  BY <1>1, <1>2, <1>3, LiveSetLists
<1> QED BY <1>2, <1>4 DEF rows

(* A series' row that waits is delivered or has passed, and is never       *)
(* re-planned.                                                             *)
LEMMA WaitingIsNotReplanned ==
    ASSUME NEW b, b.rule, b.about = NoTime, NEW current
    PROVE  ~ToReplan(Judge(b, TRUE, current))
<1> DEFINE r == Reminder0(b, TRUE, current)
<1>1. r.about = NoTime /\ r.rule = b.rule /\ r.waiting = b.rule
  BY DEF Reminder0
<1> HIDE DEF r
<1>2. ~Superseded(r)
  BY <1>1 DEF Superseded, NamesEvent
<1>3. ReminderVerdict(QuietEnd, r, now) \in {Lapse("passed"), Keep("deliver")}
  BY <1>1, <1>2, Zenon DEF ReminderVerdict
<1>4. ~ToReplan(Lapse("passed")) /\ ~ToReplan(Keep("deliver"))
  BY DEF ToReplan, Lapse, Keep
<1> QED BY <1>3, <1>4 DEF Judge, r

(* Four steps write rows of the table.                                     *)
LEMMA OnlyFourWrite ==
    ASSUME [Next]_vars, ~WriteVerdict, ~ApplyPlan, ~Retire, ~CorrectReminder
    PROVE  UNCHANGED << status, body >>
<1>1. CASE UNCHANGED vars
  BY <1>1 DEF vars, dbVars
<1>2. CASE BeginPass \/ JudgeDue \/ ScanDone \/ Sift \/ SiftDone \/ ReadUnit
  BY <1>2 DEF BeginPass, JudgeDue, ScanDone, Sift, SiftDone, ReadUnit, dbVars
<1>3. CASE DecidePlan \/ ApplyDone \/ RetireDone \/ PlanDone \/ Flush
  BY <1>3, Zenon DEF DecidePlan, ApplyDone, RetireDone, PlanDone, Flush, dbVars
<1>4. CASE Send \/ Mark \/ MarkDone \/ SendDone \/ SweepDone \/ Tick \/ Crash
  BY <1>4 DEF Send, Mark, MarkDone, SendDone, SweepDone, Tick, Crash, dbVars
<1>5. CASE CorrectUnit \/ FollowReminder \/ CorrectDone
  BY <1>5, Zenon DEF CorrectUnit, FollowReminder, CorrectDone, dbVars
<1> QED BY <1>1, <1>2, <1>3, <1>4, <1>5 DEF Next, PassStep, CorrectionStep

(* What is kept of the table: only the writes with their guards touch it.  *)
LEMMA StepKeepsTable ==
    ASSUME SeriesInv, Columns, [Next]_vars
    PROVE  Table' /\ KeepsRows /\ kind' = kind
<1>1. kind' = kind
  <2>1. CASE UNCHANGED vars
    BY <2>1 DEF vars, settings
  <2>2. CASE BeginPass \/ JudgeDue \/ WriteVerdict \/ ScanDone \/ Sift \/ SiftDone \/ ReadUnit
    BY <2>2 DEF BeginPass, JudgeDue, WriteVerdict, ScanDone, Sift, SiftDone, ReadUnit, settings
  <2>3. CASE DecidePlan \/ ApplyPlan \/ ApplyDone \/ Retire \/ RetireDone \/ PlanDone \/ Flush
    BY <2>3, Zenon DEF DecidePlan, ApplyPlan, ApplyDone, Retire, RetireDone, PlanDone, Flush,
                       settings
  <2>4. CASE Send \/ Mark \/ MarkDone \/ SendDone \/ SweepDone \/ Tick \/ Crash
    BY <2>4 DEF Send, Mark, MarkDone, SendDone, SweepDone, Tick, Crash, settings
  <2>5. CASE CorrectUnit \/ FollowReminder \/ CorrectReminder \/ CorrectDone
    BY <2>5, Zenon DEF CorrectUnit, FollowReminder, CorrectReminder, CorrectDone, settings
  <2> QED BY <2>1, <2>2, <2>3, <2>4, <2>5 DEF Next, PassStep, CorrectionStep
<1>2. Table
  BY DEF SeriesInv
<1>3. CASE WriteVerdict
  <2>1. PICK r \in due :
          UNCHANGED dbVars \/ (status[r.id] = "armed"
                               /\ LeaveArmed(r, IF pc = "fire" THEN "fired" ELSE "expired"))
    BY <1>3 DEF WriteVerdict
  <2>2. Held(r)
    BY DEF SeriesInv, PassRows
  <2>3. CASE UNCHANGED dbVars
    BY <1>1, <1>2, <2>3, TableFrame DEF dbVars
  <2>4. CASE status[r.id] = "armed" /\ LeaveArmed(r, IF pc = "fire" THEN "fired" ELSE "expired")
    BY <1>1, <1>2, <2>2, <2>4, LeaveArmedKeeps
  <2> QED BY <1>1, <2>1, <2>3, <2>4
<1>4. CASE ApplyPlan
  <2>1. PICK r \in group :
          pc = "apply" /\ ops # << >> /\ (UNCHANGED dbVars \/ Apply(Head(ops), r.body.unit))
    BY <1>4 DEF ApplyPlan
  <2>2. SafeOp(Head(ops))
    BY <2>1, TailIsSafe DEF SeriesInv, PlansSafe
  <2>3. r.body.unit \in Plain
    BY <2>1 DEF SeriesInv, PassRows, Held, BodyFits, OneOff, Plain
  <2>4. CASE UNCHANGED dbVars
    BY <1>1, <1>2, <2>4, TableFrame DEF dbVars
  <2>5. CASE Apply(Head(ops), r.body.unit)
    BY <1>1, <1>2, <2>2, <2>3, <2>5, ApplyKeeps
  <2> QED BY <1>1, <2>1, <2>4, <2>5
<1>5. CASE Retire
  <2>1. PICK r \in group :
          \/ UNCHANGED dbVars
          \/ status[r.id] = "armed" /\ LeaveArmed(r, "expired")
          \/ Unsurfaced(r.id) /\ ExpireRow(r.id)
    BY <1>5 DEF Retire
  <2>2. Held(r)
    BY DEF SeriesInv, PassRows
  <2>3. CASE UNCHANGED dbVars
    BY <1>1, <1>2, <2>3, TableFrame DEF dbVars
  <2>4. CASE status[r.id] = "armed" /\ LeaveArmed(r, "expired")
    BY <1>1, <1>2, <2>2, <2>4, LeaveArmedKeeps
  <2>5. CASE Unsurfaced(r.id) /\ ExpireRow(r.id)
    <3>1. r.id \in Ids /\ status[r.id] = "fired"
      BY <2>2, <2>5 DEF Held, Unsurfaced
    <3> QED BY <1>1, <1>2, <2>5, <3>1, ExpireKeeps
  <2> QED BY <1>1, <2>1, <2>3, <2>4, <2>5
<1>6. CASE CorrectReminder
  <2>1. cpc = "apply" /\ cops # << >> /\ (UNCHANGED dbVars \/ Apply(Head(cops), cunit))
    BY <1>6 DEF CorrectReminder
  <2>2. SafeOp(Head(cops)) /\ cunit \in Plain
    BY <2>1, TailIsSafe DEF SeriesInv, PlansSafe
  <2>3. CASE UNCHANGED dbVars
    BY <1>1, <1>2, <2>3, TableFrame DEF dbVars
  <2>4. CASE Apply(Head(cops), cunit)
    BY <1>1, <1>2, <2>2, <2>4, ApplyKeeps
  <2> QED BY <1>1, <2>1, <2>3, <2>4
<1> QED BY <1>1, <1>2, <1>3, <1>4, <1>5, <1>6, OnlyFourWrite, TableFrame

(* A row the pass comes to hold was read of the table, and what it is to   *)
(* re-plan is not a series' row.                                           *)
LEMMA StepReadsRows ==
    ASSUME [Next]_vars
    PROVE  /\ \A r \in due' \cup stale' \cup group' :
                 \/ r \in due \cup stale \cup group
                 \/ \E i \in Ids : status[i] # "none" /\ r = Row(i)
           /\ \A r \in stale' : \/ r \in stale
                                \/ r \in due /\ ~r.body.rule
                                \/ /\ r \in due
                                   /\ ToReplan(Judge(r.body, TRUE, CurrentOf(r.body, TRUE)))
                                \/ /\ r \in due
                                   /\ ToReplan(Judge(r.body, TRUE, CurrentOf(r.body, FALSE)))
           /\ pc' \in {"read", "apply"} =>
                 \A r \in group' : r \in stale \/ (r \in group /\ pc \in {"read", "apply"})
<1>1. CASE UNCHANGED vars
  BY <1>1 DEF vars, scanVars, planVars
<1>2. CASE BeginPass \/ ScanDone
  BY <1>2 DEF BeginPass, ScanDone, scanVars, planVars, Due, Undelivered, Unsurfaced, Abort,
              ClearWork
<1>3. CASE JudgeDue
  BY <1>3 DEF JudgeDue, planVars
<1>4. CASE WriteVerdict
  BY <1>4 DEF WriteVerdict, planVars, Abort, ClearWork
<1>5. CASE Sift
  BY <1>5 DEF Sift, planVars
<1>6. CASE SiftDone \/ ApplyDone \/ RetireDone \/ PlanDone \/ Flush \/ MarkDone \/ SweepDone
  BY <1>6 DEF SiftDone, ApplyDone, RetireDone, PlanDone, Flush, MarkDone, SweepDone, scanVars,
              planVars
<1>7. CASE ReadUnit
  BY <1>7 DEF ReadUnit, OfUnit
<1>8. CASE DecidePlan
  BY <1>8, DecidePlanEnds DEF Abort, ClearWork, scanVars
<1>9. CASE ApplyPlan
  BY <1>9 DEF ApplyPlan, Abort, ClearWork, scanVars
<1>10. CASE Retire
  BY <1>10 DEF Retire, Abort, ClearWork, scanVars
<1>11. CASE SendDone
  BY <1>11 DEF SendDone, scanVars, Past, Undelivered, Unsurfaced
<1>12. CASE Send \/ Mark \/ Tick \/ Crash
  BY <1>12 DEF Send, Mark, Tick, Crash, ClearWork, scanVars, planVars, Unsent
<1>13. CASE CorrectUnit \/ FollowReminder \/ CorrectReminder \/ CorrectDone
  BY <1>13, Zenon DEF CorrectUnit, FollowReminder, CorrectReminder, CorrectDone, scanVars, planVars
<1> QED BY <1>1, <1>2, <1>3, <1>4, <1>5, <1>6, <1>7, <1>8, <1>9, <1>10, <1>11, <1>12, <1>13
        DEF Next, PassStep, CorrectionStep

LEMMA StepKeepsPassRows ==
    ASSUME SeriesInv, KeepsRows, kind' = kind, [Next]_vars
    PROVE  PassRows'
<1>1. RowsFit /\ PassRows
  BY DEF SeriesInv, Table
<1>2. \A r \in due' \cup stale' \cup group' : Held(r)
  BY <1>1, StepReadsRows, ReadRowHeld DEF PassRows
<1>3. \A r \in due' \cup stale' \cup group' : Held(r)'
  BY <1>2, HeldStays
<1>4. \A r \in due : r.body.rule => r.body.about = NoTime
  BY <1>1 DEF PassRows, Held, BodyFits
<1>5. \A r \in stale' : OneOff(r)
  BY <1>1, <1>4, StepReadsRows, WaitingIsNotReplanned DEF PassRows, OneOff
<1>6. pc' \in {"read", "apply"} => \A r \in group' : OneOff(r)
  BY <1>1, StepReadsRows DEF PassRows
<1>7. \A r : OneOff(r)' <=> OneOff(r)
  BY DEF OneOff
<1> QED BY <1>3, <1>5, <1>6, <1>7 DEF PassRows

LEMMA FollowingIsSafe ==
    ASSUME RowsFit, NEW S \in SUBSET Ids, \A i \in S : status[i] # "none" /\ ~body[i].rule,
           NEW ev \in Int, NEW dayOnly \in BOOLEAN, NEW sent, NEW told, NEW t \in Int
    PROVE  LET live == LiveSet({Row(i) : i \in S})
               asked == OpsOf(FollowAsked(ev, TRUE, dayOnly, live, sent, told, t))
               followed == OpsOf(FollowSent(ev, live, sent, told, t))
           IN  /\ SafeOps(asked) /\ SafeOps(followed)
               /\ \A u : (\A i \in S : body[i].unit = u)
                             => AimedOps(asked, u) /\ AimedOps(followed, u)
<1> DEFINE live == LiveSet({Row(i) : i \in S})
<1>1. live \in Seq(LiveRow(S))
  BY ReadRowsListed
<1> HIDE DEF live
<1>2. Following(FollowAsked(ev, TRUE, dayOnly, live, sent, told, t), S)
  BY <1>1, FollowAskedFollows
<1>3. Following(FollowSent(ev, live, sent, told, t), S)
  BY <1>1, FollowSentFollows
<1> DEFINE asked == OpsOf(FollowAsked(ev, TRUE, dayOnly, live, sent, told, t))
           followed == OpsOf(FollowSent(ev, live, sent, told, t))
<1>4. /\ SafeOps(asked) /\ SafeOps(followed)
      /\ \A u : (\A i \in S : body[i].unit = u) => AimedOps(asked, u) /\ AimedOps(followed, u)
  BY <1>2, <1>3, OpsAreSafe
<1> QED BY <1>4 DEF live

LEMMA CatchUpIsSafe ==
    ASSUME NEW ev \in Int, NEW dayOnly \in BOOLEAN, NEW live, NEW sent, NEW t \in Int
    PROVE  /\ \A p \in CatchUpAsked(ev, TRUE, dayOnly, live, sent, t).plans :
                 SafeOps(<< Op("catch-up", 0, p, NoBody) >>)
           /\ \A p \in CatchUp(ev, live, sent, t).plans :
                 SafeOps(<< Op("catch-up", 0, p, NoBody) >>)
           /\ \A p, u : AimedOps(<< Op("catch-up", 0, p, NoBody) >>, u)
<1>1. \A p \in Planned : SafeOp(Op("catch-up", 0, p, NoBody))
  BY DEF Planned, SafeOp, Op
<1>a. \A p, u : AimedOps(<< Op("catch-up", 0, p, NoBody) >>, u)
  BY DEF AimedOps, Aimed, Op
<1>2. \A p \in Planned : SafeOps(<< Op("catch-up", 0, p, NoBody) >>)
  BY <1>1, OneOpIsSafe
<1>3. IsDateOnly(ev) \in BOOLEAN
  BY DEF IsDateOnly
<1>4. EndOf(ev, dayOnly) \in Int /\ EndOf(ev, IsDateOnly(ev)) \in Int
  BY <1>3, EndIs
<1>5. \A by \in Int : Plans(by, t) \subseteq Planned
  BY DEF Plans, Planned
<1>6. CatchUpAsked(ev, TRUE, dayOnly, live, sent, t).plans \subseteq Planned
  BY <1>4, <1>5, CatchUpAskedLands DEF Land
<1>7. CatchUp(ev, live, sent, t).plans \subseteq Planned
  BY <1>4, <1>5, CatchUpLands DEF Land
<1> QED BY <1>2, <1>6, <1>7, <1>a

LEMMA DecidesSafely ==
    ASSUME SeriesInv, Columns, DecidePlan
    PROVE  /\ SafeOps(ops')
           /\ Abort \/ \E r \in group : AimedOps(ops', r.body.unit)
<1>1. CASE Abort
  BY <1>1, NoOpsAreSafe DEF Abort, ClearWork
<1>2. CASE ~Abort
  <2> DEFINE S(u) == {i \in Ids : /\ status[i] = "armed" /\ body[i].unit = u /\ ~body[i].rule
                                  /\ i \notin IdsOf(group) \cup settled}
             live(u) == LiveSet({Row(i) : i \in S(u)})
  <2>1. \A u : {s \in ArmedForUnit(u) : ~s.body.rule /\ s.id \notin IdsOf(group) \cup settled}
               = {Row(i) : i \in S(u)}
    <3>1. \A i : Row(i).id = i /\ Row(i).body = body[i]
      BY DEF Row
    <3> QED BY <3>1 DEF ArmedForUnit
  <2> DEFINE Chosen(r, sent) ==
          \/ Decided(r.body.unit, live(r.body.unit),
                     FollowAsked(planEvent, TRUE, r.body.dayOnly, live(r.body.unit), sent, Start,
                                 now),
                     CatchUpAsked(planEvent, TRUE, r.body.dayOnly, live(r.body.unit), sent, now))
          \/ Decided(r.body.unit, live(r.body.unit),
                     FollowSent(planEvent, live(r.body.unit), sent, Start, now),
                     CatchUp(planEvent, live(r.body.unit), sent, now))
  <2>2. \E r \in group : \E sent : Chosen(r, sent)
    BY <1>2, <2>1, Zenon DEF DecidePlan
  <2>3. PICK r \in group : \E sent : Chosen(r, sent)
    BY <2>2, Zenon
  <2>4. PICK sent : Chosen(r, sent)
    BY <2>3, Zenon
  <2>5. planEvent \in Int /\ now \in Int /\ r.body.dayOnly \in BOOLEAN
    BY PassAssumption DEF SeriesInv, PlansSafe, DecidePlan, PassRows, Held, BodyFits, Columns
  <2>6. /\ RowsFit /\ S(r.body.unit) \in SUBSET Ids
        /\ \A i \in S(r.body.unit) :
              status[i] # "none" /\ ~body[i].rule /\ body[i].unit = r.body.unit
    BY DEF SeriesInv, Table
  <2> HIDE DEF S
  <2> DEFINE Meant(s) == SafeOps(s) /\ AimedOps(s, r.body.unit)
  <2>7. /\ Meant(OpsOf(FollowAsked(planEvent, TRUE, r.body.dayOnly, live(r.body.unit), sent,
                                   Start, now)))
        /\ Meant(OpsOf(FollowSent(planEvent, live(r.body.unit), sent, Start, now)))
    BY <2>5, <2>6, FollowingIsSafe
  <2>8. /\ \A p \in CatchUpAsked(planEvent, TRUE, r.body.dayOnly, live(r.body.unit), sent, now).plans :
              Meant(<< Op("catch-up", 0, p, NoBody) >>)
        /\ \A p \in CatchUp(planEvent, live(r.body.unit), sent, now).plans :
              Meant(<< Op("catch-up", 0, p, NoBody) >>)
    BY <2>5, CatchUpIsSafe
  <2>a. Meant(<< >>)
    BY NoOpsAreSafe
  <2> HIDE DEF live, Meant
  <2>9. ASSUME NEW u, NEW l, NEW f, NEW owed, Decided(u, l, f, owed), Meant(OpsOf(f)),
               \A p \in owed.plans : Meant(<< Op("catch-up", 0, p, NoBody) >>)
        PROVE  Meant(ops')
    <3>1. \/ ops' = OpsOf(f)
          \/ \E p \in owed.plans : ops' = << Op("catch-up", 0, p, NoBody) >>
          \/ ops' = << >>
      BY <2>9, Zenon DEF Decided
    <3> QED BY <2>9, <2>a, <3>1
  <2>10. Meant(ops')
    BY <2>4, <2>7, <2>8, <2>9
  <2> QED BY <2>3, <2>10 DEF Meant
<1> QED BY <1>1, <1>2

LEMMA FollowsSafely ==
    ASSUME SeriesInv, Columns, FollowReminder
    PROVE  SafeOps(cops') /\ AimedOps(cops', cunit)
<1> DEFINE S == {i \in Ids : status[i] = "armed" /\ body[i].unit = cunit}
           live == LiveSet({Row(i) : i \in S})
           at == event[cunit]
<1>1. ArmedForUnit(cunit) = {Row(i) : i \in S}
  BY DEF ArmedForUnit
<1>2. \/ cops' = OpsOf(FollowAsked(at, TRUE, IsDateOnly(at), live, {}, now, now))
      \/ cops' = OpsOf(FollowSent(at, live, {}, now, now))
  BY <1>1, Zenon DEF FollowReminder, FollowedTo, Follow
<1>3. cunit \in Plain
  BY DEF FollowReminder, SeriesInv, PlansSafe
<1>4. at \in Int /\ now \in Int /\ IsDateOnly(at) \in BOOLEAN
  BY <1>3, PassAssumption DEF SeriesInv, PlansSafe, Columns, IsDateOnly
<1>5. /\ RowsFit /\ S \in SUBSET Ids
      /\ \A i \in S : status[i] # "none" /\ ~body[i].rule /\ body[i].unit = cunit
  BY <1>3 DEF SeriesInv, Table, RowsFit, BodyFits, Plain
<1> HIDE DEF S, at
<1> DEFINE asked == OpsOf(FollowAsked(at, TRUE, IsDateOnly(at), live, {}, now, now))
           followed == OpsOf(FollowSent(at, live, {}, now, now))
<1>6. SafeOps(asked) /\ SafeOps(followed)
  BY <1>4, <1>5, FollowingIsSafe
<1>7. AimedOps(asked, cunit) /\ AimedOps(followed, cunit)
  BY <1>4, <1>5, FollowingIsSafe
<1> QED BY <1>2, <1>6, <1>7

LEMMA StepKeepsPlans ==
    ASSUME SeriesInv, Columns, KeepsRows, kind' = kind, [Next]_vars
    PROVE  PlansSafe'
<1> USE DEF Plain
<1>1. SafeOps(ops')
  <2>1. SafeOps(ops)
    BY DEF SeriesInv, PlansSafe
  <2>2. CASE DecidePlan
    BY <2>2, DecidesSafely
  <2>3. CASE ApplyPlan
    <3>1. ops # << >> /\ (ops' = Tail(ops) \/ ops' = << >>)
      BY <2>3, Zenon DEF ApplyPlan, Abort, ClearWork
    <3> QED BY <2>1, <3>1, TailIsSafe, NoOpsAreSafe
  <2>4. CASE BeginPass \/ JudgeDue \/ ScanDone \/ Sift \/ SiftDone \/ ReadUnit
    <3>1. ops' = ops \/ ops' = << >>
      BY <2>4 DEF BeginPass, JudgeDue, ScanDone, Sift, SiftDone, ReadUnit, Abort, ClearWork, planVars
    <3> QED BY <2>1, <3>1, NoOpsAreSafe
  <2>5. CASE WriteVerdict \/ Retire \/ Crash
    <3>1. ops' = ops \/ ops' = << >>
      BY <2>5 DEF WriteVerdict, Retire, Crash, Abort, ClearWork, planVars
    <3> QED BY <2>1, <3>1, NoOpsAreSafe
  <2>6. CASE ApplyDone \/ RetireDone \/ PlanDone \/ Flush \/ Send \/ Mark \/ MarkDone \/ SendDone
             \/ SweepDone \/ Tick
    <3>1. ops' = ops
      BY <2>6 DEF ApplyDone, RetireDone, PlanDone, Flush, Send, Mark, MarkDone, SendDone,
                  SweepDone, Tick, planVars
    <3> QED BY <2>1, <3>1
  <2>7. CASE CorrectUnit \/ FollowReminder \/ CorrectReminder \/ CorrectDone \/ UNCHANGED vars
    <3>1. ops' = ops
      BY <2>7, Zenon DEF CorrectUnit, FollowReminder, CorrectReminder, CorrectDone, vars, planVars
    <3> QED BY <2>1, <3>1
  <2> QED BY <2>2, <2>3, <2>4, <2>5, <2>6, <2>7 DEF Next, PassStep, CorrectionStep
<1>2. SafeOps(cops') /\ (cpc' # "idle" => cunit' \in Plain)
      /\ event' \in [Units -> Times] /\ \A u \in Plain : event'[u] \in Int
  <2>1. SafeOps(cops) /\ (cpc # "idle" => cunit \in Plain)
        /\ event \in [Units -> Times] /\ \A u \in Plain : event[u] \in Int
    BY DEF SeriesInv, PlansSafe
  <2>2. CASE FollowReminder
    <3>1. SafeOps(cops')
      BY <2>2, FollowsSafely
    <3>2. cunit' = cunit /\ event' = event /\ cpc # "idle"
      BY <2>2, Zenon DEF FollowReminder, dbVars
    <3> QED BY <2>1, <3>1, <3>2
  <2>3. CASE CorrectReminder
    <3>1. /\ cops # << >> /\ (cops' = Tail(cops) \/ cops' = << >>)
          /\ cunit' = cunit /\ event' = event /\ cpc # "idle"
      BY <2>3, Zenon DEF CorrectReminder, dbVars, Apply, Reschedule, ExpireRow, Create
    <3> QED BY <2>1, <3>1, TailIsSafe, NoOpsAreSafe
  <2>4. CASE CorrectUnit
    <3>1. PICK u \in Plain, at \in EventChoices : event' = [event EXCEPT ![u] = at] /\ cunit' = u
      BY <2>4 DEF CorrectUnit
    <3>2. cops' = cops /\ at \in Int
      BY <2>4, PassAssumption DEF CorrectUnit
    <3> QED BY <2>1, <3>1, <3>2 DEF Times
  <2>5. CASE Crash
    BY <2>1, <2>5, NoOpsAreSafe DEF Crash, dbVars
  <2>6. CASE CorrectDone
    BY <2>1, <2>6 DEF CorrectDone, dbVars
  <2>7. CASE PassStep \/ Tick \/ UNCHANGED vars
    <3>1. UNCHANGED corrVars
      BY <2>7, Zenon DEF PassStep, BeginPass, JudgeDue, WriteVerdict, ScanDone, Sift, SiftDone,
         ReadUnit, DecidePlan, ApplyPlan, ApplyDone, Retire, RetireDone, PlanDone, Flush, Send,
         Mark, MarkDone, SendDone, SweepDone, Tick, vars
    <3>2. event' = event
      <4>1. CASE WriteVerdict
        BY <4>1 DEF WriteVerdict, LeaveArmed, dbVars
      <4>2. CASE ApplyPlan
        BY <4>2, Zenon DEF ApplyPlan, Apply, Reschedule, ExpireRow, Create, dbVars
      <4>3. CASE Retire
        BY <4>3 DEF Retire, LeaveArmed, ExpireRow, dbVars
      <4>4. CASE Mark
        BY <4>4 DEF Mark
      <4>5. CASE BeginPass \/ JudgeDue \/ ScanDone \/ Sift \/ SiftDone \/ ReadUnit \/ DecidePlan
        BY <4>5, Zenon DEF BeginPass, JudgeDue, ScanDone, Sift, SiftDone, ReadUnit, DecidePlan, dbVars
      <4>6. CASE ApplyDone \/ RetireDone \/ PlanDone \/ Flush \/ Send \/ MarkDone \/ SendDone
                 \/ SweepDone \/ Tick \/ UNCHANGED vars
        BY <4>6, Zenon DEF ApplyDone, RetireDone, PlanDone, Flush, Send, MarkDone, SendDone,
           SweepDone, Tick, vars, dbVars
      <4> QED BY <2>7, <4>1, <4>2, <4>3, <4>4, <4>5, <4>6 DEF PassStep
    <3> QED BY <2>1, <3>1, <3>2 DEF corrVars
  <2> QED BY <2>2, <2>3, <2>4, <2>5, <2>6, <2>7 DEF Next, CorrectionStep
<1>3. pc' = "read" => planEvent' \in Int
  <2>1. CASE ReadUnit
    <3>1. PICK r \in stale : pc' = "read" => planEvent' = event[r.body.unit]
      BY <2>1 DEF ReadUnit
    <3>2. r.body.unit \in Plain
      BY DEF SeriesInv, PassRows, Held, BodyFits, OneOff
    <3> QED BY <3>1, <3>2 DEF SeriesInv, PlansSafe
  <2>2. CASE pc = "read" /\ ~DecidePlan
    <3>1. pc' = "read" => planEvent' = planEvent
      BY <2>2 DEF Next, PassStep, CorrectionStep, BeginPass, JudgeDue, WriteVerdict, ScanDone,
         Sift, SiftDone, ReadUnit, ApplyPlan, ApplyDone, Retire, RetireDone, PlanDone, Flush,
         Send, Mark, MarkDone, SendDone, SweepDone, CorrectUnit, FollowReminder, CorrectReminder,
         CorrectDone, Tick, Crash, planVars, vars
    <3> QED BY <2>2, <3>1 DEF SeriesInv, PlansSafe
  <2>3. CASE DecidePlan
    BY <2>3, DecidePlanEnds DEF Abort
  <2>4. CASE pc # "read" /\ ~ReadUnit
    <3>1. pc' # "read"
      <4>1. CASE BeginPass \/ JudgeDue \/ ScanDone \/ Sift \/ SiftDone
        BY <2>4, <4>1 DEF BeginPass, JudgeDue, ScanDone, Sift, SiftDone, Abort
      <4>2. CASE WriteVerdict \/ ApplyPlan \/ Retire
        BY <2>4, <4>2, Zenon DEF WriteVerdict, ApplyPlan, Retire, Abort
      <4>3. CASE ApplyDone \/ RetireDone \/ PlanDone \/ Flush \/ Send \/ Mark \/ MarkDone
                 \/ SendDone \/ SweepDone
        BY <2>4, <4>3 DEF ApplyDone, RetireDone, PlanDone, Flush, Send, Mark, MarkDone, SendDone,
                          SweepDone, Unsent
      <4>4. CASE CorrectionStep \/ Tick \/ Crash \/ UNCHANGED vars
        BY <2>4, <4>4, Zenon DEF CorrectionStep, CorrectUnit, FollowReminder, CorrectReminder,
           CorrectDone, Tick, Crash, vars
      <4>5. CASE DecidePlan
        BY <2>4, <4>5 DEF DecidePlan
      <4> QED BY <2>4, <4>1, <4>2, <4>3, <4>4, <4>5 DEF Next, PassStep
    <3> QED BY <3>1
  <2> QED BY <2>1, <2>2, <2>3, <2>4
<1>4. \A s : SafeOps(s) => SafeOps(s)'
  BY SafeStays
<1>5. SafeOps(ops)' /\ SafeOps(cops)'
  BY <1>1, <1>2, <1>4
<1>6. Plain' = Plain
  BY DEF Series
<1> HIDE DEF Plain
<1> QED BY <1>2, <1>3, <1>5, <1>6 DEF PlansSafe

(* What a capture arms, and where Init lays it.                            *)
LEMMA CapturedFits ==
    ASSUME kind \in [Units -> Kinds], NEW u \in Units
    PROVE  /\ \A k \in DOMAIN Captured(u) :
                 LET b == Captured(u)[k] IN BodyFits(b) /\ b.unit = u /\ b.key = NoKey
           /\ u \in Series => DOMAIN Captured(u) = {1}
<1>1. EventAt0[u] \in Int
  BY PassAssumption DEF EventAt0
<1>2. CASE u \in Series
  <2>1. Captured(u) = << SeriesBody(u, EventAt0[u]) >>
    BY <1>2 DEF Captured
  <2>2. /\ BodyFits(SeriesBody(u, EventAt0[u])) /\ SeriesBody(u, EventAt0[u]).unit = u
        /\ SeriesBody(u, EventAt0[u]).key = NoKey
    BY <1>1, <1>2 DEF BodyFits, SeriesBody
  <2> QED BY <1>2, <2>1, <2>2
<1>3. CASE u \notin Series
  <2> DEFINE at == EventAt0[u]
             asked == AskedReminders(at, TRUE, IsDateOnly(at), Start, Start, {}).plans
             told == EventReminders(at, Start, Start, {}).plans
  <2>1. at \in Int /\ Start \in Int /\ IsDateOnly(at) \in BOOLEAN
    BY <1>1, PassAssumption DEF IsDateOnly
  <2> HIDE DEF at
  <2>2. EndOf(at, IsDateOnly(at)) \in Int
    BY <2>1, EndIs
  <2>3. /\ Land(asked, at, IsDateOnly(at), EndOf(at, IsDateOnly(at)), Start)
        /\ Land(told, at, FALSE, EndOf(at, IsDateOnly(at)), Start)
    BY <2>1, EventRemindersLand, AskedRemindersLand
  <2> HIDE DEF asked, told
  <2>4. InOrder(asked) \in Seq(Planned) /\ InOrder(told) \in Seq(Planned)
    BY <2>1, <2>2, <2>3, PlansAreListed
  <2>5. PICK plans \in Seq(Planned) : Captured(u) = ArmedBodies(u, plans)
    BY <1>3, <2>4, Zenon DEF Captured, asked, told, at
  <2>6. \A k \in DOMAIN plans : plans[k] \in Planned
    BY <2>5
  <2>7. \A p \in Planned : /\ BodyFits(BodyOf(u, p, NoKey)) /\ BodyOf(u, p, NoKey).unit = u
                            /\ BodyOf(u, p, NoKey).key = NoKey
    BY <1>3 DEF Planned, BodyFits, BodyOf
  <2>8. /\ DOMAIN ArmedBodies(u, plans) = DOMAIN plans
        /\ \A k \in DOMAIN plans : ArmedBodies(u, plans)[k] = BodyOf(u, plans[k], NoKey)
    BY DEF ArmedBodies
  <2> QED BY <1>3, <2>5, <2>6, <2>7, <2>8
<1> QED BY <1>2, <1>3

LEMMA InitIsSafe == Init => SeriesInv /\ \A i \in Ids : status[i] # "none" => body[i].key = NoKey
<1> SUFFICES ASSUME Init
             PROVE  SeriesInv /\ \A i \in Ids : status[i] # "none" => body[i].key = NoKey
  OBVIOUS
<1> DEFINE slots == UNION {{<< u, k >> : k \in DOMAIN Captured(u)} : u \in Units}
<1>1. kind \in [Units -> Kinds]
  BY DEF Init
<1>2. PICK slotOf \in [slots -> Ids] :
        /\ \A s, t \in slots : s # t => slotOf[s] # slotOf[t]
        /\ status = [i \in Ids |-> IF \E s \in slots : slotOf[s] = i THEN "armed" ELSE "none"]
        /\ body = [i \in Ids |->
                     IF \E s \in slots : slotOf[s] = i
                     THEN LET s == CHOOSE t \in slots : slotOf[t] = i IN Captured(s[1])[s[2]]
                     ELSE NoBody]
  BY DEF Init, Laid
<1>3. \A s \in slots : s[1] \in Units /\ s[2] \in DOMAIN Captured(s[1]) /\ s = << s[1], s[2] >>
  OBVIOUS
<1>4. \A u \in Series : << u, 1 >> \in slots
  BY <1>1, CapturedFits DEF Series
<1> HIDE DEF slots
<1>5. \A i \in Ids : status[i] # "none" =>
        \E s \in slots : slotOf[s] = i /\ status[i] = "armed" /\ body[i] = Captured(s[1])[s[2]]
  <2> SUFFICES ASSUME NEW i \in Ids, status[i] # "none"
               PROVE  \E s \in slots : /\ slotOf[s] = i /\ status[i] = "armed"
                                       /\ body[i] = Captured(s[1])[s[2]]
    OBVIOUS
  <2>1. \E s \in slots : slotOf[s] = i
    BY <1>2
  <2> DEFINE s == CHOOSE t \in slots : slotOf[t] = i
  <2>2. s \in slots /\ slotOf[s] = i
    BY <2>1
  <2>3. status[i] = "armed" /\ body[i] = Captured(s[1])[s[2]]
    BY <1>2, <2>1
  <2> QED BY <2>2, <2>3
<1>6. RowsFit
  BY <1>1, <1>2, <1>3, <1>5, CapturedFits DEF RowsFit
<1>a. \A i \in Ids : status[i] # "none" => body[i].key = NoKey
  BY <1>1, <1>3, <1>5, CapturedFits
<1>7. Alive
  <2> SUFFICES ASSUME NEW u \in Series
               PROVE  \E i \in Ids : ArmedFor(u, i) /\ \A j \in Ids : ArmedFor(u, j) => j = i
    BY DEF Alive
  <2> DEFINE i == slotOf[<< u, 1 >>]
  <2>1. u \in Units /\ DOMAIN Captured(u) = {1} /\ << u, 1 >> \in slots /\ i \in Ids
    BY <1>1, <1>2, <1>4, CapturedFits DEF Series
  <2>2. \A j \in Ids : ArmedFor(u, j) => j = i
    <3> SUFFICES ASSUME NEW j \in Ids, ArmedFor(u, j)
                 PROVE  j = i
      OBVIOUS
    <3>1. PICK s \in slots : slotOf[s] = j /\ body[j] = Captured(s[1])[s[2]]
      BY <1>5 DEF ArmedFor
    <3>2. s[1] = u
      BY <1>1, <1>3, <3>1, CapturedFits DEF ArmedFor
    <3>3. s = << u, 1 >>
      BY <1>3, <2>1, <3>2
    <3> QED BY <3>1, <3>3
  <2>3. ArmedFor(u, i)
    <3>1. status[i] = "armed"
      BY <1>2, <2>1
    <3>2. PICK s \in slots : slotOf[s] = i /\ body[i] = Captured(s[1])[s[2]]
      BY <1>5, <2>1, <3>1
    <3>3. s = << u, 1 >>
      BY <1>2, <2>1, <3>2
    <3>4. s[1] = u /\ s[2] = 1
      BY <3>3
    <3> QED BY <1>1, <2>1, <3>1, <3>2, <3>4, CapturedFits DEF ArmedFor
  <2> HIDE DEF i
  <2> QED BY <2>1, <2>2, <2>3
<1>8. PassRows
  BY DEF Init, PassRows
<1>9. PlansSafe
  <2>1. SafeOps(ops) /\ SafeOps(cops) /\ cpc = "idle" /\ pc = "idle"
    BY NoOpsAreSafe DEF Init
  <2>2. event = [u \in Units |-> IF u \in Series THEN NoTime ELSE EventAt0[u]]
    BY DEF Init
  <2>3. \A u \in Units : EventAt0[u] \in Int
    BY <1>1, PassAssumption DEF EventAt0
  <2> QED BY <2>1, <2>2, <2>3 DEF PlansSafe, Plain, Times
<1> QED BY <1>6, <1>7, <1>8, <1>9, <1>a DEF SeriesInv, Table

(* I17: whatever a pass, a correction, a failure or a crash does, a        *)
(* recurring reminder has exactly one armed row to ring next (Rearm is one *)
(* transaction, and nothing else takes a series' row out of armed).        *)
THEOREM SeriesStayAlive == Spec => []SeriesAlive
<1>1. Init => SeriesInv /\ Columns
  BY InitIsSafe, InitColumns
<1>2. SeriesInv /\ Columns /\ [Next]_vars => SeriesInv' /\ Columns'
  BY StepKeepsTable, StepKeepsPassRows, StepKeepsPlans, StepIsRowStep DEF SeriesInv
<1>3. SeriesInv => SeriesAlive
  BY AliveIs DEF SeriesInv, Table
<1> QED BY <1>1, <1>2, <1>3, PTL DEF Spec
----------------------------------------------------------------------------
(***************************************************************************)
(* Why no two catch-ups of an event share an id.  A new one's number is    *)
(* past every number the table holds for that unit and event; no write     *)
(* changes the unit or the id of a row that is there; and a move, decided  *)
(* from a read of the table calls ago, still names a row of the unit it    *)
(* was decided for, and gives it back the id it had.                       *)
(***************************************************************************)
There(i) == status[i] # "none"

KeyFits(key) == key = NoKey \/ \E about : \E n \in Nat : key = << about, n >>

Numbered == \A i \in Ids : There(i) => KeyFits(body[i].key)

Apart ==
    \A i, j \in Ids :
        /\ There(i) /\ There(j) /\ body[i].unit = body[j].unit
        /\ body[i].key = body[j].key /\ body[i].key # NoKey
        => i = j

AimInv ==
    /\ pc \in {"read", "apply"} => \A r, s \in group : r.body.unit = s.body.unit
    /\ pc = "apply" => \A r \in group : AimedOps(ops, r.body.unit)
    /\ AimedOps(cops, cunit)
    /\ cpc # "apply" => cops = << >>

KeysInv == Numbered /\ Apart /\ AimInv

(* What every write of the table keeps of the rows that are there.         *)
KeepsNames ==
    \A i \in Ids : There(i) => body'[i].unit = body[i].unit /\ body'[i].key = body[i].key

LEMMA AimStays ==
    ASSUME KeepsNames, NEW s, SafeOps(s), NEW u, AimedOps(s, u)
    PROVE  AimedOps(s, u)'
  BY DEF KeepsNames, There, SafeOps, SafeOp, AimedOps, Aimed

(* A finite set of naturals that is not empty has a greatest member.       *)
LEMMA GreatestOf ==
    ASSUME NEW S \in SUBSET Nat, IsFiniteSet(S), S # {}
    PROVE  Max(S) \in S /\ \A y \in S : Max(S) >= y
<1> DEFINE R == {z \in S \X S : z[1] > z[2]}
<1>1. \A x, y \in S : << x, y >> \in R <=> x > y
  OBVIOUS
<1>2. R \subseteq S \X S
  OBVIOUS
<1> HIDE DEF R
<1>3. StrictOrder(S, R)
  BY <1>1, <1>2 DEF StrictOrder
<1>4. PICK x \in S : Under(S, R, x) = {}
  BY <1>3, ForemostExists
<1>5. ASSUME NEW y \in S PROVE x >= y
  <2>1. << y, x >> \notin R
    BY <1>4 DEF Under
  <2>2. ~(y > x) /\ x \in Nat /\ y \in Nat
    BY <1>1, <2>1
  <2> QED BY <2>2
<1> QED BY <1>5 DEF Max

LEMMA AttemptIsNew ==
    ASSUME Numbered, NEW u, NEW about
    PROVE  /\ Attempt(u, about) \in Nat
           /\ \A j \in Ids : There(j) /\ body[j].unit = u
                                => body[j].key # << about, Attempt(u, about) >>
<1> DEFINE T == {j \in Ids : /\ status[j] # "none" /\ body[j].unit = u /\ body[j].key # NoKey
                             /\ body[j].key[1] = about}
           N == {body[i].key[2] : i \in T}
           S == {0} \cup N
<1>1. \A j \in T : body[j].key[2] \in Nat
  BY DEF Numbered, There, KeyFits
<1>2. IsFiniteSet(N)
  <2>1. IsFiniteSet(T)
    BY PassAssumption, FS_Subset
  <2> DEFINE g == [i \in T |-> body[i].key[2]]
  <2>2. g \in Surjection(T, N)
    BY DEF Surjection
  <2> HIDE DEF T, N, g
  <2> QED BY <2>1, <2>2, FS_Surjection
<1>3. IsFiniteSet(S) /\ S # {} /\ S \in SUBSET Nat
  <2>1. N \in SUBSET Nat
    BY <1>1
  <2>2. S = N \cup {0}
    OBVIOUS
  <2> HIDE DEF N
  <2>3. IsFiniteSet(S)
    BY <1>2, <2>2, FS_AddElement
  <2> QED BY <2>1, <2>3
<1>4. \A j \in T : body[j].key[2] \in S
  OBVIOUS
<1>5. Attempt(u, about) = 1 + Max(S)
  BY DEF Attempt
<1> HIDE DEF S
<1>6. Max(S) \in Nat /\ \A y \in S : Max(S) >= y
  BY <1>3, GreatestOf
<1>7. ASSUME NEW j \in Ids, There(j), body[j].unit = u,
             body[j].key = << about, Attempt(u, about) >>
      PROVE  FALSE
  <2>1. << about, Attempt(u, about) >> # NoKey
    BY DEF NoKey
  <2>2. body[j].key[1] = about /\ body[j].key[2] = Attempt(u, about)
    BY <1>7
  <2>3. j \in T
    BY <1>7, <2>1, <2>2 DEF There
  <2>4. Max(S) >= Attempt(u, about)
    BY <1>4, <1>6, <2>2, <2>3
  <2> QED BY <1>5, <1>6, <2>4
<1> QED BY <1>5, <1>6, <1>7

(* A write of a row that was there, and a write of a new one.              *)
LEMMA OldRowsStay ==
    ASSUME Numbered, Apart, KeepsNames, \A i \in Ids : There(i)' => There(i)
    PROVE  Numbered' /\ Apart'
  BY DEF Numbered, Apart, KeepsNames

LEMMA NewRowIsApart ==
    ASSUME Numbered, Apart, NEW n \in Ids, ~There(n), NEW b, KeyFits(b.key),
           b.key # NoKey => \A j \in Ids : There(j) /\ body[j].unit = b.unit => body[j].key # b.key,
           \A i \in Ids : i # n => (There(i)' => There(i)) /\ body'[i] = body[i],
           body'[n] = b
    PROVE  Numbered' /\ Apart' /\ KeepsNames
<1>1. KeepsNames
  BY DEF KeepsNames
<1>2. Numbered'
  BY DEF Numbered
<1>3. Apart'
  <2> SUFFICES ASSUME NEW i \in Ids, NEW j \in Ids, There(i)', There(j)',
                      body'[i].unit = body'[j].unit, body'[i].key = body'[j].key,
                      body'[i].key # NoKey
               PROVE  i = j
    BY DEF Apart
  <2>1. CASE i # n /\ j # n
    BY <2>1 DEF Apart
  <2>2. CASE i = n /\ j # n
    BY <2>2
  <2>3. CASE i # n /\ j = n
    BY <2>3
  <2> QED BY <2>1, <2>2, <2>3
<1> QED BY <1>1, <1>2, <1>3

LEMMA LeaveArmedNames ==
    ASSUME Table, Columns, Numbered, Apart, NEW r, NEW to \in {"fired", "expired"}, r.id \in Ids,
           status[r.id] = "armed", LeaveArmed(r, to)
    PROVE  Numbered' /\ Apart' /\ KeepsNames
<1>1. CASE ~r.body.rule
  <2>1. status' = [status EXCEPT ![r.id] = to] /\ body' = body
    BY <1>1 DEF LeaveArmed
  <2>2. KeepsNames /\ \A i \in Ids : There(i)' => There(i)
    BY <2>1 DEF KeepsNames, There, Columns
  <2> QED BY <2>2, OldRowsStay
<1>2. CASE r.body.rule
  <2> DEFINE b == Successor(r)
  <2>1. b.key = NoKey
    BY DEF Successor, SeriesBody
  <2> HIDE DEF b
  <2>2. PICK n \in Ids :
            /\ status[n] = "none"
            /\ status' = [status EXCEPT ![r.id] = to, ![n] = "armed"]
            /\ body' = [body EXCEPT ![n] = b]
    BY <1>2, FreshIsUnused DEF LeaveArmed, b
  <2>3. /\ ~There(n) /\ body'[n] = b
        /\ \A i \in Ids : i # n => (There(i)' => There(i)) /\ body'[i] = body[i]
    BY <2>2 DEF There, Columns, Table, RowsFit
  <2> QED BY <2>1, <2>3, NewRowIsApart DEF KeyFits
<1> QED BY <1>1, <1>2

LEMMA CreateNames ==
    ASSUME Table, Columns, Numbered, Apart, NEW b, Create(b), KeyFits(b.key),
           b.key # NoKey => \A j \in Ids : There(j) /\ body[j].unit = b.unit => body[j].key # b.key
    PROVE  Numbered' /\ Apart' /\ KeepsNames
<1>1. PICK n \in Ids :
        /\ status[n] = "none" /\ status' = [status EXCEPT ![n] = "armed"]
        /\ body' = [body EXCEPT ![n] = b]
  BY FreshIsUnused DEF Create
<1>2. /\ ~There(n) /\ body'[n] = b
      /\ \A i \in Ids : i # n => (There(i)' => There(i)) /\ body'[i] = body[i]
  BY <1>1 DEF There, Columns, Table, RowsFit
<1> QED BY <1>2, NewRowIsApart

LEMMA ExpireNames ==
    ASSUME Columns, Numbered, Apart, NEW i \in Ids, There(i), ExpireRow(i)
    PROVE  Numbered' /\ Apart' /\ KeepsNames
<1>1. status' = [status EXCEPT ![i] = "expired"] /\ body' = body
  BY DEF ExpireRow
<1>2. KeepsNames /\ \A j \in Ids : There(j)' => There(j)
  BY <1>1 DEF KeepsNames, There, Columns
<1> QED BY <1>2, OldRowsStay

LEMMA ApplyNames ==
    ASSUME Table, Columns, Numbered, Apart, NEW op, SafeOp(op), NEW u, Aimed(op, u), Apply(op, u)
    PROVE  Numbered' /\ Apart' /\ KeepsNames
<1>1. \A p, key : BodyOf(u, p, key).unit = u /\ BodyOf(u, p, key).key = key
  BY DEF BodyOf
<1>2. CASE op.kind = "move" /\ Reschedule(op.id, BodyOf(u, op.plan, op.was.key))
  <2>1. PICK b : b.unit = u /\ b.key = op.was.key /\ Reschedule(op.id, b)
    BY <1>1, <1>2
  <2>2. b.unit = body[op.id].unit /\ b.key = body[op.id].key
    BY <1>2, <2>1 DEF Aimed
  <2>3. body' = [body EXCEPT ![op.id] = b] /\ status' = status
    BY <2>1 DEF Reschedule
  <2>4. \A i \in Ids : body'[i].unit = body[i].unit /\ body'[i].key = body[i].key
    BY <2>2, <2>3 DEF Table, RowsFit
  <2>5. KeepsNames /\ \A i \in Ids : There(i)' => There(i)
    BY <2>3, <2>4 DEF KeepsNames, There
  <2> QED BY <2>5, OldRowsStay
<1>3. CASE op.kind = "expire" /\ ExpireRow(op.id)
  BY <1>3, ExpireNames DEF SafeOp, There
<1>4. CASE op.kind = "arm" /\ Create(BodyOf(u, op.plan, NoKey))
  <2>1. KeyFits(NoKey) /\ BodyOf(u, op.plan, NoKey).key = NoKey
    BY <1>1 DEF KeyFits
  <2> QED BY <1>4, <2>1, CreateNames
<1>5. CASE /\ op.kind = "catch-up"
           /\ Create(BodyOf(u, op.plan, << op.plan.about, Attempt(u, op.plan.about) >>))
  <2> DEFINE key == << op.plan.about, Attempt(u, op.plan.about) >>
             b == BodyOf(u, op.plan, key)
  <2>1. KeyFits(key) /\ \A j \in Ids : There(j) /\ body[j].unit = u => body[j].key # key
    BY AttemptIsNew DEF KeyFits
  <2>2. b.unit = u /\ b.key = key /\ Create(b)
    BY <1>1, <1>5
  <2> HIDE DEF key, b
  <2> QED BY <2>1, <2>2, CreateNames
<1> QED BY <1>2, <1>3, <1>4, <1>5 DEF Apply

LEMMA StepKeepsNames ==
    ASSUME KeysInv, SeriesInv, Columns, [Next]_vars
    PROVE  Numbered' /\ Apart' /\ KeepsNames
<1>0. Table /\ Numbered /\ Apart
  BY DEF KeysInv, SeriesInv
<1>a. ASSUME UNCHANGED << status, body >>
      PROVE  Numbered' /\ Apart' /\ KeepsNames
  BY <1>0, <1>a DEF Numbered, Apart, KeepsNames, There
<1>1. CASE WriteVerdict
  <2>1. PICK r \in due :
          UNCHANGED dbVars \/ (status[r.id] = "armed"
                               /\ LeaveArmed(r, IF pc = "fire" THEN "fired" ELSE "expired"))
    BY <1>1 DEF WriteVerdict
  <2>2. r.id \in Ids
    BY DEF SeriesInv, PassRows, Held
  <2>3. CASE UNCHANGED dbVars
    BY <1>a, <2>3 DEF dbVars
  <2>4. CASE status[r.id] = "armed" /\ LeaveArmed(r, IF pc = "fire" THEN "fired" ELSE "expired")
    BY <1>0, <2>2, <2>4, LeaveArmedNames
  <2> QED BY <2>1, <2>3, <2>4
<1>2. CASE ApplyPlan
  <2>1. PICK r \in group :
          pc = "apply" /\ ops # << >> /\ (UNCHANGED dbVars \/ Apply(Head(ops), r.body.unit))
    BY <1>2 DEF ApplyPlan
  <2>2. SafeOps(ops) /\ AimedOps(ops, r.body.unit)
    BY <2>1 DEF SeriesInv, PlansSafe, KeysInv, AimInv
  <2>3. SafeOp(Head(ops)) /\ Aimed(Head(ops), r.body.unit)
    BY <2>1, <2>2, TailIsSafe
  <2>4. CASE UNCHANGED dbVars
    BY <1>a, <2>4 DEF dbVars
  <2>5. CASE Apply(Head(ops), r.body.unit)
    BY <1>0, <2>3, <2>5, ApplyNames
  <2> QED BY <2>1, <2>4, <2>5
<1>3. CASE Retire
  <2>1. PICK r \in group :
          \/ UNCHANGED dbVars
          \/ status[r.id] = "armed" /\ LeaveArmed(r, "expired")
          \/ Unsurfaced(r.id) /\ ExpireRow(r.id)
    BY <1>3 DEF Retire
  <2>2. r.id \in Ids
    BY DEF SeriesInv, PassRows, Held
  <2>3. CASE UNCHANGED dbVars
    BY <1>a, <2>3 DEF dbVars
  <2>4. CASE status[r.id] = "armed" /\ LeaveArmed(r, "expired")
    BY <1>0, <2>2, <2>4, LeaveArmedNames
  <2>5. CASE Unsurfaced(r.id) /\ ExpireRow(r.id)
    BY <1>0, <2>2, <2>5, ExpireNames DEF Unsurfaced, There
  <2> QED BY <2>1, <2>3, <2>4, <2>5
<1>4. CASE CorrectReminder
  <2>1. cops # << >> /\ (UNCHANGED dbVars \/ Apply(Head(cops), cunit))
    BY <1>4 DEF CorrectReminder
  <2>2. SafeOps(cops) /\ AimedOps(cops, cunit)
    BY DEF SeriesInv, PlansSafe, KeysInv, AimInv
  <2>3. SafeOp(Head(cops)) /\ Aimed(Head(cops), cunit)
    BY <2>1, <2>2, TailIsSafe
  <2>4. CASE UNCHANGED dbVars
    BY <1>a, <2>4 DEF dbVars
  <2>5. CASE Apply(Head(cops), cunit)
    BY <1>0, <2>3, <2>5, ApplyNames
  <2> QED BY <2>1, <2>4, <2>5
<1> QED BY <1>a, <1>1, <1>2, <1>3, <1>4, OnlyFourWrite

(* Where the rows and the writes of a re-plan come from.                   *)
LEMMA ReplanMoves ==
    ASSUME [Next]_vars
    PROVE  /\ pc' \in {"read", "apply"} =>
                 \/ group' = group /\ pc \in {"read", "apply"}
                 \/ \E u : group' = OfUnit(stale, u)
           /\ pc' = "apply" =>
                 \/ DecidePlan /\ ~Abort /\ group' = group
                 \/ pc = "apply" /\ group' = group /\ (ops' = ops \/ (ops # << >> /\ ops' = Tail(ops)))
<1>1. CASE UNCHANGED vars
  BY <1>1 DEF vars, planVars
<1>2. CASE BeginPass \/ JudgeDue \/ ScanDone \/ Sift \/ SiftDone \/ ReadUnit
  BY <1>2 DEF BeginPass, JudgeDue, ScanDone, Sift, SiftDone, ReadUnit, Abort
<1>3. CASE WriteVerdict \/ Retire
  BY <1>3, Zenon DEF WriteVerdict, Retire, Abort
<1>4. CASE DecidePlan
  <2>1. CASE Abort
    BY <2>1 DEF Abort
  <2>2. CASE ~Abort
    BY <1>4, <2>2, DecidePlanEnds
  <2> QED BY <2>1, <2>2
<1>5. CASE ApplyPlan
  <2>1. /\ pc = "apply" /\ ops # << >>
        /\ \/ ops' = Tail(ops) /\ UNCHANGED << pc, group >>
           \/ Abort
    BY <1>5, Zenon DEF ApplyPlan
  <2> QED BY <2>1 DEF Abort
<1>6. CASE ApplyDone \/ RetireDone \/ PlanDone \/ Flush \/ MarkDone \/ SendDone \/ SweepDone
  BY <1>6 DEF ApplyDone, RetireDone, PlanDone, Flush, MarkDone, SendDone, SweepDone
<1>7. CASE Send \/ Mark \/ Tick \/ Crash
  BY <1>7 DEF Send, Mark, Tick, Crash, Unsent
<1>8. CASE CorrectUnit \/ FollowReminder \/ CorrectReminder \/ CorrectDone
  BY <1>8, Zenon DEF CorrectUnit, FollowReminder, CorrectReminder, CorrectDone, planVars
<1> QED BY <1>1, <1>2, <1>3, <1>4, <1>5, <1>6, <1>7, <1>8 DEF Next, PassStep, CorrectionStep

LEMMA StepKeepsAim ==
    ASSUME KeysInv, SeriesInv, Columns, KeepsNames, PlansSafe', KeepsRows, [Next]_vars
    PROVE  AimInv'
<1>0. AimInv /\ SafeOps(ops) /\ SafeOps(cops)
  BY DEF KeysInv, SeriesInv, PlansSafe
<1>1. pc' \in {"read", "apply"} => \A r, s \in group' : r.body.unit = s.body.unit
  BY <1>0, ReplanMoves DEF AimInv, OfUnit
<1>2. pc' = "apply" => \A r \in group' : AimedOps(ops, r.body.unit)' 
  <2> SUFFICES ASSUME pc' = "apply", NEW r \in group'
               PROVE  AimedOps(ops, r.body.unit)'
    OBVIOUS
  <2> DEFINE u == r.body.unit
  <2>1. SafeOps(ops') /\ AimedOps(ops', u)
    <3>1. CASE DecidePlan /\ ~Abort /\ group' = group
      <4>1. SafeOps(ops') /\ \E s \in group : AimedOps(ops', s.body.unit)
        BY <3>1, DecidesSafely
      <4>2. \A s \in group : s.body.unit = u
        BY <1>1, <3>1
      <4> QED BY <4>1, <4>2
    <3>2. CASE pc = "apply" /\ group' = group /\ (ops' = ops \/ (ops # << >> /\ ops' = Tail(ops)))
      <4>1. AimedOps(ops, u)
        BY <1>0, <3>2 DEF AimInv
      <4> QED BY <1>0, <3>2, <4>1, TailIsSafe
    <3> QED BY <3>1, <3>2, ReplanMoves
  <2> HIDE DEF u
  <2>2. PICK s : s = ops'
    OBVIOUS
  <2>3. AimedOps(s, u)'
    BY <2>1, <2>2, AimStays
  <2> QED BY <2>2, <2>3 DEF AimedOps, Aimed, u
<1>3. SafeOps(cops') /\ AimedOps(cops', cunit') /\ (cpc' # "apply" => cops' = << >>)
  <2>1. CASE FollowReminder
    <3>1. cunit' = cunit /\ cpc' = "apply"
      BY <2>1, Zenon DEF FollowReminder
    <3> QED BY <2>1, <3>1, FollowsSafely
  <2>2. CASE CorrectReminder
    <3>1. /\ cpc = "apply" /\ cops # << >> /\ cunit' = cunit
          /\ \/ cops' = Tail(cops) /\ cpc' = cpc
             \/ cops' = << >>
      BY <2>2, Zenon DEF CorrectReminder
    <3>2. SafeOps(Tail(cops)) /\ AimedOps(Tail(cops), cunit)
      BY <1>0, <3>1, TailIsSafe DEF AimInv
    <3> QED BY <3>1, <3>2, NoOpsAreSafe
  <2>3. CASE CorrectUnit
    <3>1. cpc = "idle" /\ cops' = cops
      BY <2>3 DEF CorrectUnit
    <3>2. cops' = << >>
      BY <1>0, <3>1 DEF AimInv
    <3> QED BY <3>2, NoOpsAreSafe
  <2>4. CASE Crash
    <3>1. cops' = << >>
      BY <2>4 DEF Crash
    <3> QED BY <3>1, NoOpsAreSafe
  <2>5. CASE CorrectDone
    <3>1. cops' = << >>
      BY <2>5 DEF CorrectDone
    <3> QED BY <3>1, NoOpsAreSafe
  <2>6. CASE PassStep \/ Tick \/ UNCHANGED vars
    <3>1. UNCHANGED corrVars
      BY <2>6, Zenon DEF PassStep, BeginPass, JudgeDue, WriteVerdict, ScanDone, Sift, SiftDone,
         ReadUnit, DecidePlan, ApplyPlan, ApplyDone, Retire, RetireDone, PlanDone, Flush, Send,
         Mark, MarkDone, SendDone, SweepDone, Tick, vars
    <3>2. cpc' = cpc /\ cunit' = cunit /\ cops' = cops
      BY <3>1 DEF corrVars
    <3> QED BY <1>0, <3>2 DEF AimInv
  <2> QED BY <2>1, <2>2, <2>3, <2>4, <2>5, <2>6 DEF Next, CorrectionStep
<1>4. AimedOps(cops, cunit)'
  <2>1. PICK s, u : s = cops' /\ u = cunit'
    OBVIOUS
  <2>2. AimedOps(s, u)'
    BY <1>3, <2>1, AimStays
  <2> QED BY <2>1, <2>2 DEF AimedOps, Aimed
<1> QED BY <1>1, <1>2, <1>3, <1>4 DEF AimInv

LEMMA InitKeys == Init => KeysInv
<1> SUFFICES ASSUME Init
             PROVE  KeysInv
  OBVIOUS
<1>1. \A i \in Ids : There(i) => body[i].key = NoKey
  BY InitIsSafe DEF There
<1>2. Numbered /\ Apart
  BY <1>1 DEF Numbered, Apart, KeyFits
<1>3. pc = "idle" /\ cops = << >>
  BY DEF Init
<1>4. AimInv
  BY <1>3, NoOpsAreSafe DEF AimInv
<1> QED BY <1>2, <1>4 DEF KeysInv

(* ADR-0032: whatever the passes, the corrections, the failures and the    *)
(* crashes leave behind, no catch-up of an event takes the id of another   *)
(* (CatchUpID numbers it past the ones the table holds): none is lost to a *)
(* conflict of ids with an earlier attempt.                                *)
THEOREM CatchUpsAreApart == Spec => [](\A u \in Units : \A at : OwnIds(u, at))
<1>1. Init => KeysInv /\ SeriesInv /\ Columns
  BY InitKeys, InitIsSafe, InitColumns
<1>2. KeysInv /\ SeriesInv /\ Columns /\ [Next]_vars => KeysInv' /\ SeriesInv' /\ Columns'
  <2> SUFFICES ASSUME KeysInv, SeriesInv, Columns, [Next]_vars
               PROVE  KeysInv' /\ SeriesInv' /\ Columns'
    OBVIOUS
  <2>1. SeriesInv' /\ Columns' /\ KeepsRows
    BY StepKeepsTable, StepKeepsPassRows, StepKeepsPlans, StepIsRowStep DEF SeriesInv
  <2>2. Numbered' /\ Apart' /\ KeepsNames
    BY StepKeepsNames
  <2>3. AimInv'
    BY <2>1, <2>2, StepKeepsAim DEF SeriesInv
  <2> QED BY <2>1, <2>2, <2>3 DEF KeysInv
<1>3. KeysInv => \A u \in Units : \A at : OwnIds(u, at)
  BY DEF KeysInv, Apart, There, OwnIds, CatchUps
<1> QED BY <1>1, <1>2, <1>3, PTL DEF Spec
=============================================================================
