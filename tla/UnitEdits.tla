------------------------------ MODULE UnitEdits ------------------------------
(***************************************************************************)
(* One unit, the reminders armed for it, and everyone who writes them with *)
(* no lock between: a correction from the chat and one from the unit's     *)
(* page, "it is done", the night's naming of untitled units, and a change  *)
(* of the reminder preferences that re-arms what is armed.  Each of them   *)
(* reads the unit once, writes a journal row, then the unit field by       *)
(* field, then the reminders row by row; the repositories share no         *)
(* transaction, so any call may be the last one that succeeds.             *)
(*                                                                         *)
(* A date is a number, those up to 0 have passed; a content has a body and *)
(* the date it states; a reminder keeps the date it is about and what it   *)
(* says.  Leads are abstracted to how many reminders a date gets.          *)
(***************************************************************************)
EXTENDS Integers, FiniteSets

CONSTANTS Correctors, \* who corrects or closes: the chat and the unit's page
          Rows,       \* the trigger rows there are, numbers
          Dates,      \* the dates a unit may be given
          InitialDates, \* those it may be captured with, all ahead
          Leads,      \* how many reminders it may ask for itself
          Bodies,     \* the wordings of a content
          MaxEdits,   \* how many operations begin
          MaxMishaps  \* how many calls fail, crashes, and reminders that ring meanwhile

ASSUME EditsAssumption == /\ Rows \subseteq Nat /\ IsFiniteSet(Rows) /\ Cardinality(Rows) >= 2
                          /\ Leads \subseteq Nat /\ InitialDates \subseteq Nat \ {0}
                          /\ Correctors \cap {"night", "prefs"} = {}

VARIABLES unit,    \* the row of units
          rows,    \* the unit's rows of triggers
          written, \* what the journal holds of each field, as previous or next
          job,     \* what each actor is doing
          pref,    \* the preferences in force: the reminders an event gets
          pending, \* the last config.updated row has no reminders_followed after it
          torn,    \* ghost: two operations overlapped, or one stopped half way
          edits, mishaps   \* the bounds' counters

stored == <<unit, rows, written, pref, pending>>
counts == <<edits, mishaps>>
vars == <<stored, job, torn, counts>>

NoDate == -1
NoTitle == 0
UserTitle == 1
ModelTitle == 2
Fields == {"date", "content", "title", "leads"}
Texts == [body : Bodies, says : Dates \cup {NoDate}]

(* What a reminder of the unit says: its title, or without one its content. *)
Blank == [body |-> 0, says |-> NoDate]
ShownText(u) == [title |-> u.title, text |-> IF u.title = NoTitle THEN u.content ELSE Blank]
Row(d, u) == [status |-> "armed", about |-> d, says |-> ShownText(u)]

Actors == Correctors \cup {"night", "prefs"}
NoPlan == [f \in {} |-> NoDate]
NoUnit == [kind |-> "none", status |-> "none", date |-> NoDate, content |-> Blank, title |-> NoTitle, leads |-> 0]
NoRow == Row(NoDate, NoUnit)
Idle == [pc |-> "idle", read |-> NoUnit, plan |-> NoPlan, todo |-> {}, move |-> NoPlan, arm |-> 0,
         drop |-> {}, new |-> NoRow, next |-> "idle", moved |-> FALSE, alone |-> TRUE]
Reading(u, pc) == [Idle EXCEPT !.pc = pc, !.read = u]
Busy == {a \in Actors : job[a].pc # "idle"}

(* The reminders a date gets: none once past, else by the unit's own leads *)
(* or the preferences, less those sent about it, whose time is behind.      *)
Due(d, leads, p) == IF d <= 0 THEN 0 ELSE IF leads = 0 THEN p ELSE leads
Sent(d) == Cardinality({r \in Rows : rows[r].status = "fired" /\ rows[r].about = d})
Planned(d, leads) == LET n == Due(d, leads, pref) - Sent(d) IN IF n > 0 THEN n ELSE 0
Armed == {r \in Rows : rows[r].status = "armed"}

-----------------------------------------------------------------------------
(* What a correction may change: PlanEdit, the title and the carried text.  *)
Put(p, f, v) == [g \in DOMAIN p \cup {f} |-> IF g = f THEN v ELSE p[g]]
Only(f, v) == Put(NoPlan, f, v)

(* The content keeps the date it states, or the correction asks instead.    *)
KeepsInstant(c, u) == u.content.says = u.date => c.says = u.date

(* A moved date takes the content's statement of it along; the wording of   *)
(* the classifier is taken only when it saw the unit as it is.              *)
WithText(u, d, seen) ==
  {Put(Only("date", d), "content", c) : c \in IF seen THEN {x \in Texts : x.says = d /\ x # u.content} ELSE {}}
CarryText(u, d) ==
  IF u.content.says = u.date THEN Put(Only("date", d), "content", [u.content EXCEPT !.says = d])
                             ELSE Only("date", d)
PlanEdit(u, seen) ==
  (UNION {WithText(u, d, seen) \cup {CarryText(u, d)} : d \in Dates \ {u.date}})
    \cup {Only("content", c) : c \in {x \in Texts \ {u.content} : KeepsInstant(x, u)}}

(* A title that a correction did not repeat no longer fits what it changed. *)
WithTitle(p, u, seen) ==
  (IF seen THEN {IF u.title = UserTitle THEN p ELSE Put(p, "title", UserTitle)} ELSE {})
    \cup (IF u.title # NoTitle THEN {Put(p, "title", NoTitle)} ELSE {p})

(* The plans whose fields change the unit, and those that repeat what it    *)
(* holds already: these write nothing but the reminders.                    *)
Changes(u, seen) ==
  (UNION {WithTitle(p, u, seen) : p \in PlanEdit(u, seen)})
    \cup (IF seen /\ u.title # UserTitle THEN {Only("title", UserTitle)} ELSE {})
    \cup (IF u.kind = "event" /\ u.date > 0 THEN {Only("leads", l) : l \in Leads \ {u.leads}} ELSE {})
Repeats(u) == {Only("date", u.date), Only("content", u.content)}
                \cup (IF u.leads = 0 THEN {} ELSE {Only("leads", u.leads)})

Edited(u, p) == [f \in DOMAIN u |-> IF f \in DOMAIN p THEN p[f] ELSE u[f]]
Moved(u, p) == u.kind = "event" /\ DOMAIN p \cap {"date", "leads"} # {}
Retexts(p) == DOMAIN p \cap {"content", "title"} # {}

-----------------------------------------------------------------------------
(* Beginning: who begins beside another is not alone, nor is the other.     *)
Alone(a) == Busy \subseteq {a}
Begins(a, j) ==
  /\ job[a].pc = "idle"
  /\ edits < MaxEdits
  /\ edits' = edits + 1
  /\ job' = [x \in Actors |-> IF x = a THEN [j EXCEPT !.alone = Alone(a)]
                                       ELSE [job[x] EXCEPT !.alone = FALSE]]
  /\ torn' = (torn \/ ~Alone(a))

Goes(a, j) == job' = [job EXCEPT ![a] = j]
Step(a, pc) == Goes(a, [job[a] EXCEPT !.pc = pc])
Ends(a) == Goes(a, Idle)
Mishap == mishaps < MaxMishaps /\ mishaps' = mishaps + 1
Quiet == UNCHANGED <<torn, counts>>

(* The referent is read and the plan made from it; an ambiguous one, or one *)
(* whose content would lose its date, only asks.                            *)
Resolve(a) ==
  /\ \E p \in UNION {Changes(unit, seen) : seen \in BOOLEAN} :
       Begins(a, [Reading(unit, "row") EXCEPT !.plan = p, !.todo = {f \in Fields : f \in DOMAIN p /\ p[f] # unit[f]}])
  /\ UNCHANGED <<stored, mishaps>>

RepeatsIt(a) ==
  /\ \E p \in Repeats(unit) : Begins(a, [Reading(unit, "follow") EXCEPT !.plan = p])
  /\ UNCHANGED <<stored, mishaps>>

(* The journal row holds the values the unit was read with, and the next.   *)
BugRecordPreImage(a) ==
  LET j == job[a] IN
  /\ j.pc = "row"
  /\ written' = [f \in Fields |-> IF f \in j.todo THEN written[f] \cup {j.plan[f]} ELSE written[f]]
  /\ Step(a, "edit")
  /\ Quiet /\ UNCHANGED <<unit, rows, pref, pending>>
RecordPreImage(a) ==
  LET j == job[a] IN
  /\ j.pc = "row"
  /\ written' = [f \in Fields |-> IF f \in j.todo THEN written[f] \cup {j.read[f], j.plan[f]} ELSE written[f]]
  /\ Step(a, "edit")
  /\ Quiet /\ UNCHANGED <<unit, rows, pref, pending>>

(* One UPDATE a field, in the plan's order, whatever the row holds by now.   *)
Order == [f \in Fields |-> CASE f = "date" -> 1 [] f = "content" -> 2 [] f = "leads" -> 3 [] OTHER -> 4]
First(todo) == CHOOSE f \in todo : \A g \in todo : Order[f] <= Order[g]

DispatchEdit(a) ==
  LET j == job[a] IN
  /\ j.pc = "edit" /\ j.todo # {}
  /\ LET f == First(j.todo) IN
       /\ unit' = [unit EXCEPT ![f] = j.plan[f]]
       /\ Goes(a, [j EXCEPT !.todo = j.todo \ {f}, !.pc = IF j.todo = {f} THEN "follow" ELSE "edit"])
  /\ Quiet /\ UNCHANGED <<rows, written, pref, pending>>

(* What is written to the rows read as armed: those kept are moved onto the  *)
(* date and say the text, if that changes them; as many as are missing are   *)
(* armed; the others are expired.  A change of text alone moves nothing.     *)
Keeps(armed, n) == {r \in armed : Cardinality({s \in armed : s < r}) < n}
Rewrites(S, to) == [r \in {x \in S : to[x] # rows[x]} |-> to[r]]
Onto(j, to, new, n) ==
  LET kept == Keeps(Armed, n) IN
  [j EXCEPT !.pc = "apply", !.new = new, !.move = Rewrites(kept, to),
            !.arm = n - Cardinality(kept), !.drop = Armed \ kept]
OntoDate(j, d, after) == Onto(j, [r \in Rows |-> Row(d, after)], Row(d, after), Planned(d, after.leads))
Retexted(j, says) ==
  [j EXCEPT !.pc = "apply", !.new = [NoRow EXCEPT !.says = says],
            !.move = Rewrites(Armed, [r \in Rows |-> [rows[r] EXCEPT !.says = says]])]
(* A title the correction cleared is asked for again once it has landed.    *)
After(j) == IF "title" \in DOMAIN j.plan /\ j.plan["title"] = NoTitle THEN "name" ELSE "idle"

BugFollowReminder(a) ==
  LET from == job[a]
      after == Edited(from.read, from.plan)
      j == [Idle EXCEPT !.pc = "apply", !.next = After(from), !.alone = from.alone,
                          !.moved = Moved(from.read, from.plan)]
  IN /\ from.pc = "follow"
     /\ IF Moved(from.read, from.plan) /\ after.date # from.read.date
        THEN Goes(a, OntoDate(j, after.date, after))
        ELSE Goes(a, IF Retexts(from.plan) THEN Retexted(j, ShownText(after)) ELSE j)
     /\ Quiet /\ UNCHANGED stored
FollowReminder(a) ==
  LET from == job[a]
      after == Edited(from.read, from.plan)
      j == [Idle EXCEPT !.pc = "apply", !.next = After(from), !.alone = from.alone,
                          !.moved = Moved(from.read, from.plan)]
  IN /\ from.pc = "follow"
     /\ IF Moved(from.read, from.plan)
        THEN Goes(a, OntoDate(j, after.date, after))
        ELSE Goes(a, IF Retexts(from.plan) THEN Retexted(j, ShownText(after)) ELSE j)
     /\ Quiet /\ UNCHANGED stored

(* One plan after another is moved or armed, and only then is a row dropped; *)
(* each write is guarded by armed.  A close skips a row that fired meanwhile.*)
ApplyMove(a) ==
  LET j == job[a] IN
  /\ j.pc = "apply"
  /\ \E r \in DOMAIN j.move :
       /\ rows[r].status = "armed"
       /\ rows' = [rows EXCEPT ![r] = j.move[r]]
       /\ Goes(a, [j EXCEPT !.move = [s \in DOMAIN j.move \ {r} |-> j.move[s]]])
  /\ Quiet /\ UNCHANGED <<unit, written, pref, pending>>
ApplyArm(a) ==
  LET j == job[a] IN
  /\ j.pc = "apply" /\ j.arm > 0
  /\ \E r \in Rows :
       /\ rows[r].status = "free" /\ \A s \in Rows : rows[s].status = "free" => r <= s
       /\ rows' = [rows EXCEPT ![r] = j.new]
       /\ Goes(a, [j EXCEPT !.arm = j.arm - 1])
  /\ Quiet /\ UNCHANGED <<unit, written, pref, pending>>
ApplyDrop(a) ==
  LET j == job[a] IN
  /\ j.pc = "apply" /\ j.move = NoPlan /\ j.arm = 0
  /\ \E r \in j.drop :
       /\ rows[r].status = "armed" \/ j.next = "closed"
       /\ rows' = [rows EXCEPT ![r].status = IF @ = "armed" THEN "free" ELSE @]
       /\ Goes(a, [j EXCEPT !.drop = j.drop \ {r}])
  /\ Quiet /\ UNCHANGED <<unit, written, pref, pending>>
Applied(a) ==
  LET j == job[a] IN
  /\ j.pc = "apply" /\ j.move = NoPlan /\ j.arm = 0 /\ j.drop = {}
  /\ Goes(a, IF j.next \in {"idle", "closed"} THEN Idle ELSE [Idle EXCEPT !.pc = j.next, !.alone = j.alone])
  /\ Quiet /\ UNCHANGED stored

-----------------------------------------------------------------------------
(* Naming, at night or after a correction: the title is written only where   *)
(* there is none, before its row, and the reminders then say it.             *)
NightNames ==
  /\ unit.title = NoTitle /\ unit.status = "pool"
  /\ Begins("night", [Idle EXCEPT !.pc = "name"])
  /\ UNCHANGED <<stored, mishaps>>
NameIfUntitled(a) ==
  /\ job[a].pc = "name"
  /\ \/ /\ unit.title = NoTitle
        /\ unit' = [unit EXCEPT !.title = ModelTitle]
        /\ Step(a, "named")
     \/ Ends(a) /\ UNCHANGED unit
  /\ Quiet /\ UNCHANGED <<rows, written, pref, pending>>
RecordName(a) ==
  /\ job[a].pc = "named"
  /\ written' = [written EXCEPT !["title"] = @ \cup {NoTitle, ModelTitle}]
  /\ Step(a, "retext")
  /\ Quiet /\ UNCHANGED <<unit, rows, pref, pending>>
RetextReminders(a) ==
  /\ job[a].pc = "retext"
  /\ Goes(a, [Retexted(job[a], ShownText([unit EXCEPT !.title = ModelTitle])) EXCEPT !.next = "idle"])
  /\ Quiet /\ UNCHANGED stored

(* "It is done": the unit and its armed reminders are read, the status is    *)
(* written if it is still the one read, and then each reminder is expired.   *)
CloseDone(a) ==
  /\ unit.status = "pool"
  /\ Begins(a, [Idle EXCEPT !.pc = "close", !.drop = Armed])
  /\ UNCHANGED <<stored, mishaps>>
Closing(a) == [Idle EXCEPT !.pc = "apply", !.next = "closed", !.drop = job[a].drop, !.alone = job[a].alone]
BugArchive(a) ==
  /\ job[a].pc = "close"
  /\ IF unit.status # "pool" THEN Ends(a) /\ UNCHANGED unit
     ELSE /\ unit' = [unit EXCEPT !.status = "archived"]
          /\ Goes(a, [Closing(a) EXCEPT !.drop = IF unit.kind = "event" THEN {} ELSE @])
  /\ Quiet /\ UNCHANGED <<rows, written, pref, pending>>
Archive(a) ==
  /\ job[a].pc = "close"
  /\ IF unit.status # "pool" THEN Ends(a) /\ UNCHANGED unit
     ELSE unit' = [unit EXCEPT !.status = "archived"] /\ Goes(a, Closing(a))
  /\ Quiet /\ UNCHANGED <<rows, written, pref, pending>>

(* A save of the preferences: the values, the row that leaves the re-arm     *)
(* pending, the re-arm of an event still ahead that has reminders, and the   *)
(* row that ends it.  A save that changes nothing finishes a pending one.    *)
SavePrefs ==
  /\ \E p \in {1, 2} \ {pref} :
       /\ pref' = p
       /\ Begins("prefs", [Idle EXCEPT !.pc = "change"])
  /\ UNCHANGED <<unit, rows, written, pending, mishaps>>
SaveAgain ==
  /\ pending
  /\ Begins("prefs", [Idle EXCEPT !.pc = "rearm"])
  /\ UNCHANGED <<stored, mishaps>>
RecordChange ==
  /\ job["prefs"].pc = "change"
  /\ pending' = TRUE
  /\ Step("prefs", "rearm")
  /\ Quiet /\ UNCHANGED <<unit, rows, written, pref>>
ChangeUnrecorded ==
  /\ job["prefs"].pc = "change"
  /\ Mishap
  /\ Step("prefs", "rearm")
  /\ torn' = TRUE
  /\ UNCHANGED <<stored, edits>>
BugRearm ==
  LET j == [job["prefs"] EXCEPT !.next = "followed"] IN
  /\ job["prefs"].pc = "rearm"
  /\ Goes("prefs", [j EXCEPT !.pc = "followed"])
  /\ Quiet /\ UNCHANGED stored
Rearm ==
  LET j == [job["prefs"] EXCEPT !.next = "followed"] IN
  /\ job["prefs"].pc = "rearm"
  /\ Goes("prefs", IF unit.kind = "event" /\ unit.date > 0 /\ Armed # {}
                   THEN Onto(j, [r \in Rows |-> [rows[r] EXCEPT !.about = unit.date]],
                             Row(unit.date, unit), Planned(unit.date, unit.leads))
                   ELSE [j EXCEPT !.pc = "followed"])
  /\ Quiet /\ UNCHANGED stored
RecordFollowed ==
  /\ job["prefs"].pc = "followed"
  /\ pending' = FALSE
  /\ Ends("prefs")
  /\ Quiet /\ UNCHANGED <<unit, rows, written, pref>>

-----------------------------------------------------------------------------
(* A call that fails ends the operation where it stands; so does a reminder *)
(* that is no longer armed when a correction moves or expires it.           *)
HalfDone(a) ==
  \/ a # "prefs" /\ job[a].pc \in {"edit", "follow", "apply", "named", "retext"}
  \/ job[a].pc = "change"
Fails(a) ==
  /\ Mishap
  /\ job[a].pc # "idle"
  /\ Ends(a)
  /\ torn' = (torn \/ HalfDone(a))
  /\ UNCHANGED <<stored, edits>>
Conflict(a) ==
  LET j == job[a] IN
  /\ j.pc = "apply"
  /\ \/ \E r \in DOMAIN j.move : rows[r].status # "armed"
     \/ j.move = NoPlan /\ j.arm = 0 /\ j.next # "closed" /\ \E r \in j.drop : rows[r].status # "armed"
  /\ Ends(a)
  /\ torn' = (torn \/ HalfDone(a))
  /\ UNCHANGED <<stored, counts>>
Crash ==
  /\ Mishap
  /\ Busy # {}
  /\ job' = [a \in Actors |-> Idle]
  /\ torn' = (torn \/ \E a \in Actors : HalfDone(a))
  /\ UNCHANGED <<stored, edits>>

(* A pass of the scan fires a row; ReminderPass models it.                  *)
RowFires ==
  /\ Mishap
  /\ \E r \in Armed : rows' = [rows EXCEPT ![r].status = "fired"]
  /\ UNCHANGED <<unit, written, pref, pending, job, torn, edits>>

Init ==
  /\ \E k \in {"event", "task"}, c \in Texts, t \in {NoTitle, UserTitle}, d \in InitialDates :
       /\ c.says \in {NoDate, d}
       /\ unit = [kind |-> k, status |-> "pool", date |-> d, content |-> c, title |-> t, leads |-> 0]
  /\ pref = 2   \* the code's default: a day and two hours before
  /\ LET n == IF unit.kind = "event" THEN pref ELSE 1 IN
     rows = [r \in Rows |-> IF Cardinality({s \in Rows : s < r}) < n
                            THEN Row(unit.date, unit)
                            ELSE [Row(unit.date, unit) EXCEPT !.status = "free"]]
  /\ written = [f \in Fields |-> {}]
  /\ job = [a \in Actors |-> Idle]
  /\ pending = FALSE /\ torn = FALSE
  /\ edits = 0 /\ mishaps = 0

Applies(a) == ApplyMove(a) \/ ApplyArm(a) \/ ApplyDrop(a) \/ Applied(a)
Corrects(a) == Resolve(a) \/ RepeatsIt(a) \/ RecordPreImage(a) \/ DispatchEdit(a) \/ FollowReminder(a) \/ CloseDone(a) \/ Archive(a)
Names(a) == NameIfUntitled(a) \/ RecordName(a) \/ RetextReminders(a)
Prefers == SavePrefs \/ SaveAgain \/ RecordChange \/ ChangeUnrecorded \/ Rearm \/ RecordFollowed
Next ==
  \/ \E a \in Correctors : Corrects(a)
  \/ \E a \in Correctors \cup {"night"} : Names(a)
  \/ \E a \in Actors : Applies(a) \/ Fails(a) \/ Conflict(a)
  \/ NightNames \/ Prefers
  \/ Crash \/ RowFires
Spec == Init /\ [][Next]_vars

-----------------------------------------------------------------------------
TypeOK ==
  /\ unit \in [kind : {"event", "task"}, status : {"pool", "archived"}, date : Dates, content : Texts,
               title : {NoTitle, UserTitle, ModelTitle}, leads : {0} \cup Leads]
  /\ \A r \in Rows : rows[r].status \in {"free", "armed", "fired"} /\ rows[r].about \in Dates
  /\ \A a \in Actors : job[a].drop \subseteq Rows /\ DOMAIN job[a].move \subseteq Rows /\ job[a].todo \subseteq Fields /\ job[a].arm \in Nat
  /\ pref \in {1, 2} /\ pending \in BOOLEAN /\ torn \in BOOLEAN

(* A value of the unit that is overwritten is in the journal by then, as     *)
(* what an edit found or as what an edit wrote, even when two operations     *)
(* interleave and neither found it (I23).  Only a name given by the model,   *)
(* which is written before its row, may be lost, and the lack of one.        *)
OverwrittenIsRecorded ==
  [][\A f \in Fields : \/ unit'[f] = unit[f]
                       \/ unit[f] \in written[f]
                       \/ f = "title" /\ unit.title \in {NoTitle, ModelTitle}]_vars

(* An operation that lands with nobody beside it leaves the reminders saying *)
(* what the unit says, and one that moves an event leaves it the reminders   *)
(* its date gets, about that date: also when it repeats one that failed half *)
(* way, however much of that was done (I29, applyWithPreImage's comment).    *)
Says == \A r \in Armed : rows[r].says = ShownText(unit)
About == /\ \A r \in Armed : rows[r].about = unit.date
         /\ Cardinality(Armed) = Planned(unit.date, unit.leads)
Lands(a) == Applied(a) /\ job[a].alone
LandsRight ==
  [][\A a \in Actors \ {"prefs"} :
       Lands(a) => /\ job[a].new # NoRow \/ job[a].moved => Says
                   /\ job[a].moved => About]_vars

(* While no re-arm is pending an event still ahead has the reminders the     *)
(* preferences in force give it, however often the re-arm failed (I35).  Set *)
(* apart are the runs where torn holds: two operations overlapped there, or  *)
(* one of a correction, a close or a naming stopped half way, or the row of  *)
(* the change itself was not written.                                        *)
PrefsAreFollowed ==
  ~torn /\ ~pending /\ Busy = {} /\ unit.kind = "event" /\ unit.date > 0 /\ Armed # {}
    => About

(* A close that lands alone leaves the unit no armed reminder: one that goes *)
(* through to its last write, with no other operation on the unit between    *)
(* its first read and that write.  Of a close that stops half way or         *)
(* overlaps another operation nothing is said.                               *)
ClosedIsQuiet == [][\A a \in Correctors : Lands(a) /\ job[a].next = "closed" => Armed = {}]_vars
=============================================================================
