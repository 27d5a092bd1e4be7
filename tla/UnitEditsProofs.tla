--------------------------- MODULE UnitEditsProofs ---------------------------
(***************************************************************************)
(* Four results about the operations on a unit, for any number of          *)
(* correctors, dates, rows and operations.  What the user wrote is in the  *)
(* journal before it is overwritten: each field an operation is about to   *)
(* write still holds the value it read until its row is written, or one    *)
(* that another row holds (Inv).  An operation that lands with nobody      *)
(* beside it leaves the reminders as they should be, and a close leaves    *)
(* none: what it has still to write is what the reminders lack, and a row  *)
(* that fires before it is written stops the operation (LandInv).  The     *)
(* reminders follow the preferences unless an operation is on its way      *)
(* there or the journal has a change not yet followed (FollowInv).         *)
(***************************************************************************)
EXTENDS UnitEdits, TLAPS, FiniteSetTheorems, WellFoundedInduction

UnitFields == {"kind", "status", "date", "content", "title", "leads"}
JobFields == {"pc", "read", "plan", "todo", "move", "arm", "drop", "new", "next", "moved", "alone"}

(* What an overwrite of the field would not lose. *)
Kept(f) == unit[f] \in written[f] \/ (f = "title" /\ unit["title"] \in {NoTitle, ModelTitle})

Shapes == /\ DOMAIN unit = UnitFields
          /\ DOMAIN written = Fields
          /\ DOMAIN job = Actors
          /\ \A a \in Actors : DOMAIN job[a] = JobFields /\ job[a].todo \subseteq Fields
                                /\ job[a].next \notin {"row", "edit"}
Found(a) == job[a].pc = "row" => \A f \in job[a].todo : unit[f] = job[a].read[f] \/ Kept(f)
Noted(a) == job[a].pc = "edit" => \A f \in job[a].todo : Kept(f) /\ job[a].plan[f] \in written[f]
Inv == Shapes /\ \A a \in Actors : Found(a) /\ Noted(a)

(* A step that writes neither the unit nor the journal, and leaves nobody   *)
(* newly about to write the unit.                                           *)
Aside == /\ UNCHANGED <<unit, written>>
         /\ DOMAIN job' = Actors
         /\ \A a \in Actors :
              /\ DOMAIN job'[a] = JobFields /\ job'[a].todo \subseteq Fields
              /\ job'[a].next \notin {"row", "edit"}
              /\ \/ job'[a].pc \notin {"row", "edit"}
                 \/ /\ job'[a].pc = job[a].pc /\ job'[a].todo = job[a].todo
                    /\ job'[a].plan = job[a].plan /\ job'[a].read = job[a].read

LEMMA AsideKeeps == ASSUME Inv, Aside PROVE Inv'
<1>1. Shapes' BY DEF Inv, Shapes, Aside
<1>2. ASSUME NEW a \in Actors PROVE Found(a)' /\ Noted(a)'
  <2>1. Found(a) /\ Noted(a) BY DEF Inv
  <2>2. CASE job'[a].pc \notin {"row", "edit"} BY <2>2 DEF Found, Noted
  <2>3. CASE job'[a].pc = job[a].pc /\ job'[a].todo = job[a].todo /\ job'[a].plan = job[a].plan /\ job'[a].read = job[a].read
    BY <2>1, <2>3 DEF Found, Noted, Kept, Aside
  <2>4. QED BY <2>2, <2>3 DEF Aside
<1>3. QED BY <1>1, <1>2 DEF Inv

LEMMA IdleShape == DOMAIN Idle = JobFields /\ Idle.todo = {} /\ Idle.pc = "idle" /\ Idle.next = "idle"
BY DEF Idle, JobFields

(* One actor goes on from the record j, everyone else as before.            *)
LEMMA GoesAside ==
  ASSUME Inv, NEW a \in Actors, NEW j, Goes(a, j), UNCHANGED <<unit, written>>,
         DOMAIN j = JobFields, j.todo \subseteq Fields, j.pc \notin {"row", "edit"},
         j.next \notin {"row", "edit"}
  PROVE Aside
BY DEF Goes, Aside, Inv, Shapes

LEMMA EndsAside ==
  ASSUME Inv, NEW a \in Actors, Ends(a), UNCHANGED <<unit, written>>
  PROVE Aside
BY IdleShape, GoesAside DEF Ends

LEMMA BeginsAside ==
  ASSUME Inv, NEW a \in Actors, NEW j, Begins(a, j), UNCHANGED <<unit, written>>,
         DOMAIN j = JobFields, j.todo \subseteq Fields, j.pc \notin {"row", "edit"},
         j.next \notin {"row", "edit"}
  PROVE Aside
BY DEF Begins, Aside, Inv, Shapes, JobFields

-----------------------------------------------------------------------------
(* The records the actions make of an actor's. *)
LEMMA OntoShape ==
  ASSUME NEW j, NEW to, NEW new, NEW n, DOMAIN j = JobFields
  PROVE LET k == Onto(j, to, new, n) IN DOMAIN k = JobFields /\ k.todo = j.todo /\ k.pc = "apply" /\ k.next = j.next
BY DEF Onto, JobFields

LEMMA RetextShape ==
  ASSUME NEW j, NEW says, DOMAIN j = JobFields
  PROVE LET k == Retexted(j, says) IN DOMAIN k = JobFields /\ k.todo = j.todo /\ k.pc = "apply" /\ k.next = j.next
BY DEF Retexted, JobFields

LEMMA ResolveKeeps == ASSUME Inv, NEW a \in Correctors, Resolve(a) PROVE Inv'
<1> USE DEF Inv
<1>a. a \in Actors BY DEF Actors
<1>1. PICK p : Begins(a, [Reading(unit, "row") EXCEPT !.plan = p,
                            !.todo = {f \in Fields : f \in DOMAIN p /\ p[f] # unit[f]}])
  BY DEF Resolve
<1>2. UNCHANGED <<unit, written>> BY DEF Resolve, stored
<1> DEFINE j == [Reading(unit, "row") EXCEPT !.plan = p, !.todo = {f \in Fields : f \in DOMAIN p /\ p[f] # unit[f]}]
<1>3. DOMAIN j = JobFields /\ j.todo \subseteq Fields /\ j.pc = "row" /\ j.read = unit /\ j.next = "idle"
  BY DEF Reading, Idle, JobFields
<1> HIDE DEF j
<1>4. job' = [x \in Actors |-> IF x = a THEN [j EXCEPT !.alone = Alone(a)] ELSE [job[x] EXCEPT !.alone = FALSE]]
  BY <1>1 DEF Begins, j
<1>5. Shapes' BY <1>2, <1>3, <1>4 DEF Shapes, JobFields
<1>6. ASSUME NEW b \in Actors PROVE Found(b)' /\ Noted(b)'
  <2>1. CASE b = a
    <3>1. job'[a].pc = "row" /\ job'[a].read = unit BY <1>a, <1>3, <1>4 DEF JobFields
    <3>2. job'[a].todo \subseteq Fields BY <1>5, <1>a DEF Shapes
    <3>3. QED BY <2>1, <3>1, <3>2, <1>2 DEF Found, Noted
  <2>2. CASE b # a
    <3>1. /\ job'[b].pc = job[b].pc /\ job'[b].todo = job[b].todo
          /\ job'[b].plan = job[b].plan /\ job'[b].read = job[b].read
      BY <2>2, <1>4 DEF Shapes, JobFields
    <3>2. QED BY <3>1, <1>2 DEF Found, Noted, Kept
  <2>3. QED BY <2>1, <2>2
<1>7. QED BY <1>5, <1>6

LEMMA RecordKeeps == ASSUME Inv, NEW a \in Correctors, RecordPreImage(a) PROVE Inv'
<1> USE DEF Inv
<1>a. a \in Actors BY DEF Actors
<1>1. /\ job[a].pc = "row" /\ unit' = unit
      /\ written' = [f \in Fields |-> IF f \in job[a].todo THEN written[f] \cup {job[a].read[f], job[a].plan[f]}
                                                            ELSE written[f]]
      /\ job' = [job EXCEPT ![a] = [job[a] EXCEPT !.pc = "edit"]]
  BY DEF RecordPreImage, Step, Goes
<1>2. Shapes' BY <1>1, <1>a DEF Shapes, JobFields
<1>3. ASSUME NEW f \in Fields PROVE written[f] \subseteq written'[f] BY <1>1
<1>4. ASSUME NEW b \in Actors PROVE Found(b)' /\ Noted(b)'
  <2>1. job'[b].todo = job[b].todo /\ job[b].todo \subseteq Fields /\ job'[b].plan = job[b].plan /\ job'[b].read = job[b].read
    BY <1>1, <1>a DEF Shapes, JobFields
  <2>2. CASE b = a
    <3>1. job'[a].pc = "edit" BY <1>1, <1>a DEF Shapes, JobFields
    <3>2. ASSUME NEW f \in job[a].todo PROVE Kept(f)' /\ job[a].plan[f] \in written'[f]
      <4>1. unit[f] = job[a].read[f] \/ Kept(f) BY <1>1, <1>a DEF Found
      <4>2. f \in Fields BY <2>1, <2>2
      <4>3. QED BY <1>1, <4>1, <4>2 DEF Kept
    <3>3. QED BY <2>1, <2>2, <3>1, <3>2 DEF Found, Noted
  <2>3. CASE b # a
    <3>1. job'[b].pc = job[b].pc BY <1>1, <2>3 DEF Shapes
    <3>2. QED BY <1>1, <1>3, <2>1, <3>1 DEF Found, Noted, Kept
  <2>4. QED BY <2>2, <2>3
<1>5. QED BY <1>2, <1>4

LEMMA EditKeeps == ASSUME Inv, NEW a \in Correctors, DispatchEdit(a) PROVE Inv'
<1> USE DEF Inv
<1>a. a \in Actors BY DEF Actors
<1> DEFINE f == First(job[a].todo)
<1> DEFINE pc == IF job[a].todo = {f} THEN "follow" ELSE "edit"
<1>1. /\ job[a].pc = "edit" /\ written' = written
      /\ unit' = [unit EXCEPT ![f] = job[a].plan[f]]
      /\ job' = [job EXCEPT ![a] = [job[a] EXCEPT !.todo = job[a].todo \ {f}, !.pc = pc]]
  BY DEF DispatchEdit, Goes
<1>2. f \in job[a].todo
  <2>1. job[a].todo \subseteq Fields BY <1>a DEF Shapes
  <2>2. job[a].todo # {} BY DEF DispatchEdit
  <2>4. \E x \in job[a].todo : \A g \in job[a].todo : Order[x] <= Order[g]
    BY <2>1, <2>2 DEF Order, Fields
  <2>3. QED BY <2>4 DEF First
<1> HIDE DEF f, pc
<1>3. f \in Fields /\ job[a].plan[f] \in written[f] BY <1>1, <1>2, <1>a DEF Shapes, Noted
<1>4. Shapes'
  <2>1. DOMAIN unit' = UnitFields BY <1>1 DEF Shapes
  <2>2. QED BY <1>1, <1>a, <2>1 DEF Shapes, JobFields
<1>5. unit'[f] \in written[f] BY <1>1, <1>3 DEF Shapes, UnitFields, Fields
<1>6. ASSUME NEW g \in Fields, g # f PROVE unit'[g] = unit[g] BY <1>1, <1>6 DEF Shapes, UnitFields, Fields
<1>7. ASSUME NEW g \in Fields PROVE (Kept(g) => Kept(g)') /\ (g = f => Kept(g)')
  BY <1>1, <1>5, <1>6 DEF Kept, Fields
<1>8. ASSUME NEW b \in Actors PROVE Found(b)' /\ Noted(b)'
  <2>1. job'[b].todo \subseteq job[b].todo /\ job[b].todo \subseteq Fields /\ job'[b].plan = job[b].plan /\ job'[b].read = job[b].read
    BY <1>1, <1>a DEF Shapes, JobFields
  <2>2. job'[b].pc = job[b].pc \/ job'[b].pc = "follow"
    BY <1>1, <1>a DEF Shapes, JobFields, pc
  <2>3. ASSUME job'[b].pc = "row", NEW g \in job'[b].todo PROVE unit'[g] = job'[b].read[g] \/ Kept(g)'
    <3>1. g \in Fields /\ (unit[g] = job[b].read[g] \/ Kept(g)) BY <2>1, <2>2, <2>3 DEF Found
    <3>2. QED BY <1>6, <1>7, <2>1, <3>1
  <2>4. ASSUME job'[b].pc = "edit", NEW g \in job'[b].todo PROVE Kept(g)' /\ job'[b].plan[g] \in written'[g]
    <3>1. g \in Fields /\ Kept(g) /\ job[b].plan[g] \in written[g] BY <2>1, <2>2, <2>4 DEF Noted
    <3>2. QED BY <1>1, <1>7, <2>1, <3>1
  <2>5. QED BY <2>3, <2>4 DEF Found, Noted
<1>4a. QED BY <1>4, <1>8
-----------------------------------------------------------------------------
LEMMA FollowKeeps == ASSUME Inv, NEW a \in Correctors, FollowReminder(a) PROVE Inv'
<1> DEFINE from == job[a]
<1> DEFINE after == Edited(from.read, from.plan)
<1> DEFINE j == [Idle EXCEPT !.pc = "apply", !.next = After(from), !.alone = from.alone,
                             !.moved = Moved(from.read, from.plan)]
<1>1. DOMAIN j = JobFields /\ j.todo = {} /\ j.pc = "apply" /\ j.next \in {"name", "idle"}
  BY DEF Idle, JobFields, After
<1>2. \/ Goes(a, Onto(j, [r \in Rows |-> Row(after.date, after)], Row(after.date, after), Planned(after.date, after.leads)))
      \/ Goes(a, Retexted(j, ShownText(after)))
      \/ Goes(a, j)
  BY Zenon DEF FollowReminder, OntoDate
<1>3. UNCHANGED <<unit, written>> /\ a \in Actors BY DEF FollowReminder, stored, Actors
<1> HIDE DEF j, after
<1>4. QED BY <1>1, <1>2, <1>3, OntoShape, RetextShape, GoesAside, AsideKeeps

LEMMA AppliesKeeps == ASSUME Inv, NEW a \in Actors, Applies(a) PROVE Inv'
<1>1. DOMAIN job[a] = JobFields /\ job[a].todo \subseteq Fields /\ job[a].next \notin {"row", "edit"}
  BY DEF Inv, Shapes
<1>2. UNCHANGED <<unit, written>> BY DEF Applies, ApplyMove, ApplyArm, ApplyDrop, Applied, stored
<1>3. Aside
  <2>1. CASE ApplyMove(a)
    <3>1. PICK r : Goes(a, [job[a] EXCEPT !.move = [s \in DOMAIN job[a].move \ {r} |-> job[a].move[s]]])
      BY <2>1 DEF ApplyMove
    <3>2. job[a].pc = "apply" BY <2>1 DEF ApplyMove
    <3> DEFINE m == [s \in DOMAIN job[a].move \ {r} |-> job[a].move[s]]
    <3> HIDE DEF m
    <3>3. Goes(a, [job[a] EXCEPT !.move = m]) BY <3>1 DEF m
    <3> DEFINE j == [job[a] EXCEPT !.move = m]
    <3>4. DOMAIN j = JobFields /\ j.todo \subseteq Fields /\ j.pc = "apply" /\ j.next = job[a].next
      BY <1>1, <3>2 DEF JobFields
    <3> HIDE DEF j
    <3>5. QED BY <1>1, <1>2, <3>3, <3>4, GoesAside DEF j
  <2>2. CASE ApplyArm(a)
    <3> DEFINE j == [job[a] EXCEPT !.arm = job[a].arm - 1]
    <3>1. Goes(a, j) /\ job[a].pc = "apply" BY <2>2 DEF ApplyArm
    <3>2. DOMAIN j = JobFields /\ j.todo \subseteq Fields /\ j.pc = "apply" /\ j.next = job[a].next
      BY <1>1, <3>1 DEF JobFields
    <3> HIDE DEF j
    <3>3. QED BY <1>1, <1>2, <3>1, <3>2, GoesAside
  <2>3. CASE ApplyDrop(a)
    <3>1. PICK r : Goes(a, [job[a] EXCEPT !.drop = job[a].drop \ {r}]) BY <2>3 DEF ApplyDrop
    <3> DEFINE j == [job[a] EXCEPT !.drop = job[a].drop \ {r}]
    <3>2. job[a].pc = "apply" BY <2>3 DEF ApplyDrop
    <3>3. DOMAIN j = JobFields /\ j.todo \subseteq Fields /\ j.pc = "apply" /\ j.next = job[a].next
      BY <1>1, <3>2 DEF JobFields
    <3> HIDE DEF j
    <3>4. QED BY <1>1, <1>2, <3>1, <3>3, GoesAside DEF j
  <2>4. CASE Applied(a)
    <3>1. \/ Ends(a)
          \/ Goes(a, [Idle EXCEPT !.pc = job[a].next, !.alone = job[a].alone])
      BY <2>4 DEF Applied, Ends
    <3> DEFINE j == [Idle EXCEPT !.pc = job[a].next, !.alone = job[a].alone]
    <3>2. DOMAIN j = JobFields /\ j.todo = {} /\ j.pc = job[a].next /\ j.next = "idle" BY DEF Idle, JobFields
    <3> HIDE DEF j
    <3>3. QED BY <1>1, <1>2, <3>1, <3>2, GoesAside, EndsAside DEF j
  <2>5. QED BY <2>1, <2>2, <2>3, <2>4 DEF Applies
<1>4. QED BY <1>3, AsideKeeps

LEMMA NamesKeeps == ASSUME Inv, NEW a \in Actors, Names(a) PROVE Inv'
<1> USE DEF Inv
<1>1. DOMAIN job[a] = JobFields /\ job[a].todo \subseteq Fields /\ job[a].next \notin {"row", "edit"} BY DEF Shapes
<1>2. CASE RetextReminders(a)
  <2> DEFINE says == ShownText([unit EXCEPT !.title = ModelTitle])
  <2> DEFINE j == [Retexted(job[a], says) EXCEPT !.next = "idle"]
  <2>1. Goes(a, j) /\ UNCHANGED <<unit, written>> BY <1>2 DEF RetextReminders, stored
  <2>2. DOMAIN j = JobFields /\ j.todo = job[a].todo /\ j.pc = "apply" /\ j.next = "idle"
    BY <1>1, RetextShape DEF JobFields
  <2> HIDE DEF j
  <2>3. QED BY <1>1, <2>1, <2>2, GoesAside, AsideKeeps
<1>3. CASE RecordName(a) \/ NameIfUntitled(a)
  <2>1. DOMAIN job' = Actors /\ \A b \in Actors \ {a} : job'[b] = job[b]
    BY <1>3 DEF RecordName, NameIfUntitled, Ends, Step, Goes, Shapes
  <2>2. DOMAIN job'[a] = JobFields /\ job'[a].todo \subseteq Fields
        /\ job'[a].next \notin {"row", "edit"} /\ job'[a].pc \in {"retext", "named", "idle"}
    <3>1. CASE job' = [job EXCEPT ![a] = Idle] BY <3>1, IdleShape DEF Shapes
    <3>2. ASSUME NEW pc \in {"retext", "named"}, job' = [job EXCEPT ![a] = [job[a] EXCEPT !.pc = pc]]
          PROVE <2>2!:
      BY <1>1, <3>2 DEF Shapes, JobFields
    <3>3. QED BY <1>3, <3>1, <3>2 DEF RecordName, NameIfUntitled, Ends, Step, Goes
  <2>3. DOMAIN unit' = UnitFields /\ DOMAIN written' = Fields
    BY <1>3 DEF RecordName, NameIfUntitled, Shapes
  <2>4. ASSUME NEW f \in Fields
        PROVE written[f] \subseteq written'[f] /\ (unit'[f] = unit[f] \/ Kept(f)')
    BY <1>3 DEF RecordName, NameIfUntitled, Shapes, Kept, Fields, UnitFields
  <2>5. ASSUME NEW f \in Fields, Kept(f) PROVE Kept(f)'
    BY <2>4, <2>5 DEF Kept
  <2>6. Shapes' BY <2>1, <2>2, <2>3 DEF Shapes
  <2>7. ASSUME NEW b \in Actors PROVE Found(b)' /\ Noted(b)'
    <3>1. CASE b = a BY <2>2, <3>1 DEF Found, Noted
    <3>2. CASE b # a
      <4>1. job'[b] = job[b] /\ job[b].todo \subseteq Fields BY <2>1, <3>2 DEF Shapes
      <4>2. Found(b) /\ Noted(b) OBVIOUS
      <4>3. QED BY <2>4, <2>5, <4>1, <4>2 DEF Found, Noted
    <3>3. QED BY <3>1, <3>2
  <2>8. QED BY <2>6, <2>7
<1>4. QED BY <1>2, <1>3 DEF Names

LEMMA CloseKeeps == ASSUME Inv, NEW a \in Correctors, CloseDone(a) \/ Archive(a) PROVE Inv'
<1> USE DEF Inv
<1>a. a \in Actors BY DEF Actors
<1>1. CASE CloseDone(a)
  <2> DEFINE j == [Idle EXCEPT !.pc = "close", !.drop = Armed]
  <2>1. DOMAIN j = JobFields /\ j.todo = {} /\ j.pc = "close" /\ j.next = "idle" BY DEF Idle, JobFields
  <2>2. Begins(a, j) /\ UNCHANGED <<unit, written>> BY <1>1 DEF CloseDone, stored
  <2> HIDE DEF j
  <2>3. QED BY <1>a, <2>1, <2>2, BeginsAside, AsideKeeps
<1>2. CASE Archive(a)
  <2>1. DOMAIN Closing(a) = JobFields /\ Closing(a).todo = {} /\ Closing(a).pc = "apply" /\ Closing(a).next = "closed"
    BY DEF Closing, Idle, JobFields
  <2>2. /\ job' = [job EXCEPT ![a] = Idle] \/ job' = [job EXCEPT ![a] = Closing(a)]
        /\ unit' = unit \/ unit' = [unit EXCEPT !.status = "archived"]
        /\ written' = written
    BY <1>2 DEF Archive, Ends, Goes
  <2>3. \A f \in Fields : unit'[f] = unit[f] BY <2>2 DEF Shapes, UnitFields, Fields
  <2>4. Shapes'
    <3>1. DOMAIN unit' = UnitFields BY <2>2 DEF Shapes
    <3>2. QED BY <3>1, <2>1, <2>2, <1>a, IdleShape DEF Shapes
  <2>5. \A f \in Fields : Kept(f)' = Kept(f) BY <2>2, <2>3 DEF Kept, Fields
  <2>6. ASSUME NEW b \in Actors PROVE Found(b)' /\ Noted(b)'
    <3>1. job'[b] = job[b] \/ job'[b].pc \notin {"row", "edit"} BY <2>1, <2>2, <1>a, IdleShape DEF Shapes
    <3>2. job[b].todo \subseteq Fields /\ Found(b) /\ Noted(b) BY DEF Shapes
    <3>3. QED BY <2>2, <2>3, <2>5, <3>1, <3>2 DEF Found, Noted
  <2>7. QED BY <2>4, <2>6
<1>3. QED BY <1>1, <1>2
LEMMA BeginningsKeep ==
  ASSUME Inv, (\E a \in Correctors : RepeatsIt(a)) \/ NightNames \/ SavePrefs \/ SaveAgain PROVE Inv'
<1>1. Correctors \subseteq Actors /\ "night" \in Actors /\ "prefs" \in Actors BY DEF Actors
<1>2. UNCHANGED <<unit, written>> BY DEF RepeatsIt, NightNames, SavePrefs, SaveAgain, stored
<1>3. \E b \in Actors : \E p : \/ Begins(b, [Reading(unit, "follow") EXCEPT !.plan = p])
                               \/ (Begins(b, [Idle EXCEPT !.pc = p]) /\ p \in {"name", "change", "rearm"})
  BY <1>1 DEF RepeatsIt, NightNames, SavePrefs, SaveAgain
<1>4. PICK b \in Actors : \E p : \/ Begins(b, [Reading(unit, "follow") EXCEPT !.plan = p])
                                 \/ (Begins(b, [Idle EXCEPT !.pc = p]) /\ p \in {"name", "change", "rearm"})
  BY <1>3
<1>4a. PICK p : \/ Begins(b, [Reading(unit, "follow") EXCEPT !.plan = p])
               \/ (Begins(b, [Idle EXCEPT !.pc = p]) /\ p \in {"name", "change", "rearm"})
  BY <1>4
<1> DEFINE j == [Reading(unit, "follow") EXCEPT !.plan = p]
<1> DEFINE k == [Idle EXCEPT !.pc = p]
<1>5. DOMAIN j = JobFields /\ j.todo = {} /\ j.pc = "follow" /\ j.next = "idle" BY DEF Reading, Idle, JobFields
<1>6. DOMAIN k = JobFields /\ k.todo = {} /\ k.pc = p /\ k.next = "idle" BY DEF Idle, JobFields
<1>7. Begins(b, j) \/ (Begins(b, k) /\ p \in {"name", "change", "rearm"}) BY <1>4a
<1> HIDE DEF j, k
<1>8. QED BY <1>2, <1>5, <1>6, <1>7, BeginsAside, AsideKeeps

LEMMA PrefersKeep ==
  ASSUME Inv, RecordChange \/ ChangeUnrecorded \/ Rearm \/ RecordFollowed PROVE Inv'
<1>1. "prefs" \in Actors BY DEF Actors
<1>2. UNCHANGED <<unit, written>> BY DEF RecordChange, ChangeUnrecorded, Rearm, RecordFollowed, stored
<1> DEFINE now == job["prefs"]
<1>3. DOMAIN now = JobFields /\ now.todo \subseteq Fields /\ now.next \notin {"row", "edit"}
  BY <1>1 DEF Inv, Shapes
<1>4. CASE RecordChange \/ ChangeUnrecorded
  <2> DEFINE j == [now EXCEPT !.pc = "rearm"]
  <2>1. DOMAIN j = JobFields /\ j.todo = now.todo /\ j.pc = "rearm" /\ j.next = now.next BY <1>3 DEF JobFields
  <2>2. Goes("prefs", j) BY <1>4 DEF RecordChange, ChangeUnrecorded, Step
  <2> HIDE DEF j, now
  <2>3. QED BY <1>1, <1>2, <1>3, <2>1, <2>2, GoesAside, AsideKeeps
<1>5. CASE Rearm
  <2> DEFINE j == [now EXCEPT !.next = "followed"]
  <2> DEFINE k == [j EXCEPT !.pc = "followed"]
  <2>1. DOMAIN j = JobFields /\ j.todo = now.todo /\ j.next = "followed" BY <1>3 DEF JobFields
  <2>2. DOMAIN k = JobFields /\ k.todo = now.todo /\ k.next = "followed" /\ k.pc = "followed" BY <1>3 DEF JobFields
  <2>3. \/ Goes("prefs", Onto(j, [r \in Rows |-> [rows[r] EXCEPT !.about = unit.date]], Row(unit.date, unit),
                              Planned(unit.date, unit.leads)))
        \/ Goes("prefs", k)
    BY <1>5, Zenon DEF Rearm
  <2> HIDE DEF j, k, now
  <2>4. QED BY <1>1, <1>2, <1>3, <2>1, <2>2, <2>3, OntoShape, GoesAside, AsideKeeps
<1>6. CASE RecordFollowed BY <1>1, <1>2, <1>6, EndsAside, AsideKeeps DEF RecordFollowed
<1>7. QED BY <1>4, <1>5, <1>6

LEMMA MishapsKeep ==
  ASSUME Inv, NEW a \in Actors, Fails(a) \/ Conflict(a) \/ Crash \/ RowFires PROVE Inv'
<1>1. UNCHANGED <<unit, written>> BY DEF Fails, Conflict, Crash, RowFires, stored
<1>2. CASE Fails(a) \/ Conflict(a) BY <1>1, <1>2, EndsAside, AsideKeeps DEF Fails, Conflict
<1>3. CASE Crash
  <2>1. Aside BY <1>1, <1>3, IdleShape DEF Crash, Aside
  <2>2. QED BY <2>1, AsideKeeps
<1>4. CASE RowFires
  <2>1. Aside BY <1>1, <1>4 DEF RowFires, Aside, Inv, Shapes
  <2>2. QED BY <2>1, AsideKeeps
<1>5. QED BY <1>2, <1>3, <1>4

LEMMA InitInv == Init => Inv
BY IdleShape DEF Init, Inv, Shapes, Found, Noted, UnitFields, Fields

LEMMA NextKeeps == ASSUME Inv, [Next]_vars PROVE Inv'
<1>1. CASE UNCHANGED vars
  <2>1. Aside BY <1>1 DEF vars, stored, Aside, Inv, Shapes
  <2>2. QED BY <2>1, AsideKeeps
<1>2. ASSUME NEW a \in Correctors, Corrects(a) PROVE Inv'
  BY <1>2, ResolveKeeps, RecordKeeps, EditKeeps, FollowKeeps, CloseKeeps, BeginningsKeep DEF Corrects
<1>3. ASSUME NEW a \in Correctors \cup {"night"}, Names(a) PROVE Inv' BY <1>3, NamesKeeps DEF Actors
<1>4. ASSUME NEW a \in Actors, Applies(a) \/ Fails(a) \/ Conflict(a) PROVE Inv'
  BY <1>4, AppliesKeeps, MishapsKeep
<1>5. CASE NightNames \/ SavePrefs \/ SaveAgain
  BY <1>5, BeginningsKeep
<1>6. CASE RecordChange \/ ChangeUnrecorded \/ Rearm \/ RecordFollowed BY <1>6, PrefersKeep
<1>7. CASE Crash \/ RowFires
  <2>1. "night" \in Actors BY DEF Actors
  <2>2. QED BY <1>7, <2>1, MishapsKeep
<1>8. QED BY <1>1, <1>2, <1>3, <1>4, <1>5, <1>6, <1>7 DEF Next, Prefers
-----------------------------------------------------------------------------
Loses(f) == /\ unit'[f] # unit[f]
            /\ unit[f] \notin written[f]
            /\ ~(f = "title" /\ unit.title \in {NoTitle, ModelTitle})

LEMMA EditLosesNothing ==
  ASSUME Inv, NEW a \in Correctors, DispatchEdit(a), NEW f \in Fields PROVE ~Loses(f)
<1>1. a \in Actors BY DEF Actors
<1> DEFINE g == First(job[a].todo)
<1>2. unit' = [unit EXCEPT ![g] = job[a].plan[g]] /\ job[a].pc = "edit" /\ job[a].todo # {} BY DEF DispatchEdit
<1>3. g \in job[a].todo
  <2>1. job[a].todo \subseteq Fields BY <1>1 DEF Inv, Shapes
  <2>2. \E x \in job[a].todo : \A y \in job[a].todo : Order[x] <= Order[y] BY <1>2, <2>1 DEF Order, Fields
  <2>3. QED BY <2>2 DEF First
<1> HIDE DEF g
<1>4. Kept(g) BY <1>1, <1>2, <1>3 DEF Inv, Noted
<1>5. f = g \/ unit'[f] = unit[f] BY <1>2 DEF Inv, Shapes, UnitFields, Fields
<1>6. QED BY <1>4, <1>5 DEF Kept, Loses

LEMMA StepLosesNothing ==
  ASSUME Inv, [Next]_vars, NEW f \in Fields PROVE ~Loses(f)
<1>1. ASSUME NEW a \in Correctors, Corrects(a) PROVE ~Loses(f)
  <2>1. CASE DispatchEdit(a) BY <2>1, EditLosesNothing
  <2>2. CASE Archive(a)
    BY <2>2 DEF Archive, Loses, Inv, Shapes, UnitFields, Fields
  <2>3. CASE RepeatsIt(a) \/ Resolve(a) \/ CloseDone(a) \/ RecordPreImage(a) \/ FollowReminder(a)
    BY <2>3 DEF RepeatsIt, Resolve, CloseDone, RecordPreImage, FollowReminder, stored, Loses
  <2>4. QED BY <1>1, <2>1, <2>2, <2>3 DEF Corrects
<1>2. ASSUME NEW a \in Correctors \cup {"night"}, Names(a) PROVE ~Loses(f)
  BY <1>2 DEF Names, NameIfUntitled, RecordName, RetextReminders, stored, Loses, Inv, Shapes, UnitFields, Fields
<1>3. ASSUME NEW a \in Actors, Applies(a) \/ Fails(a) \/ Conflict(a) PROVE ~Loses(f)
  BY <1>3 DEF Applies, ApplyMove, ApplyArm, ApplyDrop, Applied, Fails, Conflict, stored, Loses
<1>4. CASE NightNames \/ Prefers \/ Crash \/ RowFires
  BY <1>4 DEF NightNames, Prefers, SavePrefs, SaveAgain, RecordChange, ChangeUnrecorded, Rearm, RecordFollowed,
              Crash, RowFires, stored, Loses
<1>5. CASE UNCHANGED vars BY <1>5 DEF vars, stored, Loses
<1>6. QED BY <1>1, <1>2, <1>3, <1>4, <1>5 DEF Next

(* What a user wrote into a unit is in the journal when it is overwritten,  *)
(* however many operations on it interleave, fail or are cut off.           *)
THEOREM EditsLoseNothing == Spec => OverwrittenIsRecorded
<1>1. Inv /\ [Next]_vars
      => [\A f \in Fields : \/ unit'[f] = unit[f]
                            \/ unit[f] \in written[f]
                            \/ f = "title" /\ unit.title \in {NoTitle, ModelTitle}]_vars
  BY StepLosesNothing DEF Loses
<1>2. QED BY <1>1, InitInv, NextKeeps, PTL DEF Spec, OverwrittenIsRecorded
-----------------------------------------------------------------------------
(* What an operation that nobody disturbs does to the reminders: the unit   *)
(* stands still while it writes them, and what it has still to write is     *)
(* what they lack.                                                          *)
RowFields == {"status", "about", "says"}
IsRow(x) == DOMAIN x = RowFields /\ x.status \in {"free", "armed", "fired"}

RowsAre == /\ DOMAIN rows = Rows /\ \A r \in Rows : IsRow(rows[r])
           /\ DOMAIN unit = UnitFields /\ pref \in Nat /\ unit["leads"] \in Nat
JobIs(j) ==
  /\ DOMAIN j = JobFields /\ j.todo \subseteq Fields
  /\ j.drop \subseteq Rows /\ DOMAIN j.move \subseteq Rows /\ j.arm \in Nat
  /\ \A r \in DOMAIN j.move : DOMAIN j.move[r] = RowFields /\ j.move[r].status = "armed"
  /\ DOMAIN j.new = RowFields /\ j.new.status = "armed"
  /\ "leads" \in DOMAIN j.plan => j.plan["leads"] \in Nat
  /\ j.moved \in BOOLEAN /\ j.alone \in BOOLEAN
  /\ j.next \in {"idle", "name", "closed", "followed"}
  /\ j.pc # "apply" => ~j.moved /\ j.arm = 0 /\ (j.pc # "close" => j.drop = {})
  /\ j.pc \in {"row", "edit", "follow"} => /\ DOMAIN j.read = UnitFields /\ j.read["leads"] \in Nat
                                           /\ j.todo \subseteq DOMAIN j.plan
EditShapes == RowsAre /\ DOMAIN job = Actors /\ \A a \in Actors : JobIs(job[a])

Undisturbed == \A a \in Actors : job[a].pc # "idle" /\ job[a].alone => Busy \subseteq {a}

(* Up to the reminders the unit is the one read, with the edits made so far. *)
Follows(j) ==
  j.pc \in {"row", "edit", "follow"} =>
    /\ j.pc = "follow" => j.todo = {}
    /\ unit["kind"] = j.read["kind"]
    /\ \A f \in Fields : unit[f] = IF f \in j.todo \/ f \notin DOMAIN j.plan THEN j.read[f] ELSE j.plan[f]
Titled(j) == j.pc \in {"named", "retext"} => unit["title"] = ModelTitle

(* A row fired that is still to be moved or dropped stops a correction.     *)
Ahead(j) == j.drop \cup DOMAIN j.move
Doomed(j) == \E r \in Ahead(j) : rows[r].status = "fired"
Settled(j) == Armed \ Ahead(j)

Closes(j) == /\ j.pc = "close" => Armed \subseteq j.drop
             /\ j.pc = "apply" /\ j.next = "closed" =>
                  /\ Armed \subseteq j.drop /\ DOMAIN j.move = {} /\ j.arm = 0
                  /\ j.new = NoRow /\ ~j.moved
Places(j) ==
  j.moved \/ j.next = "followed" =>
    /\ \A r \in Settled(j) : rows[r].about = unit["date"]
    /\ \A r \in DOMAIN j.move : j.move[r].about = unit["date"]
    /\ j.arm > 0 => j.new.about = unit["date"]
    /\ Cardinality(Armed \ j.drop) + j.arm = Planned(unit["date"], unit["leads"])
Words(j) ==
  (j.new # NoRow \/ j.moved) /\ j.next # "followed" =>
    /\ \A r \in Settled(j) : rows[r].says = ShownText(unit)
    /\ \A r \in DOMAIN j.move : j.move[r].says = ShownText(unit)
    /\ j.arm > 0 => j.new.says = ShownText(unit)
OnlyWords(j) ==
  ~j.moved /\ j.next \in {"idle", "name"} =>
    /\ j.arm = 0 /\ j.drop = {}
    /\ \A r \in DOMAIN j.move : rows[r].status = "armed" => j.move[r].about = rows[r].about
Within(j) == j.drop \subseteq Armed /\ DOMAIN j.move \subseteq Armed \ j.drop
Lacks(j) ==
  j.pc = "apply" /\ j.next # "closed" =>
    OnlyWords(j) /\ (~Doomed(j) => Within(j) /\ Places(j) /\ Words(j))
Whole(j) == Follows(j) /\ Titled(j) /\ Closes(j) /\ Lacks(j)
LandInv == EditShapes /\ Undisturbed /\ \A a \in Actors : job[a].alone => Whole(job[a])

LEMMA IdleIs ==
  /\ JobIs(Idle) /\ Idle.pc = "idle" /\ Idle.next = "idle" /\ Idle.alone /\ ~Idle.moved
  /\ Idle.drop = {} /\ DOMAIN Idle.move = {} /\ Idle.arm = 0 /\ Idle.new = NoRow /\ DOMAIN Idle.plan = {}
  /\ Idle.todo = {}
BY DEF Idle, JobIs, JobFields, NoPlan, NoRow, Row, RowFields

(* Who is idle owes nothing; nor who has only its next phase to begin.      *)
LEMMA FreeIsWhole ==
  ASSUME NEW j, j.pc \notin {"row", "edit", "follow", "named", "retext", "close", "apply"} PROVE Whole(j)
BY DEF Whole, Follows, Titled, Closes, Lacks

LEMMA WholeStands ==
  ASSUME NEW k, NEW a, Whole(k), UNCHANGED <<unit, rows, pref>>, job'[a] = k
  PROVE  Whole(job[a])'
<1>1. Armed' = Armed BY DEF Armed
<1>2. Planned(unit["date"], unit["leads"])' = Planned(unit["date"], unit["leads"])
  BY DEF Planned, Due, Sent
<1>3. Follows(job[a])' /\ Titled(job[a])' /\ Closes(job[a])' BY <1>1 DEF Whole, Follows, Titled, Closes
<1>4. Settled(job[a])' = Settled(k) /\ Doomed(job[a])' = Doomed(k) BY <1>1 DEF Settled, Doomed, Ahead
<1>5. Places(k) => Places(job[a])' BY <1>1, <1>2, <1>4 DEF Places
<1>6. (Words(k) => Words(job[a])') /\ (OnlyWords(k) => OnlyWords(job[a])') /\ (Within(k) => Within(job[a])')
  BY <1>1, <1>4 DEF Words, OnlyWords, Within
<1>7. Lacks(job[a])' BY <1>4, <1>5, <1>6 DEF Whole, Lacks
<1>8. QED BY <1>3, <1>7 DEF Whole

LEMMA MarkedIs ==
  ASSUME NEW k, JobIs(k), NEW v \in BOOLEAN
  PROVE  LET m == [k EXCEPT !.alone = v] IN JobIs(m) /\ m.alone = v /\ m.pc = k.pc
BY DEF JobIs, JobFields

(* One actor begins: nobody else is alone any more.                         *)
LEMMA BeginsWhole ==
  ASSUME LandInv, NEW a \in Actors, NEW j, Begins(a, j), UNCHANGED <<unit, rows>>, pref' \in Nat,
         JobIs(j), Whole(job[a])', j.pc # "idle"
  PROVE  LandInv'
<1>1. job' = [x \in Actors |-> IF x = a THEN [j EXCEPT !.alone = Alone(a)] ELSE [job[x] EXCEPT !.alone = FALSE]]
  BY DEF Begins
<1>2. ASSUME NEW x \in Actors, x # a PROVE JobIs(job'[x]) /\ ~job'[x].alone /\ job'[x].pc = job[x].pc
  <2>1. job'[x] = [job[x] EXCEPT !.alone = FALSE] /\ JobIs(job[x]) BY <1>1, <1>2 DEF LandInv, EditShapes
  <2>2. QED BY <2>1, MarkedIs
<1>3. JobIs(job'[a]) /\ job'[a].pc = j.pc /\ job'[a].alone = Alone(a)
  <2>1. job'[a] = [j EXCEPT !.alone = Alone(a)] /\ Alone(a) \in BOOLEAN BY <1>1 DEF Alone
  <2>2. QED BY <2>1, MarkedIs
<1>4. EditShapes'
  <2>1. RowsAre' BY DEF LandInv, EditShapes, RowsAre
  <2>2. \A x \in Actors : JobIs(job'[x]) BY <1>2, <1>3
  <2>3. DOMAIN job' = Actors BY <1>1
  <2>4. QED BY <2>1, <2>2, <2>3 DEF EditShapes
<1>5. Alone(a) => Busy' \subseteq {a} BY <1>2 DEF Alone, Busy
<1>6. Undisturbed' BY <1>2, <1>3, <1>5 DEF Undisturbed
<1>7. QED BY <1>2, <1>4, <1>6 DEF LandInv

(* One actor goes on: had anyone else been alone, it would not be busy.     *)
LEMMA GoesWhole ==
  ASSUME LandInv, NEW a \in Actors, NEW j, Goes(a, j), RowsAre', JobIs(j), job[a].pc # "idle",
         j.pc # "idle" => j.alone = job[a].alone /\ (j.alone => Whole(job[a])')
  PROVE  LandInv'
<1>1. job'[a] = j /\ DOMAIN job' = Actors /\ \A b \in Actors \ {a} : job'[b] = job[b]
  BY DEF Goes, LandInv, EditShapes
<1>2. EditShapes' BY <1>1 DEF LandInv, EditShapes, JobIs
<1>3. Busy' \subseteq Busy BY <1>1 DEF Busy
<1>4. Undisturbed' BY <1>1, <1>3 DEF LandInv, Undisturbed
<1>5. ASSUME NEW b \in Actors, job'[b].alone PROVE Whole(job[b])'
  <2>1. CASE job'[b].pc = "idle"
    BY <2>1 DEF Whole, Follows, Titled, Closes, Lacks
  <2>2. CASE job'[b].pc # "idle" /\ b # a
    <3>1. a \in Busy /\ job[b].pc # "idle" /\ job[b].alone BY <1>1, <1>5, <2>2 DEF Busy
    <3>2. QED BY <3>1, <2>2 DEF LandInv, Undisturbed
  <2>3. CASE job'[b].pc # "idle" /\ b = a BY <1>1, <1>5, <2>3
  <2>4. QED BY <2>1, <2>2, <2>3
<1>6. QED BY <1>2, <1>4, <1>5 DEF LandInv

LEMMA EndsWhole ==
  ASSUME LandInv, NEW a \in Actors, Ends(a), RowsAre', job[a].pc # "idle" PROVE LandInv'
<1>1. JobIs(Idle) /\ Idle.pc = "idle" /\ Goes(a, Idle) BY IdleIs DEF Ends
<1>2. QED BY <1>1, GoesWhole

-----------------------------------------------------------------------------
(* The rows kept: no more than the reminders wanted.                        *)
Below(S, r) == {s \in S : s < r}

LEMMA RankGrows ==
  ASSUME NEW S, IsFiniteSet(S), S \subseteq Nat, NEW r \in S, NEW s \in S
  PROVE  /\ Cardinality(Below(S, r)) \in Nat
         /\ r < s => Cardinality(Below(S, r)) < Cardinality(Below(S, s))
<1>1. IsFiniteSet(Below(S, r)) /\ IsFiniteSet(Below(S, s)) BY FS_Subset DEF Below
<1>2. Cardinality(Below(S, r)) \in Nat /\ Cardinality(Below(S, s)) \in Nat BY <1>1, FS_CardinalityType
<1>3. ASSUME r < s PROVE Cardinality(Below(S, r)) < Cardinality(Below(S, s))
  <2>1. Below(S, r) \in SUBSET Below(S, s)
    <3>1. r \in Nat /\ s \in Nat /\ \A x \in S : x \in Nat OBVIOUS
    <3>2. \A x \in S : x < r => x < s BY <1>3, <3>1
    <3>3. QED BY <3>2 DEF Below
  <2>2. r \in Below(S, s) /\ r \notin Below(S, r)
    <3>1. r \in Nat OBVIOUS
    <3>2. QED BY <1>3, <3>1 DEF Below
  <2>3. /\ Cardinality(Below(S, r)) <= Cardinality(Below(S, s))
        /\ Cardinality(Below(S, s)) = Cardinality(Below(S, r)) => Below(S, s) = Below(S, r)
    <3> DEFINE B == Below(S, s)
               A == Below(S, r)
    <3>1. IsFiniteSet(B) /\ A \in SUBSET B BY <1>1, <2>1
    <3> HIDE DEF A, B
    <3>2. Cardinality(A) <= Cardinality(B) BY <3>1, FS_Subset
    <3>3. Cardinality(B) = Cardinality(A) => B = A BY <3>1, FS_Subset
    <3>4. QED BY <3>2, <3>3 DEF A, B
  <2>4. Below(S, s) # Below(S, r) BY <2>2
  <2>5. QED BY <1>2, <2>3, <2>4
<1>4. QED BY <1>2, <1>3

LEMMA KeptIsSmall ==
  ASSUME NEW S, S \subseteq Rows, NEW n \in Nat
  PROVE  /\ Keeps(S, n) \subseteq S /\ IsFiniteSet(Keeps(S, n))
         /\ Cardinality(Keeps(S, n)) \in Nat /\ Cardinality(Keeps(S, n)) <= n
<1>1. IsFiniteSet(S) /\ S \subseteq Nat BY EditsAssumption, FS_Subset
<1>2. PICK K : K = Keeps(S, n) OBVIOUS
<1>3. K \subseteq S /\ IsFiniteSet(K) /\ \A r \in K : Cardinality(Below(S, r)) < n
  BY <1>1, <1>2, FS_Subset DEF Keeps, Below
<1> DEFINE rank == [r \in K |-> Cardinality(Below(S, r))]
<1>4. ASSUME NEW r \in K PROVE Cardinality(Below(S, r)) \in 0 .. n - 1
  <2>1. Cardinality(Below(S, r)) \in Nat /\ Cardinality(Below(S, r)) < n BY <1>1, <1>3, RankGrows
  <2>2. QED BY <2>1
<1>5. ASSUME NEW r \in K, NEW s \in K, Cardinality(Below(S, r)) = Cardinality(Below(S, s)) PROVE r = s
  <2>1. r \in S /\ s \in S /\ r \in Nat /\ s \in Nat BY <1>1, <1>3
  <2>2. Cardinality(Below(S, r)) \in Nat /\ Cardinality(Below(S, s)) \in Nat BY <1>1, <2>1, RankGrows
  <2>3. /\ r < s => Cardinality(Below(S, r)) < Cardinality(Below(S, s))
        /\ s < r => Cardinality(Below(S, s)) < Cardinality(Below(S, r))
    BY <1>1, <2>1, RankGrows
  <2>4. QED BY <1>5, <2>1, <2>2, <2>3
<1>6. rank \in Injection(K, 0 .. n - 1)
  BY <1>4, <1>5 DEF Injection, IsInjective
<1>7. IsFiniteSet(0 .. n - 1) /\ Cardinality(0 .. n - 1) = n
  <2>1. PICK m \in Int : m = n - 1 OBVIOUS
  <2>2. IsFiniteSet(0 .. m) /\ Cardinality(0 .. m) = IF 0 > m THEN 0 ELSE m - 0 + 1 BY <2>1, FS_Interval
  <2>3. QED BY <2>1, <2>2
<1>8. Cardinality(K) <= n
  <2> HIDE DEF rank
  <2>1. QED BY <1>6, <1>7, FS_Injection
<1>9. QED BY <1>2, <1>3, <1>8, FS_CardinalityType

LEMMA PlannedIs ==
  ASSUME RowsAre, NEW d, NEW l \in Nat
  PROVE  /\ Sent(d) \in Nat /\ Due(d, l, pref) \in Nat /\ Planned(d, l) \in Nat
         /\ Planned(d, l) > 0 => Planned(d, l) = Due(d, l, pref) - Sent(d)
<1>1. Sent(d) \in Nat BY EditsAssumption, FS_Subset, FS_CardinalityType DEF Sent
<1>2. Due(d, l, pref) \in Nat BY DEF Due, RowsAre
<1>3. QED BY <1>1, <1>2 DEF Planned

LEMMA ArmedIs == Armed \subseteq Rows /\ IsFiniteSet(Armed)
BY EditsAssumption, FS_Subset DEF Armed

-----------------------------------------------------------------------------
(* The plans: a number of reminders is only ever one that may be asked for. *)
NoLeads(p) == "leads" \notin DOMAIN p

LEMMA PlansAskNone ==
  ASSUME NEW u, NEW seen, NEW p \in PlanEdit(u, seen) PROVE NoLeads(p)
<1>1. ASSUME NEW d, p = Only("date", d) PROVE NoLeads(p)
  BY <1>1 DEF Only, Put, NoPlan, NoLeads
<1>2. ASSUME NEW d, NEW c, p = Put(Only("date", d), "content", c) PROVE NoLeads(p)
  <2>1. NoLeads(Only("date", d)) BY DEF Only, Put, NoPlan, NoLeads
  <2>2. QED BY <1>2, <2>1 DEF Put, NoLeads
<1>3. ASSUME NEW c, p = Only("content", c) PROVE NoLeads(p)
  BY <1>3 DEF Only, Put, NoPlan, NoLeads
<1>4. ASSUME NEW d \in Dates, p \in WithText(u, d, seen) PROVE NoLeads(p)
  <2>1. PICK c : p = Put(Only("date", d), "content", c) BY <1>4 DEF WithText
  <2>2. QED BY <2>1, <1>2
<1>5. ASSUME NEW d \in Dates, p = CarryText(u, d) PROVE NoLeads(p)
  BY <1>1, <1>2, <1>5 DEF CarryText
<1>6. \/ \E d \in Dates : p \in WithText(u, d, seen) \/ p = CarryText(u, d)
      \/ \E c : p = Only("content", c)
  BY DEF PlanEdit
<1>7. QED BY <1>3, <1>4, <1>5, <1>6

LEMMA ChangesAre ==
  ASSUME RowsAre, NEW seen, NEW p \in Changes(unit, seen)
  PROVE  "leads" \in DOMAIN p => p["leads"] \in Nat
<1>1. ASSUME NEW q \in PlanEdit(unit, seen), p \in WithTitle(q, unit, seen) PROVE NoLeads(p)
  <2>1. NoLeads(q) BY PlansAskNone
  <2>2. p = q \/ p = Put(q, "title", UserTitle) \/ p = Put(q, "title", NoTitle) BY <1>1 DEF WithTitle
  <2>3. QED BY <2>1, <2>2 DEF Put, NoLeads
<1>2. ASSUME p = Only("title", UserTitle) PROVE NoLeads(p)
  BY <1>2 DEF Only, Put, NoPlan, NoLeads
<1>3. ASSUME NEW l \in Leads, p = Only("leads", l) PROVE p["leads"] \in Nat
  BY <1>3, EditsAssumption DEF Only, Put, NoPlan
<1>4. \/ \E q \in PlanEdit(unit, seen) : p \in WithTitle(q, unit, seen)
      \/ p = Only("title", UserTitle)
      \/ \E l \in Leads : p = Only("leads", l)
  BY DEF Changes
<1>5. CASE NoLeads(p) BY <1>5 DEF NoLeads
<1>6. QED BY <1>1, <1>2, <1>3, <1>4, <1>5

-----------------------------------------------------------------------------
(* Up to the reminders. *)
LEMMA ResolveWhole == ASSUME LandInv, NEW a \in Correctors, Resolve(a) PROVE LandInv'
<1>a. a \in Actors BY DEF Actors
<1> DEFINE todo(p) == {f \in Fields : f \in DOMAIN p /\ p[f] # unit[f]}
<1>1. PICK p \in UNION {Changes(unit, seen) : seen \in BOOLEAN} :
        Begins(a, [Reading(unit, "row") EXCEPT !.plan = p, !.todo = todo(p)])
  BY DEF Resolve
<1>2. "leads" \in DOMAIN p => p["leads"] \in Nat BY <1>1, ChangesAre DEF LandInv, EditShapes
<1>3. UNCHANGED <<unit, rows, pref>> BY DEF Resolve, stored
<1> DEFINE j == [Reading(unit, "row") EXCEPT !.plan = p, !.todo = todo(p)]
<1>4. /\ DOMAIN j = JobFields /\ j.pc = "row" /\ j.read = unit /\ j.plan = p /\ j.todo = todo(p)
      /\ \A f \in {"move", "arm", "drop", "new", "next", "moved", "alone"} : j[f] = Idle[f]
  BY IdleIs DEF JobIs, Reading, JobFields
<1>5. RowsAre BY DEF LandInv, EditShapes
<1>6. todo(p) \subseteq Fields /\ todo(p) \subseteq DOMAIN p OBVIOUS
<1>7. Begins(a, j) BY <1>1
<1> HIDE DEF j
<1>8. JobIs(j) BY <1>2, <1>4, <1>5, <1>6, IdleIs DEF JobIs, RowsAre
<1>9. job'[a] = [j EXCEPT !.alone = Alone(a)] BY <1>a, <1>7 DEF Begins
<1>10. job'[a].pc = "row" /\ job'[a].read = unit /\ job'[a].plan = p /\ job'[a].todo = todo(p)
  BY <1>4, <1>9 DEF JobFields
<1>11. Whole(job[a])'
  BY <1>3, <1>10 DEF Whole, Follows, Titled, Closes, Lacks
<1>12. pref' \in Nat BY <1>3, <1>5 DEF RowsAre
<1>13. QED BY <1>a, <1>3, <1>4, <1>7, <1>8, <1>11, <1>12, BeginsWhole

LEMMA RepeatsWhole == ASSUME LandInv, NEW a \in Correctors, RepeatsIt(a) PROVE LandInv'
<1>a. a \in Actors BY DEF Actors
<1>1. PICK p \in Repeats(unit) : Begins(a, [Reading(unit, "follow") EXCEPT !.plan = p]) BY DEF RepeatsIt
<1>2. RowsAre BY DEF LandInv, EditShapes
<1>3. \A f \in Fields : f \in DOMAIN p => p[f] = unit[f]
  <2>1. CASE p = Only("date", unit.date) BY <2>1 DEF Only, Put, NoPlan
  <2>2. CASE p = Only("leads", unit.leads) BY <2>2 DEF Only, Put, NoPlan
  <2>3. CASE p = Only("content", unit.content) BY <2>3 DEF Only, Put, NoPlan
  <2>4. QED BY <1>1, <2>1, <2>2, <2>3 DEF Repeats
<1>4. UNCHANGED <<unit, rows, pref>> BY DEF RepeatsIt, stored
<1> DEFINE j == [Reading(unit, "follow") EXCEPT !.plan = p]
<1>5. /\ DOMAIN j = JobFields /\ j.pc = "follow" /\ j.read = unit /\ j.plan = p /\ j.todo = {}
      /\ \A f \in {"move", "arm", "drop", "new", "next", "moved", "alone"} : j[f] = Idle[f]
  BY IdleIs DEF JobIs, Reading, JobFields
<1>6. Begins(a, j) BY <1>1
<1> HIDE DEF j
<1>7. JobIs(j)
  <2>1. "leads" \in DOMAIN p => p["leads"] \in Nat BY <1>2, <1>3 DEF RowsAre, Fields
  <2>2. QED BY <1>2, <1>5, <2>1, IdleIs DEF JobIs, RowsAre
<1>8. job'[a] = [j EXCEPT !.alone = Alone(a)] BY <1>a, <1>6 DEF Begins
<1>9. job'[a].pc = "follow" /\ job'[a].read = unit /\ job'[a].plan = p /\ job'[a].todo = {}
  BY <1>5, <1>8 DEF JobFields
<1>10. Whole(job[a])'
  BY <1>3, <1>4, <1>9 DEF Whole, Follows, Titled, Closes, Lacks
<1>11. pref' \in Nat BY <1>2, <1>4 DEF RowsAre
<1>12. QED BY <1>a, <1>4, <1>5, <1>6, <1>7, <1>10, <1>11, BeginsWhole

LEMMA RecordWhole == ASSUME LandInv, NEW a \in Correctors, RecordPreImage(a) PROVE LandInv'
<1>a. a \in Actors BY DEF Actors
<1>1. /\ job[a].pc = "row" /\ Goes(a, [job[a] EXCEPT !.pc = "edit"])
      /\ UNCHANGED <<unit, rows, pref>>
  BY DEF RecordPreImage, Step
<1>2. RowsAre /\ RowsAre' /\ JobIs(job[a]) BY <1>a, <1>1 DEF LandInv, EditShapes, RowsAre
<1> DEFINE j == [job[a] EXCEPT !.pc = "edit"]
<1>3. /\ JobIs(j) /\ j.pc = "edit" /\ j.alone = job[a].alone /\ j.read = job[a].read
      /\ j.plan = job[a].plan /\ j.todo = job[a].todo
  BY <1>1, <1>2 DEF JobIs, JobFields
<1>4. job'[a] = j BY <1>a, <1>1 DEF Goes, LandInv, EditShapes
<1>5. Goes(a, j) BY <1>1
<1> HIDE DEF j
<1>6. ASSUME job[a].alone PROVE Whole(job[a])'
  <2>1. Follows(job[a]) BY <1>a, <1>6 DEF LandInv, Whole
  <2>2. Follows(j) BY <1>1, <1>3, <2>1 DEF Follows
  <2>3. Whole(j) BY <1>3, <2>2 DEF Whole, Titled, Closes, Lacks
  <2>4. QED BY <1>1, <1>4, <2>3, WholeStands
<1>7. QED BY <1>a, <1>1, <1>2, <1>3, <1>5, <1>6, GoesWhole

LEMMA FirstIs == ASSUME NEW T, T \subseteq Fields, T # {} PROVE First(T) \in T
<1>1. \E x \in T : \A y \in T : Order[x] <= Order[y] BY DEF Order, Fields
<1>2. QED BY <1>1 DEF First

LEMMA EditWhole == ASSUME LandInv, NEW a \in Correctors, DispatchEdit(a) PROVE LandInv'
<1>a. a \in Actors BY DEF Actors
<1> DEFINE f == First(job[a].todo)
           pc == IF job[a].todo = {f} THEN "follow" ELSE "edit"
<1>1. /\ job[a].pc = "edit" /\ job[a].todo # {}
      /\ unit' = [unit EXCEPT ![f] = job[a].plan[f]]
      /\ Goes(a, [job[a] EXCEPT !.todo = job[a].todo \ {f}, !.pc = pc])
      /\ UNCHANGED <<rows, pref>>
  BY DEF DispatchEdit
<1>2. RowsAre /\ JobIs(job[a]) BY <1>a DEF LandInv, EditShapes
<1>3. f \in job[a].todo /\ f \in Fields /\ f \in DOMAIN job[a].plan
  BY <1>1, <1>2, FirstIs DEF JobIs
<1>4. (pc = "follow" /\ job[a].todo \ {f} = {}) \/ pc = "edit" OBVIOUS
<1> HIDE DEF f, pc
<1>5. RowsAre'
  BY <1>1, <1>2, <1>3 DEF RowsAre, JobIs, UnitFields
<1> DEFINE j == [job[a] EXCEPT !.todo = job[a].todo \ {f}, !.pc = pc]
<1>6. /\ JobIs(j) /\ j.pc = pc /\ j.alone = job[a].alone /\ j.read = job[a].read
      /\ j.plan = job[a].plan /\ j.todo = job[a].todo \ {f}
  BY <1>1, <1>2, <1>4 DEF JobIs, JobFields
<1>7. job'[a] = j BY <1>a, <1>1 DEF Goes, LandInv, EditShapes
<1>8. Goes(a, j) BY <1>1
<1> HIDE DEF j
<1>9. ASSUME job[a].alone PROVE Whole(job[a])'
  <2>1. Follows(job[a]) BY <1>a, <1>9 DEF LandInv, Whole
  <2>2. unit'["kind"] = unit["kind"] BY <1>1, <1>2, <1>3 DEF RowsAre, UnitFields, Fields
  <2>3. \A g \in Fields : unit'[g] = IF g = f THEN job[a].plan[f] ELSE unit[g]
    BY <1>1, <1>2, <1>3 DEF RowsAre, UnitFields, Fields
  <2>4. Follows(job[a])'
    BY <1>1, <1>3, <1>4, <1>6, <1>7, <2>1, <2>2, <2>3 DEF Follows
  <2>5. job'[a].pc \in {"edit", "follow"} BY <1>4, <1>6, <1>7
  <2>6. QED BY <2>4, <2>5 DEF Whole, Titled, Closes, Lacks
<1>10. job[a].pc # "idle" BY <1>1
<1>11. QED BY <1>a, <1>5, <1>6, <1>8, <1>9, <1>10, GoesWhole

-----------------------------------------------------------------------------
(* What a plan for the reminders leaves to write.                           *)
IsOnto(k, j, to, new, n) ==
  /\ JobIs(k) /\ k.pc = "apply" /\ k.next = j.next /\ k.alone = j.alone /\ k.moved = j.moved
  /\ k.new = new /\ Within(k)
  /\ Cardinality(Armed \ k.drop) + k.arm = n
  /\ \A r \in Settled(k) : rows[r] = to[r]
  /\ \A r \in DOMAIN k.move : k.move[r] = to[r]

LEMMA OntoJob ==
  ASSUME RowsAre, NEW j, JobIs(j), NEW to, NEW new, NEW n \in Nat,
         DOMAIN new = RowFields, new.status = "armed",
         \A r \in Armed : DOMAIN to[r] = RowFields /\ to[r].status = "armed"
  PROVE  IsOnto(Onto(j, to, new, n), j, to, new, n)
<1> PICK k : k = Onto(j, to, new, n) OBVIOUS
<1> DEFINE kept == Keeps(Armed, n)
           moves == Rewrites(kept, to)
<1>1. /\ kept \subseteq Armed /\ Armed \subseteq Rows /\ Cardinality(kept) \in Nat /\ Cardinality(kept) <= n
  BY ArmedIs, KeptIsSmall
<1>2. /\ DOMAIN moves \subseteq kept /\ \A r \in DOMAIN moves : moves[r] = to[r]
      /\ \A r \in kept \ DOMAIN moves : rows[r] = to[r]
  BY DEF Rewrites
<1>3. k = [j EXCEPT !.pc = "apply", !.new = new, !.move = moves, !.arm = n - Cardinality(kept), !.drop = Armed \ kept]
  BY DEF Onto
<1>4. n - Cardinality(kept) \in Nat /\ Cardinality(kept) + (n - Cardinality(kept)) = n BY <1>1
<1> HIDE DEF kept, moves
<1>5. /\ DOMAIN k = JobFields /\ k.pc = "apply" /\ k.new = new /\ k.move = moves
      /\ k.arm = n - Cardinality(kept) /\ k.drop = Armed \ kept
      /\ k.next = j.next /\ k.alone = j.alone /\ k.moved = j.moved /\ k.todo = j.todo /\ k.plan = j.plan
  BY <1>3 DEF JobIs, JobFields
<1>6. JobIs(k)
  BY <1>1, <1>2, <1>4, <1>5 DEF JobIs
<1>7. Armed \ k.drop = kept BY <1>1, <1>5
<1>8. Within(k) BY <1>1, <1>2, <1>5, <1>7 DEF Within
<1>9. Settled(k) = kept \ DOMAIN moves BY <1>1, <1>5, <1>7 DEF Settled, Ahead
<1>10. Cardinality(Armed \ k.drop) + k.arm = n BY <1>4, <1>5, <1>7
<1>11. QED BY <1>2, <1>5, <1>6, <1>8, <1>9, <1>10 DEF IsOnto

LEMMA RetextJob ==
  ASSUME RowsAre, NEW j, JobIs(j), NEW says
  PROVE  LET k == Retexted(j, says) IN
         /\ JobIs(k) /\ k.pc = "apply" /\ k.next = j.next /\ k.alone = j.alone /\ k.moved = j.moved
         /\ k.arm = j.arm /\ k.drop = j.drop
         /\ DOMAIN k.move \subseteq Armed
         /\ \A r \in DOMAIN k.move : k.move[r].about = rows[r].about /\ k.move[r].says = says
         /\ \A r \in Armed \ DOMAIN k.move : rows[r].says = says
<1> DEFINE to == [r \in Rows |-> [rows[r] EXCEPT !.says = says]]
           new == [NoRow EXCEPT !.says = says]
           moves == Rewrites(Armed, to)
           k == Retexted(j, says)
<1>1. Armed \subseteq Rows BY ArmedIs
<1>2. \A r \in Armed : /\ DOMAIN to[r] = RowFields /\ to[r].status = "armed" /\ to[r].says = says
                       /\ to[r].about = rows[r].about
  BY <1>1 DEF RowsAre, IsRow, RowFields, Armed
<1>3. DOMAIN new = RowFields /\ new.status = "armed" BY DEF NoRow, Row, RowFields
<1> HIDE DEF to, new
<1>4. /\ DOMAIN moves \subseteq Armed /\ \A r \in DOMAIN moves : moves[r] = to[r]
      /\ \A r \in Armed \ DOMAIN moves : rows[r] = to[r]
  BY DEF Rewrites
<1>5. k = [j EXCEPT !.pc = "apply", !.new = new, !.move = moves] BY DEF Retexted, to, new
<1> HIDE DEF k, moves
<1>6. /\ DOMAIN k = JobFields /\ k.pc = "apply" /\ k.new = new /\ k.move = moves
      /\ k.arm = j.arm /\ k.drop = j.drop
      /\ k.next = j.next /\ k.alone = j.alone /\ k.moved = j.moved /\ k.todo = j.todo /\ k.plan = j.plan
  BY <1>5 DEF JobIs, JobFields
<1>7. JobIs(k) BY <1>1, <1>2, <1>3, <1>4, <1>6 DEF JobIs
<1>8. QED BY <1>1, <1>2, <1>4, <1>6, <1>7 DEF k

LEMMA SameText == ASSUME NEW u, u["title"] = unit["title"], u["content"] = unit["content"]
                  PROVE ShownText(u) = ShownText(unit)
BY DEF ShownText

LEMMA RowIs == ASSUME NEW d, NEW u
               PROVE /\ DOMAIN Row(d, u) = RowFields /\ Row(d, u).status = "armed" /\ Row(d, u).about = d
                     /\ Row(d, u).says = ShownText(u)
BY DEF Row, RowFields

LEMMA FollowWhole == ASSUME LandInv, NEW a \in Correctors, FollowReminder(a) PROVE LandInv'
<1>a. a \in Actors BY DEF Actors
<1> DEFINE from == job[a]
           after == Edited(from.read, from.plan)
           shift == Moved(from.read, from.plan)
           j == [Idle EXCEPT !.pc = "apply", !.next = After(from), !.alone = from.alone, !.moved = shift]
           onto == Onto(j, [r \in Rows |-> Row(after["date"], after)], Row(after["date"], after),
                        Planned(after["date"], after["leads"]))
           retext == Retexted(j, ShownText(after))
<1>1. RowsAre /\ JobIs(from) /\ from.pc = "follow" /\ UNCHANGED <<unit, rows, pref>>
  BY <1>a DEF LandInv, EditShapes, FollowReminder, stored
<1>2. RowsAre' BY <1>1 DEF RowsAre
<1>3. \/ shift /\ Goes(a, onto)
      \/ ~shift /\ Goes(a, retext)
      \/ ~shift /\ Goes(a, j)
  BY Zenon DEF FollowReminder, OntoDate
<1>4. after["leads"] \in Nat
  BY <1>1 DEF Edited, JobIs, UnitFields
<1>5. shift \in BOOLEAN BY DEF Moved
<1>6. from.alone => /\ after["date"] = unit["date"] /\ after["leads"] = unit["leads"]
                    /\ after["title"] = unit["title"] /\ after["content"] = unit["content"]
  <2>1. SUFFICES ASSUME from.alone PROVE \A f \in Fields : after[f] = unit[f] BY DEF Fields
  <2>2. Follows(from) BY <1>a, <2>1 DEF LandInv, Whole
  <2>3. QED BY <1>1, <2>2 DEF Follows, Edited, JobIs, UnitFields, Fields
<1>7. After(from) \in {"name", "idle"} BY DEF After
<1> HIDE DEF shift, after
<1>8. /\ DOMAIN j = JobFields /\ j.pc = "apply" /\ j.next = After(from) /\ j.alone = from.alone /\ j.moved = shift
      /\ \A f \in {"read", "plan", "todo", "move", "arm", "drop", "new"} : j[f] = Idle[f]
  BY IdleIs DEF JobIs, JobFields
<1> HIDE DEF j
<1>9. JobIs(j)
  <2>1. from.alone \in BOOLEAN BY <1>1 DEF JobIs
  <2>2. QED BY <1>5, <1>7, <1>8, <2>1, IdleIs DEF JobIs
<1>10. j.next \in {"name", "idle"} /\ DOMAIN j.move = {} /\ j.arm = 0 /\ j.drop = {} /\ j.new = NoRow
  BY <1>7, <1>8, IdleIs
<1>11. ASSUME NEW k, JobIs(k), Goes(a, k), k.pc = "apply", k.next = j.next, k.alone = from.alone,
              from.alone => OnlyWords(k) /\ Within(k) /\ Places(k) /\ Words(k)
       PROVE  LandInv'
  <2>1. ASSUME k.alone PROVE Whole(job[a])'
    <3>1. Lacks(k) BY <1>11, <2>1 DEF Lacks
    <3>2. Whole(k) BY <1>10, <1>11, <3>1 DEF Whole, Follows, Titled, Closes
    <3>3. job'[a] = k BY <1>a, <1>11 DEF Goes, LandInv, EditShapes
    <3>4. QED BY <1>1, <3>2, <3>3, WholeStands
  <2>2. from.pc # "idle" BY <1>1
  <2>3. QED BY <1>2, <1>a, <1>11, <2>1, <2>2, GoesWhole
<1>12. CASE shift /\ Goes(a, onto)
  <2> DEFINE to == [r \in Rows |-> Row(after["date"], after)]
             new == Row(after["date"], after)
             n == Planned(after["date"], after["leads"])
  <2>1. /\ DOMAIN new = RowFields /\ new.status = "armed" /\ new.about = after["date"]
        /\ new.says = ShownText(after)
    BY RowIs
  <2>2. n \in Nat BY <1>1, <1>4, PlannedIs
  <2>3. \A r \in Rows : to[r] = new OBVIOUS
  <2>4. \A r \in Armed : r \in Rows BY ArmedIs
  <2> HIDE DEF to, new, n
  <2>5. PICK k : k = Onto(j, to, new, n) OBVIOUS
  <2>6. IsOnto(k, j, to, new, n)
    <3>1. \A r \in Armed : DOMAIN to[r] = RowFields /\ to[r].status = "armed" BY <2>1, <2>3, <2>4
    <3>2. RowsAre /\ JobIs(j) /\ n \in Nat /\ DOMAIN new = RowFields /\ new.status = "armed"
      BY <1>1, <1>9, <2>1, <2>2
    <3>3. QED BY <2>5, <3>1, <3>2, OntoJob
  <2>7. ASSUME from.alone PROVE OnlyWords(k) /\ Places(k) /\ Words(k)
    <3>1. n = Planned(unit["date"], unit["leads"]) BY <1>6, <2>7 DEF n
    <3>2. new.about = unit["date"] /\ new.says = ShownText(unit)
      BY <1>6, <2>1, <2>7, SameText
    <3>3. k.moved BY <1>8, <1>12, <2>6 DEF IsOnto
    <3>4. \A r \in Settled(k) \cup DOMAIN k.move : r \in Rows
      BY <2>4, <2>6 DEF Settled, JobIs, IsOnto
    <3>5. QED BY <2>3, <2>6, <3>1, <3>2, <3>3, <3>4 DEF OnlyWords, Places, Words, IsOnto
  <2>8. Goes(a, k) BY <1>12, <2>5 DEF to, new, n
  <2>9. QED BY <1>8, <1>11, <2>6, <2>7, <2>8 DEF IsOnto
<1>13. CASE ~shift /\ Goes(a, retext)
  <2>1. PICK k : k = Retexted(j, ShownText(after)) OBVIOUS
  <2>2. /\ JobIs(k) /\ k.pc = "apply" /\ k.next = j.next /\ k.alone = j.alone /\ k.moved = j.moved
        /\ k.arm = j.arm /\ k.drop = j.drop
        /\ DOMAIN k.move \subseteq Armed
        /\ \A r \in DOMAIN k.move : k.move[r].about = rows[r].about /\ k.move[r].says = ShownText(after)
        /\ \A r \in Armed \ DOMAIN k.move : rows[r].says = ShownText(after)
    BY <1>1, <1>9, <2>1, RetextJob
  <2>3. ~k.moved /\ k.arm = 0 /\ k.drop = {} /\ k.next \in {"name", "idle"} BY <1>8, <1>10, <1>13, <2>2
  <2>4. ASSUME from.alone PROVE OnlyWords(k) /\ Within(k) /\ Places(k) /\ Words(k)
    <3>1. ShownText(after) = ShownText(unit) BY <1>6, <2>4, SameText
    <3>2. Settled(k) = Armed \ DOMAIN k.move BY <2>3 DEF Settled, Ahead
    <3>3. QED BY <2>2, <2>3, <3>1, <3>2 DEF OnlyWords, Within, Places, Words
  <2>5. Goes(a, k) BY <1>13, <2>1
  <2>6. QED BY <1>8, <1>11, <2>2, <2>4, <2>5
<1>14. CASE ~shift /\ Goes(a, j)
  <2>1. OnlyWords(j) /\ Within(j) /\ Places(j) /\ Words(j)
    BY <1>8, <1>10, <1>14 DEF OnlyWords, Within, Places, Words
  <2>2. QED BY <1>8, <1>9, <1>11, <1>14, <2>1
<1>15. QED BY <1>3, <1>12, <1>13, <1>14

-----------------------------------------------------------------------------
(* The writes of the reminders, each of one row.                            *)
LEMMA PlannedSame ==
  ASSUME UNCHANGED <<unit, pref>>,
         \A s \in Rows : /\ rows'[s].status = "fired" <=> rows[s].status = "fired"
                         /\ rows[s].status = "fired" => rows'[s].about = rows[s].about
  PROVE  Planned(unit["date"], unit["leads"])' = Planned(unit["date"], unit["leads"])
<1>1. Sent(unit["date"])' = Sent(unit["date"]) BY DEF Sent
<1>2. Due(unit["date"], unit["leads"], pref)' = Due(unit["date"], unit["leads"], pref) BY DEF Due
<1>3. QED BY <1>1, <1>2 DEF Planned

(* What a job that writes row r on its way owes after it.                   *)
LEMMA ApplyMoveWhole == ASSUME LandInv, NEW a \in Actors, ApplyMove(a) PROVE LandInv'
<1> DEFINE m(r) == [s \in DOMAIN job[a].move \ {r} |-> job[a].move[s]]
<1>1. PICK r \in DOMAIN job[a].move :
        /\ job[a].pc = "apply" /\ rows[r].status = "armed"
        /\ rows' = [rows EXCEPT ![r] = job[a].move[r]]
        /\ Goes(a, [job[a] EXCEPT !.move = m(r)]) /\ UNCHANGED <<unit, pref>>
  BY DEF ApplyMove
<1>2. PICK j : j = job[a] OBVIOUS
<1>3. PICK k : k = [j EXCEPT !.move = m(r)] OBVIOUS
<1>4. RowsAre /\ JobIs(j) BY <1>2 DEF LandInv, EditShapes
<1>5. DOMAIN m(r) = DOMAIN j.move \ {r} /\ \A s \in DOMAIN m(r) : m(r)[s] = j.move[s] BY <1>2
<1>6. Goes(a, k) BY <1>1, <1>2, <1>3
<1> HIDE DEF m
<1>7. /\ JobIs(k) /\ k.pc = "apply" /\ DOMAIN k.move = DOMAIN j.move \ {r}
      /\ \A s \in DOMAIN k.move : k.move[s] = j.move[s]
      /\ k.drop = j.drop /\ k.arm = j.arm /\ k.new = j.new /\ k.next = j.next /\ k.moved = j.moved /\ k.alone = j.alone
  <2>1. /\ k.pc = "apply" /\ k.move = m(r) /\ DOMAIN k = JobFields
        /\ k.drop = j.drop /\ k.arm = j.arm /\ k.new = j.new /\ k.next = j.next /\ k.moved = j.moved /\ k.alone = j.alone
        /\ k.todo = j.todo /\ k.plan = j.plan
    BY <1>1, <1>2, <1>3, <1>4 DEF JobIs, JobFields
  <2>2. JobIs(k) BY <1>4, <1>5, <2>1 DEF JobIs
  <2>3. QED BY <1>5, <2>1, <2>2
<1>8. r \in Rows /\ r \in DOMAIN j.move /\ DOMAIN j.move[r] = RowFields /\ j.move[r].status = "armed"
      /\ rows[r].status = "armed"
  BY <1>1, <1>2, <1>4 DEF JobIs
<1>9. DOMAIN rows' = Rows /\ rows'[r] = j.move[r] /\ \A s \in Rows \ {r} : rows'[s] = rows[s]
  BY <1>1, <1>2, <1>4, <1>8 DEF RowsAre
<1>10. RowsAre' BY <1>1, <1>4, <1>8, <1>9 DEF RowsAre, IsRow
<1>11. Armed' = Armed /\ r \in Armed BY <1>8, <1>9 DEF Armed
<1>12. Planned(unit["date"], unit["leads"])' = Planned(unit["date"], unit["leads"])
  BY <1>1, <1>8, <1>9, PlannedSame
<1>13. job'[a] = k BY <1>6 DEF Goes, LandInv, EditShapes
<1>14. ASSUME k.alone PROVE Whole(job[a])'
  <2>1. Whole(j) BY <1>2, <1>7, <1>14 DEF LandInv
  <2>2. j.next # "closed" BY <1>1, <1>2, <1>8, <2>1 DEF Whole, Closes
  <2>3. OnlyWords(j) /\ (~Doomed(j) => Within(j) /\ Places(j) /\ Words(j))
    BY <1>1, <1>2, <2>1, <2>2 DEF Whole, Lacks
  <2>4. OnlyWords(job[a])'
    BY <1>4, <1>7, <1>9, <1>13, <2>3 DEF OnlyWords, JobIs
  <2>5. Doomed(j) => Doomed(job[a])'
    BY <1>4, <1>7, <1>8, <1>9, <1>13 DEF Doomed, Ahead, JobIs
  <2>6. ASSUME ~Doomed(j) PROVE Within(job[a])' /\ Places(job[a])' /\ Words(job[a])'
    <3>1. Within(j) /\ Places(j) /\ Words(j) BY <2>3, <2>6
    <3>2. Within(job[a])' BY <1>7, <1>11, <1>13, <3>1 DEF Within
    <3>3. r \notin j.drop BY <1>8, <3>1 DEF Within
    <3>4. Settled(job[a])' = Settled(j) \cup {r}
      BY <1>7, <1>8, <1>11, <1>13, <3>3 DEF Settled, Ahead
    <3>5. \A s \in Settled(j) : s \in Rows /\ s # r BY <1>8, <1>11, ArmedIs DEF Settled, Ahead
    <3>6. Places(job[a])'
      <4>1. SUFFICES ASSUME k.moved \/ k.next = "followed"
            PROVE /\ \A s \in Settled(job[a])' : rows'[s].about = unit'["date"]
                  /\ \A s \in DOMAIN k.move : k.move[s].about = unit'["date"]
                  /\ k.arm > 0 => k.new.about = unit'["date"]
                  /\ Cardinality((Armed \ j.drop)') + k.arm = Planned(unit["date"], unit["leads"])'
        BY <1>7, <1>13 DEF Places
      <4>2. /\ \A s \in Settled(j) : rows[s].about = unit["date"]
            /\ \A s \in DOMAIN j.move : j.move[s].about = unit["date"]
            /\ j.arm > 0 => j.new.about = unit["date"]
            /\ Cardinality(Armed \ j.drop) + j.arm = Planned(unit["date"], unit["leads"])
        BY <1>7, <3>1, <4>1 DEF Places
      <4>3. (Armed \ j.drop)' = Armed \ j.drop BY <1>11
      <4>4. unit' = unit BY <1>1
      <4>5. \A s \in Settled(job[a])' : rows'[s].about = unit["date"]
        <5>1. rows'[r].about = unit["date"] BY <1>8, <1>9, <4>2
        <5>2. \A s \in Settled(j) : rows'[s].about = unit["date"] BY <1>9, <3>5, <4>2
        <5>3. QED BY <3>4, <5>1, <5>2
      <4>6. \A s \in DOMAIN k.move : k.move[s].about = unit["date"] BY <1>7, <4>2
      <4>7. Cardinality((Armed \ j.drop)') + k.arm = Planned(unit["date"], unit["leads"])'
        BY <1>7, <1>12, <4>2, <4>3
      <4>8. QED BY <1>7, <4>2, <4>4, <4>5, <4>6, <4>7
    <3>7. Words(job[a])'
      <4>0. ShownText(unit)' = ShownText(unit) BY <1>1 DEF ShownText
      <4>1. SUFFICES ASSUME k.new # NoRow \/ k.moved, k.next # "followed"
            PROVE /\ \A s \in Settled(job[a])' : rows'[s].says = ShownText(unit)
                  /\ \A s \in DOMAIN k.move : k.move[s].says = ShownText(unit)
                  /\ k.arm > 0 => k.new.says = ShownText(unit)
        BY <1>13, <4>0 DEF Words
      <4>2. /\ \A s \in Settled(j) : rows[s].says = ShownText(unit)
            /\ \A s \in DOMAIN j.move : j.move[s].says = ShownText(unit)
            /\ j.arm > 0 => j.new.says = ShownText(unit)
        BY <1>7, <3>1, <4>1 DEF Words
      <4>3. QED BY <1>7, <1>8, <1>9, <3>4, <3>5, <4>2
    <3>8. QED BY <3>2, <3>6, <3>7
  <2>7. Lacks(job[a])' BY <2>4, <2>5, <2>6 DEF Lacks
  <2>8. QED BY <1>7, <1>13, <2>2, <2>7 DEF Whole, Follows, Titled, Closes
<1>15. QED BY <1>1, <1>2, <1>6, <1>7, <1>10, <1>14, GoesWhole

LEMMA ApplyArmWhole == ASSUME LandInv, NEW a \in Actors, ApplyArm(a) PROVE LandInv'
<1>1. PICK r \in Rows :
        /\ job[a].pc = "apply" /\ job[a].arm > 0 /\ rows[r].status = "free"
        /\ rows' = [rows EXCEPT ![r] = job[a].new]
        /\ Goes(a, [job[a] EXCEPT !.arm = job[a].arm - 1]) /\ UNCHANGED <<unit, pref>>
  BY DEF ApplyArm
<1>2. PICK j : j = job[a] OBVIOUS
<1>3. PICK k : k = [j EXCEPT !.arm = j.arm - 1] OBVIOUS
<1>4. RowsAre /\ JobIs(j) BY <1>2 DEF LandInv, EditShapes
<1>5. Goes(a, k) BY <1>1, <1>2, <1>3
<1>6. j.arm \in Nat /\ j.arm > 0 /\ j.arm - 1 \in Nat BY <1>1, <1>2, <1>4 DEF JobIs
<1>7. /\ JobIs(k) /\ k.pc = "apply" /\ k.move = j.move
      /\ k.drop = j.drop /\ k.arm = j.arm - 1 /\ k.new = j.new /\ k.next = j.next /\ k.moved = j.moved /\ k.alone = j.alone
  <2>1. /\ k.pc = "apply" /\ k.move = j.move /\ DOMAIN k = JobFields
        /\ k.drop = j.drop /\ k.arm = j.arm - 1 /\ k.new = j.new /\ k.next = j.next /\ k.moved = j.moved /\ k.alone = j.alone
        /\ k.todo = j.todo /\ k.plan = j.plan
    BY <1>1, <1>2, <1>3, <1>4 DEF JobIs, JobFields
  <2>2. JobIs(k) BY <1>4, <1>6, <2>1 DEF JobIs
  <2>3. QED BY <2>1, <2>2
<1>8. DOMAIN rows' = Rows /\ rows'[r] = j.new /\ \A s \in Rows \ {r} : rows'[s] = rows[s]
  BY <1>1, <1>2, <1>4 DEF RowsAre
<1>9. DOMAIN j.new = RowFields /\ j.new.status = "armed" BY <1>4 DEF JobIs
<1>10. RowsAre' BY <1>1, <1>4, <1>8, <1>9 DEF RowsAre, IsRow
<1>11. Armed' = Armed \cup {r} /\ r \notin Armed BY <1>1, <1>8, <1>9 DEF Armed
<1>12. Planned(unit["date"], unit["leads"])' = Planned(unit["date"], unit["leads"])
  BY <1>1, <1>8, <1>9, PlannedSame
<1>13. job'[a] = k BY <1>5 DEF Goes, LandInv, EditShapes
<1>14. ASSUME k.alone PROVE Whole(job[a])'
  <2>1. Whole(j) BY <1>2, <1>7, <1>14 DEF LandInv
  <2>2. j.next # "closed" BY <1>1, <1>2, <1>6, <2>1 DEF Whole, Closes
  <2>3. OnlyWords(j) /\ (~Doomed(j) => Within(j) /\ Places(j) /\ Words(j))
    BY <1>1, <1>2, <2>1, <2>2 DEF Whole, Lacks
  <2>4. OnlyWords(job[a])'
    <3>1. ~(~j.moved /\ j.next \in {"idle", "name"}) BY <1>6, <2>3 DEF OnlyWords
    <3>2. QED BY <1>7, <1>13, <3>1 DEF OnlyWords
  <2>5. Doomed(j) => Doomed(job[a])'
    BY <1>1, <1>4, <1>7, <1>8, <1>13 DEF Doomed, Ahead, JobIs
  <2>6. ASSUME ~Doomed(j) PROVE Within(job[a])' /\ Places(job[a])' /\ Words(job[a])'
    <3>1. Within(j) /\ Places(j) /\ Words(j) BY <2>3, <2>6
    <3>2. Within(job[a])' BY <1>7, <1>11, <1>13, <3>1 DEF Within
    <3>3. r \notin Ahead(j) BY <1>11, <3>1 DEF Within, Ahead
    <3>4. Settled(job[a])' = Settled(j) \cup {r}
      BY <1>7, <1>11, <1>13, <3>3 DEF Settled, Ahead
    <3>5. \A s \in Settled(j) : s \in Rows /\ s # r BY <1>11, ArmedIs DEF Settled
    <3>6. \A s \in DOMAIN j.move : k.move[s] = j.move[s] BY <1>7
    <3>7. Cardinality((Armed \ j.drop)') = Cardinality(Armed \ j.drop) + 1 /\ Cardinality(Armed \ j.drop) \in Nat
      <4>1. (Armed \ j.drop)' = (Armed \ j.drop) \cup {r} /\ r \notin Armed \ j.drop
        BY <1>11, <3>3 DEF Ahead
      <4>2. IsFiniteSet(Armed \ j.drop) BY ArmedIs, FS_Subset
      <4>3. QED BY <4>1, <4>2, FS_AddElement, FS_CardinalityType
    <3>8. Places(job[a])'
      <4>1. SUFFICES ASSUME k.moved \/ k.next = "followed"
            PROVE /\ \A s \in Settled(job[a])' : rows'[s].about = unit'["date"]
                  /\ \A s \in DOMAIN k.move : k.move[s].about = unit'["date"]
                  /\ k.arm > 0 => k.new.about = unit'["date"]
                  /\ Cardinality((Armed \ j.drop)') + k.arm = Planned(unit["date"], unit["leads"])'
        BY <1>7, <1>13 DEF Places
      <4>2. /\ \A s \in Settled(j) : rows[s].about = unit["date"]
            /\ \A s \in DOMAIN j.move : j.move[s].about = unit["date"]
            /\ j.new.about = unit["date"]
            /\ Cardinality(Armed \ j.drop) + j.arm = Planned(unit["date"], unit["leads"])
        BY <1>6, <1>7, <3>1, <4>1 DEF Places
      <4>3. Cardinality((Armed \ j.drop)') + k.arm = Cardinality(Armed \ j.drop) + j.arm
        BY <1>6, <1>7, <3>7
      <4>4. QED BY <1>1, <1>7, <1>8, <1>12, <3>4, <3>5, <4>2, <4>3
    <3>9. Words(job[a])'
      BY <1>1, <1>6, <1>7, <1>8, <1>13, <3>1, <3>4, <3>5 DEF Words
    <3>10. QED BY <3>2, <3>8, <3>9
  <2>7. Lacks(job[a])' BY <2>4, <2>5, <2>6 DEF Lacks
  <2>8. QED BY <1>7, <1>13, <2>2, <2>7 DEF Whole, Follows, Titled, Closes
<1>15. QED BY <1>1, <1>2, <1>5, <1>7, <1>10, <1>14, GoesWhole

LEMMA ApplyDropWhole == ASSUME LandInv, NEW a \in Actors, ApplyDrop(a) PROVE LandInv'
<1>1. PICK r \in job[a].drop :
        /\ job[a].pc = "apply" /\ job[a].move = NoPlan /\ job[a].arm = 0
        /\ rows[r].status = "armed" \/ job[a].next = "closed"
        /\ rows' = [rows EXCEPT ![r].status = IF @ = "armed" THEN "free" ELSE @]
        /\ Goes(a, [job[a] EXCEPT !.drop = job[a].drop \ {r}]) /\ UNCHANGED <<unit, pref>>
  BY DEF ApplyDrop
<1>2. PICK j : j = job[a] OBVIOUS
<1>3. PICK k : k = [j EXCEPT !.drop = j.drop \ {r}] OBVIOUS
<1>4. RowsAre /\ JobIs(j) BY <1>2 DEF LandInv, EditShapes
<1>5. Goes(a, k) BY <1>1, <1>2, <1>3
<1>6. r \in Rows /\ DOMAIN j.move = {} /\ j.arm = 0 BY <1>1, <1>2, <1>4 DEF JobIs, NoPlan
<1>7. /\ JobIs(k) /\ k.pc = "apply" /\ k.move = j.move
      /\ k.drop = j.drop \ {r} /\ k.arm = j.arm /\ k.new = j.new /\ k.next = j.next /\ k.moved = j.moved
      /\ k.alone = j.alone
  <2>1. /\ k.pc = "apply" /\ k.move = j.move /\ DOMAIN k = JobFields
        /\ k.drop = j.drop \ {r} /\ k.arm = j.arm /\ k.new = j.new /\ k.next = j.next /\ k.moved = j.moved
        /\ k.alone = j.alone /\ k.todo = j.todo /\ k.plan = j.plan
    BY <1>1, <1>2, <1>3, <1>4 DEF JobIs, JobFields
  <2>2. JobIs(k) BY <1>4, <2>1 DEF JobIs
  <2>3. QED BY <2>1, <2>2
<1>8. /\ DOMAIN rows' = Rows /\ \A s \in Rows \ {r} : rows'[s] = rows[s]
      /\ DOMAIN rows'[r] = RowFields /\ rows'[r].about = rows[r].about
      /\ rows'[r].status = IF rows[r].status = "armed" THEN "free" ELSE rows[r].status
  BY <1>1, <1>4, <1>6 DEF RowsAre, IsRow, RowFields
<1>9. RowsAre' BY <1>1, <1>4, <1>6, <1>8 DEF RowsAre, IsRow
<1>10. Armed' = Armed \ {r} BY <1>6, <1>8 DEF Armed
<1>11. Planned(unit["date"], unit["leads"])' = Planned(unit["date"], unit["leads"])
  BY <1>1, <1>6, <1>8, PlannedSame
<1>12. job'[a] = k BY <1>5 DEF Goes, LandInv, EditShapes
<1>13. ASSUME k.alone PROVE Whole(job[a])'
  <2>1. Whole(j) BY <1>2, <1>7, <1>13 DEF LandInv
  <2>2. Closes(job[a])' BY <1>1, <1>2, <1>7, <1>10, <1>12, <2>1 DEF Whole, Closes
  <2>3. CASE j.next = "closed"
    BY <1>7, <1>12, <2>2, <2>3 DEF Whole, Follows, Titled, Lacks
  <2>4. CASE j.next # "closed"
    <3>1. OnlyWords(j) /\ (~Doomed(j) => Within(j) /\ Places(j) /\ Words(j))
      BY <1>1, <1>2, <2>1, <2>4 DEF Whole, Lacks
    <3>2. OnlyWords(job[a])' BY <1>1, <1>2, <1>6, <1>7, <1>12, <3>1 DEF OnlyWords
    <3>3. rows[r].status = "armed" BY <1>1, <1>2, <2>4
    <3>4. Doomed(j) => Doomed(job[a])'
      BY <1>4, <1>7, <1>8, <1>12, <3>3 DEF Doomed, Ahead, JobIs
    <3>5. ASSUME ~Doomed(j) PROVE Within(job[a])' /\ Places(job[a])' /\ Words(job[a])'
      <4>1. Within(j) /\ Places(j) /\ Words(j) BY <3>1, <3>5
      <4>2. r \in j.drop BY <1>1, <1>2
      <4>3. Within(job[a])' BY <1>6, <1>7, <1>10, <1>12, <4>1 DEF Within
      <4>4. Settled(job[a])' = Settled(j) BY <1>7, <1>10, <1>12, <4>2 DEF Settled, Ahead
      <4>5. \A s \in Settled(j) : s \in Rows /\ s # r BY <4>2, ArmedIs DEF Settled, Ahead
      <4>6. (Armed \ job[a].drop)' = Armed \ j.drop BY <1>7, <1>10, <1>12, <4>2
      <4>7. Places(job[a])'
        BY <1>1, <1>7, <1>8, <1>11, <1>12, <4>1, <4>4, <4>5, <4>6 DEF Places
      <4>8. Words(job[a])'
        BY <1>1, <1>7, <1>8, <1>12, <4>1, <4>4, <4>5 DEF Words
      <4>9. QED BY <4>3, <4>7, <4>8
    <3>6. Lacks(job[a])' BY <3>2, <3>4, <3>5 DEF Lacks
    <3>7. QED BY <1>7, <1>12, <2>2, <3>6 DEF Whole, Follows, Titled
  <2>5. QED BY <2>3, <2>4
<1>14. QED BY <1>1, <1>2, <1>5, <1>7, <1>9, <1>13, GoesWhole

(* A step that leaves the tables alone and lets the actor begin its next    *)
(* phase.                                                                   *)
LEMMA TurnsWhole ==
  ASSUME LandInv, NEW a \in Actors, NEW k, Goes(a, k), UNCHANGED <<unit, rows, pref>>, job[a].pc # "idle",
         JobIs(k), k.alone = job[a].alone \/ k.pc = "idle", job[a].alone => Whole(k)
  PROVE  LandInv'
<1>1. RowsAre' BY DEF LandInv, EditShapes, RowsAre
<1>2. job'[a] = k BY DEF Goes, LandInv, EditShapes
<1>3. job[a].alone => Whole(job[a])' BY <1>2, WholeStands
<1>4. QED BY <1>1, <1>3, GoesWhole

LEMMA AppliedWhole == ASSUME LandInv, NEW a \in Actors, Applied(a) PROVE LandInv'
<1>1. job[a].pc = "apply" /\ JobIs(job[a]) /\ UNCHANGED <<unit, rows, pref>>
  BY DEF Applied, stored, LandInv, EditShapes
<1>2. CASE Goes(a, Idle)
  BY <1>1, <1>2, IdleIs, FreeIsWhole, TurnsWhole
<1>3. CASE job[a].next \notin {"idle", "closed"} /\ Goes(a, [Idle EXCEPT !.pc = job[a].next, !.alone = job[a].alone])
  <2>1. job[a].next \in {"name", "followed"} /\ job[a].alone \in BOOLEAN BY <1>1, <1>3 DEF JobIs
  <2> DEFINE k == [Idle EXCEPT !.pc = job[a].next, !.alone = job[a].alone]
  <2>2. /\ DOMAIN k = JobFields /\ k.pc = job[a].next /\ k.alone = job[a].alone
        /\ \A f \in JobFields \ {"pc", "alone"} : k[f] = Idle[f]
    BY IdleIs DEF JobIs, JobFields
  <2> HIDE DEF k
  <2>3. JobIs(k) BY <2>1, <2>2, IdleIs DEF JobIs, JobFields
  <2>4. Whole(k) BY <2>1, <2>2, FreeIsWhole
  <2>5. Goes(a, k) BY <1>3 DEF k
  <2>6. QED BY <1>1, <2>2, <2>3, <2>4, <2>5, TurnsWhole
<1>4. QED BY <1>2, <1>3 DEF Applied

LEMMA NamesWhole == ASSUME LandInv, NEW a \in Actors, Names(a) PROVE LandInv'
<1>1. RowsAre /\ JobIs(job[a]) BY DEF LandInv, EditShapes
<1>2. CASE NameIfUntitled(a)
  <2>1. job[a].pc = "name" /\ UNCHANGED <<rows, pref>> BY <1>2 DEF NameIfUntitled
  <2>2. CASE Ends(a) /\ UNCHANGED unit
    <3>1. RowsAre' BY <1>1, <2>1, <2>2 DEF RowsAre
    <3>2. QED BY <2>1, <2>2, <3>1, EndsWhole
  <2>3. CASE unit' = [unit EXCEPT !.title = ModelTitle] /\ Goes(a, [job[a] EXCEPT !.pc = "named"])
    <3>1. RowsAre' BY <1>1, <2>1, <2>3 DEF RowsAre, UnitFields
    <3>2. PICK k : k = [job[a] EXCEPT !.pc = "named"] OBVIOUS
    <3>3. JobIs(k) /\ k.pc = "named" /\ k.alone = job[a].alone BY <1>1, <2>1, <3>2 DEF JobIs, JobFields
    <3>4. job'[a] = k BY <2>3, <3>2 DEF Goes, LandInv, EditShapes
    <3>5. unit'["title"] = ModelTitle BY <1>1, <2>3 DEF RowsAre, UnitFields
    <3>6. Whole(job[a])' BY <3>3, <3>4, <3>5 DEF Whole, Follows, Titled, Closes, Lacks
    <3>7. Goes(a, k) BY <2>3, <3>2
    <3>8. QED BY <2>1, <3>1, <3>3, <3>6, <3>7, GoesWhole
  <2>4. QED BY <1>2, <2>2, <2>3 DEF NameIfUntitled, Step
<1>3. CASE RecordName(a)
  <2>1. /\ job[a].pc = "named" /\ Goes(a, [job[a] EXCEPT !.pc = "retext"]) /\ UNCHANGED <<unit, rows, pref>>
    BY <1>3 DEF RecordName, Step
  <2>2. PICK k : k = [job[a] EXCEPT !.pc = "retext"] OBVIOUS
  <2>3. JobIs(k) /\ k.pc = "retext" /\ k.alone = job[a].alone BY <1>1, <2>1, <2>2 DEF JobIs, JobFields
  <2>4. job[a].alone => Whole(k) BY <2>1, <2>3 DEF LandInv, Whole, Follows, Titled, Closes, Lacks
  <2>5. Goes(a, k) BY <2>1, <2>2
  <2>6. job[a].pc # "idle" BY <2>1
  <2>7. QED BY <2>1, <2>3, <2>4, <2>5, <2>6, TurnsWhole
<1>4. CASE RetextReminders(a)
  <2> DEFINE u == [unit EXCEPT !.title = ModelTitle]
  <2>1. PICK k : k = Retexted(job[a], ShownText(u)) OBVIOUS
  <2>2. PICK l : l = [k EXCEPT !.next = "idle"] OBVIOUS
  <2>3. /\ job[a].pc = "retext" /\ UNCHANGED <<unit, rows, pref>> /\ Goes(a, l)
    BY <1>4, <2>1, <2>2 DEF RetextReminders, stored
  <2>4. /\ JobIs(k) /\ k.pc = "apply" /\ k.next = job[a].next /\ k.alone = job[a].alone /\ k.moved = job[a].moved
        /\ k.arm = job[a].arm /\ k.drop = job[a].drop
        /\ DOMAIN k.move \subseteq Armed
        /\ \A r \in DOMAIN k.move : k.move[r].about = rows[r].about /\ k.move[r].says = ShownText(u)
        /\ \A r \in Armed \ DOMAIN k.move : rows[r].says = ShownText(u)
    BY <1>1, <2>1, RetextJob
  <2>5. ~k.moved /\ k.arm = 0 /\ k.drop = {} BY <1>1, <2>3, <2>4 DEF JobIs
  <2>6. /\ JobIs(l) /\ l.pc = "apply" /\ l.next = "idle" /\ l.alone = job[a].alone /\ l.moved = k.moved
        /\ l.arm = k.arm /\ l.drop = k.drop /\ l.move = k.move
    BY <2>2, <2>4 DEF JobIs, JobFields
  <2>7. ASSUME job[a].alone PROVE Whole(l)
    <3>1. u["title"] = unit["title"] /\ u["content"] = unit["content"]
      BY <1>1, <2>3, <2>7 DEF RowsAre, UnitFields, LandInv, Whole, Titled
    <3> HIDE DEF u
    <3>2. ShownText(u) = ShownText(unit) BY <3>1, SameText
    <3>3. Settled(l) = Armed \ DOMAIN k.move BY <2>5, <2>6 DEF Settled, Ahead
    <3>4. OnlyWords(l) /\ Within(l) /\ Places(l) /\ Words(l)
      BY <2>4, <2>5, <2>6, <3>2, <3>3 DEF OnlyWords, Within, Places, Words
    <3>5. QED BY <2>6, <3>4 DEF Whole, Follows, Titled, Closes, Lacks
  <2>8. job[a].pc # "idle" BY <2>3
  <2>9. QED BY <2>3, <2>6, <2>7, <2>8, TurnsWhole
<1>5. QED BY <1>2, <1>3, <1>4 DEF Names

-----------------------------------------------------------------------------
(* Closing, and a change of the preferences.                                *)
LEMMA CloseWhole == ASSUME LandInv, NEW a \in Correctors, CloseDone(a) \/ Archive(a) PROVE LandInv'
<1>a. a \in Actors BY DEF Actors
<1>1. RowsAre /\ JobIs(job[a]) /\ pref \in Nat BY <1>a DEF LandInv, EditShapes, RowsAre
<1>2. CASE CloseDone(a)
  <2>1. PICK k : k = [Idle EXCEPT !.pc = "close", !.drop = Armed] OBVIOUS
  <2>2. Begins(a, k) /\ UNCHANGED <<unit, rows, pref>> BY <1>2, <2>1 DEF CloseDone, stored
  <2>3. /\ DOMAIN k = JobFields /\ k.pc = "close" /\ k.drop = Armed
        /\ \A f \in JobFields \ {"pc", "drop"} : k[f] = Idle[f]
    BY <2>1, IdleIs DEF JobIs, JobFields
  <2>4. JobIs(k) BY <2>3, IdleIs, ArmedIs DEF JobIs, JobFields
  <2>5. job'[a] = [k EXCEPT !.alone = Alone(a)] BY <1>a, <2>2 DEF Begins
  <2>6. job'[a].pc = "close" /\ job'[a].drop = Armed BY <2>3, <2>5 DEF JobFields
  <2>7. Whole(job[a])'
    BY <2>2, <2>6 DEF Whole, Follows, Titled, Closes, Lacks, Armed
  <2>8. QED BY <1>a, <1>1, <2>2, <2>3, <2>4, <2>7, BeginsWhole
<1>3. CASE Archive(a)
  <2>1. job[a].pc = "close" /\ UNCHANGED <<rows, pref>> BY <1>3 DEF Archive
  <2>2. CASE Ends(a) /\ UNCHANGED unit
    <3>1. RowsAre' BY <1>1, <2>1, <2>2 DEF RowsAre
    <3>2. QED BY <1>a, <2>1, <2>2, <3>1, EndsWhole
  <2>3. CASE unit' = [unit EXCEPT !.status = "archived"] /\ Goes(a, Closing(a))
    <3>1. RowsAre' BY <1>1, <2>1, <2>3 DEF RowsAre, UnitFields
    <3>2. PICK k : k = Closing(a) OBVIOUS
    <3>3. /\ DOMAIN k = JobFields /\ k.pc = "apply" /\ k.next = "closed" /\ k.drop = job[a].drop
          /\ k.alone = job[a].alone
          /\ \A f \in JobFields \ {"pc", "next", "drop", "alone"} : k[f] = Idle[f]
      BY <3>2, IdleIs DEF Closing, JobIs, JobFields
    <3>4. JobIs(k) BY <1>1, <3>3, IdleIs DEF JobIs, JobFields
    <3>5. job'[a] = k BY <1>a, <2>3, <3>2 DEF Goes, LandInv, EditShapes
    <3>6. ASSUME job[a].alone PROVE Whole(job[a])'
      <4>1. Armed \subseteq job[a].drop BY <1>a, <2>1, <3>6 DEF LandInv, Whole, Closes
      <4>2. Armed' = Armed BY <2>1 DEF Armed
      <4>3. k.arm = 0 /\ DOMAIN k.move = {} /\ k.new = NoRow /\ ~k.moved
        BY <3>3, IdleIs DEF JobFields
      <4>4. Closes(job[a])' BY <3>3, <3>5, <4>1, <4>2, <4>3 DEF Closes
      <4>5. QED BY <3>3, <3>5, <4>4 DEF Whole, Follows, Titled, Lacks
    <3>7. Goes(a, k) BY <2>3, <3>2
    <3>8. job[a].pc # "idle" BY <2>1
    <3>9. QED BY <1>a, <3>1, <3>3, <3>4, <3>6, <3>7, <3>8, GoesWhole
  <2>4. QED BY <1>3, <2>2, <2>3 DEF Archive
<1>4. QED BY <1>2, <1>3

LEMMA PhaseIs ==
  ASSUME NEW pc \in {"name", "change", "rearm"}
  PROVE  LET k == [Idle EXCEPT !.pc = pc] IN JobIs(k) /\ k.pc = pc
<1> PICK k : k = [Idle EXCEPT !.pc = pc] OBVIOUS
<1>1. DOMAIN k = JobFields /\ k.pc = pc /\ \A f \in JobFields \ {"pc"} : k[f] = Idle[f]
  BY IdleIs DEF JobIs, JobFields
<1>2. JobIs(k) BY <1>1, IdleIs DEF JobIs, JobFields
<1>3. QED BY <1>1, <1>2

(* Who begins a phase that has nothing to compare with the unit yet.        *)
LEMMA BeginsFree ==
  ASSUME LandInv, NEW a \in Actors, NEW pc \in {"name", "change", "rearm"},
         Begins(a, [Idle EXCEPT !.pc = pc]), UNCHANGED <<unit, rows>>, pref' \in Nat
  PROVE  LandInv'
<1>1. PICK k : k = [Idle EXCEPT !.pc = pc] OBVIOUS
<1>2. JobIs(k) /\ k.pc = pc /\ Begins(a, k) BY <1>1, PhaseIs
<1>3. job'[a] = [k EXCEPT !.alone = Alone(a)] BY <1>2 DEF Begins
<1>4. job'[a].pc = pc BY <1>2, <1>3 DEF JobIs, JobFields
<1>5. Whole(job[a])' BY <1>4 DEF Whole, Follows, Titled, Closes, Lacks
<1>6. k.pc # "idle" BY <1>2
<1>7. QED BY <1>2, <1>5, <1>6, BeginsWhole

LEMMA RearmWhole == ASSUME LandInv, Rearm PROVE LandInv'
<1>a. "prefs" \in Actors BY DEF Actors
<1>1. /\ RowsAre /\ JobIs(job["prefs"]) /\ job["prefs"].pc = "rearm"
      /\ UNCHANGED <<unit, rows, pref>>
  BY <1>a DEF LandInv, EditShapes, Rearm, stored
<1>2. PICK j : j = [job["prefs"] EXCEPT !.next = "followed"] OBVIOUS
<1>3. /\ DOMAIN j = JobFields /\ j.pc = "rearm" /\ j.next = "followed"
      /\ \A f \in JobFields \ {"next"} : j[f] = job["prefs"][f]
  BY <1>1, <1>2 DEF JobIs, JobFields
<1>4. JobIs(j) /\ j.alone = job["prefs"].alone /\ j.drop = {} /\ ~j.moved
  BY <1>1, <1>3 DEF JobIs, JobFields
<1> DEFINE to == [r \in Rows |-> [rows[r] EXCEPT !.about = unit["date"]]]
           new == Row(unit["date"], unit)
           n == Planned(unit["date"], unit["leads"])
<1>5. \/ Goes("prefs", Onto(j, to, new, n))
      \/ Goes("prefs", [j EXCEPT !.pc = "followed"])
  BY <1>2, Zenon DEF Rearm
<1>6. job["prefs"].pc # "idle" BY <1>1
<1>7. CASE Goes("prefs", [j EXCEPT !.pc = "followed"])
  <2>1. PICK k : k = [j EXCEPT !.pc = "followed"] OBVIOUS
  <2>2. JobIs(k) /\ k.pc = "followed" /\ k.alone = job["prefs"].alone
    BY <1>3, <1>4, <2>1 DEF JobIs, JobFields
  <2>3. Whole(k) BY <2>2, FreeIsWhole
  <2>4. Goes("prefs", k) BY <1>7, <2>1
  <2>5. QED BY <1>a, <1>1, <1>6, <2>2, <2>3, <2>4, TurnsWhole
<1>8. CASE Goes("prefs", Onto(j, to, new, n))
  <2>1. DOMAIN new = RowFields /\ new.status = "armed" /\ new.about = unit["date"] BY RowIs
  <2>2. n \in Nat /\ n = Planned(unit["date"], unit["leads"]) BY <1>1, PlannedIs DEF RowsAre
  <2>3. \A r \in Armed : r \in Rows BY ArmedIs
  <2>4. \A r \in Rows : /\ DOMAIN to[r] = RowFields /\ to[r].about = unit["date"]
                        /\ to[r].status = rows[r].status
    BY <1>1 DEF RowsAre, IsRow, RowFields
  <2>5. \A r \in Armed : DOMAIN to[r] = RowFields /\ to[r].status = "armed" BY <2>3, <2>4 DEF Armed
  <2> HIDE DEF to, new, n
  <2>6. PICK k : k = Onto(j, to, new, n) OBVIOUS
  <2>7. IsOnto(k, j, to, new, n) BY <1>1, <1>4, <2>1, <2>2, <2>5, <2>6, OntoJob
  <2>8. JobIs(k) /\ k.pc = "apply" /\ k.next = "followed" /\ k.alone = job["prefs"].alone /\ Within(k) /\ ~k.moved
    BY <1>3, <1>4, <2>7 DEF IsOnto
  <2>9. \A r \in Settled(k) \cup DOMAIN k.move : r \in Rows
    BY <2>3, <2>8 DEF Settled, JobIs
  <2>10. Places(k)
    BY <2>1, <2>2, <2>4, <2>7, <2>9 DEF Places, IsOnto
  <2>11. Whole(k)
    BY <2>8, <2>10 DEF Whole, Follows, Titled, Closes, Lacks, OnlyWords, Words
  <2>12. Goes("prefs", k) BY <1>8, <2>6
  <2>13. QED BY <1>a, <1>1, <1>6, <2>8, <2>11, <2>12, TurnsWhole
<1>9. QED BY <1>5, <1>7, <1>8

LEMMA PrefersWhole == ASSUME LandInv, Prefers PROVE LandInv'
<1>a. "prefs" \in Actors BY DEF Actors
<1>1. RowsAre /\ JobIs(job["prefs"]) BY <1>a DEF LandInv, EditShapes
<1>2. CASE SavePrefs
  <2>1. /\ pref' \in Nat /\ Begins("prefs", [Idle EXCEPT !.pc = "change"]) /\ UNCHANGED <<unit, rows>>
    BY <1>2 DEF SavePrefs
  <2>2. QED BY <1>a, <2>1, BeginsFree
<1>3. CASE SaveAgain
  <2>1. Begins("prefs", [Idle EXCEPT !.pc = "rearm"]) /\ UNCHANGED <<unit, rows>> /\ pref' \in Nat
    BY <1>1, <1>3 DEF SaveAgain, stored, RowsAre
  <2>2. QED BY <1>a, <2>1, BeginsFree
<1>4. CASE RecordChange \/ ChangeUnrecorded
  <2>1. PICK k : k = [job["prefs"] EXCEPT !.pc = "rearm"] OBVIOUS
  <2>2. job["prefs"].pc = "change" /\ Goes("prefs", k) /\ UNCHANGED <<unit, rows, pref>>
    BY <1>4, <2>1 DEF RecordChange, ChangeUnrecorded, Step, stored
  <2>3. JobIs(k) /\ k.pc = "rearm" /\ k.alone = job["prefs"].alone
    BY <1>1, <2>1, <2>2 DEF JobIs, JobFields
  <2>4. Whole(k) BY <2>3, FreeIsWhole
  <2>5. job["prefs"].pc # "idle" BY <2>2
  <2>6. QED BY <1>a, <2>2, <2>3, <2>4, <2>5, TurnsWhole
<1>5. CASE Rearm BY <1>5, RearmWhole
<1>6. CASE RecordFollowed
  <2>1. Ends("prefs") /\ job["prefs"].pc # "idle" /\ RowsAre'
    BY <1>1, <1>6 DEF RecordFollowed, RowsAre
  <2>2. QED BY <1>a, <2>1, EndsWhole
<1>7. QED BY <1>2, <1>3, <1>4, <1>5, <1>6 DEF Prefers

-----------------------------------------------------------------------------
(* A reminder that rings meanwhile: one still to be moved or dropped dooms  *)
(* the correction, any other is one the date has had.                       *)
LEMMA FiredIsSent ==
  ASSUME RowsAre, NEW r \in Armed, rows' = [rows EXCEPT ![r].status = "fired"], UNCHANGED <<unit, pref>>,
         rows[r].about = unit["date"], Planned(unit["date"], unit["leads"]) > 0
  PROVE  Planned(unit["date"], unit["leads"])' = Planned(unit["date"], unit["leads"]) - 1
<1> DEFINE d == unit["date"]
           S == {s \in Rows : rows[s].status = "fired" /\ rows[s].about = d}
           T == {s \in Rows : rows'[s].status = "fired" /\ rows'[s].about = d}
<1>1. r \in Rows /\ rows[r].status = "armed" BY DEF Armed
<1>2. /\ rows'[r].status = "fired" /\ rows'[r].about = rows[r].about
      /\ \A s \in Rows \ {r} : rows'[s] = rows[s]
  BY <1>1 DEF RowsAre, IsRow, RowFields
<1>3. T = S \cup {r} /\ r \notin S BY <1>1, <1>2
<1>4. IsFiniteSet(S) BY EditsAssumption, FS_Subset
<1>5. Sent(d) = Cardinality(S) /\ Sent(unit["date"])' = Cardinality(T) BY DEF Sent
<1> DEFINE due == Due(unit["date"], unit["leads"], pref)
<1>6. Due(unit["date"], unit["leads"], pref)' = due BY DEF Due
<1>7. due \in Nat /\ Planned(unit["date"], unit["leads"]) = due - Sent(d) BY PlannedIs DEF RowsAre
<1> HIDE DEF S, T, due
<1>8. Cardinality(T) = Cardinality(S) + 1 /\ Cardinality(S) \in Nat
  BY <1>3, <1>4, FS_AddElement, FS_CardinalityType
<1>9. Planned(unit["date"], unit["leads"])' = IF due - Cardinality(T) > 0 THEN due - Cardinality(T) ELSE 0
  BY <1>5, <1>6 DEF Planned
<1>10. due - Cardinality(S) > 0 BY <1>5, <1>7
<1>11. QED BY <1>5, <1>7, <1>8, <1>9, <1>10

LEMMA RowFiresWhole == ASSUME LandInv, RowFires PROVE LandInv'
<1>1. PICK r \in Armed : rows' = [rows EXCEPT ![r].status = "fired"] BY DEF RowFires
<1>2. UNCHANGED <<unit, pref, job>> /\ RowsAre BY DEF RowFires, LandInv, EditShapes
<1>3. r \in Rows /\ rows[r].status = "armed" BY DEF Armed
<1>4. /\ DOMAIN rows' = Rows /\ rows'[r].status = "fired" /\ DOMAIN rows'[r] = RowFields
      /\ \A s \in Rows \ {r} : rows'[s] = rows[s]
  BY <1>1, <1>2, <1>3 DEF RowsAre, IsRow, RowFields
<1>5. RowsAre' BY <1>2, <1>4 DEF RowsAre, IsRow
<1>6. EditShapes' BY <1>2, <1>5 DEF LandInv, EditShapes, JobIs
<1>7. Undisturbed' BY <1>2 DEF LandInv, Undisturbed, Busy
<1>8. Armed' = Armed \ {r} BY <1>3, <1>4 DEF Armed
<1>9. ASSUME NEW a \in Actors, job'[a].alone PROVE Whole(job[a])'
  <2>1. PICK j : j = job[a] OBVIOUS
  <2>2. job'[a] = j /\ Whole(j) /\ JobIs(j) BY <1>2, <1>9, <2>1 DEF LandInv, EditShapes
  <2>3. Follows(job[a])' /\ Titled(job[a])' /\ Closes(job[a])'
    BY <1>2, <1>8, <2>2 DEF Whole, Follows, Titled, Closes
  <2>4. CASE j.pc = "apply" /\ j.next # "closed"
    <3>1. OnlyWords(j) /\ (~Doomed(j) => Within(j) /\ Places(j) /\ Words(j))
      BY <2>2, <2>4 DEF Whole, Lacks
    <3>2. OnlyWords(job[a])'
      <4>1. \A s \in DOMAIN j.move : s \in Rows BY <2>2 DEF JobIs
      <4>2. QED BY <1>4, <2>2, <3>1, <4>1 DEF OnlyWords
    <3>3. Doomed(j) \/ r \in Ahead(j) => Doomed(job[a])'
      <4>1. \A s \in Ahead(j) : s \in Rows BY <2>2 DEF JobIs, Ahead
      <4>2. Ahead(job[a])' = Ahead(j) BY <2>2 DEF Ahead
      <4>3. QED BY <1>4, <4>1, <4>2 DEF Doomed
    <3>4. ASSUME ~Doomed(j), r \notin Ahead(j) PROVE Within(job[a])' /\ Places(job[a])' /\ Words(job[a])'
      <4>1. Within(j) /\ Places(j) /\ Words(j) BY <3>1, <3>4
      <4>2. r \notin j.drop /\ r \notin DOMAIN j.move BY <3>4 DEF Ahead
      <4>3. Within(job[a])' BY <1>8, <2>2, <4>1, <4>2 DEF Within
      <4>4. Settled(job[a])' = Settled(j) \ {r} /\ r \in Settled(j) BY <1>8, <2>2, <3>4 DEF Settled, Ahead
      <4>5. \A s \in Settled(job[a])' : rows'[s] = rows[s] /\ s \in Settled(j)
        BY <1>4, <4>4, ArmedIs DEF Settled
      <4>6. Places(job[a])'
        <5>1. SUFFICES ASSUME j.moved \/ j.next = "followed"
              PROVE /\ \A s \in Settled(job[a])' : rows'[s].about = unit'["date"]
                    /\ \A s \in DOMAIN j.move : j.move[s].about = unit'["date"]
                    /\ j.arm > 0 => j.new.about = unit'["date"]
                    /\ Cardinality((Armed \ j.drop)') + j.arm = Planned(unit["date"], unit["leads"])'
          BY <2>2 DEF Places
        <5>2. /\ \A s \in Settled(j) : rows[s].about = unit["date"]
              /\ \A s \in DOMAIN j.move : j.move[s].about = unit["date"]
              /\ j.arm > 0 => j.new.about = unit["date"]
              /\ Cardinality(Armed \ j.drop) + j.arm = Planned(unit["date"], unit["leads"])
          BY <4>1, <5>1 DEF Places
        <5>3. /\ Cardinality((Armed \ j.drop)') = Cardinality(Armed \ j.drop) - 1
              /\ Cardinality(Armed \ j.drop) \in Nat /\ Cardinality(Armed \ j.drop) > 0
          <6>1. PICK A : A = Armed \ j.drop OBVIOUS
          <6>2. (Armed \ j.drop)' = A \ {r} /\ r \in A BY <1>8, <4>2, <6>1
          <6>3. IsFiniteSet(A) BY <6>1, ArmedIs, FS_Subset
          <6>4. Cardinality(A) \in Nat /\ Cardinality(A \ {r}) = Cardinality(A) - 1
            BY <6>2, <6>3, FS_RemoveElement, FS_CardinalityType
          <6>5. Cardinality(A \ {r}) \in Nat BY <6>3, FS_Subset, FS_CardinalityType
          <6>6. PICK c \in Nat : c = Cardinality(A) BY <6>4
          <6>7. c - 1 \in Nat BY <6>4, <6>5, <6>6
          <6>8. c > 0 BY <6>7
          <6>9. QED BY <6>1, <6>2, <6>4, <6>6, <6>8
        <5>4. j.arm \in Nat BY <2>2 DEF JobIs
        <5>5. Planned(unit["date"], unit["leads"]) > 0 BY <5>2, <5>3, <5>4
        <5>6. Planned(unit["date"], unit["leads"])' = Planned(unit["date"], unit["leads"]) - 1
          BY <1>1, <1>2, <4>4, <5>2, <5>5, FiredIsSent
        <5>7. Cardinality((Armed \ j.drop)') + j.arm = Planned(unit["date"], unit["leads"])'
          BY <5>2, <5>3, <5>4, <5>6
        <5>8. QED BY <1>2, <4>5, <5>2, <5>7
      <4>7. Words(job[a])'
        <5>1. ShownText(unit)' = ShownText(unit) BY <1>2 DEF ShownText
        <5>2. QED BY <2>2, <4>1, <4>5, <5>1 DEF Words
      <4>8. QED BY <4>3, <4>6, <4>7
    <3>5. Lacks(job[a])' BY <3>2, <3>3, <3>4 DEF Lacks
    <3>6. QED BY <2>3, <3>5 DEF Whole
  <2>5. CASE ~(j.pc = "apply" /\ j.next # "closed")
    BY <2>2, <2>3, <2>5 DEF Whole, Lacks
  <2>6. QED BY <2>4, <2>5
<1>10. QED BY <1>6, <1>7, <1>9 DEF LandInv

LEMMA MishapsWhole == ASSUME LandInv, \/ \E a \in Actors : Fails(a) \/ Conflict(a)
                                      \/ Crash
                      PROVE LandInv'
<1>1. RowsAre /\ UNCHANGED <<unit, rows, pref>>
  BY DEF Fails, Conflict, Crash, stored, LandInv, EditShapes
<1>2. RowsAre' BY <1>1 DEF RowsAre
<1>3. ASSUME NEW a \in Actors, Fails(a) \/ Conflict(a) PROVE LandInv'
  <2>1. Ends(a) /\ job[a].pc # "idle" BY <1>3 DEF Fails, Conflict
  <2>2. QED BY <1>2, <2>1, EndsWhole
<1>4. CASE Crash
  <2>1. DOMAIN job' = Actors /\ \A a \in Actors : job'[a] = Idle BY <1>4 DEF Crash
  <2>2. EditShapes' BY <1>2, <2>1, IdleIs DEF EditShapes, JobIs
  <2>3. Undisturbed' BY <2>1, IdleIs DEF Undisturbed
  <2>4. \A a \in Actors : Whole(job[a])'
    BY <2>1, IdleIs DEF Whole, Follows, Titled, Closes, Lacks
  <2>5. QED BY <2>2, <2>3, <2>4 DEF LandInv
<1>5. QED BY <1>3, <1>4

LEMMA LandInit == Init => LandInv
<1> SUFFICES ASSUME Init PROVE LandInv OBVIOUS
<1>1. DOMAIN job = Actors /\ \A a \in Actors : job[a] = Idle BY DEF Init
<1>2. DOMAIN unit = UnitFields /\ unit["leads"] \in Nat /\ pref \in Nat BY DEF Init, UnitFields
<1>3. DOMAIN rows = Rows /\ \A r \in Rows : \/ rows[r] = Row(unit["date"], unit)
                                            \/ rows[r] = [Row(unit["date"], unit) EXCEPT !.status = "free"]
  BY Zenon DEF Init
<1>4. RowsAre BY <1>2, <1>3 DEF RowsAre, IsRow, Row, RowFields
<1>5. EditShapes BY <1>1, <1>4, IdleIs DEF EditShapes
<1>6. Undisturbed BY <1>1, IdleIs DEF Undisturbed
<1>7. \A a \in Actors : Whole(job[a]) BY <1>1, IdleIs, FreeIsWhole
<1>8. QED BY <1>5, <1>6, <1>7 DEF LandInv

LEMMA LandNext == LandInv /\ [Next]_vars => LandInv'
<1> SUFFICES ASSUME LandInv, [Next]_vars PROVE LandInv' OBVIOUS
<1>1. ASSUME NEW a \in Correctors, Corrects(a) PROVE LandInv'
  BY <1>1, ResolveWhole, RepeatsWhole, RecordWhole, EditWhole, FollowWhole, CloseWhole DEF Corrects
<1>2. ASSUME NEW a \in Correctors \cup {"night"}, Names(a) PROVE LandInv'
  BY <1>2, NamesWhole DEF Actors
<1>3. ASSUME NEW a \in Actors, Applies(a) PROVE LandInv'
  BY <1>3, ApplyMoveWhole, ApplyArmWhole, ApplyDropWhole, AppliedWhole DEF Applies
<1>4. CASE NightNames
  <2>1. "night" \in Actors /\ Begins("night", [Idle EXCEPT !.pc = "name"]) /\ UNCHANGED <<unit, rows, pref>>
    BY <1>4 DEF NightNames, stored, Actors
  <2>2. pref' \in Nat BY <2>1 DEF LandInv, EditShapes, RowsAre
  <2>3. QED BY <2>1, <2>2, BeginsFree
<1>5. CASE Prefers BY <1>5, PrefersWhole
<1>6. CASE RowFires BY <1>6, RowFiresWhole
<1>7. CASE Crash \/ \E a \in Actors : Fails(a) \/ Conflict(a) BY <1>7, MishapsWhole
<1>8. CASE UNCHANGED vars
  <2>1. UNCHANGED <<unit, rows, pref, job>> BY <1>8 DEF vars, stored
  <2>2. EditShapes' BY <2>1 DEF LandInv, EditShapes, RowsAre, IsRow, JobIs
  <2>3. Undisturbed' BY <2>1 DEF LandInv, Undisturbed, Busy
  <2>4. ASSUME NEW a \in Actors, job'[a].alone PROVE Whole(job[a])'
    <3>1. Whole(job[a]) /\ job'[a] = job[a] BY <2>1, <2>4 DEF LandInv
    <3>2. QED BY <2>1, <3>1, WholeStands
  <2>5. QED BY <2>2, <2>3, <2>4 DEF LandInv
<1>9. QED BY <1>1, <1>2, <1>3, <1>4, <1>5, <1>6, <1>7, <1>8 DEF Next

-----------------------------------------------------------------------------
(* Only a change of the preferences has its own phases, and ends with the   *)
(* row that it was followed.                                                *)
Own(a, j) ==
  IF a = "prefs"
  THEN /\ j.pc \in {"idle", "change", "rearm", "apply", "followed"} /\ ~j.moved
       /\ j.pc = "apply" => j.next = "followed"
       /\ j.pc \notin {"apply", "followed"} => j.next = "idle"
  ELSE j.next # "followed" /\ j.pc \notin {"change", "rearm", "followed"}
OwnPhases == \A a \in Actors : Own(a, job[a])

LEMMA OwnGoes ==
  ASSUME EditShapes, OwnPhases, NEW a \in Actors, NEW j, Goes(a, j), Own(a, j) PROVE OwnPhases'
BY DEF Goes, OwnPhases, Own, EditShapes

LEMMA OwnMark ==
  ASSUME NEW a, NEW j, DOMAIN j = JobFields, Own(a, j), NEW v PROVE Own(a, [j EXCEPT !.alone = v])
BY DEF Own, JobFields

LEMMA OwnBegins ==
  ASSUME EditShapes, OwnPhases, NEW a \in Actors, NEW j, Begins(a, j), DOMAIN j = JobFields, Own(a, j)
  PROVE  OwnPhases'
<1>1. ASSUME NEW x \in Actors PROVE Own(x, job'[x])
  <2>1. job'[x] = IF x = a THEN [j EXCEPT !.alone = Alone(a)] ELSE [job[x] EXCEPT !.alone = FALSE]
    BY DEF Begins
  <2>2. DOMAIN job[x] = JobFields /\ Own(x, job[x]) BY DEF EditShapes, JobIs, OwnPhases
  <2>3. QED BY <2>1, <2>2, OwnMark
<1>2. QED BY <1>1 DEF OwnPhases, Own

LEMMA OwnIdle == ASSUME NEW a PROVE Own(a, Idle)
BY IdleIs DEF Own

LEMMA OwnCorrects == ASSUME EditShapes, OwnPhases, NEW a \in Correctors, Corrects(a) PROVE OwnPhases'
<1>1. a \in Actors /\ a # "prefs" /\ JobIs(job[a]) /\ Own(a, job[a])
  BY EditsAssumption DEF Actors, EditShapes, OwnPhases
<1>2. ASSUME NEW j, j.next = "idle", j.pc \in {"row", "follow", "close", "name"} PROVE Own(a, j)
  BY <1>1, <1>2 DEF Own
<1>3. CASE Resolve(a)
  <2>1. PICK p : Begins(a, [Reading(unit, "row") EXCEPT !.plan = p, !.todo = {f \in Fields : f \in DOMAIN p /\ p[f] # unit[f]}])
    BY <1>3, Zenon DEF Resolve
  <2>2. PICK todo : todo = {f \in Fields : f \in DOMAIN p /\ p[f] # unit[f]} OBVIOUS
  <2>3. PICK j : j = [Reading(unit, "row") EXCEPT !.plan = p, !.todo = todo] OBVIOUS
  <2>4. DOMAIN j = JobFields /\ j.next = "idle" /\ j.pc = "row" BY <2>3, IdleIs DEF Reading, JobIs, JobFields
  <2>5. Begins(a, j) BY <2>1, <2>2, <2>3
  <2>6. QED BY <1>1, <1>2, <2>4, <2>5, OwnBegins
<1>4. CASE RepeatsIt(a)
  <2>1. PICK p : Begins(a, [Reading(unit, "follow") EXCEPT !.plan = p]) BY <1>4, Zenon DEF RepeatsIt
  <2>2. PICK j : j = [Reading(unit, "follow") EXCEPT !.plan = p] OBVIOUS
  <2>3. DOMAIN j = JobFields /\ j.next = "idle" /\ j.pc = "follow" BY <2>2, IdleIs DEF Reading, JobIs, JobFields
  <2>4. QED BY <1>1, <1>2, <2>1, <2>2, <2>3, OwnBegins
<1>5. CASE CloseDone(a)
  <2>1. PICK j : j = [Idle EXCEPT !.pc = "close", !.drop = Armed] OBVIOUS
  <2>2. DOMAIN j = JobFields /\ j.next = "idle" /\ j.pc = "close" BY <2>1, IdleIs DEF JobIs, JobFields
  <2>3. Begins(a, j) BY <1>5, <2>1 DEF CloseDone
  <2>4. QED BY <1>1, <1>2, <2>2, <2>3, OwnBegins
<1>6. CASE RecordPreImage(a) \/ DispatchEdit(a)
  <2>1. \/ Goes(a, [job[a] EXCEPT !.pc = "edit"])
        \/ \E todo, pc : pc \in {"follow", "edit"} /\ Goes(a, [job[a] EXCEPT !.todo = todo, !.pc = pc])
    <3>1. CASE RecordPreImage(a) BY <3>1 DEF RecordPreImage, Step
    <3>2. CASE DispatchEdit(a)
      <4> DEFINE f == First(job[a].todo)
                 pc == IF job[a].todo = {f} THEN "follow" ELSE "edit"
                 todo == job[a].todo \ {f}
      <4>1. Goes(a, [job[a] EXCEPT !.todo = todo, !.pc = pc]) BY <3>2 DEF DispatchEdit
      <4>2. pc \in {"follow", "edit"} OBVIOUS
      <4> HIDE DEF pc, todo
      <4>3. QED BY <4>1, <4>2
    <3>3. QED BY <1>6, <3>1, <3>2
  <2>2. ASSUME NEW j, Goes(a, j), j.next = job[a].next, j.pc \in {"edit", "follow"} PROVE OwnPhases'
    <3>1. Own(a, j) BY <1>1, <2>2 DEF Own
    <3>2. QED BY <1>1, <2>2, <3>1, OwnGoes
  <2>3. ASSUME NEW todo, NEW pc \in {"follow", "edit"}, Goes(a, [job[a] EXCEPT !.todo = todo, !.pc = pc])
        PROVE  OwnPhases'
    <3>1. PICK j : j = [job[a] EXCEPT !.todo = todo, !.pc = pc] OBVIOUS
    <3>2. j.next = job[a].next /\ j.pc = pc BY <1>1, <3>1 DEF JobIs, JobFields
    <3>3. QED BY <2>2, <2>3, <3>1, <3>2
  <2>4. CASE Goes(a, [job[a] EXCEPT !.pc = "edit"])
    <3>1. PICK j : j = [job[a] EXCEPT !.pc = "edit"] OBVIOUS
    <3>2. j.next = job[a].next /\ j.pc = "edit" BY <1>1, <3>1 DEF JobIs, JobFields
    <3>3. QED BY <2>2, <2>4, <3>1, <3>2
  <2>5. QED BY <2>1, <2>3, <2>4
<1>7. CASE FollowReminder(a)
  <2> DEFINE j == [Idle EXCEPT !.pc = "apply", !.next = After(job[a]), !.alone = job[a].alone,
                               !.moved = Moved(job[a].read, job[a].plan)]
  <2>1. DOMAIN j = JobFields /\ j.next = After(job[a]) /\ j.pc = "apply" BY IdleIs DEF JobIs, JobFields
  <2>2. j.next # "followed" BY <2>1 DEF After
  <2>3. \/ \E to, new, n : Goes(a, Onto(j, to, new, n))
        \/ \E says : Goes(a, Retexted(j, says))
        \/ Goes(a, j)
    BY <1>7, Zenon DEF FollowReminder, OntoDate
  <2> HIDE DEF j
  <2>4. ASSUME NEW k, k.next = j.next, k.pc = "apply", Goes(a, k) PROVE OwnPhases'
    <3>1. Own(a, k) BY <1>1, <2>2, <2>4 DEF Own
    <3>2. QED BY <1>1, <2>4, <3>1, OwnGoes
  <2>5. QED BY <2>1, <2>3, <2>4, OntoShape, RetextShape
<1>8. CASE Archive(a)
  <2>1. Goes(a, Idle) \/ Goes(a, Closing(a)) BY <1>8 DEF Archive, Ends
  <2>2. Closing(a).next = "closed" /\ Closing(a).pc = "apply" BY IdleIs DEF Closing, JobIs, JobFields
  <2>3. Own(a, Closing(a)) BY <1>1, <2>2 DEF Own
  <2>4. QED BY <1>1, <2>1, <2>3, OwnIdle, OwnGoes
<1>9. QED BY <1>3, <1>4, <1>5, <1>6, <1>7, <1>8 DEF Corrects

LEMMA OwnNames == ASSUME EditShapes, OwnPhases, NEW a \in Correctors \cup {"night"}, Names(a) PROVE OwnPhases'
<1>1. a \in Actors /\ a # "prefs" /\ JobIs(job[a]) /\ Own(a, job[a])
  BY EditsAssumption DEF Actors, EditShapes, OwnPhases
<1>2. \/ Goes(a, Idle)
      \/ \E pc \in {"named", "retext"} : Goes(a, [job[a] EXCEPT !.pc = pc])
      \/ \E says : Goes(a, [Retexted(job[a], says) EXCEPT !.next = "idle"])
  BY Zenon DEF Names, NameIfUntitled, RecordName, RetextReminders, Step, Ends
<1>3. ASSUME NEW pc \in {"named", "retext"}, Goes(a, [job[a] EXCEPT !.pc = pc]) PROVE OwnPhases'
  <2>1. PICK j : j = [job[a] EXCEPT !.pc = pc] OBVIOUS
  <2>2. j.next = job[a].next /\ j.pc = pc BY <1>1, <2>1 DEF JobIs, JobFields
  <2>3. Own(a, j) BY <1>1, <2>2 DEF Own
  <2>4. QED BY <1>1, <1>3, <2>1, <2>3, OwnGoes
<1>4. ASSUME NEW says, Goes(a, [Retexted(job[a], says) EXCEPT !.next = "idle"]) PROVE OwnPhases'
  <2>1. PICK k : k = Retexted(job[a], says) OBVIOUS
  <2>2. DOMAIN k = JobFields /\ k.pc = "apply" BY <1>1, <2>1, RetextShape DEF JobIs
  <2>3. PICK j : j = [k EXCEPT !.next = "idle"] OBVIOUS
  <2>4. j.next = "idle" /\ j.pc = "apply" BY <2>2, <2>3 DEF JobFields
  <2>5. Own(a, j) BY <1>1, <2>4 DEF Own
  <2>6. QED BY <1>1, <1>4, <2>1, <2>3, <2>5, OwnGoes
<1>5. QED BY <1>1, <1>2, <1>3, <1>4, OwnIdle, OwnGoes

LEMMA OwnApplies ==
  ASSUME EditShapes, OwnPhases, NEW a \in Actors, Applies(a) \/ Fails(a) \/ Conflict(a) PROVE OwnPhases'
<1>1. JobIs(job[a]) /\ Own(a, job[a]) BY DEF EditShapes, OwnPhases
<1>2. \/ Goes(a, Idle)
      \/ \E m : Goes(a, [job[a] EXCEPT !.move = m])
      \/ \E n : Goes(a, [job[a] EXCEPT !.arm = n])
      \/ \E d : Goes(a, [job[a] EXCEPT !.drop = d])
      \/ /\ job[a].pc = "apply" /\ job[a].next \notin {"idle", "closed"}
         /\ Goes(a, [Idle EXCEPT !.pc = job[a].next, !.alone = job[a].alone])
  BY Zenon DEF Applies, ApplyMove, ApplyArm, ApplyDrop, Applied, Fails, Conflict, Ends
<1>3. ASSUME NEW j, j.next = job[a].next, j.pc = job[a].pc, j.moved = job[a].moved, Goes(a, j) PROVE OwnPhases'
  <2>1. Own(a, j) BY <1>1, <1>3 DEF Own
  <2>2. QED BY <1>3, <2>1, OwnGoes
<1>4. ASSUME NEW m, Goes(a, [job[a] EXCEPT !.move = m]) PROVE OwnPhases'
  <2>1. PICK j : j = [job[a] EXCEPT !.move = m] OBVIOUS
  <2>2. j.next = job[a].next /\ j.pc = job[a].pc /\ j.moved = job[a].moved
    BY <1>1, <2>1 DEF JobIs, JobFields
  <2>3. QED BY <1>3, <1>4, <2>1, <2>2
<1>5. ASSUME NEW n, Goes(a, [job[a] EXCEPT !.arm = n]) PROVE OwnPhases'
  <2>1. PICK j : j = [job[a] EXCEPT !.arm = n] OBVIOUS
  <2>2. j.next = job[a].next /\ j.pc = job[a].pc /\ j.moved = job[a].moved
    BY <1>1, <2>1 DEF JobIs, JobFields
  <2>3. QED BY <1>3, <1>5, <2>1, <2>2
<1>6. ASSUME NEW d, Goes(a, [job[a] EXCEPT !.drop = d]) PROVE OwnPhases'
  <2>1. PICK j : j = [job[a] EXCEPT !.drop = d] OBVIOUS
  <2>2. j.next = job[a].next /\ j.pc = job[a].pc /\ j.moved = job[a].moved
    BY <1>1, <2>1 DEF JobIs, JobFields
  <2>3. QED BY <1>3, <1>6, <2>1, <2>2
<1>7. ASSUME job[a].pc = "apply", job[a].next \notin {"idle", "closed"},
             Goes(a, [Idle EXCEPT !.pc = job[a].next, !.alone = job[a].alone])
      PROVE  OwnPhases'
  <2>1. PICK j : j = [Idle EXCEPT !.pc = job[a].next, !.alone = job[a].alone] OBVIOUS
  <2>2. j.next = "idle" /\ j.pc = job[a].next /\ ~j.moved BY <2>1, IdleIs DEF JobIs, JobFields
  <2>3. job[a].next \in {"name", "followed"} BY <1>1, <1>7 DEF JobIs
  <2>4. Own(a, j) BY <1>1, <1>7, <2>2, <2>3 DEF Own
  <2>5. QED BY <1>7, <2>1, <2>4, OwnGoes
<1>8. QED BY <1>2, <1>4, <1>5, <1>6, <1>7, OwnIdle, OwnGoes

LEMMA OwnPrefers == ASSUME EditShapes, OwnPhases, Prefers PROVE OwnPhases'
<1>1. "prefs" \in Actors /\ JobIs(job["prefs"]) /\ Own("prefs", job["prefs"])
  BY DEF Actors, EditShapes, OwnPhases
<1>2. \/ \E pc \in {"change", "rearm"} : Begins("prefs", [Idle EXCEPT !.pc = pc])
      \/ job["prefs"].pc = "change" /\ Goes("prefs", [job["prefs"] EXCEPT !.pc = "rearm"])
      \/ Rearm
      \/ Goes("prefs", Idle)
  BY Zenon DEF Prefers, SavePrefs, SaveAgain, RecordChange, ChangeUnrecorded, RecordFollowed, Step, Ends
<1>3. ASSUME NEW pc \in {"change", "rearm"}, Begins("prefs", [Idle EXCEPT !.pc = pc]) PROVE OwnPhases'
  <2>1. PICK j : j = [Idle EXCEPT !.pc = pc] OBVIOUS
  <2>2. DOMAIN j = JobFields /\ j.pc = pc /\ j.next = "idle" /\ ~j.moved
    BY <2>1, IdleIs DEF JobIs, JobFields
  <2>3. Own("prefs", j) BY <2>2 DEF Own
  <2>4. QED BY <1>1, <1>3, <2>1, <2>2, <2>3, OwnBegins
<1>4. ASSUME job["prefs"].pc = "change", Goes("prefs", [job["prefs"] EXCEPT !.pc = "rearm"]) PROVE OwnPhases'
  <2>1. PICK j : j = [job["prefs"] EXCEPT !.pc = "rearm"] OBVIOUS
  <2>2. j.pc = "rearm" /\ j.next = job["prefs"].next /\ ~j.moved BY <1>1, <1>4, <2>1 DEF JobIs, JobFields
  <2>3. Own("prefs", j) BY <1>1, <1>4, <2>2 DEF Own
  <2>4. QED BY <1>1, <1>4, <2>1, <2>3, OwnGoes
<1>5. CASE Rearm
  <2>1. PICK j : j = [job["prefs"] EXCEPT !.next = "followed"] OBVIOUS
  <2>2. DOMAIN j = JobFields /\ j.next = "followed" /\ ~j.moved BY <1>1, <1>5, <2>1 DEF JobIs, JobFields, Rearm
  <2>3. \/ \E to, new, n : Goes("prefs", Onto(j, to, new, n))
        \/ Goes("prefs", [j EXCEPT !.pc = "followed"])
    BY <1>5, <2>1, Zenon DEF Rearm
  <2>4. ASSUME NEW k, k.pc = "apply", k.next = "followed", ~k.moved, Goes("prefs", k) PROVE OwnPhases'
    <3>1. Own("prefs", k) BY <2>4 DEF Own
    <3>2. QED BY <1>1, <2>4, <3>1, OwnGoes
  <2>5. ASSUME NEW to, NEW new, NEW n, Goes("prefs", Onto(j, to, new, n)) PROVE OwnPhases'
    <3>1. PICK k : k = Onto(j, to, new, n) OBVIOUS
    <3>2. k.pc = "apply" /\ k.next = "followed" /\ ~k.moved BY <2>2, <3>1 DEF Onto, JobFields
    <3>3. QED BY <2>4, <2>5, <3>1, <3>2
  <2>6. ASSUME Goes("prefs", [j EXCEPT !.pc = "followed"]) PROVE OwnPhases'
    <3>1. PICK k : k = [j EXCEPT !.pc = "followed"] OBVIOUS
    <3>2. k.pc = "followed" /\ ~k.moved BY <2>2, <3>1 DEF JobFields
    <3>3. Own("prefs", k) BY <3>2 DEF Own
    <3>4. QED BY <1>1, <2>6, <3>1, <3>3, OwnGoes
  <2>7. QED BY <2>3, <2>5, <2>6
<1>6. QED BY <1>1, <1>2, <1>3, <1>4, <1>5, OwnIdle, OwnGoes

LEMMA OwnNext == EditShapes /\ OwnPhases /\ [Next]_vars => OwnPhases'
<1> SUFFICES ASSUME EditShapes, OwnPhases, [Next]_vars PROVE OwnPhases' OBVIOUS
<1>1. CASE NightNames
  <2>1. PICK j : j = [Idle EXCEPT !.pc = "name"] OBVIOUS
  <2>2. DOMAIN j = JobFields /\ j.pc = "name" /\ j.next = "idle" BY <2>1, IdleIs DEF JobIs, JobFields
  <2>3. "night" \in Actors /\ Begins("night", j) /\ Own("night", j)
    BY <1>1, <2>1, <2>2 DEF NightNames, Actors, Own
  <2>4. QED BY <2>2, <2>3, OwnBegins
<1>2. CASE Crash
  <2>1. \A a \in Actors : job'[a] = Idle BY <1>2 DEF Crash
  <2>2. QED BY <2>1, IdleIs DEF OwnPhases, Own
<1>3. CASE RowFires \/ UNCHANGED vars BY <1>3 DEF RowFires, vars, OwnPhases, Own
<1>4. QED BY <1>1, <1>2, <1>3, OwnCorrects, OwnNames, OwnApplies, OwnPrefers DEF Next

AloneInv == LandInv /\ OwnPhases

LEMMA AloneAlways == Spec => []AloneInv
<1>1. Init => AloneInv
  <2>1. Init => OwnPhases BY OwnIdle DEF Init, OwnPhases
  <2>2. QED BY <2>1, LandInit DEF AloneInv
<1>2. AloneInv /\ [Next]_vars => AloneInv' BY LandNext, OwnNext DEF AloneInv, LandInv
<1>3. QED BY <1>1, <1>2, PTL DEF Spec

(* An operation that lands with nobody beside it leaves the reminders saying *)
(* what the unit says, and one that moves an event leaves it the reminders   *)
(* its date gets, about that date, for any rows, dates, leads and operations *)
(* and however much of it an attempt that failed had done.                   *)
THEOREM LandsAsPlanned == Spec => LandsRight
<1>1. ASSUME AloneInv, NEW a \in Actors \ {"prefs"}, Lands(a)
      PROVE  /\ job[a].new # NoRow \/ job[a].moved => Says
             /\ job[a].moved => About
  <2>1. PICK j : j = job[a] OBVIOUS
  <2>2. /\ j.pc = "apply" /\ j.move = NoPlan /\ j.arm = 0 /\ j.drop = {} /\ j.alone /\ Whole(j)
        /\ j.next # "followed"
    BY <1>1, <2>1 DEF Lands, Applied, AloneInv, LandInv, OwnPhases, Own
  <2>3. DOMAIN j.move = {} BY <2>2 DEF NoPlan
  <2>4. Settled(j) = Armed /\ ~Doomed(j) /\ Armed \ j.drop = Armed BY <2>2, <2>3 DEF Settled, Doomed, Ahead
  <2>5. CASE j.next = "closed" BY <2>1, <2>2, <2>5 DEF Whole, Closes
  <2>6. CASE j.next # "closed"
    <3>1. Places(j) /\ Words(j) BY <2>2, <2>4, <2>6 DEF Whole, Lacks
    <3>2. j.new # NoRow \/ j.moved => Says BY <2>2, <2>4, <3>1 DEF Words, Says
    <3>3. ASSUME j.moved PROVE About
      <4>1. /\ \A r \in Armed : rows[r].about = unit["date"]
            /\ Cardinality(Armed) + 0 = Planned(unit["date"], unit["leads"])
        BY <2>2, <2>4, <3>1, <3>3 DEF Places
      <4>2. Cardinality(Armed) \in Nat BY ArmedIs, FS_CardinalityType
      <4>3. QED BY <4>1, <4>2 DEF About
    <3>4. QED BY <2>1, <3>2, <3>3
  <2>7. QED BY <2>5, <2>6
<1>2. AloneInv => [\A a \in Actors \ {"prefs"} :
                     Lands(a) => /\ job[a].new # NoRow \/ job[a].moved => Says
                                 /\ job[a].moved => About]_vars
  BY <1>1
<1>3. QED BY <1>2, AloneAlways, PTL DEF LandsRight

(* A close that lands alone leaves the unit no armed reminder, for any rows: *)
(* those it read armed are all those armed, and each write takes one away.   *)
THEOREM ClosesQuietly == Spec => ClosedIsQuiet
<1>1. ASSUME AloneInv, NEW a \in Correctors, Lands(a), job[a].next = "closed" PROVE Armed = {}
  <2>1. a \in Actors BY DEF Actors
  <2>2. Closes(job[a]) /\ job[a].pc = "apply" /\ job[a].drop = {}
    BY <1>1, <2>1 DEF Lands, Applied, AloneInv, LandInv, Whole
  <2>3. QED BY <1>1, <2>2 DEF Closes
<1>2. AloneInv => [\A a \in Correctors : Lands(a) /\ job[a].next = "closed" => Armed = {}]_vars
  BY <1>1
<1>3. QED BY <1>2, AloneAlways, PTL DEF ClosedIsQuiet

-----------------------------------------------------------------------------
(* Without an overlap or a correction cut short, the reminders of an event  *)
(* follow its date and the preferences, unless an operation is on its way   *)
(* there or the journal holds a change not yet followed.                    *)
Agrees == unit["kind"] = "event" /\ unit["date"] > 0 /\ Armed # {} => About
Working(j) ==
  \/ j.pc = "change"
  \/ j.pc \in {"edit", "follow"} /\ Moved(j.read, j.plan)
  \/ j.pc = "apply" /\ (j.moved \/ j.next = "closed")

Lonely == \A a \in Actors : job[a].pc # "idle" => job[a].alone
Pended == job["prefs"].pc \in {"rearm", "apply", "followed"} => pending
Followed == job["prefs"].pc = "followed" => Agrees
Underway == pending \/ Agrees \/ \E a \in Actors : Working(job[a])
Agreeing == ~torn => Lonely /\ Pended /\ Followed /\ Underway
FollowInv == AloneInv /\ Agreeing

LEMMA AgreesStands ==
  ASSUME UNCHANGED <<rows, pref>>, \A f \in {"kind", "date", "leads"} : unit'[f] = unit[f]
  PROVE  Agrees' <=> Agrees
<1>1. Armed' = Armed BY DEF Armed
<1>2. Planned(unit["date"], unit["leads"])' = Planned(unit["date"], unit["leads"]) BY DEF Planned, Due, Sent
<1>3. About' <=> About BY <1>1, <1>2 DEF About
<1>4. QED BY <1>1, <1>3 DEF Agrees

(* Who is busy is the only one, and what it is doing can be told.           *)
LEMMA BusyIs ==
  ASSUME FollowInv, ~torn, NEW a \in Actors, job[a].pc # "idle"
  PROVE  /\ job[a].alone /\ Whole(job[a]) /\ JobIs(job[a]) /\ Own(a, job[a]) /\ RowsAre
         /\ a = "prefs" /\ job[a].pc \in {"rearm", "apply", "followed"} => pending
         /\ pending \/ Agrees \/ Working(job[a])
         /\ \A b \in Actors \ {a} : job[b].pc = "idle"
<1>1. job[a].alone BY DEF FollowInv, Agreeing, Lonely
<1>2. \A b \in Actors \ {a} : job[b].pc = "idle"
  BY <1>1 DEF FollowInv, AloneInv, LandInv, Undisturbed, Busy
<1>3. \A b \in Actors \ {a} : ~Working(job[b]) BY <1>2 DEF Working
<1>4. QED BY <1>1, <1>2, <1>3 DEF FollowInv, AloneInv, LandInv, EditShapes, OwnPhases, Agreeing, Pended, Underway

LEMMA GoesAgrees ==
  ASSUME FollowInv, ~torn, NEW a \in Actors, NEW k, Goes(a, k), job[a].pc # "idle",
         k.pc # "idle" => k.alone,
         a = "prefs" => /\ k.pc \in {"rearm", "apply", "followed"} => pending'
                        /\ k.pc = "followed" => Agrees',
         pending' \/ Agrees' \/ Working(k)
  PROVE  Agreeing'
<1>1. \A b \in Actors \ {a} : job[b].pc = "idle" BY BusyIs
<1>2. job'[a] = k /\ \A b \in Actors \ {a} : job'[b].pc = "idle"
  BY <1>1 DEF Goes, FollowInv, AloneInv, LandInv, EditShapes
<1>3. "prefs" \in Actors BY DEF Actors
<1>4. Lonely' BY <1>2 DEF Lonely
<1>5. Pended' /\ Followed' BY <1>2, <1>3 DEF Pended, Followed
<1>6. Underway' BY <1>2 DEF Underway
<1>7. QED BY <1>4, <1>5, <1>6 DEF Agreeing

LEMMA BeginsAgrees ==
  ASSUME FollowInv, ~torn', NEW a \in Actors, NEW j, Begins(a, j), UNCHANGED <<unit, rows, pending>>,
         DOMAIN j = JobFields, j.pc # "idle", pref' = pref \/ j.pc = "change",
         a = "prefs" => j.pc = "change" \/ (j.pc = "rearm" /\ pending)
  PROVE  Agreeing'
<1>1. ~torn /\ Alone(a) /\ job[a].pc = "idle" BY DEF Begins
<1>2. \A b \in Actors : job[b].pc = "idle" BY <1>1 DEF Alone, Busy
<1>3. job' = [x \in Actors |-> IF x = a THEN [j EXCEPT !.alone = Alone(a)] ELSE [job[x] EXCEPT !.alone = FALSE]]
  BY DEF Begins
<1>4. job'[a].pc = j.pc /\ job'[a].alone BY <1>1, <1>3 DEF JobFields
<1>5. ASSUME NEW b \in Actors \ {a} PROVE job'[b].pc = "idle"
  <2>1. job'[b] = [job[b] EXCEPT !.alone = FALSE] /\ DOMAIN job[b] = JobFields
    BY <1>3 DEF FollowInv, AloneInv, LandInv, EditShapes, JobIs
  <2>2. QED BY <1>2, <2>1 DEF JobFields
<1>6. "prefs" \in Actors BY DEF Actors
<1>7. Lonely' BY <1>4, <1>5 DEF Lonely
<1>8. Pended' /\ Followed' BY <1>4, <1>5, <1>6 DEF Pended, Followed
<1>9. Underway'
  <2>1. CASE j.pc = "change" BY <1>4, <2>1 DEF Underway, Working
  <2>2. CASE pref' = pref
    <3>1. \A b \in Actors : ~Working(job[b]) BY <1>2 DEF Working
    <3>2. pending \/ Agrees BY <1>1, <3>1 DEF FollowInv, Agreeing, Underway
    <3>3. QED BY <2>2, <3>2, AgreesStands DEF Underway
  <2>3. QED BY <2>1, <2>2
<1>10. QED BY <1>7, <1>8, <1>9 DEF Agreeing

(* An operation that ends, or goes on, and was on its way nowhere.          *)
LEMMA IdlesAgrees ==
  ASSUME FollowInv, ~torn, NEW a \in Actors, NEW k, Goes(a, k), job[a].pc # "idle",
         UNCHANGED <<rows, pref, pending>>, \A f \in {"kind", "date", "leads"} : unit'[f] = unit[f],
         ~Working(job[a]), k.pc = "idle" \/ (a # "prefs" /\ k.alone = job[a].alone)
  PROVE  Agreeing'
<1>1. pending \/ Agrees BY BusyIs
<1>2. pending' \/ Agrees' BY <1>1, AgreesStands
<1>3. k.pc # "idle" => k.alone BY BusyIs
<1>4. QED BY <1>2, <1>3, GoesAgrees

-----------------------------------------------------------------------------
LEMMA CorrectsAgrees ==
  ASSUME FollowInv, ~torn', NEW a \in Correctors, Corrects(a) PROVE Agreeing'
<1>1. a \in Actors /\ a # "prefs" /\ DOMAIN job = Actors /\ DOMAIN job[a] = JobFields /\ RowsAre
  BY EditsAssumption DEF Actors, FollowInv, AloneInv, LandInv, EditShapes, JobIs
<1>2. CASE Resolve(a)
  <2>1. PICK p : Begins(a, [Reading(unit, "row") EXCEPT !.plan = p, !.todo = {f \in Fields : f \in DOMAIN p /\ p[f] # unit[f]}])
    BY <1>2, Zenon DEF Resolve
  <2>2. PICK todo : todo = {f \in Fields : f \in DOMAIN p /\ p[f] # unit[f]} OBVIOUS
  <2>3. PICK j : j = [Reading(unit, "row") EXCEPT !.plan = p, !.todo = todo] OBVIOUS
  <2>4. DOMAIN j = JobFields /\ j.pc = "row" BY <2>3, IdleIs DEF Reading, JobIs, JobFields
  <2>5. Begins(a, j) /\ UNCHANGED <<unit, rows, pending, pref>> BY <1>2, <2>1, <2>2, <2>3 DEF Resolve, stored
  <2>6. QED BY <1>1, <2>4, <2>5, BeginsAgrees
<1>3. CASE RepeatsIt(a)
  <2>1. PICK p : Begins(a, [Reading(unit, "follow") EXCEPT !.plan = p]) BY <1>3, Zenon DEF RepeatsIt
  <2>2. PICK j : j = [Reading(unit, "follow") EXCEPT !.plan = p] OBVIOUS
  <2>3. DOMAIN j = JobFields /\ j.pc = "follow" BY <2>2, IdleIs DEF Reading, JobIs, JobFields
  <2>4. Begins(a, j) /\ UNCHANGED <<unit, rows, pending, pref>> BY <1>3, <2>1, <2>2 DEF RepeatsIt, stored
  <2>5. QED BY <1>1, <2>3, <2>4, BeginsAgrees
<1>4. CASE CloseDone(a)
  <2>1. PICK j : j = [Idle EXCEPT !.pc = "close", !.drop = Armed] OBVIOUS
  <2>2. DOMAIN j = JobFields /\ j.pc = "close" BY <2>1, IdleIs DEF JobIs, JobFields
  <2>3. Begins(a, j) /\ UNCHANGED <<unit, rows, pending, pref>> BY <1>4, <2>1 DEF CloseDone, stored
  <2>4. QED BY <1>1, <2>2, <2>3, BeginsAgrees
<1>5. CASE RecordPreImage(a)
  <2>1. job[a].pc = "row" /\ Goes(a, [job[a] EXCEPT !.pc = "edit"]) /\ ~torn
        /\ UNCHANGED <<unit, rows, pref, pending>>
    BY <1>5 DEF RecordPreImage, Step, Quiet
  <2>2. PICK k : k = [job[a] EXCEPT !.pc = "edit"] OBVIOUS
  <2>3. k.alone = job[a].alone /\ Goes(a, k) BY <1>1, <2>1, <2>2 DEF JobFields
  <2>4. ~Working(job[a]) /\ job[a].pc # "idle" BY <2>1 DEF Working
  <2>5. QED BY <1>1, <2>1, <2>3, <2>4, IdlesAgrees
<1>6. CASE DispatchEdit(a)
  <2> DEFINE f == First(job[a].todo)
             pc == IF job[a].todo = {f} THEN "follow" ELSE "edit"
  <2>1. /\ job[a].pc = "edit" /\ job[a].todo # {} /\ ~torn
        /\ unit' = [unit EXCEPT ![f] = job[a].plan[f]]
        /\ Goes(a, [job[a] EXCEPT !.todo = job[a].todo \ {f}, !.pc = pc])
        /\ UNCHANGED <<rows, pref, pending>>
    BY <1>6 DEF DispatchEdit, Quiet
  <2>2. job[a].pc # "idle" BY <2>1
  <2>3. JobIs(job[a]) /\ job[a].alone /\ Whole(job[a]) /\ (pending \/ Agrees \/ Working(job[a]))
    BY <1>1, <2>1, <2>2, BusyIs
  <2>4. f \in job[a].todo /\ f \in Fields /\ f \in DOMAIN job[a].plan BY <2>1, <2>3, FirstIs DEF JobIs
  <2>5. pc \in {"follow", "edit"} OBVIOUS
  <2>6. PICK k : k = [job[a] EXCEPT !.todo = job[a].todo \ {f}, !.pc = pc] OBVIOUS
  <2>7. Goes(a, k) BY <2>1, <2>6
  <2> HIDE DEF f, pc
  <2>8. /\ k.pc = pc /\ k.alone = job[a].alone /\ k.read = job[a].read /\ k.plan = job[a].plan
    BY <1>1, <2>6 DEF JobFields
  <2>9. CASE Moved(job[a].read, job[a].plan)
    <3>1. Working(k) BY <2>5, <2>8, <2>9 DEF Working
    <3>2. QED BY <1>1, <2>1, <2>2, <2>3, <2>7, <2>8, <3>1, GoesAgrees
  <2>10. CASE ~Moved(job[a].read, job[a].plan)
    <3>1. pending \/ Agrees BY <2>1, <2>3, <2>10 DEF Working
    <3>2. unit'["kind"] = unit["kind"] /\ \A g \in Fields \ {f} : unit'[g] = unit[g]
      BY <1>1, <2>1, <2>4 DEF RowsAre, UnitFields, Fields
    <3>3. CASE unit["kind"] # "event"
      <4>1. Agrees' BY <3>2, <3>3 DEF Agrees
      <4>2. QED BY <1>1, <2>1, <2>2, <2>3, <2>7, <2>8, <4>1, GoesAgrees
    <3>4. CASE unit["kind"] = "event"
      <4>1. job[a].read["kind"] = "event" BY <2>1, <2>3, <3>4 DEF Whole, Follows
      <4>2. f \notin {"date", "leads"} BY <2>4, <2>10, <4>1 DEF Moved
      <4>3. \A g \in {"kind", "date", "leads"} : unit'[g] = unit[g] BY <3>2, <4>2 DEF Fields
      <4>4. pending' \/ Agrees' BY <2>1, <3>1, <4>3, AgreesStands
      <4>5. QED BY <1>1, <2>1, <2>2, <2>3, <2>7, <2>8, <4>4, GoesAgrees
    <3>5. QED BY <3>3, <3>4
  <2>11. QED BY <2>9, <2>10
<1>7. CASE FollowReminder(a)
  <2> DEFINE shift == Moved(job[a].read, job[a].plan)
             j == [Idle EXCEPT !.pc = "apply", !.next = After(job[a]), !.alone = job[a].alone, !.moved = shift]
  <2>1. /\ DOMAIN j = JobFields /\ j.pc = "apply" /\ j.next = After(job[a]) /\ j.moved = shift
        /\ j.alone = job[a].alone
    BY IdleIs DEF JobIs, JobFields
  <2>2. /\ job[a].pc = "follow" /\ ~torn /\ UNCHANGED <<unit, rows, pref, pending>>
        /\ \/ shift /\ \E to, new, n : Goes(a, Onto(j, to, new, n))
           \/ ~shift /\ \E says : Goes(a, Retexted(j, says))
           \/ ~shift /\ Goes(a, j)
    BY <1>7, Zenon DEF FollowReminder, OntoDate, Quiet, stored
  <2> HIDE DEF j
  <2>3. job[a].pc # "idle" BY <2>2
  <2>4. job[a].alone BY <1>1, <2>2, <2>3, BusyIs
  <2>5. ASSUME shift, NEW to, NEW new, NEW n, Goes(a, Onto(j, to, new, n)) PROVE Agreeing'
    <3>1. PICK k : k = Onto(j, to, new, n) OBVIOUS
    <3>2. k.pc = "apply" /\ k.moved = shift /\ k.alone = job[a].alone BY <2>1, <3>1 DEF Onto, JobFields
    <3>3. Working(k) BY <2>5, <3>2 DEF Working
    <3>4. QED BY <1>1, <2>2, <2>3, <2>4, <2>5, <3>1, <3>2, <3>3, GoesAgrees
  <2>6. ASSUME ~shift, NEW k, k.alone = job[a].alone, Goes(a, k) PROVE Agreeing'
    <3>1. ~Working(job[a]) BY <2>2, <2>6 DEF Working
    <3>2. QED BY <1>1, <2>2, <2>3, <2>6, <3>1, IdlesAgrees
  <2>7. ASSUME ~shift, NEW says, Goes(a, Retexted(j, says)) PROVE Agreeing'
    <3>1. PICK k : k = Retexted(j, says) OBVIOUS
    <3>2. k.alone = job[a].alone BY <2>1, <3>1 DEF Retexted, JobFields
    <3>3. QED BY <2>6, <2>7, <3>1, <3>2
  <2>8. QED BY <2>1, <2>2, <2>5, <2>6, <2>7
<1>8. CASE Archive(a)
  <2>1. job[a].pc = "close" /\ ~torn /\ UNCHANGED <<rows, pref, pending>> BY <1>8 DEF Archive, Quiet
  <2>2. job[a].pc # "idle" /\ ~Working(job[a]) BY <2>1 DEF Working
  <2>3. CASE Goes(a, Idle) /\ UNCHANGED unit
    BY <1>1, <2>1, <2>2, <2>3, IdleIs, IdlesAgrees
  <2>4. CASE unit' = [unit EXCEPT !.status = "archived"] /\ Goes(a, Closing(a))
    <3>1. PICK k : k = Closing(a) OBVIOUS
    <3>2. k.alone = job[a].alone BY <3>1, IdleIs DEF Closing, JobIs, JobFields
    <3>3. \A f \in {"kind", "date", "leads"} : unit'[f] = unit[f] BY <1>1, <2>4 DEF RowsAre, UnitFields
    <3>4. QED BY <1>1, <2>1, <2>2, <2>4, <3>1, <3>2, <3>3, IdlesAgrees
  <2>5. QED BY <1>8, <2>3, <2>4 DEF Archive, Ends
<1>9. QED BY <1>2, <1>3, <1>4, <1>5, <1>6, <1>7, <1>8 DEF Corrects

LEMMA NamesAgrees ==
  ASSUME FollowInv, ~torn', NEW a \in Correctors \cup {"night"}, Names(a) PROVE Agreeing'
<1>1. a \in Actors /\ a # "prefs" /\ DOMAIN job[a] = JobFields /\ RowsAre
  BY EditsAssumption DEF Actors, FollowInv, AloneInv, LandInv, EditShapes, JobIs
<1>2. /\ job[a].pc \in {"name", "named", "retext"} /\ ~torn /\ UNCHANGED <<rows, pref, pending>>
      /\ unit' = unit \/ unit' = [unit EXCEPT !.title = ModelTitle]
      /\ \/ Goes(a, Idle)
         \/ \E pc : Goes(a, [job[a] EXCEPT !.pc = pc])
         \/ \E says : Goes(a, [Retexted(job[a], says) EXCEPT !.next = "idle"])
  <2>1. CASE NameIfUntitled(a) BY <2>1 DEF NameIfUntitled, Step, Ends, Quiet
  <2>2. CASE RecordName(a) BY <2>2 DEF RecordName, Step, Quiet
  <2>3. CASE RetextReminders(a) BY <2>3 DEF RetextReminders, Quiet, stored
  <2>4. QED BY <2>1, <2>2, <2>3 DEF Names
<1>3. \A f \in {"kind", "date", "leads"} : unit'[f] = unit[f] BY <1>1, <1>2 DEF RowsAre, UnitFields
<1>4. job[a].pc # "idle" /\ ~Working(job[a]) BY <1>2 DEF Working
<1>5. ASSUME NEW k, Goes(a, k), k.pc = "idle" \/ k.alone = job[a].alone PROVE Agreeing'
  BY <1>1, <1>2, <1>3, <1>4, <1>5, IdlesAgrees
<1>6. ASSUME NEW pc, Goes(a, [job[a] EXCEPT !.pc = pc]) PROVE Agreeing'
  <2>1. PICK k : k = [job[a] EXCEPT !.pc = pc] OBVIOUS
  <2>2. k.alone = job[a].alone BY <1>1, <2>1 DEF JobFields
  <2>3. QED BY <1>5, <1>6, <2>1, <2>2
<1>7. ASSUME NEW says, Goes(a, [Retexted(job[a], says) EXCEPT !.next = "idle"]) PROVE Agreeing'
  <2>1. PICK k : k = [Retexted(job[a], says) EXCEPT !.next = "idle"] OBVIOUS
  <2>2. k.alone = job[a].alone BY <1>1, <2>1 DEF Retexted, JobFields
  <2>3. QED BY <1>5, <1>7, <2>1, <2>2
<1>8. QED BY <1>2, <1>5, <1>6, <1>7, IdleIs

LEMMA AppliesAgrees ==
  ASSUME FollowInv, ~torn', NEW a \in Actors, Applies(a) PROVE Agreeing'
<1>1. /\ job[a].pc = "apply" /\ job[a].pc # "idle" /\ ~torn /\ UNCHANGED <<unit, pref, pending>>
  BY DEF Applies, ApplyMove, ApplyArm, ApplyDrop, Applied, Quiet, stored
<1>2. PICK j : j = job[a] OBVIOUS
<1>3. /\ j.alone /\ Whole(j) /\ JobIs(j) /\ Own(a, j) /\ RowsAre
      /\ a = "prefs" => pending
      /\ pending \/ Agrees \/ Working(j)
  BY <1>1, <1>2, BusyIs
<1>4. ASSUME NEW k, Goes(a, k), k.pc = "apply", k.next = j.next, k.moved = j.moved, k.alone = j.alone,
             a # "prefs" /\ ~Working(j) /\ Agrees => Agrees'
      PROVE  Agreeing'
  <2>1. Working(j) => Working(k) BY <1>1, <1>2, <1>4 DEF Working
  <2>2. pending' \/ Agrees' \/ Working(k) BY <1>1, <1>3, <1>4, <2>1
  <2>3. QED BY <1>1, <1>3, <1>4, <2>2, GoesAgrees
<1>5. a # "prefs" /\ ~Working(j) => OnlyWords(j) /\ j.next \in {"idle", "name"} /\ ~j.moved
  BY <1>1, <1>2, <1>3 DEF Working, Own, Whole, Lacks, JobIs
<1>6. CASE ApplyMove(a)
  <2> DEFINE m(r) == [s \in DOMAIN j.move \ {r} |-> j.move[s]]
  <2>1. PICK r \in DOMAIN j.move : /\ rows[r].status = "armed" /\ rows' = [rows EXCEPT ![r] = j.move[r]]
                                   /\ Goes(a, [j EXCEPT !.move = m(r)])
    BY <1>2, <1>6 DEF ApplyMove
  <2>2. PICK k : k = [j EXCEPT !.move = m(r)] OBVIOUS
  <2> HIDE DEF m
  <2>3. k.pc = "apply" /\ k.next = j.next /\ k.moved = j.moved /\ k.alone = j.alone
    BY <1>1, <1>2, <1>3, <2>2 DEF JobIs, JobFields
  <2>4. r \in Rows /\ j.move[r].status = "armed" BY <1>3, <2>1 DEF JobIs
  <2>5. ASSUME a # "prefs", ~Working(j), Agrees PROVE Agrees'
    <3>1. j.move[r].about = rows[r].about BY <1>5, <2>1, <2>5 DEF OnlyWords
    <3>2. rows'[r] = j.move[r] /\ \A s \in Rows \ {r} : rows'[s] = rows[s] BY <1>3, <2>1, <2>4 DEF RowsAre
    <3>3. Armed' = Armed BY <2>1, <2>4, <3>2 DEF Armed
    <3>4. \A s \in Rows : rows'[s].about = rows[s].about BY <3>1, <3>2
    <3>5. Planned(unit["date"], unit["leads"])' = Planned(unit["date"], unit["leads"])
      BY <1>1, <2>1, <2>4, <3>2, PlannedSame
    <3>6. About => About' BY <1>1, <3>3, <3>4, <3>5, ArmedIs DEF About
    <3>7. QED BY <1>1, <2>5, <3>3, <3>6 DEF Agrees
  <2>6. QED BY <1>4, <2>1, <2>2, <2>3, <2>5
<1>7. CASE ApplyArm(a)
  <2>1. PICK k : k = [j EXCEPT !.arm = j.arm - 1] OBVIOUS
  <2>2. Goes(a, k) /\ j.arm > 0 BY <1>2, <1>7, <2>1 DEF ApplyArm
  <2>3. k.pc = "apply" /\ k.next = j.next /\ k.moved = j.moved /\ k.alone = j.alone
    BY <1>1, <1>2, <1>3, <2>1 DEF JobIs, JobFields
  <2>4. ~(a # "prefs" /\ ~Working(j)) BY <1>5, <2>2 DEF OnlyWords
  <2>5. QED BY <1>4, <2>2, <2>3, <2>4
<1>8. CASE ApplyDrop(a)
  <2>1. PICK r \in j.drop : Goes(a, [j EXCEPT !.drop = j.drop \ {r}]) BY <1>2, <1>8 DEF ApplyDrop
  <2>2. PICK k : k = [j EXCEPT !.drop = j.drop \ {r}] OBVIOUS
  <2>3. k.pc = "apply" /\ k.next = j.next /\ k.moved = j.moved /\ k.alone = j.alone
    BY <1>1, <1>2, <1>3, <2>2 DEF JobIs, JobFields
  <2>4. ~(a # "prefs" /\ ~Working(j)) BY <1>5, <2>1 DEF OnlyWords
  <2>5. QED BY <1>4, <2>1, <2>2, <2>3, <2>4
<1>9. CASE Applied(a)
  <2>1. /\ j.move = NoPlan /\ j.arm = 0 /\ j.drop = {} /\ UNCHANGED rows
        /\ Goes(a, IF j.next \in {"idle", "closed"} THEN Idle ELSE [Idle EXCEPT !.pc = j.next, !.alone = j.alone])
    BY <1>2, <1>9 DEF Applied, stored
  <2>2. DOMAIN j.move = {} BY <2>1 DEF NoPlan
  <2>3. Settled(j) = Armed /\ ~Doomed(j) /\ Armed \ j.drop = Armed BY <2>1, <2>2 DEF Settled, Doomed, Ahead
  <2>4. \A f \in {"kind", "date", "leads"} : unit'[f] = unit[f] BY <1>1
  <2>5. Agrees' <=> Agrees BY <1>1, <2>1, <2>4, AgreesStands
  <2>6. j.next = "closed" => Agrees BY <1>1, <1>2, <1>3, <2>1 DEF Whole, Closes, Agrees
  <2>7. ASSUME j.next # "closed", j.moved \/ j.next = "followed" PROVE Agrees
    <3>1. Places(j) BY <1>1, <1>2, <1>3, <2>3, <2>7 DEF Whole, Lacks
    <3>2. /\ \A r \in Armed : rows[r].about = unit["date"]
          /\ Cardinality(Armed) + 0 = Planned(unit["date"], unit["leads"])
      BY <2>1, <2>3, <2>7, <3>1 DEF Places
    <3>3. Cardinality(Armed) \in Nat BY ArmedIs, FS_CardinalityType
    <3>4. QED BY <3>2, <3>3 DEF About, Agrees
  <2>8. pending' \/ Agrees' BY <1>1, <1>2, <1>3, <2>5, <2>6, <2>7 DEF Working
  <2>9. CASE j.next \in {"idle", "closed"}
    <3>1. Goes(a, Idle) BY <2>1, <2>9
    <3>2. QED BY <1>1, <2>8, <3>1, IdleIs, GoesAgrees
  <2>10. CASE j.next \notin {"idle", "closed"}
    <3>1. PICK k : k = [Idle EXCEPT !.pc = j.next, !.alone = j.alone] OBVIOUS
    <3>2. k.pc = j.next /\ k.alone = j.alone BY <3>1, IdleIs DEF JobIs, JobFields
    <3>3. Goes(a, k) BY <2>1, <2>10, <3>1
    <3>4. a = "prefs" => pending' /\ (k.pc = "followed" => Agrees') BY <1>1, <1>3, <2>5, <2>7, <3>2
    <3>5. QED BY <1>1, <1>3, <2>8, <3>2, <3>3, <3>4, GoesAgrees
  <2>11. QED BY <2>9, <2>10
<1>10. QED BY <1>6, <1>7, <1>8, <1>9 DEF Applies

LEMMA StopsAgrees ==
  ASSUME FollowInv, ~torn', NEW a \in Actors, Fails(a) \/ Conflict(a) PROVE Agreeing'
<1>1. /\ Goes(a, Idle) /\ job[a].pc # "idle" /\ ~torn /\ ~HalfDone(a)
      /\ UNCHANGED <<unit, rows, pref, pending>>
  BY DEF Fails, Conflict, Ends, stored
<1>2. Own(a, job[a]) BY <1>1, BusyIs
<1>3. ~Working(job[a])
  BY <1>1, <1>2 DEF HalfDone, Working, Own
<1>4. QED BY <1>1, <1>3, IdleIs, IdlesAgrees

LEMMA PrefersAgrees ==
  ASSUME FollowInv, ~torn', Prefers PROVE Agreeing'
<1>1. "prefs" \in Actors /\ DOMAIN job["prefs"] = JobFields
  BY DEF Actors, FollowInv, AloneInv, LandInv, EditShapes, JobIs
<1>2. CASE SavePrefs \/ SaveAgain
  <2>1. PICK pc \in {"change", "rearm"} :
          /\ Begins("prefs", [Idle EXCEPT !.pc = pc]) /\ UNCHANGED <<unit, rows, pending>>
          /\ pref' = pref \/ pc = "change"
          /\ pc = "rearm" => pending
    <3>1. CASE SavePrefs BY <3>1 DEF SavePrefs
    <3>2. CASE SaveAgain BY <3>2 DEF SaveAgain, stored
    <3>3. QED BY <1>2, <3>1, <3>2
  <2>2. PICK j : j = [Idle EXCEPT !.pc = pc] OBVIOUS
  <2>3. DOMAIN j = JobFields /\ j.pc = pc BY <2>2, IdleIs DEF JobIs, JobFields
  <2>4. Begins("prefs", j) /\ j.pc # "idle" /\ (pref' = pref \/ j.pc = "change")
        /\ (j.pc = "change" \/ (j.pc = "rearm" /\ pending))
    BY <2>1, <2>2, <2>3
  <2>5. QED BY <1>1, <2>1, <2>3, <2>4, BeginsAgrees
<1>3. CASE RecordChange
  <2>1. PICK k : k = [job["prefs"] EXCEPT !.pc = "rearm"] OBVIOUS
  <2>2. Goes("prefs", k) /\ job["prefs"].pc = "change" /\ pending' /\ ~torn
    BY <1>3, <2>1 DEF RecordChange, Step, Quiet
  <2>3. job["prefs"].pc # "idle" /\ k.pc = "rearm" /\ k.alone = job["prefs"].alone
    BY <1>1, <2>1, <2>2 DEF JobFields
  <2>4. job["prefs"].alone BY <1>1, <2>2, <2>3, BusyIs
  <2>5. QED BY <1>1, <2>2, <2>3, <2>4, GoesAgrees
<1>4. CASE ChangeUnrecorded BY <1>4 DEF ChangeUnrecorded
<1>5. CASE Rearm
  <2>1. /\ job["prefs"].pc = "rearm" /\ job["prefs"].pc # "idle" /\ ~torn /\ UNCHANGED <<unit, rows, pref, pending>>
    BY <1>5 DEF Rearm, Quiet, stored
  <2>2. job["prefs"].alone /\ pending BY <1>1, <2>1, BusyIs
  <2>3. PICK j : j = [job["prefs"] EXCEPT !.next = "followed"] OBVIOUS
  <2>4. DOMAIN j = JobFields /\ j.alone = job["prefs"].alone BY <1>1, <2>3 DEF JobFields
  <2>5. \/ \E to, new, n : Goes("prefs", Onto(j, to, new, n))
        \/ /\ ~(unit.kind = "event" /\ unit.date > 0 /\ Armed # {})
           /\ Goes("prefs", [j EXCEPT !.pc = "followed"])
    BY <1>5, <2>3, Zenon DEF Rearm
  <2>6. ASSUME NEW k, Goes("prefs", k), k.alone = job["prefs"].alone, k.pc = "followed" => Agrees'
        PROVE  Agreeing'
    BY <1>1, <2>1, <2>2, <2>6, GoesAgrees
  <2>7. ASSUME NEW to, NEW new, NEW n, Goes("prefs", Onto(j, to, new, n)) PROVE Agreeing'
    <3>1. PICK k : k = Onto(j, to, new, n) OBVIOUS
    <3>2. k.pc = "apply" /\ k.alone = job["prefs"].alone BY <2>4, <3>1 DEF Onto, JobFields
    <3>3. QED BY <2>6, <2>7, <3>1, <3>2
  <2>8. ASSUME ~(unit.kind = "event" /\ unit.date > 0 /\ Armed # {}), Goes("prefs", [j EXCEPT !.pc = "followed"])
        PROVE Agreeing'
    <3>1. PICK k : k = [j EXCEPT !.pc = "followed"] OBVIOUS
    <3>2. k.alone = job["prefs"].alone BY <2>4, <3>1 DEF JobFields
    <3>3. Agrees BY <2>8 DEF Agrees
    <3>4. \A f \in {"kind", "date", "leads"} : unit'[f] = unit[f] BY <2>1
    <3>5. Agrees' BY <2>1, <3>3, <3>4, AgreesStands
    <3>6. QED BY <2>6, <2>8, <3>1, <3>2, <3>5
  <2>9. QED BY <2>5, <2>7, <2>8
<1>6. CASE RecordFollowed
  <2>1. /\ job["prefs"].pc = "followed" /\ Goes("prefs", Idle) /\ ~torn /\ UNCHANGED <<unit, rows, pref>>
    BY <1>6 DEF RecordFollowed, Quiet, Ends
  <2>2. Agrees BY <2>1 DEF FollowInv, Agreeing, Followed
  <2>3. \A f \in {"kind", "date", "leads"} : unit'[f] = unit[f] BY <2>1
  <2>4. Agrees' BY <2>1, <2>2, <2>3, AgreesStands
  <2>5. job["prefs"].pc # "idle" BY <2>1
  <2>6. QED BY <1>1, <2>1, <2>4, <2>5, IdleIs, GoesAgrees
<1>7. QED BY <1>2, <1>3, <1>4, <1>5, <1>6 DEF Prefers

LEMMA CrashAgrees == ASSUME FollowInv, ~torn', Crash PROVE Agreeing'
<1>1. /\ ~torn /\ (\A a \in Actors : ~HalfDone(a)) /\ UNCHANGED <<unit, rows, pref, pending>>
      /\ DOMAIN job' = Actors /\ \A a \in Actors : job'[a] = Idle
  BY DEF Crash, stored
<1>2. \A a \in Actors : ~Working(job[a])
  BY <1>1 DEF HalfDone, Working, Own, FollowInv, AloneInv, OwnPhases
<1>3. pending \/ Agrees BY <1>1, <1>2 DEF FollowInv, Agreeing, Underway
<1>4. \A f \in {"kind", "date", "leads"} : unit'[f] = unit[f] BY <1>1
<1>5. Underway' BY <1>1, <1>3, <1>4, AgreesStands DEF Underway
<1>6. \A a \in Actors : job'[a].pc = "idle" BY <1>1, IdleIs
<1>7. Lonely' /\ Pended' /\ Followed' BY <1>6 DEF Lonely, Pended, Followed, Actors
<1>8. QED BY <1>5, <1>7 DEF Agreeing

LEMMA FiresAgrees == ASSUME FollowInv, RowFires PROVE Agreeing'
<1>1. PICK r \in Armed : rows' = [rows EXCEPT ![r].status = "fired"] BY DEF RowFires
<1>2. UNCHANGED <<unit, pref, job, torn, pending>> /\ RowsAre
  BY DEF RowFires, FollowInv, AloneInv, LandInv, EditShapes
<1>3. r \in Rows /\ rows[r].status = "armed" BY DEF Armed
<1>4. rows'[r].status = "fired" /\ \A s \in Rows \ {r} : rows'[s] = rows[s]
  BY <1>1, <1>2, <1>3 DEF RowsAre, IsRow, RowFields
<1>5. Armed' = Armed \ {r} BY <1>3, <1>4 DEF Armed
<1>6. ASSUME About PROVE About'
  <2>1. PICK c \in Nat : c = Cardinality(Armed) BY ArmedIs, FS_CardinalityType
  <2>2. PICK b \in Nat : b = Cardinality(Armed \ {r}) BY ArmedIs, FS_Subset, FS_CardinalityType
  <2>3. b = c - 1 BY <2>1, <2>2, ArmedIs, FS_RemoveElement
  <2>4. c > 0 BY <2>3
  <2>5. Planned(unit["date"], unit["leads"])' = Planned(unit["date"], unit["leads"]) - 1
    BY <1>1, <1>2, <1>6, <2>1, <2>4, FiredIsSent DEF About
  <2>6. Cardinality(Armed)' = Planned(unit["date"], unit["leads"])'
    BY <1>5, <1>6, <2>1, <2>2, <2>3, <2>5 DEF About
  <2>7. \A s \in Armed' : rows'[s].about = unit'["date"]
    BY <1>2, <1>4, <1>5, <1>6, ArmedIs DEF About
  <2>8. QED BY <2>6, <2>7 DEF About
<1>7. Agrees => Agrees' BY <1>2, <1>5, <1>6 DEF Agrees
<1>8. QED BY <1>2, <1>7 DEF FollowInv, Agreeing, Lonely, Pended, Followed, Underway

LEMMA AgreesNext == FollowInv /\ [Next]_vars => FollowInv'
<1> SUFFICES ASSUME FollowInv, [Next]_vars PROVE FollowInv' OBVIOUS
<1>1. AloneInv' BY LandNext, OwnNext DEF FollowInv, AloneInv, LandInv
<1>2. SUFFICES ASSUME ~torn' PROVE Agreeing' BY <1>1 DEF FollowInv, Agreeing
<1>3. ASSUME NightNames PROVE Agreeing'
  <2>1. PICK j : j = [Idle EXCEPT !.pc = "name"] OBVIOUS
  <2>2. DOMAIN j = JobFields /\ j.pc = "name" BY <2>1, IdleIs DEF JobIs, JobFields
  <2>3. "night" \in Actors /\ Begins("night", j) /\ UNCHANGED <<unit, rows, pending, pref>>
    BY <1>3, <2>1 DEF NightNames, stored, Actors
  <2>4. QED BY <1>2, <2>2, <2>3, BeginsAgrees
<1>4. ASSUME UNCHANGED vars PROVE Agreeing'
  <2>1. UNCHANGED <<unit, rows, pref, pending, job, torn>> BY <1>4 DEF vars, stored
  <2>2. Agrees' <=> Agrees BY <2>1, AgreesStands
  <2>3. QED BY <2>1, <2>2 DEF FollowInv, Agreeing, Lonely, Pended, Followed, Underway
<1>5. QED
  BY <1>2, <1>3, <1>4, CorrectsAgrees, NamesAgrees, AppliesAgrees, StopsAgrees, PrefersAgrees, CrashAgrees, FiresAgrees
  DEF Next

-----------------------------------------------------------------------------
(* The reminders a unit is captured with: the rows of the two lowest ranks. *)
UpTo(x, T) == {y \in T : y <= x}

(* A set of numbers that is not empty has a least one.                     *)
LEMMA LeastExists ==
  ASSUME NEW T, T \subseteq Nat, T # {}
  PROVE  \E x \in T : \A y \in T : x <= y
<1> DEFINE F == {UpTo(x, T) : x \in T}
<1>1. F \subseteq FiniteSubsetsOf(Nat)
  <2>1. ASSUME NEW x \in T PROVE UpTo(x, T) \in SUBSET Nat /\ IsFiniteSet(UpTo(x, T))
    <3>1. UpTo(x, T) \in SUBSET Nat /\ \A s \in UpTo(x, T) : s <= x BY DEF UpTo
    <3>2. QED BY <3>1, FS_BoundedSetOfNaturals
  <2>2. QED BY <2>1 DEF FiniteSubsetsOf
<1>2. F # {} OBVIOUS
<1>3. PICK G \in F : \A H \in F : ~ (<<H, G>> \in StrictSubsetOrdering(Nat))
  <2> HIDE DEF F
  <2>1. QED BY <1>1, <1>2, FS_StrictSubsetOrderingWellFounded, WFMin
<1>4. PICK x \in T : G = UpTo(x, T) OBVIOUS
<1>5. ASSUME NEW y \in T, y < x PROVE FALSE
  <2>1. UpTo(y, T) \in F OBVIOUS
  <2>2. UpTo(y, T) \subseteq G
    <3>1. y \in Nat /\ x \in Nat /\ \A z \in T : z \in Nat OBVIOUS
    <3>2. \A z \in T : z <= y => z <= x BY <3>1, <1>5
    <3>3. QED BY <1>4, <3>2 DEF UpTo
  <2>3. x \in G /\ x \notin UpTo(y, T) BY <1>4, <1>5 DEF UpTo
  <2>4. UpTo(y, T) \subseteq Nat /\ G \subseteq Nat BY <1>4 DEF UpTo
  <2>5. <<UpTo(y, T), G>> \in StrictSubsetOrdering(Nat) BY <2>2, <2>3, <2>4 DEF StrictSubsetOrdering
  <2>6. QED BY <2>1, <2>5, <1>3
<1>6. \A y \in T : x \in Nat /\ y \in Nat /\ ~(y < x) BY <1>5
<1>7. QED BY <1>6

LEMMA TwoLowest ==
  ASSUME NEW S, S \subseteq Nat, IsFiniteSet(S), Cardinality(S) >= 2
  PROVE  Cardinality({r \in S : Cardinality(Below(S, r)) < 2}) = 2
<1>0. Cardinality(S) \in Nat BY FS_CardinalityType
<1>1. S # {} BY <1>0, FS_EmptySet
<1>2. PICK x \in S : \A y \in S : x <= y BY <1>1, LeastExists
<1>3. Cardinality(S \ {x}) = Cardinality(S) - 1 BY <1>2, FS_RemoveElement
<1>4. S \ {x} # {} BY <1>0, <1>3, FS_EmptySet
<1>5. PICK z \in S \ {x} : \A y \in S \ {x} : z <= y BY <1>4, LeastExists
<1>6. x \in Nat /\ z \in Nat /\ \A y \in S : y \in Nat BY <1>2, <1>5
<1>7. Below(S, x) = {}
  <2>1. ASSUME NEW y \in S PROVE ~(y < x)
    <3>1. x \in Nat /\ y \in Nat /\ x <= y BY <1>2, <1>6
    <3>2. QED BY <3>1
  <2>2. QED BY <2>1 DEF Below
<1>8. Below(S, z) = {x}
  <2>1. x < z BY <1>2, <1>5, <1>6
  <2>2. \A y \in S : y < z => y = x BY <1>5, <1>6
  <2>3. QED BY <2>1, <2>2, <1>2 DEF Below
<1>9. ASSUME NEW r \in S \ {x, z} PROVE ~(Cardinality(Below(S, r)) < 2)
  <2>1. x < r /\ z < r BY <1>2, <1>5, <1>6
  <2>2. {x, z} \subseteq Below(S, r) BY <1>2, <1>5, <2>1 DEF Below
  <2>3. PICK B : B = Below(S, r) OBVIOUS
  <2>4. IsFiniteSet(B) BY <2>3, FS_Subset DEF Below
  <2>5. PICK A : A = {x, z} OBVIOUS
  <2>6. A \in SUBSET B /\ Cardinality(A) = 2
    <3>1. IsFiniteSet({x}) /\ Cardinality({x}) = 1 BY FS_Singleton
    <3>2. {x, z} = {x} \cup {z} /\ z \notin {x} BY <1>5
    <3>3. Cardinality({x} \cup {z}) = Cardinality({x}) + 1 BY <3>1, <3>2, FS_AddElement
    <3>5. Cardinality({x, z}) = 2 BY <3>1, <3>2, <3>3
    <3>4. QED BY <2>2, <2>3, <2>5, <3>5
  <2>7. Cardinality(A) <= Cardinality(B) BY <2>4, <2>6, FS_Subset
  <2>8. Cardinality(B) \in Nat BY <2>4, FS_CardinalityType
  <2>9. QED BY <2>3, <2>6, <2>7, <2>8
<1>10. Cardinality({}) = 0 /\ Cardinality({x}) = 1 BY FS_EmptySet, FS_Singleton
<1>11. {r \in S : Cardinality(Below(S, r)) < 2} = {x, z}
  <2>1. Cardinality(Below(S, x)) < 2 /\ Cardinality(Below(S, z)) < 2 BY <1>7, <1>8, <1>10
  <2>2. x \in S /\ z \in S BY <1>2, <1>5
  <2>3. QED BY <1>9, <2>1, <2>2
<1>12. Cardinality({x, z}) = 2
  <2>1. IsFiniteSet({x}) /\ Cardinality({x}) = 1 BY FS_Singleton
  <2>2. {x, z} = {x} \cup {z} /\ z \notin {x} BY <1>5
  <2>3. Cardinality({x} \cup {z}) = Cardinality({x}) + 1 BY <2>1, <2>2, FS_AddElement
  <2>4. QED BY <2>1, <2>2, <2>3
<1>13. QED BY <1>11, <1>12

LEMMA AgreesInit == Init => FollowInv
<1> SUFFICES ASSUME Init PROVE FollowInv OBVIOUS
<1>1. LandInv BY LandInit
<1>2. DOMAIN job = Actors /\ \A a \in Actors : job[a] = Idle BY DEF Init
<1>3. OwnPhases BY <1>2, OwnIdle DEF OwnPhases
<1>4. Agrees
  <2>1. SUFFICES ASSUME unit["kind"] = "event", unit["date"] > 0 PROVE About BY DEF Agrees
  <2>2. unit["leads"] = 0 /\ pref = 2 BY DEF Init
  <2> DEFINE armed == Row(unit["date"], unit)
             low == {r \in Rows : Cardinality(Below(Rows, r)) < 2}
  <2>3. \A r \in Rows : rows[r] = IF r \in low THEN armed ELSE [armed EXCEPT !.status = "free"]
    BY <2>1, <2>2 DEF Init, Below
  <2>4. armed.status = "armed" /\ armed.about = unit["date"] /\ DOMAIN armed = RowFields BY RowIs
  <2> HIDE DEF armed
  <2>5. [armed EXCEPT !.status = "free"].status = "free" BY <2>4 DEF RowFields
  <2>6. Armed = low BY <2>3, <2>4, <2>5 DEF Armed
  <2>7. Sent(unit["date"]) = 0
    <3>1. {r \in Rows : rows[r].status = "fired" /\ rows[r].about = unit["date"]} = {}
      BY <2>3, <2>4, <2>5
    <3>2. QED BY <3>1, FS_EmptySet DEF Sent
  <2>8. Due(unit["date"], unit["leads"], pref) = 2
    <3>1. ~(unit["date"] <= 0)
      <4>1. unit["date"] \in InitialDates BY DEF Init
      <4>2. InitialDates \subseteq Nat BY EditsAssumption
      <4>4. unit["date"] \in Nat BY <4>1, <4>2
      <4>3. QED BY <2>1, <4>4
    <3>2. QED BY <2>2, <3>1 DEF Due
  <2>9. Planned(unit["date"], unit["leads"]) = 2 BY <2>7, <2>8 DEF Planned
  <2>10. Cardinality(low) = 2 BY TwoLowest, EditsAssumption
  <2>11. \A r \in Armed : rows[r].about = unit["date"] BY <2>3, <2>4, <2>6
  <2>12. QED BY <2>6, <2>9, <2>10, <2>11 DEF About
<1>5. Lonely /\ Pended /\ Followed BY <1>2, IdleIs DEF Lonely, Pended, Followed, Actors
<1>6. QED BY <1>1, <1>3, <1>4, <1>5 DEF FollowInv, AloneInv, Agreeing, Underway

(* Whatever the number of rows, dates, leads and operations, and however    *)
(* often the re-arm failed, reminders that are not the ones the preferences *)
(* in force give are a change in the journal that awaits its re-arm: the    *)
(* journal's pending row is read back before the next save (I35).           *)
THEOREM PreferencesAreFollowed == Spec => []PrefsAreFollowed
<1>1. FollowInv => PrefsAreFollowed
  <2> SUFFICES ASSUME FollowInv, ~torn, ~pending, Busy = {}, unit.kind = "event", unit.date > 0, Armed # {}
      PROVE About
    BY DEF PrefsAreFollowed
  <2>1. \A a \in Actors : job[a].pc = "idle" BY DEF Busy
  <2>2. \A a \in Actors : ~Working(job[a]) BY <2>1 DEF Working
  <2>3. Agrees BY <2>2 DEF FollowInv, Agreeing, Underway
  <2>4. QED BY <2>3 DEF Agrees
<1>2. QED BY <1>1, AgreesInit, AgreesNext, PTL DEF Spec

=============================================================================
