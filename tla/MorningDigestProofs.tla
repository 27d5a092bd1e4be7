------------------------ MODULE MorningDigestProofs ------------------------
(***************************************************************************)
(* Five results about MorningDigest for every value of its constants: its  *)
(* types, that what is marked was said, that an answer stands, that nothing *)
(* is said more often than it is owed, and that questions are closed.  The *)
(* first three depend on the order of the pass's steps and on what each    *)
(* write asks of its row; the others also on when a digest is due, when a  *)
(* check-in is asked again, and how far back the sweep reads the log.      *)
(***************************************************************************)
EXTENDS MorningDigest, TLAPS, FiniteSetTheorems, WellFoundedInduction

CheckinRow == [st : {"none", "armed", "fired", "open", "answered", "expired"},
               at : Times, reasks : Nat, todo : BOOLEAN, snoozed : Times]

Counts == [today : Nat, questions : [Questions -> Nat], checkins : [CheckIns -> Nat]]

(* The types, with what the pass holds in each of its phases.              *)
Types ==
    /\ TypeOK
    /\ now \in Int
    /\ pc = "questions" => left \subseteq Questions
    /\ pc = "checkins" => left \subseteq CheckIns
    /\ chosen.questions \subseteq Questions /\ chosen.goals \subseteq CheckIns
    /\ carried \in Counts

(* Why a mark follows its message: once the digest is out, everything it   *)
(* has still to mark has been carried once more than it is marked.         *)
Said ==
    /\ MarkedWasCarried
    /\ pc = "reask" => \A c \in asks : checkin[c].reasks < carried.checkins[c]
    /\ pc \in {"reask", "goal", "question"} =>
            \A q \in chosen.questions : carried.questions[q] > 0

(* Why the goal's two writes hit no answered row: from the moment it is    *)
(* chosen it is armed, and once fired only the pass itself moves it on.    *)
Reserved ==
    /\ pc \in {"send", "reask"} => \A c \in chosen.goals : checkin[c].st = "armed"
    /\ pc = "goal" => \A c \in chosen.goals : checkin[c].st = "fired"

Inv == Types /\ Said /\ Reserved

----------------------------------------------------------------------------
LEMMA OldestIsIn == \A S : Oldest(S) \subseteq S
  BY DEF Oldest

LEMMA CarriedGrows ==
    ASSUME Types
    PROVE  /\ Carried \in Counts
           /\ \A q \in Questions : Carried.questions[q] >= carried.questions[q]
           /\ \A c \in CheckIns : Carried.checkins[c] >= carried.checkins[c]
           /\ \A q \in chosen.questions : Carried.questions[q] > 0
           /\ \A c \in asks : Carried.checkins[c] > carried.checkins[c]
  BY DEF Carried, Counts, Types, TypeOK

(* A pass that ends keeps nothing to mark.                                 *)
LEMMA StopKeeps ==
    ASSUME Inv, Stop, UNCHANGED << now, checkin, question, related, sentOn, carried >>
    PROVE  Inv'
  BY DEF Inv, Types, TypeOK, Said, Reserved, MarkedWasCarried, Stop

LEMMA InitInv == Init => Inv
<1> SUFFICES ASSUME Init PROVE Inv
  OBVIOUS
<1>1. Types
  BY DigestAssumption DEF Init, Types, TypeOK, Times, Counts
<1>2. Said /\ Reserved
  BY DEF Init, Said, Reserved, MarkedWasCarried
<1> QED BY <1>1, <1>2 DEF Inv

(* A step that writes at most the rows the marks of a running pass do not  *)
(* wait on: other actors, and the pass before it sends.                    *)
Elsewhere ==
    \A c \in CheckIns :
        /\ checkin'[c].reasks = checkin[c].reasks
        /\ checkin[c].st = "armed" => checkin'[c].st = "armed"
        /\ checkin[c].st = "fired" /\ pc # "idle" => checkin'[c].st = "fired"

LEMMA ElsewhereKeeps ==
    ASSUME Inv, Types', Elsewhere, UNCHANGED << pc, asks, chosen, carried >>,
           \A q \in Questions : question'[q].at = question[q].at
    PROVE  Inv'
<1>1. Said'
  BY DEF Inv, Types, Said, MarkedWasCarried, Elsewhere, TypeOK
<1>2. Reserved'
  BY DEF Inv, Types, Reserved, Elsewhere
<1> QED BY <1>1, <1>2 DEF Inv

(* The pass up to its send.                                                *)
LEMMA PrepareKeeps ==
    ASSUME Inv, BeginDigest \/ ExpireQuestion \/ QuestionsDone \/ JudgeCheckIn \/ Compose
    PROVE  Inv'
<1>1. CASE BeginDigest
  BY <1>1 DEF BeginDigest, Inv, Types, TypeOK, Said, Reserved, MarkedWasCarried, tables, ghostVars, Open
<1>2. CASE ExpireQuestion
  <2>1. PICK q \in left :
            /\ question' \in {question, [question EXCEPT ![q].st = "expired"]}
            /\ \/ Stop
               \/ left' = left \ {q} /\ UNCHANGED << pc, asks, chosen, history >>
    BY <1>2 DEF ExpireQuestion, SetQuestion
  <2>2. UNCHANGED << now, checkin, related, sentOn, carried >> /\ pc = "questions"
    BY <1>2 DEF ExpireQuestion, ghostVars
  <2>3. Types'
    BY <2>1, <2>2 DEF Inv, Types, TypeOK, Stop
  <2>4. Said' /\ Reserved'
    BY <2>1, <2>2 DEF Inv, Types, TypeOK, Said, Reserved, MarkedWasCarried, Stop
  <2> QED BY <2>3, <2>4 DEF Inv
<1>3. CASE QuestionsDone
  BY <1>3 DEF QuestionsDone, Inv, Types, TypeOK, Said, Reserved, MarkedWasCarried, tables, ghostVars,
              Delivered
<1>4. CASE JudgeCheckIn
  <2>1. PICK c \in left :
            /\ checkin' \in {checkin, [checkin EXCEPT ![c].st = "expired"]}
            /\ \/ Stop
               \/ /\ left' = left \ {c} /\ asks' \in {asks, asks \cup {c}}
                  /\ UNCHANGED << pc, chosen, history >>
    BY <1>4 DEF JudgeCheckIn, SetCheckin
  <2>2. UNCHANGED << now, question, related, sentOn, carried >> /\ pc = "checkins"
    BY <1>4 DEF JudgeCheckIn, ghostVars
  <2>3. Types'
    BY <2>1, <2>2 DEF Inv, Types, TypeOK, Stop
  <2>4. Said' /\ Reserved'
    BY <2>1, <2>2 DEF Inv, Types, TypeOK, Said, Reserved, MarkedWasCarried, Stop
  <2> QED BY <2>3, <2>4 DEF Inv
<1>5. CASE Compose
  <2>1. UNCHANGED << now, checkin, question, related, sentOn, carried >> /\ pc = "checkins"
    BY <1>5 DEF Compose, tables
  <2>2. CASE Stop
    BY <2>1, <2>2, StopKeeps
  <2>3. CASE ~Stop
    <3>1. PICK low \in BOOLEAN, dormant \in SUBSET Unasked :
            /\ pc' = "send" /\ left' = left /\ asks' = LongestWaiting(asks)
            /\ chosen' = [questions |-> IF low THEN {} ELSE Oldest(Unasked \ dormant),
                          goals     |-> IF low THEN {}
                                        ELSE Oldest({c \in Goals : checkin[c].st = "armed"})]
      BY <1>5, <2>3 DEF Compose
    <3>2. /\ asks' \subseteq asks /\ chosen'.questions \subseteq related
          /\ chosen'.goals \subseteq {c \in Goals : checkin[c].st = "armed"}
      BY <3>1, OldestIsIn DEF LongestWaiting, Unasked
    <3> QED BY <2>1, <3>1, <3>2, DigestAssumption
            DEF Inv, Types, TypeOK, Said, Reserved, MarkedWasCarried
  <2> QED BY <2>2, <2>3
<1> QED BY <1>1, <1>2, <1>3, <1>4, <1>5

(* The send and the marks after it.                                        *)
LEMMA MarkKeeps ==
    ASSUME Inv, SendDigest \/ MarkReasked \/ FireGoal \/ SurfaceGoal \/ MarkAsked \/ RecordSent
    PROVE  Inv'
<1>1. CASE SendDigest
  <2>1. /\ UNCHANGED << now, checkin, question, related, sentOn >> /\ pc = "send"
        /\ \/ GoTo("reask") /\ carried' = Carried
           \/ Stop /\ carried' \in {carried, Carried}
    BY <1>1 DEF SendDigest, Unsent, tables
  <2>2. CASE GoTo("reask") /\ carried' = Carried
    <3>1. Types'
      BY <2>1, <2>2, CarriedGrows DEF Inv, Types, TypeOK, GoTo
    <3>2. Said'
      BY <2>1, <2>2, CarriedGrows DEF Inv, Types, Counts, TypeOK, Said, MarkedWasCarried, GoTo
    <3>3. Reserved'
      BY <2>1, <2>2 DEF Inv, Reserved, GoTo
    <3> QED BY <3>1, <3>2, <3>3 DEF Inv
  <2>3. CASE Stop /\ carried' = carried
    BY <2>1, <2>3, StopKeeps
  <2>4. CASE Stop /\ carried' = Carried
    BY <2>1, <2>4, CarriedGrows
    DEF Inv, Types, Counts, TypeOK, Said, Reserved, MarkedWasCarried, Stop
  <2> QED BY <2>1, <2>2, <2>3, <2>4
<1>2. CASE MarkReasked
  <2>1. PICK c \in asks :
            /\ checkin' \in {checkin, [checkin EXCEPT ![c].at = now, ![c].reasks = @ + 1]}
            /\ \/ Stop
               \/ asks' = asks \ {c} /\ UNCHANGED << pc, left, chosen, history >>
    BY <1>2 DEF MarkReasked
  <2>2. UNCHANGED << now, question, related, sentOn, carried >> /\ pc = "reask"
    BY <1>2 DEF MarkReasked, ghostVars
  <2>3. Types'
    BY <2>1, <2>2 DEF Inv, Types, TypeOK, Times, Stop
  <2>4. Said'
    BY <2>1, <2>2 DEF Inv, Types, TypeOK, Said, MarkedWasCarried, Stop
  <2>5. Reserved'
    BY <2>1, <2>2 DEF Inv, Types, TypeOK, Reserved, Stop
  <2> QED BY <2>3, <2>4, <2>5 DEF Inv
<1>3. CASE FireGoal
  <2>1. /\ UNCHANGED << now, question, related, sentOn, carried >> /\ pc = "reask"
        /\ \/ Stop /\ checkin' = checkin
           \/ /\ GoTo("goal")
              /\ checkin' = [c \in CheckIns |-> IF c \in chosen.goals
                               THEN [checkin[c] EXCEPT !.st = "fired"] ELSE checkin[c]]
    <3>1. checkin = [c \in CheckIns |-> checkin[c]]
      BY DEF Inv, Types, TypeOK
    <3> QED BY <1>3, <3>1 DEF FireGoal, ghostVars
  <2>2. CASE Stop /\ checkin' = checkin
    BY <2>1, <2>2, StopKeeps
  <2>3. CASE ~(Stop /\ checkin' = checkin)
    <3>1. Types'
      BY <2>1, <2>3 DEF Inv, Types, TypeOK, GoTo
    <3>2. Said' /\ Reserved'
      BY <2>1, <2>3 DEF Inv, Types, TypeOK, Said, Reserved, MarkedWasCarried, GoTo
    <3> QED BY <3>1, <3>2 DEF Inv
  <2> QED BY <2>2, <2>3
<1>4. CASE SurfaceGoal
  <2>1. /\ UNCHANGED << now, question, related, sentOn, carried >> /\ pc = "goal"
        /\ Stop \/ GoTo("question")
    BY <1>4 DEF SurfaceGoal, ghostVars
  <2> DEFINE Shown(S) == [c \in CheckIns |-> IF c \in S
                          THEN [checkin[c] EXCEPT !.st = "open", !.at = now] ELSE checkin[c]]
  <2>2. checkin' = checkin \/ checkin' = Shown(chosen.goals)
    <3>1. checkin = Shown({})
      BY DEF Inv, Types, TypeOK
    <3>2. checkin' = Shown({}) \/ checkin' = Shown(chosen.goals)
      BY <1>4 DEF SurfaceGoal
    <3> QED BY <3>1, <3>2
  <2>3. CASE checkin' = checkin
    BY <2>1, <2>3 DEF Inv, Types, TypeOK, Said, Reserved, MarkedWasCarried, Stop, GoTo
  <2>4. CASE checkin' = Shown(chosen.goals)
    <3>1. checkin \in [CheckIns -> CheckinRow] /\ now \in Times
      BY DEF Inv, Types, TypeOK, CheckinRow, Times
    <3>2. \A c \in CheckIns : checkin'[c] \in CheckinRow
      BY <2>4, <3>1 DEF CheckinRow
    <3>3. \A c \in CheckIns : checkin'[c].reasks = checkin[c].reasks
      BY <2>4, <3>1 DEF CheckinRow
    <3>4. \A c \in CheckIns : checkin'[c].st = "open" => checkin'[c].at \in Int
      <4>1. now \in Int /\ \A c \in CheckIns : checkin[c].st = "open" => checkin[c].at \in Int
        BY DEF Inv, Types, TypeOK
      <4> QED BY <2>4, <3>1, <4>1 DEF CheckinRow
    <3>5. checkin' \in [CheckIns -> CheckinRow]
      BY <2>4, <3>2
    <3> HIDE DEF Shown
    <3>6. Types'
      BY <2>1, <3>4, <3>5 DEF Inv, Types, TypeOK, CheckinRow, Stop, GoTo
    <3>7. Said' /\ Reserved'
      BY <2>1, <3>3 DEF Inv, Types, TypeOK, Said, Reserved, MarkedWasCarried, Stop, GoTo
    <3> QED BY <3>6, <3>7 DEF Inv
  <2> QED BY <2>2, <2>3, <2>4
<1>5. CASE MarkAsked
  <2>1. /\ UNCHANGED << now, checkin, related, sentOn, carried >> /\ pc = "question"
        /\ Stop \/ GoTo("sent")
    BY <1>5 DEF MarkAsked, ghostVars
  <2> DEFINE Asked == [q \in Questions |-> IF q \in chosen.questions
              THEN [st |-> IF question[q].st = "queued" THEN "asked" ELSE question[q].st, at |-> now]
              ELSE question[q]]
  <2>2. question' = question \/ question' = Asked
    <3>1. question = [q \in Questions |-> question[q]]
      BY DEF Inv, Types, TypeOK
    <3>2. PICK o \in Outcomes : question' = [q \in Questions |->
              IF o # "store" /\ q \in chosen.questions
              THEN [st |-> IF question[q].st = "queued" THEN "asked" ELSE question[q].st, at |-> now]
              ELSE question[q]]
      BY <1>5 DEF MarkAsked
    <3>3. CASE o = "store"
      BY <3>1, <3>2, <3>3
    <3>4. CASE o # "store"
      BY <3>2, <3>4
    <3> QED BY <3>3, <3>4
  <2>3. Types'
    BY <2>1, <2>2 DEF Inv, Types, TypeOK, Times, Stop, GoTo
  <2>4. Said' /\ Reserved'
    BY <2>1, <2>2 DEF Inv, Types, TypeOK, Said, Reserved, MarkedWasCarried, Stop, GoTo
  <2> QED BY <2>3, <2>4 DEF Inv
<1>6. CASE RecordSent
  BY <1>6 DEF RecordSent, Inv, Types, TypeOK, Said, Reserved, MarkedWasCarried, Stop
<1> QED BY <1>1, <1>2, <1>3, <1>4, <1>5, <1>6

(* What one write makes of a row.                                          *)
LEMMA RowWrites ==
    ASSUME Types, NEW c,
           \/ \E st \in {"armed", "answered", "expired"} : checkin' = [checkin EXCEPT ![c].st = st]
           \/ checkin' = [checkin EXCEPT ![c].st = "open", ![c].at = now]
           \/ checkin' = [checkin EXCEPT ![c].todo = FALSE]
           \/ checkin' = [checkin EXCEPT ![c].snoozed = now]
    PROVE  checkin' \in [CheckIns -> CheckinRow]
<1>1. checkin \in [CheckIns -> CheckinRow] /\ now \in Times
  BY DEF Types, TypeOK, CheckinRow, Times
<1>2. /\ checkin' = [d \in CheckIns |-> checkin'[d]]
      /\ \A d \in CheckIns : d # c => checkin'[d] = checkin[d]
  BY <1>1
<1>3. ASSUME c \in CheckIns PROVE checkin'[c] \in CheckinRow
  <2>1. PICK r, n : r = checkin[c] /\ n = checkin'[c]
    OBVIOUS
  <2>2. \/ \E st \in {"armed", "answered", "expired"} : n = [r EXCEPT !.st = st]
        \/ n = [r EXCEPT !.st = "open", !.at = now]
        \/ n = [r EXCEPT !.todo = FALSE]
        \/ n = [r EXCEPT !.snoozed = now]
    BY <1>1, <1>3, <2>1
  <2>3. r \in CheckinRow
    BY <1>1, <1>3, <2>1
  <2>4. n \in CheckinRow
    BY <1>1, <2>2, <2>3 DEF CheckinRow
  <2> QED BY <2>1, <2>4
<1> QED BY <1>1, <1>2, <1>3

(* A delivery, an arming, a unit done.                                     *)
LEMMA CheckinWriteKeeps ==
    ASSUME Inv, NEW c \in CheckIns, Deliver(c) \/ ArmGoal(c) \/ UnitDone(c)
    PROVE  Inv'
<1>1. /\ UNCHANGED << now, question, related, sentOn, pc, left, asks, chosen, carried >>
      /\ \/ Closes(c) /\ checkin' = [checkin EXCEPT ![c].todo = FALSE]
         \/ /\ checkin[c].st = "none" \/ (checkin[c].st = "fired" /\ pc = "idle")
            /\ \/ checkin' = [checkin EXCEPT ![c].st = "open", ![c].at = now]
               \/ checkin[c].st = "none" /\ checkin' = [checkin EXCEPT ![c].st = "armed"]
               \/ checkin' = [checkin EXCEPT ![c].st = "expired"]
  BY DEF Deliver, ArmGoal, UnitDone, SetCheckin, Closes, passVars, ghostVars
<1>2. checkin' \in [CheckIns -> CheckinRow]
  <2>1. Types
    BY DEF Inv
  <2>2. \/ \E st \in {"armed", "answered", "expired"} : checkin' = [checkin EXCEPT ![c].st = st]
        \/ checkin' = [checkin EXCEPT ![c].st = "open", ![c].at = now]
        \/ checkin' = [checkin EXCEPT ![c].todo = FALSE]
    BY <1>1, Zenon
  <2> QED BY <2>1, <2>2, RowWrites, Zenon
<1>3. \A d \in CheckIns : checkin'[d].st = "open" => checkin'[d].at \in Int
  BY <1>1 DEF Inv, Types, TypeOK, Closes
<1>4. Types'
  BY <1>1, <1>2, <1>3 DEF Inv, Types, TypeOK, CheckinRow
<1>5. Elsewhere
  BY <1>1 DEF Inv, Types, TypeOK, Elsewhere, Closes
<1> QED BY <1>1, <1>4, <1>5, ElsewhereKeeps

(* The other actors, the clock and the crash.                              *)
LEMMA OthersKeep ==
    ASSUME Inv,
           \/ QueueQuestion \/ AnswerRead \/ AnswerWrite \/ CurateRead \/ CurateRelation \/ CurateClose
           \/ Tick \/ Crash \/ UNCHANGED vars
    PROVE  Inv'
<1>2. CASE AnswerWrite
  <2>1. /\ UNCHANGED << now, question, related, sentOn, pc, left, asks, chosen, carried >>
        /\ \/ checkin' = checkin
           \/ checkin' = [checkin EXCEPT ![answered].snoozed = now]
           \/ Closes(answered) /\ checkin' = [checkin EXCEPT ![answered].st = "answered"]
    BY <1>2 DEF AnswerWrite, SetCheckin, passVars, ghostVars
  <2>2. checkin' \in [CheckIns -> CheckinRow]
    <3>1. checkin \in [CheckIns -> CheckinRow]
      BY DEF Inv, Types, TypeOK, CheckinRow
    <3>2. Types
      BY DEF Inv
    <3> QED BY <2>1, <3>1, <3>2, RowWrites, Zenon
  <2>3. \A d \in CheckIns : checkin'[d].st = "open" => checkin'[d].at \in Int
    BY <2>1 DEF Inv, Types, TypeOK, Closes
  <2>4. Types'
    BY <2>1, <2>2, <2>3 DEF Inv, Types, TypeOK, CheckinRow
  <2>5. Elsewhere
    BY <2>1 DEF Inv, Types, TypeOK, Elsewhere, Closes
  <2> QED BY <2>1, <2>4, <2>5, ElsewhereKeeps
<1>3. CASE QueueQuestion \/ CurateRelation \/ CurateClose
  <2>1. UNCHANGED << now, checkin, sentOn, pc, left, asks, chosen, carried >>
    BY <1>3 DEF QueueQuestion, CurateRelation, CurateClose, passVars, ghostVars
  <2>2. \/ question' = question
        \/ \E q, st : /\ st \in {"queued", "confirmed", "rejected"}
                      /\ question' = [question EXCEPT ![q].st = st]
    BY <1>3 DEF QueueQuestion, CurateRelation, CurateClose, Settle, SetQuestion
  <2>3. related' \subseteq Questions
    BY <1>3 DEF QueueQuestion, CurateRelation, CurateClose, Oldest, Inv, Types, TypeOK
  <2>4. Types'
    BY <2>1, <2>2, <2>3 DEF Inv, Types, TypeOK
  <2>5. \A q \in Questions : question'[q].at = question[q].at
    BY <2>2 DEF Inv, Types, TypeOK
  <2> QED BY <2>1, <2>4, <2>5, ElsewhereKeeps DEF Elsewhere
<1>4. CASE AnswerRead \/ CurateRead \/ UNCHANGED vars
  <2>1. UNCHANGED << now, checkin, question, related, sentOn, pc, left, asks, chosen, carried >>
    BY <1>4 DEF AnswerRead, CurateRead, vars, tables, passVars, ghostVars
  <2>2. Types'
    BY <2>1 DEF Inv, Types, TypeOK
  <2> QED BY <2>1, <2>2, ElsewhereKeeps DEF Elsewhere
<1>5. CASE Tick
  <2>1. /\ UNCHANGED << checkin, question, related, sentOn, pc, left, asks, chosen >>
        /\ now' = now + 1 /\ carried' \in {carried, [carried EXCEPT !.today = 0]}
    BY <1>5 DEF Tick, tables, passVars
  <2>2. carried'.questions = carried.questions /\ carried'.checkins = carried.checkins
    BY <2>1 DEF Inv, Types, Counts
  <2>3. carried' \in Counts
    BY <2>1 DEF Inv, Types, Counts
  <2> QED BY <2>1, <2>2, <2>3 DEF Inv, Types, TypeOK, Said, Reserved, MarkedWasCarried
<1>6. CASE Crash
  BY <1>6, StopKeeps DEF Crash, tables, ghostVars
<1> QED BY <1>2, <1>3, <1>4, <1>5, <1>6

LEMMA StepKeepsInv == Inv /\ [Next]_vars => Inv'
<1> SUFFICES ASSUME Inv, [Next]_vars PROVE Inv'
  OBVIOUS
<1>1. CASE DigestStep
  BY <1>1, PrepareKeeps, MarkKeeps DEF DigestStep
<1>2. CASE \E c \in CheckIns : Deliver(c) \/ ArmGoal(c) \/ UnitDone(c)
  BY <1>2, CheckinWriteKeeps
<1>3. CASE QueueQuestion \/ AnswerRead \/ AnswerWrite \/ CurateRead \/ CurateRelation
           \/ CurateClose \/ Tick \/ Crash \/ UNCHANGED vars
  BY <1>3, OthersKeep
<1> QED BY <1>1, <1>2, <1>3 DEF Next

(* The types of the tables and of the pass, whatever fails between steps.  *)
THEOREM DigestTypes == Spec => []TypeOK
<1>1. Inv => TypeOK
  BY DEF Inv, Types
<1> QED BY <1>1, InitInv, StepKeepsInv, PTL DEF Spec

(* A question stamped asked_at, and every re-ask counted, was in a digest  *)
(* that reached the user.                                                  *)
THEOREM MarkedCarried == Spec => []MarkedWasCarried
<1>1. Inv => MarkedWasCarried
  BY DEF Inv, Said
<1> QED BY <1>1, InitInv, StepKeepsInv, PTL DEF Spec

----------------------------------------------------------------------------
Stands(c) == checkin'[c].st = checkin[c].st /\ checkin'[c].reasks = checkin[c].reasks

(* Each write of a check-in asks its row to be open, armed, fired or new.  *)
LEMMA AnswerStands ==
    ASSUME Inv, [Next]_vars, NEW c \in CheckIns, checkin[c].st \in {"answered", "expired"}
    PROVE  Stands(c)
<1>0. checkin \in [CheckIns -> CheckinRow]
  BY DEF Inv, Types, TypeOK, CheckinRow
<1>1. CASE JudgeCheckIn
  <2>1. checkin' = checkin \/ \E d : Closes(d) /\ checkin' = [checkin EXCEPT ![d].st = "expired"]
    BY <1>1 DEF JudgeCheckIn, SetCheckin
  <2> QED BY <1>0, <2>1 DEF Stands, Closes, CheckinRow
<1>2. CASE MarkReasked
  <2>1. \/ checkin' = checkin
        \/ \E d : Closes(d) /\ checkin' = [checkin EXCEPT ![d].at = now, ![d].reasks = @ + 1]
    BY <1>2 DEF MarkReasked
  <2> QED BY <1>0, <2>1 DEF Stands, Closes, CheckinRow
<1>3. CASE FireGoal
  <2>1. c \notin chosen.goals
    BY <1>3 DEF FireGoal, Inv, Reserved
  <2> QED BY <1>3, <2>1 DEF FireGoal, Stands
<1>4. CASE SurfaceGoal
  <2>1. c \notin chosen.goals
    BY <1>4 DEF SurfaceGoal, Inv, Reserved
  <2> QED BY <1>4, <2>1 DEF SurfaceGoal, Stands
<1>5. CASE \E d \in CheckIns : Deliver(d) \/ ArmGoal(d) \/ UnitDone(d)
  <2>1. PICK d \in CheckIns : Deliver(d) \/ ArmGoal(d) \/ UnitDone(d)
    BY <1>5
  <2>2. checkin[d].st \in {"none", "fired", "open"} /\ checkin' = [checkin EXCEPT ![d] = checkin'[d]]
    BY <1>0, <2>1 DEF Deliver, ArmGoal, UnitDone, SetCheckin
  <2> QED BY <1>0, <2>2 DEF Stands
<1>6. CASE AnswerWrite
  <2>1. \/ checkin' = checkin
        \/ checkin' = [checkin EXCEPT ![answered].snoozed = now]
        \/ Closes(answered) /\ checkin' = [checkin EXCEPT ![answered].st = "answered"]
    BY <1>6 DEF AnswerWrite, SetCheckin
  <2> QED BY <1>0, <2>1 DEF Stands, Closes, CheckinRow
<1>7. CASE BeginDigest \/ ExpireQuestion \/ QuestionsDone \/ Compose \/ SendDigest \/ MarkAsked
           \/ RecordSent \/ QueueQuestion \/ AnswerRead \/ CurateRead \/ CurateRelation
           \/ CurateClose \/ Tick \/ Crash \/ UNCHANGED vars
  <2>1. checkin' = checkin
    BY <1>7 DEF BeginDigest, ExpireQuestion, QuestionsDone, Compose, SendDigest, MarkAsked,
                RecordSent, QueueQuestion, AnswerRead, CurateRead, CurateRelation, CurateClose,
                Tick, Crash, vars, tables
  <2> QED BY <2>1 DEF Stands
<1> QED BY <1>1, <1>2, <1>3, <1>4, <1>5, <1>6, <1>7 DEF Next, DigestStep

(* An answered or closed check-in stays as it is: neither the sweep, the   *)
(* re-ask nor the goal's two writes, which act on what the pass read,      *)
(* touch it.                                                               *)
THEOREM AnswersFinal == Spec => AnswerIsFinal
<1>1. Inv /\ [Next]_vars => [\A c \in CheckIns : checkin[c].st \in {"answered", "expired"} =>
            checkin'[c].st = checkin[c].st /\ checkin'[c].reasks = checkin[c].reasks]_vars
  BY AnswerStands DEF Stands
<1> QED BY <1>1, InitInv, StepKeepsInv, PTL DEF Spec, AnswerIsFinal
----------------------------------------------------------------------------
(* Nothing is said more often than it is owed.                             *)

UpTo(x, T) == {y \in T : y <= x}

(* A set of numbers that is not empty has a least one.                     *)
LEMMA LeastExists ==
  ASSUME NEW T, T \subseteq Nat, T # {}
  PROVE  \E x \in T : \A y \in T : x <= y
<1> DEFINE F == {UpTo(x, T) : x \in T}
<1>1. F \subseteq FiniteSubsetsOf(Nat)
  <2>1. ASSUME NEW x \in T PROVE UpTo(x, T) \in SUBSET Nat /\ IsFiniteSet(UpTo(x, T))
    <3>1. UpTo(x, T) \in SUBSET Nat /\ \A s \in UpTo(x, T) : s <= x
      BY DEF UpTo
    <3> QED BY <3>1, FS_BoundedSetOfNaturals
  <2> QED BY <2>1 DEF FiniteSubsetsOf
<1>2. F # {} OBVIOUS
<1>3. PICK G \in F : \A H \in F : ~ (<<H, G>> \in StrictSubsetOrdering(Nat))
  <2> HIDE DEF F
  <2> QED BY <1>1, <1>2, FS_StrictSubsetOrderingWellFounded, WFMin
<1>4. PICK x \in T : G = UpTo(x, T) OBVIOUS
<1>5. ASSUME NEW y \in T, y < x PROVE FALSE
  <2>1. UpTo(y, T) \in F OBVIOUS
  <2>2. UpTo(y, T) \subseteq G
    <3>1. y \in Nat /\ x \in Nat /\ \A z \in T : z \in Nat
      OBVIOUS
    <3>2. \A z \in T : z <= y => z <= x
      BY <3>1, <1>5
    <3> QED BY <1>4, <3>2 DEF UpTo
  <2>3. x \in G /\ x \notin UpTo(y, T)
    BY <1>4, <1>5 DEF UpTo
  <2>4. UpTo(y, T) \subseteq Nat /\ G \subseteq Nat
    BY <1>4 DEF UpTo
  <2>5. <<UpTo(y, T), G>> \in StrictSubsetOrdering(Nat)
    BY <2>2, <2>3, <2>4 DEF StrictSubsetOrdering
  <2> QED BY <2>1, <2>5, <1>3
<1>6. \A y \in T : x \in Nat /\ y \in Nat /\ ~(y < x) BY <1>5
<1> QED BY <1>6

(* Of instants that all lie in the past there is a latest.                 *)
LEMMA LatestIs ==
  ASSUME NEW S, S \subseteq Int, S # {}, NEW n \in Int, \A t \in S : t <= n
  PROVE  Latest(S) \in S /\ \A t \in S : t <= Latest(S)
<1> DEFINE T == {n - t : t \in S}
<1>1. T \subseteq Nat /\ T # {}
  <2>1. ASSUME NEW t \in S PROVE n - t \in Nat
    <3>1. t \in Int /\ t <= n
      OBVIOUS
    <3> QED BY <3>1
  <2>2. S # {}
    OBVIOUS
  <2> QED BY <2>1, <2>2
<1>2. PICK x \in T : \A y \in T : x <= y
  <2> HIDE DEF T
  <2> QED BY <1>1, LeastExists
<1>3. PICK s \in S : x = n - s
  BY <1>2
<1>4. \A t \in S : t <= s
  <2> SUFFICES ASSUME NEW t \in S PROVE t <= s
    OBVIOUS
  <2>1. n - t \in T
    OBVIOUS
  <2>2. n - s <= n - t
    <3> HIDE DEF T
    <3> QED BY <2>1, <1>2, <1>3
  <2>3. s \in Int /\ t \in Int
    OBVIOUS
  <2> QED BY <2>2, <2>3
<1>5. \E m \in S : \A t \in S : t <= m
  BY <1>3, <1>4
<1> QED BY <1>5 DEF Latest

(* What lies before a day began is not of that day.                        *)
LEMMA DayBegins ==
  ASSUME NEW t \in Int, NEW n \in Int, t < At(n, 0)
  PROVE  DayOf(t) # DayOf(n)
<1>1. DayLen \in Int /\ DayLen > 0
  BY ClockAssumption
<1>2. (t \div DayLen) * DayLen <= t
  BY <1>1
<1> QED BY <1>1, <1>2 DEF DayOf, At

(* Where a check-in stands, and whether the running pass may still ask it. *)
Closed(c) == checkin[c].st \in {"answered", "expired"}
Begun(c) == checkin[c].st \in {"fired", "open", "answered", "expired"}
Shown(c) == checkin[c].st \in {"open", "answered", "expired"}
Pending(c) ==
    \/ pc = "checkins" /\ c \in left \cup asks
    \/ pc = "send" /\ c \in asks

(* What the pass and the tables hold for each other.                       *)
PassShape ==
    /\ faults \in Nat /\ crashes \in Nat
    /\ chosen.goals \subseteq Goals
    /\ pc \in {"idle", "questions"} => asks = {}
    /\ \A c \in asks : checkin[c].reasks < MaxCheckinReasks /\ c \notin Goals /\ Shown(c)
    /\ pc = "checkins" => \A c \in left : Shown(c)
    /\ \A c \in CheckIns : checkin[c].reasks <= MaxCheckinReasks
    /\ \A c \in Goals : ~checkin[c].todo
    /\ \A q \in Questions : question[q].st \in {"none", "queued"} => question[q].at = NoTime
    /\ pc \in {"send", "reask", "goal", "question"} =>
            \A q \in chosen.questions : question[q].at = NoTime /\ question[q].st # "none"
    /\ \A t \in sentOn : t <= now
    /\ pc # "idle" => \A t \in sentOn : DayOf(t) # DayOf(now)

(* What the messages carried so far are owed to, beside the failures: the  *)
(* rows that say so, or the marks the pass is about to make.               *)
TodayOwed ==
    IF pc \in {"reask", "goal", "question", "sent"} \/ \E t \in sentOn : DayOf(t) = DayOf(now)
    THEN 1 ELSE 0
QuestionOwed(q) ==
    IF \/ question[q].at # NoTime
       \/ pc \in {"reask", "goal", "question"} /\ q \in chosen.questions
    THEN 1 ELSE 0
GoalOwed(c) == IF Begun(c) \/ (pc = "reask" /\ c \in chosen.goals) THEN 1 ELSE 0
ReaskOwed(c) ==
    IF Closed(c) THEN IF Pending(c) THEN checkin[c].reasks ELSE MaxCheckinReasks
    ELSE IF pc = "reask" /\ c \in asks THEN checkin[c].reasks + 1 ELSE checkin[c].reasks

Counted ==
    /\ carried.today <= Failures + TodayOwed
    /\ \A q \in Questions : carried.questions[q] <= Failures + QuestionOwed(q)
    /\ \A c \in Goals : carried.checkins[c] <= Failures + GoalOwed(c)
    /\ \A c \in CheckIns \ Goals : carried.checkins[c] <= Failures + ReaskOwed(c)

OwedInv == Inv /\ PassShape /\ Counted

(* A step that succeeds, and one that fails or is cut.                     *)
Fine == Failures' = Failures
Fails == Failures' = Failures + 1

LEMMA ChargeIs ==
    ASSUME PassShape, NEW o, Charge(o)
    PROVE  /\ faults' \in Nat /\ crashes' \in Nat /\ (o = "ok" => Fine) /\ (o # "ok" => Fails)
           /\ (Fine => o = "ok")
BY DEF PassShape, Charge, Fine, Fails, Failures

LEMMA FineOrFails ==
    ASSUME PassShape, [Next]_vars
    PROVE  faults' \in Nat /\ crashes' \in Nat /\ Failures \in Nat /\ (Fine \/ Fails)
<1>1. CASE UNCHANGED << faults, crashes >>
  BY <1>1 DEF PassShape, Fine, Failures
<1>2. CASE \E o : Charge(o)
  <2>1. Failures \in Nat
    BY DEF PassShape, Failures
  <2> QED BY <1>2, <2>1, ChargeIs
<1>3. CASE Crash
  BY <1>3 DEF Crash, PassShape, Fails, Failures
<1>4. UNCHANGED << faults, crashes >> \/ (\E o : Charge(o)) \/ Crash
  BY DEF Next, DigestStep, vars, BeginDigest, ExpireQuestion, QuestionsDone, JudgeCheckIn, Compose,
         SendDigest, MarkReasked, FireGoal, SurfaceGoal, MarkAsked, RecordSent, Deliver, ArmGoal,
         UnitDone, QueueQuestion, AnswerRead, AnswerWrite, CurateRead, CurateRelation, CurateClose,
         Settle, Tick
<1> QED BY <1>1, <1>2, <1>3, <1>4

(* What a step makes of a check-in's row.                                  *)
RowMoves(c) ==
    /\ Closed(c) => Closed(c)'
    /\ Begun(c) => Begun(c)'
    /\ Shown(c) => Shown(c)'
    /\ checkin'[c].todo => checkin[c].todo
    /\ \/ checkin'[c].reasks = checkin[c].reasks
       \/ /\ pc = "reask" /\ c \in asks /\ ~Closed(c) /\ checkin'[c].reasks = checkin[c].reasks + 1
          /\ Stop \/ (asks' = asks \ {c} /\ UNCHANGED << pc, left, chosen, history >>)

LEMMA RowsMove ==
    ASSUME Inv, [Next]_vars, NEW c \in CheckIns
    PROVE  RowMoves(c)
<1>0. checkin \in [CheckIns -> CheckinRow]
  BY DEF Inv, Types, TypeOK, CheckinRow
<1>1. CASE JudgeCheckIn
  <2>1. checkin' = checkin \/ \E d : Closes(d) /\ checkin' = [checkin EXCEPT ![d].st = "expired"]
    BY <1>1 DEF JudgeCheckIn, SetCheckin
  <2> QED BY <1>0, <2>1 DEF RowMoves, Closed, Begun, Shown, Closes, CheckinRow
<1>2. CASE MarkReasked
  <2>1. PICK d \in asks :
          /\ \/ checkin' = checkin
             \/ Closes(d) /\ checkin' = [checkin EXCEPT ![d].at = now, ![d].reasks = @ + 1]
          /\ Stop \/ (asks' = asks \ {d} /\ UNCHANGED << pc, left, chosen, history >>)
    BY <1>2 DEF MarkReasked
  <2>2. CASE checkin' = checkin
    BY <2>2 DEF RowMoves, Closed, Begun, Shown
  <2>3. CASE Closes(d) /\ checkin' = [checkin EXCEPT ![d].at = now, ![d].reasks = @ + 1]
    <3>1. checkin'[c].st = checkin[c].st /\ checkin'[c].todo = checkin[c].todo
      BY <1>0, <2>3 DEF CheckinRow
    <3>2. c # d => checkin'[c].reasks = checkin[c].reasks
      BY <1>0, <2>3 DEF CheckinRow
    <3>3. c = d => checkin'[c].reasks = checkin[c].reasks + 1 /\ ~Closed(c) /\ c \in asks /\ pc = "reask"
      BY <1>0, <1>2, <2>3 DEF CheckinRow, Closes, Closed, MarkReasked
    <3> QED BY <2>1, <3>1, <3>2, <3>3 DEF RowMoves, Closed, Begun, Shown
  <2> QED BY <2>1, <2>2, <2>3
<1>3. CASE FireGoal
  <2>1. c \in chosen.goals => checkin[c].st = "armed"
    BY <1>3 DEF FireGoal, Inv, Reserved
  <2>2. checkin'[c] = checkin[c] \/ (c \in chosen.goals /\ checkin'[c] = [checkin[c] EXCEPT !.st = "fired"])
    BY <1>3 DEF FireGoal
  <2> QED BY <1>0, <2>1, <2>2 DEF RowMoves, Closed, Begun, Shown, CheckinRow
<1>4. CASE SurfaceGoal
  <2>1. c \in chosen.goals => checkin[c].st = "fired"
    BY <1>4 DEF SurfaceGoal, Inv, Reserved
  <2>2. \/ checkin'[c] = checkin[c]
        \/ c \in chosen.goals /\ checkin'[c] = [checkin[c] EXCEPT !.st = "open", !.at = now]
    BY <1>4 DEF SurfaceGoal
  <2> QED BY <1>0, <2>1, <2>2 DEF RowMoves, Closed, Begun, Shown, CheckinRow
<1>5. CASE \E d \in CheckIns : Deliver(d) \/ ArmGoal(d) \/ UnitDone(d)
  <2>1. PICK d \in CheckIns : Deliver(d) \/ ArmGoal(d) \/ UnitDone(d)
    BY <1>5
  <2>2. \/ Closes(d) /\ checkin' = [checkin EXCEPT ![d].todo = FALSE]
        \/ checkin[d].st \in {"none", "fired"} /\ checkin' = [checkin EXCEPT ![d].st = "open", ![d].at = now]
        \/ checkin[d].st = "none" /\ checkin' = [checkin EXCEPT ![d].st = "armed"]
        \/ checkin[d].st = "fired" /\ checkin' = [checkin EXCEPT ![d].st = "expired"]
    BY <2>1 DEF Deliver, ArmGoal, UnitDone, SetCheckin, Closes
  <2> QED BY <1>0, <2>2 DEF RowMoves, Closed, Begun, Shown, Closes, CheckinRow
<1>6. CASE AnswerWrite
  <2>1. \/ checkin' = checkin
        \/ checkin' = [checkin EXCEPT ![answered].snoozed = now]
        \/ Closes(answered) /\ checkin' = [checkin EXCEPT ![answered].st = "answered"]
    BY <1>6 DEF AnswerWrite, SetCheckin
  <2> QED BY <1>0, <2>1 DEF RowMoves, Closed, Begun, Shown, Closes, CheckinRow
<1>7. CASE BeginDigest \/ ExpireQuestion \/ QuestionsDone \/ Compose \/ SendDigest \/ MarkAsked
           \/ RecordSent \/ QueueQuestion \/ AnswerRead \/ CurateRead \/ CurateRelation
           \/ CurateClose \/ Tick \/ Crash \/ UNCHANGED vars
  <2>1. checkin' = checkin
    BY <1>7 DEF BeginDigest, ExpireQuestion, QuestionsDone, Compose, SendDigest, MarkAsked,
                RecordSent, QueueQuestion, AnswerRead, CurateRead, CurateRelation, CurateClose,
                Tick, Crash, vars, tables
  <2> QED BY <2>1 DEF RowMoves, Closed, Begun, Shown
<1> QED BY <1>1, <1>2, <1>3, <1>4, <1>5, <1>6, <1>7 DEF Next, DigestStep

(* And of a question's: its stamp is written once, by the mark.            *)
QuestionMoves(q) ==
    /\ question[q].at # NoTime => question'[q].at # NoTime
    /\ question'[q].st \in {"none", "queued"} =>
          question[q].st \in {"none", "queued"} /\ question'[q].at = question[q].at
    /\ question[q].st # "none" => question'[q].st # "none"
    /\ question'[q].at # question[q].at => pc = "question" /\ pc' \in {"idle", "sent"}

LEMMA QuestionsMove ==
    ASSUME Inv, PassShape, [Next]_vars, NEW q \in Questions
    PROVE  QuestionMoves(q)
<1>0. question \in [Questions -> [st : {"none", "queued", "asked", "confirmed", "rejected", "expired"},
                                  at : Times]] /\ now # NoTime
  BY ClockAssumption DEF Inv, Types, TypeOK
<1>1. CASE \E r, st : /\ st = "queued" => question[r].st = "none"
                      /\ st \in {"queued", "asked", "confirmed", "rejected", "expired"}
                      /\ question' = [question EXCEPT ![r].st = st]
  BY <1>0, <1>1 DEF QuestionMoves
<1>2. CASE MarkAsked
  <2>1. \/ question'[q] = question[q]
        \/ /\ question[q].st # "none"
           /\ question'[q] = [st |-> IF question[q].st = "queued" THEN "asked" ELSE question[q].st, at |-> now]
    BY <1>2 DEF MarkAsked, PassShape
  <2>2. pc = "question" /\ pc' \in {"idle", "sent"}
    BY <1>2 DEF MarkAsked, Stop, GoTo
  <2> QED BY <1>0, <2>1, <2>2 DEF QuestionMoves
<1>3. CASE UNCHANGED question
  BY <1>3 DEF QuestionMoves
<1>4. CASE ExpireQuestion
  BY <1>1, <1>3, <1>4 DEF ExpireQuestion, SetQuestion
<1>5. CASE QueueQuestion
  BY <1>1, <1>5 DEF QueueQuestion, SetQuestion, Oldest
<1>6. CASE CurateClose
  BY <1>1, <1>3, <1>6 DEF CurateClose, Settle, SetQuestion
<1> QED BY <1>2, <1>3, <1>4, <1>5, <1>6 DEF Next, DigestStep, vars, tables, BeginDigest, QuestionsDone,
         JudgeCheckIn, Compose, SendDigest, MarkReasked, FireGoal, SurfaceGoal, RecordSent, Deliver,
         ArmGoal, UnitDone, AnswerRead, AnswerWrite, CurateRead, CurateRelation, Tick, Crash

(* What a step makes of the pass.                                          *)
PassMoves ==
    \/ UNCHANGED << pc, left, asks, chosen >>
    \/ Stop
    \/ pc = "idle" /\ pc' = "questions" /\ UNCHANGED << asks, chosen >>
    \/ pc = "questions" /\ UNCHANGED << pc, asks, chosen >>
    \/ pc = "questions" /\ pc' = "checkins" /\ left' = Delivered /\ UNCHANGED << asks, chosen, checkin >>
    \/ /\ pc = "checkins" /\ UNCHANGED << pc, chosen >>
       /\ \E c \in left :
            /\ left' = left \ {c}
            /\ \/ asks' = asks
               \/ /\ asks' = asks \cup {c} /\ checkin[c].reasks < MaxCheckinReasks /\ checkin[c].todo
    \/ /\ pc = "checkins" /\ pc' = "send" /\ asks' \subseteq asks /\ UNCHANGED << left, checkin, question >>
       /\ chosen'.goals \subseteq Goals
       /\ \A q \in chosen'.questions : question[q].st = "queued"
    \/ pc = "send" /\ pc' = "reask" /\ UNCHANGED << left, asks, chosen >>
    \/ pc = "reask" /\ asks' \subseteq asks /\ UNCHANGED << pc, left, chosen >>
    \/ pc = "reask" /\ pc' = "goal" /\ asks = {} /\ UNCHANGED << left, asks, chosen >>
    \/ pc = "goal" /\ pc' = "question" /\ UNCHANGED << left, asks, chosen >>
    \/ pc = "question" /\ pc' = "sent" /\ UNCHANGED << left, asks, chosen >>

LEMMA PassIs ==
    ASSUME Inv, [Next]_vars PROVE PassMoves
<1>1. CASE BeginDigest
  BY <1>1 DEF BeginDigest, PassMoves
<1>2. CASE ExpireQuestion
  BY <1>2 DEF ExpireQuestion, PassMoves
<1>3. CASE QuestionsDone
  BY <1>3 DEF QuestionsDone, PassMoves, tables
<1>4. CASE JudgeCheckIn
  <2>1. PICK c \in left, readable \in BOOLEAN :
          \/ Stop
          \/ /\ left' = left \ {c} /\ UNCHANGED << pc, chosen >>
             /\ asks' = IF CheckinStep(checkin[c], readable /\ checkin[c].todo, history.snoozed[c]) = "reask"
                        THEN asks \cup {c} ELSE asks
    BY <1>4 DEF JudgeCheckIn
  <2>2. ASSUME CheckinStep(checkin[c], readable /\ checkin[c].todo, history.snoozed[c]) = "reask"
        PROVE  checkin[c].reasks < MaxCheckinReasks /\ checkin[c].todo
    BY <2>2 DEF CheckinStep, ReaskDue
  <2> QED BY <1>4, <2>1, <2>2 DEF JudgeCheckIn, PassMoves
<1>5. CASE Compose
  <2>1. CASE Stop
    BY <2>1 DEF PassMoves
  <2>2. CASE ~Stop
    <3>1. PICK low \in BOOLEAN, dormant \in SUBSET Unasked :
            /\ pc' = "send" /\ left' = left /\ asks' = LongestWaiting(asks)
            /\ chosen' = [questions |-> IF low THEN {} ELSE Oldest(Unasked \ dormant),
                          goals     |-> IF low THEN {}
                                        ELSE Oldest({c \in Goals : checkin[c].st = "armed"})]
      BY <1>5, <2>2 DEF Compose
    <3>2. asks' \subseteq asks
      BY <3>1 DEF LongestWaiting
    <3>3. chosen'.goals \subseteq Goals /\ \A q \in chosen'.questions : question[q].st = "queued"
      BY <3>1, OldestIsIn DEF Unasked
    <3> QED BY <1>5, <3>1, <3>2, <3>3 DEF Compose, PassMoves, tables
  <2> QED BY <2>1, <2>2
<1>6. CASE SendDigest \/ FireGoal \/ SurfaceGoal \/ MarkAsked \/ RecordSent
  BY <1>6 DEF SendDigest, FireGoal, SurfaceGoal, MarkAsked, RecordSent, Unsent, GoTo, PassMoves
<1>7. CASE MarkReasked
  BY <1>7 DEF MarkReasked, PassMoves
<1>8. CASE Crash
  BY <1>8 DEF Crash, PassMoves
<1>9. CASE UNCHANGED passVars
  BY <1>9 DEF passVars, PassMoves
<1> QED BY <1>1, <1>2, <1>3, <1>4, <1>5, <1>6, <1>7, <1>8, <1>9 DEF Next, DigestStep, vars, Deliver,
         ArmGoal, UnitDone, QueueQuestion, AnswerRead, AnswerWrite, CurateRead, CurateRelation,
         CurateClose, Tick

(* The digest is due on a day none was sent.                               *)
LEMMA NoneToday ==
    ASSUME Inv, PassShape, BeginDigest
    PROVE  \A t \in sentOn : DayOf(t) # DayOf(now)
<1> SUFFICES ASSUME NEW t \in sentOn PROVE DayOf(t) # DayOf(now)
  OBVIOUS
<1>1. sentOn \subseteq Int /\ now \in Int /\ t \in Int /\ \A s \in sentOn : s <= now
  BY DEF Inv, Types, TypeOK, PassShape
<1>2. LastDigest \in sentOn /\ t <= LastDigest
  BY <1>1, LatestIs DEF LastDigest
<1>3. LastDigest # NoTime
  BY <1>1, <1>2, ClockAssumption
<1>4. LastDigest < At(now, 0)
  BY <1>3 DEF BeginDigest, DigestDue
<1>5. At(now, 0) \in Int
  BY <1>1, ClockAssumption DEF At, DayOf
<1>6. LastDigest \in Int
  BY <1>1, <1>2
<1>7. t < At(now, 0)
  BY <1>1, <1>2, <1>4, <1>5, <1>6
<1> QED BY <1>1, <1>7, DayBegins

LEMMA ShapeStep ==
    ASSUME Inv, Inv', PassShape, [Next]_vars
    PROVE  PassShape'
<1>0. PassMoves
  BY PassIs
<1>1. faults' \in Nat /\ crashes' \in Nat
  BY FineOrFails
<1>2. chosen'.goals \subseteq Goals
  BY <1>0 DEF PassMoves, Stop, PassShape
<1>3. pc' \in {"idle", "questions"} => asks' = {}
  BY <1>0 DEF PassMoves, Stop, PassShape
<1>4. \A c \in CheckIns : RowMoves(c)
  BY RowsMove
<1>5. \A c \in Goals : ~checkin'[c].todo
  BY <1>4, DigestAssumption DEF PassShape, RowMoves
<1>6. ASSUME NEW c \in asks' PROVE checkin'[c].reasks < MaxCheckinReasks /\ c \notin Goals /\ Shown(c)'
  <2>1. c \in CheckIns /\ RowMoves(c)
    BY <1>4, <1>6 DEF Inv, Types, TypeOK
  <2>2. asks' # {}
    BY <1>6
  <2>3. ~Stop
    BY <2>2 DEF Stop
  <2>4. /\ checkin[c].reasks < MaxCheckinReasks /\ c \notin Goals /\ Shown(c)
        /\ pc = "reask" => c \in asks
    BY <1>0, <1>6, <2>3 DEF PassMoves, PassShape
  <2>5. checkin'[c].reasks = checkin[c].reasks
    BY <1>6, <2>1, <2>3 DEF RowMoves
  <2> QED BY <2>1, <2>4, <2>5 DEF RowMoves
<1>7. ASSUME pc' = "checkins", NEW c \in left' PROVE Shown(c)'
  <2>1. c \in CheckIns /\ RowMoves(c)
    BY <1>4, <1>7 DEF Inv, Types
  <2>2. ~Stop
    BY <1>7 DEF Stop
  <2>3. Shown(c)
    BY <1>0, <1>7, <2>2 DEF PassMoves, PassShape, Delivered, Shown
  <2> QED BY <2>1, <2>3 DEF RowMoves
<1>8. ASSUME NEW c \in CheckIns PROVE checkin'[c].reasks <= MaxCheckinReasks
  <2>1. checkin[c].reasks \in Nat /\ MaxCheckinReasks \in Nat
    BY DigestAssumption DEF Inv, Types, TypeOK
  <2>2. checkin[c].reasks <= MaxCheckinReasks /\ (c \in asks => checkin[c].reasks < MaxCheckinReasks)
    BY DEF PassShape
  <2> QED BY <1>4, <2>1, <2>2 DEF RowMoves
<1>9. \A q \in Questions : QuestionMoves(q)
  BY QuestionsMove
<1>10. \A q \in Questions : question'[q].st \in {"none", "queued"} => question'[q].at = NoTime
  BY <1>9 DEF QuestionMoves, PassShape
<1>11. ASSUME pc' \in {"send", "reask", "goal", "question"}, NEW q \in chosen'.questions
       PROVE  question'[q].at = NoTime /\ question'[q].st # "none"
  <2>1. q \in Questions /\ QuestionMoves(q)
    BY <1>9, <1>11 DEF Inv, Types
  <2>2. ~Stop
    BY <1>11 DEF Stop
  <2>3. question[q].at = NoTime /\ question[q].st # "none"
    BY <1>0, <1>11, <2>1, <2>2 DEF PassMoves, PassShape
  <2> QED BY <1>11, <2>1, <2>3 DEF QuestionMoves
<1>12. now' \in Int /\ now \in Int /\ (now' = now \/ (now' = now + 1 /\ pc' = "idle"))
  <2>1. now' = now \/ Tick
    BY DEF Next, DigestStep, vars, BeginDigest, ExpireQuestion, QuestionsDone, JudgeCheckIn, Compose,
         SendDigest, MarkReasked, FireGoal, SurfaceGoal, MarkAsked, RecordSent, Deliver, ArmGoal,
         UnitDone, QueueQuestion, AnswerRead, AnswerWrite, CurateRead, CurateRelation, CurateClose,
         Crash
  <2> QED BY <2>1 DEF Tick, passVars, Inv, Types
<1>13. sentOn' = sentOn \/ (sentOn' = sentOn \cup {now} /\ pc' = "idle" /\ now' = now)
  BY DEF Next, DigestStep, vars, tables, BeginDigest, ExpireQuestion, QuestionsDone, JudgeCheckIn, Compose,
         SendDigest, MarkReasked, FireGoal, SurfaceGoal, MarkAsked, RecordSent, Stop, Deliver, ArmGoal,
         UnitDone, QueueQuestion, AnswerRead, AnswerWrite, CurateRead, CurateRelation, CurateClose,
         Tick, Crash
<1>14. \A t \in sentOn' : t <= now'
  <2>1. \A t \in sentOn : t \in Int /\ t <= now
    BY DEF Inv, Types, TypeOK, PassShape
  <2> QED BY <1>12, <1>13, <2>1
<1>15. ASSUME pc' # "idle", NEW t \in sentOn' PROVE DayOf(t) # DayOf(now')
  <2>1. sentOn' = sentOn /\ now' = now
    BY <1>12, <1>13, <1>15
  <2>2. CASE pc # "idle"
    BY <1>15, <2>1, <2>2 DEF PassShape
  <2>3. CASE pc = "idle"
    <3>1. BeginDigest
      BY <1>15, <2>3 DEF Next, DigestStep, vars, passVars, ExpireQuestion, QuestionsDone, JudgeCheckIn,
         Compose, SendDigest, MarkReasked, FireGoal, SurfaceGoal, MarkAsked, RecordSent, Stop, Deliver,
         ArmGoal, UnitDone, QueueQuestion, AnswerRead, AnswerWrite, CurateRead, CurateRelation,
         CurateClose, Tick, Crash
    <3> QED BY <1>15, <2>1, <3>1, NoneToday
  <2> QED BY <2>2, <2>3
<1> QED BY <1>1, <1>2, <1>3, <1>5, <1>6, <1>7, <1>8, <1>10, <1>11, <1>14, <1>15 DEF PassShape

(* What was carried stays within what is owed when neither falls behind.   *)
LEMMA StaysWithin ==
    ASSUME NEW n \in Nat, NEW n1 \in Nat, NEW f \in Nat, NEW f1 \in Nat, NEW o \in Nat, NEW o1 \in Nat,
           n <= f + o,
           \/ n1 = 0
           \/ n1 <= n /\ f1 >= f /\ o1 >= o
           \/ n1 <= n /\ f1 = f + 1 /\ o <= o1 + 1
           \/ n1 <= n + 1 /\ f1 = f + 1 /\ o1 >= o
           \/ n1 <= n + 1 /\ f1 >= f /\ o1 >= o + 1
    PROVE  n1 <= f1 + o1
OBVIOUS

(* A step that does not send carries nothing.                              *)
LEMMA CarriedIs ==
    ASSUME Inv, [Next]_vars
    PROVE  \/ carried' = carried
           \/ SendDigest /\ carried' = Carried
           \/ Tick /\ carried' = [carried EXCEPT !.today = 0]
BY DEF Next, DigestStep, vars, ghostVars, BeginDigest, ExpireQuestion, QuestionsDone, JudgeCheckIn,
       Compose, SendDigest, MarkReasked, FireGoal, SurfaceGoal, MarkAsked, RecordSent, Deliver, ArmGoal,
       UnitDone, QueueQuestion, AnswerRead, AnswerWrite, CurateRead, CurateRelation, CurateClose,
       Tick, Crash

LEMMA SendIs ==
    ASSUME PassShape, SendDigest
    PROVE  /\ pc = "send" /\ UNCHANGED << now, checkin, question, sentOn >>
           /\ \/ Fine /\ pc' = "reask" /\ UNCHANGED << left, asks, chosen >>
              \/ Fails /\ Stop
BY ChargeIs DEF SendDigest, GoTo, Unsent, tables

LEMMA CountsAre ==
    ASSUME Types
    PROVE  /\ carried.today \in Nat
           /\ \A q \in Questions : carried.questions[q] \in Nat
           /\ \A c \in CheckIns : carried.checkins[c] \in Nat
BY DEF Types, Counts

LEMMA CarriedAdds ==
    ASSUME Types
    PROVE  /\ Carried.today = carried.today + 1
           /\ \A q \in Questions : Carried.questions[q] =
                 IF q \in chosen.questions THEN carried.questions[q] + 1 ELSE carried.questions[q]
           /\ \A c \in CheckIns : Carried.checkins[c] =
                 IF c \in asks \cup chosen.goals THEN carried.checkins[c] + 1 ELSE carried.checkins[c]
BY DEF Carried, Types, Counts

LEMMA SumIs == \A a, b \in Nat : a + b \in Nat
OBVIOUS

LEMMA FailuresAre ==
    ASSUME PassShape, [Next]_vars
    PROVE  /\ Failures \in Nat /\ Failures' \in Nat /\ (Fine \/ Fails)
           /\ Fine => Failures' = Failures /\ Failures' >= Failures
           /\ Fails => Failures' = Failures + 1 /\ Failures' >= Failures
<1>1. faults' \in Nat /\ crashes' \in Nat /\ Failures \in Nat /\ (Fine \/ Fails)
  BY FineOrFails
<1>2. Failures' \in Nat
  <2>1. faults' + crashes' \in Nat
    BY <1>1, SumIs
  <2> QED BY <2>1 DEF Failures
<1> QED BY <1>1, <1>2 DEF Fine, Fails

(* A step that goes well: the pass leaves a phase by its own door, and a   *)
(* pass that stops had nothing left to mark.                               *)
LEMMA FineStops ==
    ASSUME PassShape, [Next]_vars, Fine, pc \in {"reask", "goal", "question", "sent"}
    PROVE  \/ UNCHANGED << pc, asks, chosen, sentOn, now >>
           \/ pc' = pc /\ MarkReasked /\ UNCHANGED << chosen, sentOn, now >>
           \/ FireGoal /\ pc' = "goal" /\ UNCHANGED << sentOn, now, chosen >>
              /\ \A c \in chosen.goals \cap CheckIns : checkin'[c] = [checkin[c] EXCEPT !.st = "fired"]
           \/ SurfaceGoal /\ pc' = "question" /\ UNCHANGED << sentOn, now, chosen >>
           \/ /\ MarkAsked /\ pc' = "sent" /\ UNCHANGED << sentOn, now >>
              /\ \A q \in chosen.questions \cap Questions : question'[q].at = now
           \/ RecordSent /\ pc = "sent" /\ now \in sentOn' /\ now' = now
<1>1. CASE MarkReasked
  <2>1. ~ (\E o : o # "ok" /\ Charge(o))
    BY ChargeIs
  <2> QED BY <1>1, <2>1 DEF MarkReasked
<1>2. CASE FireGoal
  <2>1. PICK o \in {"ok", "store"} : /\ Charge(o) /\ (IF o # "ok" THEN Stop ELSE GoTo("goal"))
          /\ checkin' = [c \in CheckIns |-> IF o = "ok" /\ c \in chosen.goals
                                            THEN [checkin[c] EXCEPT !.st = "fired"] ELSE checkin[c]]
    BY <1>2 DEF FireGoal
  <2>2. o = "ok"
    BY <2>1, ChargeIs
  <2> QED BY <1>2, <2>1, <2>2 DEF FireGoal, GoTo
<1>3. CASE SurfaceGoal
  <2>1. PICK o \in Outcomes : Charge(o) /\ (IF o # "ok" THEN Stop ELSE GoTo("question"))
    BY <1>3 DEF SurfaceGoal
  <2>2. o = "ok"
    BY <2>1, ChargeIs
  <2> QED BY <1>3, <2>1, <2>2 DEF SurfaceGoal, GoTo
<1>4. CASE MarkAsked
  <2>1. PICK o \in Outcomes : /\ Charge(o) /\ (IF o # "ok" THEN Stop ELSE GoTo("sent"))
          /\ question' = [q \in Questions |->
              IF o # "store" /\ q \in chosen.questions
              THEN [st |-> IF question[q].st = "queued" THEN "asked" ELSE question[q].st, at |-> now]
              ELSE question[q]]
    BY <1>4 DEF MarkAsked
  <2>2. o = "ok"
    BY <2>1, ChargeIs
  <2> QED BY <1>4, <2>1, <2>2 DEF MarkAsked, GoTo
<1>5. CASE RecordSent
  <2>1. ~Charge("log")
    BY ChargeIs
  <2> QED BY <1>5, <2>1 DEF RecordSent
<1>6. CASE Crash
  BY <1>6 DEF Crash, PassShape, Fine, Failures
<1> QED BY <1>1, <1>2, <1>3, <1>4, <1>5, <1>6 DEF Next, DigestStep, vars, tables, passVars, BeginDigest,
         ExpireQuestion, QuestionsDone, JudgeCheckIn, Compose, SendDigest, Deliver, ArmGoal,
         UnitDone, QueueQuestion, AnswerRead, AnswerWrite, CurateRead, CurateRelation,
         CurateClose, Tick

(* One digest a date.                                                      *)
LEMMA TodayCounted ==
    ASSUME OwedInv, Inv', PassShape', [Next]_vars
    PROVE  carried'.today <= Failures' + TodayOwed'
<1>0. /\ carried.today \in Nat /\ carried'.today \in Nat /\ TodayOwed \in {0, 1} /\ TodayOwed' \in {0, 1}
      /\ carried.today <= Failures + TodayOwed
      /\ Failures \in Nat /\ Failures' \in Nat /\ (Fine \/ Fails)
      /\ (Fine => Failures' = Failures /\ Failures' >= Failures)
      /\ (Fails => Failures' = Failures + 1 /\ Failures' >= Failures)
  BY CountsAre, FailuresAre DEF OwedInv, Inv, Types, Counts, Counted, TodayOwed
<1>1. CASE Tick
  <2>1. CASE carried'.today = 0
    <3>1. Failures' + TodayOwed' \in Nat
      BY <1>0, SumIs
    <3> QED BY <2>1, <3>1
  <2>2. CASE carried'.today # 0
    <3>1. carried' = carried /\ DayOf(now') = DayOf(now) /\ UNCHANGED << pc, sentOn, faults, crashes >>
      BY <1>1, <2>2 DEF Tick, tables, passVars, OwedInv, Inv, Types, Counts
    <3>2. TodayOwed' = TodayOwed /\ Failures' = Failures
      BY <3>1 DEF TodayOwed, Failures
    <3> QED BY <1>0, <3>1, <3>2
  <2> QED BY <2>1, <2>2
<1>2. CASE SendDigest
  <2>1. /\ pc = "send" /\ UNCHANGED << now, sentOn >>
        /\ carried'.today = carried.today \/ carried'.today = carried.today + 1
        /\ (Fine /\ pc' = "reask") \/ Fails
    BY <1>2, SendIs, CarriedIs, CarriedAdds DEF OwedInv, Inv, Tick
  <2>2. TodayOwed = 0
    BY <2>1 DEF TodayOwed, OwedInv, PassShape
  <2>3. pc' = "reask" => TodayOwed' = 1
    BY DEF TodayOwed
  <2> QED BY <1>0, <2>1, <2>2, <2>3, StaysWithin
<1>3. CASE ~Tick /\ ~SendDigest
  <2>1. carried' = carried
    BY <1>3, CarriedIs DEF OwedInv
  <2>2. CASE Fails
    BY <1>0, <2>1, <2>2, StaysWithin
  <2>3. CASE Fine
    <3>1. now' = now /\ sentOn \subseteq sentOn'
      BY <1>3 DEF Next, DigestStep, vars, tables, BeginDigest, ExpireQuestion, QuestionsDone, JudgeCheckIn,
         Compose, MarkReasked, FireGoal, SurfaceGoal, MarkAsked, RecordSent, Deliver, ArmGoal,
         UnitDone, QueueQuestion, AnswerRead, AnswerWrite, CurateRead, CurateRelation, CurateClose, Crash
    <3>2. TodayOwed' >= TodayOwed
      <4>1. CASE pc \in {"reask", "goal", "question", "sent"}
        <5>1. pc' \in {"reask", "goal", "question", "sent"} \/ now \in sentOn'
          BY <2>3, <4>1, FineStops DEF OwedInv
        <5> QED BY <1>0, <3>1, <5>1 DEF TodayOwed
      <4>2. CASE pc \notin {"reask", "goal", "question", "sent"}
        BY <1>0, <3>1, <4>2 DEF TodayOwed
      <4> QED BY <4>1, <4>2
    <3> QED BY <1>0, <2>1, <2>3, <3>2, StaysWithin
  <2> QED BY <1>0, <2>2, <2>3
<1> QED BY <1>1, <1>2, <1>3

(* A question asked once.                                                  *)
LEMMA QuestionCounted ==
    ASSUME OwedInv, Inv', PassShape', [Next]_vars, NEW q \in Questions
    PROVE  carried'.questions[q] <= Failures' + QuestionOwed(q)'
<1> DEFINE n == carried.questions[q]
           n1 == carried'.questions[q]
<1>0. /\ n \in Nat /\ n1 \in Nat /\ QuestionOwed(q) \in {0, 1} /\ QuestionOwed(q)' \in {0, 1}
      /\ n <= Failures + QuestionOwed(q)
      /\ Failures \in Nat /\ Failures' \in Nat /\ (Fine \/ Fails)
      /\ (Fine => Failures' = Failures /\ Failures' >= Failures)
      /\ (Fails => Failures' = Failures + 1 /\ Failures' >= Failures)
  BY CountsAre, FailuresAre DEF OwedInv, Inv, Types, Counts, Counted, QuestionOwed
<1>1. QuestionMoves(q)
  BY QuestionsMove DEF OwedInv
<1>2. CASE SendDigest
  <2>1. /\ pc = "send" /\ question' = question
        /\ n1 = n \/ (q \in chosen.questions /\ n1 = n + 1)
        /\ (Fine /\ pc' = "reask" /\ chosen' = chosen) \/ Fails
    BY <1>2, SendIs, CarriedIs, CarriedAdds DEF OwedInv, Inv, Tick
  <2>2. q \in chosen.questions => QuestionOwed(q) = 0
    BY <2>1 DEF QuestionOwed, OwedInv, PassShape
  <2>3. q \in chosen.questions /\ pc' = "reask" /\ chosen' = chosen => QuestionOwed(q)' = 1
    BY DEF QuestionOwed
  <2>4. QuestionOwed(q) = 1 => QuestionOwed(q)' = 1
    BY <2>1 DEF QuestionOwed
  <2>5. CASE Fails
    BY <1>0, <2>1, <2>2, <2>5, StaysWithin
  <2>6. CASE Fine /\ pc' = "reask" /\ chosen' = chosen
    BY <1>0, <2>1, <2>2, <2>3, <2>4, <2>6, StaysWithin
  <2> QED BY <2>1, <2>5, <2>6
<1>3. CASE ~SendDigest
  <2>1. n1 = n
    BY <1>3, CarriedIs DEF OwedInv, Inv, Types, Counts
  <2>2. Fine => QuestionOwed(q)' >= QuestionOwed(q)
    <3> SUFFICES ASSUME Fine PROVE QuestionOwed(q)' >= QuestionOwed(q)
      OBVIOUS
    <3>1. CASE question[q].at # NoTime
      BY <1>0, <1>1, <3>1 DEF QuestionMoves, QuestionOwed
    <3>2. CASE pc \in {"reask", "goal", "question"} /\ q \in chosen.questions
      <4>1. \/ pc' \in {"reask", "goal", "question"} /\ chosen' = chosen
            \/ question'[q].at = now
        BY <3>2, FineStops DEF OwedInv
      <4>2. now # NoTime
        BY ClockAssumption DEF OwedInv, Inv, Types
      <4> QED BY <1>0, <3>2, <4>1, <4>2 DEF QuestionOwed
    <3> QED BY <1>0, <3>1, <3>2 DEF QuestionOwed
  <2> QED BY <1>0, <2>1, <2>2, StaysWithin
<1> QED BY <1>2, <1>3

(* A goal asked once.                                                      *)
LEMMA GoalCounted ==
    ASSUME OwedInv, Inv', PassShape', [Next]_vars, NEW c \in Goals
    PROVE  carried'.checkins[c] <= Failures' + GoalOwed(c)'
<1> DEFINE n == carried.checkins[c]
           n1 == carried'.checkins[c]
<1>0. /\ n \in Nat /\ n1 \in Nat /\ GoalOwed(c) \in {0, 1} /\ GoalOwed(c)' \in {0, 1}
      /\ n <= Failures + GoalOwed(c) /\ c \in CheckIns
      /\ Failures \in Nat /\ Failures' \in Nat /\ (Fine \/ Fails)
      /\ (Fine => Failures' = Failures /\ Failures' >= Failures)
      /\ (Fails => Failures' = Failures + 1 /\ Failures' >= Failures)
  BY CountsAre, FailuresAre, DigestAssumption DEF OwedInv, Inv, Types, Counts, Counted, GoalOwed
<1>1. RowMoves(c)
  BY <1>0, RowsMove DEF OwedInv
<1>2. CASE SendDigest
  <2>1. /\ pc = "send" /\ checkin' = checkin
        /\ n1 = n \/ (c \in chosen.goals /\ n1 = n + 1)
        /\ (Fine /\ pc' = "reask" /\ chosen' = chosen) \/ Fails
    BY <1>0, <1>2, SendIs, CarriedIs, CarriedAdds DEF OwedInv, PassShape, Inv, Tick
  <2>2. c \in chosen.goals => GoalOwed(c) = 0
    BY <2>1 DEF GoalOwed, OwedInv, Inv, Reserved, Begun
  <2>3. c \in chosen.goals /\ pc' = "reask" /\ chosen' = chosen => GoalOwed(c)' = 1
    BY DEF GoalOwed
  <2>4. GoalOwed(c) = 1 => GoalOwed(c)' = 1
    BY <2>1 DEF GoalOwed, Begun
  <2>5. CASE Fails
    BY <1>0, <2>1, <2>2, <2>5, StaysWithin
  <2>6. CASE Fine /\ pc' = "reask" /\ chosen' = chosen
    BY <1>0, <2>1, <2>2, <2>3, <2>4, <2>6, StaysWithin
  <2> QED BY <2>1, <2>5, <2>6
<1>3. CASE ~SendDigest
  <2>1. n1 = n
    BY <1>3, CarriedIs DEF OwedInv, Inv, Types, Counts
  <2>2. Fine => GoalOwed(c)' >= GoalOwed(c)
    <3> SUFFICES ASSUME Fine PROVE GoalOwed(c)' >= GoalOwed(c)
      OBVIOUS
    <3>1. CASE Begun(c)
      BY <1>0, <1>1, <3>1 DEF RowMoves, GoalOwed
    <3>2. CASE pc = "reask" /\ c \in chosen.goals
      <4>1. \/ pc' = "reask" /\ chosen' = chosen
            \/ checkin'[c] = [checkin[c] EXCEPT !.st = "fired"]
        BY <1>0, <3>2, FineStops DEF OwedInv, SurfaceGoal, MarkAsked
      <4>2. checkin[c] \in CheckinRow
        BY <1>0 DEF OwedInv, Inv, Types, TypeOK, CheckinRow
      <4>3. checkin'[c] = [checkin[c] EXCEPT !.st = "fired"] => Begun(c)'
        BY <4>2 DEF Begun, CheckinRow
      <4> QED BY <1>0, <3>2, <4>1, <4>3 DEF GoalOwed
    <3> QED BY <1>0, <3>1, <3>2 DEF GoalOwed
  <2> QED BY <1>0, <2>1, <2>2, StaysWithin
<1> QED BY <1>2, <1>3

(* A check-in asked again at most MaxCheckinReasks times: one closed while *)
(* the pass may still ask it counts what is marked on it, and one closed   *)
(* for good all it was ever owed.                                          *)
LEMMA ReaskCounted ==
    ASSUME OwedInv, Inv', PassShape', [Next]_vars, NEW c \in CheckIns \ Goals
    PROVE  carried'.checkins[c] <= Failures' + ReaskOwed(c)'
<1> DEFINE n == carried.checkins[c]
           n1 == carried'.checkins[c]
           r == checkin[c].reasks
           r1 == checkin'[c].reasks
           M == MaxCheckinReasks
<1>0. /\ n \in Nat /\ n1 \in Nat /\ n <= Failures + ReaskOwed(c)
      /\ Failures \in Nat /\ Failures' \in Nat /\ (Fine \/ Fails)
      /\ (Fine => Failures' = Failures /\ Failures' >= Failures)
      /\ (Fails => Failures' = Failures + 1 /\ Failures' >= Failures)
  BY CountsAre, FailuresAre DEF OwedInv, Inv, Types, Counts, Counted
<1>1. RowMoves(c) /\ PassMoves /\ PassShape /\ Inv
  BY RowsMove, PassIs DEF OwedInv
<1>2. M \in Nat /\ r \in Nat /\ r1 \in Nat /\ r <= M /\ r1 <= M
  BY <1>1, DigestAssumption DEF Inv, Types, TypeOK, PassShape
<1>3. r <= r1 /\ (c \in asks => r < M /\ r + 1 <= M) /\ (c \in asks' => r1 < M /\ r1 + 1 <= M)
  <2>1. r1 = r \/ r1 = r + 1
    BY <1>1 DEF RowMoves
  <2>2. (c \in asks => r < M) /\ (c \in asks' => r1 < M)
    BY <1>1 DEF PassShape
  <2> QED BY <1>2, <2>1, <2>2
<1>4. ReaskOwed(c) \in Nat /\ r <= ReaskOwed(c) /\ ReaskOwed(c) <= M
  BY <1>2, <1>3 DEF ReaskOwed
<1>5. ReaskOwed(c)' \in Nat /\ r1 <= ReaskOwed(c)' /\ ReaskOwed(c)' <= M
  BY <1>2, <1>3 DEF ReaskOwed
<1>6. Closed(c) /\ ~Pending(c) => Closed(c)' /\ ~Pending(c)'
  <2>1. pc' = "checkins" /\ pc # "checkins" /\ ~Stop => left' = Delivered /\ asks' = {}
    BY <1>1 DEF PassMoves, PassShape
  <2>2. Closed(c) => c \notin Delivered
    BY DEF Closed, Delivered
  <2> QED BY <1>1, <2>1, <2>2 DEF PassMoves, Pending, Stop, RowMoves
<1>7. Closed(c) => ReaskOwed(c) <= ReaskOwed(c)'
  <2>1. CASE Closed(c) /\ ~Pending(c)
    BY <1>2, <1>6, <2>1 DEF ReaskOwed
  <2>2. CASE Closed(c) /\ Pending(c)
    <3>1. ReaskOwed(c) = r
      BY <2>2 DEF ReaskOwed
    <3> QED BY <1>2, <1>3, <1>5, <3>1
  <2> QED BY <2>1, <2>2
<1>8. ReaskOwed(c) <= ReaskOwed(c)' + 1
  <2>1. CASE Closed(c)
    BY <1>4, <1>5, <1>7, <2>1
  <2>2. CASE ~Closed(c)
    <3>1. ReaskOwed(c) <= r + 1
      BY <1>2, <2>2 DEF ReaskOwed
    <3> QED BY <1>2, <1>3, <1>4, <1>5, <3>1
  <2> QED BY <2>1, <2>2
<1>9. CASE SendDigest
  <2>1. /\ pc = "send" /\ checkin' = checkin
        /\ n1 = n \/ (c \in asks /\ n1 = n + 1)
        /\ (Fine /\ pc' = "reask" /\ asks' = asks) \/ Fails
    BY <1>1, <1>9, SendIs, CarriedIs, CarriedAdds DEF PassShape, Inv, Tick
  <2>2. CASE c \in asks
    <3>1. ReaskOwed(c) = r
      BY <2>1, <2>2 DEF ReaskOwed, Pending
    <3>2. pc' = "reask" /\ asks' = asks => ReaskOwed(c)' >= r + 1
      BY <1>2, <1>3, <2>1, <2>2 DEF ReaskOwed, Pending
    <3>3. ReaskOwed(c)' >= ReaskOwed(c)
      BY <1>2, <1>3, <1>5, <3>1
    <3> QED BY <1>0, <1>2, <1>4, <1>5, <2>1, <3>1, <3>2, <3>3, StaysWithin
  <2>3. CASE c \notin asks
    <3>1. n1 = n
      BY <2>1, <2>3
    <3>2. CASE Fails
      BY <1>0, <1>4, <1>5, <1>8, <3>1, <3>2, StaysWithin
    <3>3. CASE Fine
      <4>1. ~Closed(c) => ReaskOwed(c) = r
        BY <2>3 DEF ReaskOwed
      <4>2. ReaskOwed(c) <= ReaskOwed(c)'
        BY <1>2, <1>3, <1>5, <1>7, <4>1
      <4> QED BY <1>0, <1>4, <1>5, <3>1, <3>3, <4>2, StaysWithin
    <3> QED BY <1>0, <3>2, <3>3
  <2> QED BY <2>2, <2>3
<1>10. CASE ~SendDigest
  <2>1. n1 = n
    BY <1>1, <1>10, CarriedIs DEF Inv, Types, Counts
  <2>2. CASE Fails
    BY <1>0, <1>4, <1>5, <1>8, <2>1, <2>2, StaysWithin
  <2>3. CASE Fine
    <3>1. ReaskOwed(c) <= ReaskOwed(c)'
      <4>1. CASE Closed(c)
        BY <1>7, <4>1
      <4>2. CASE ~Closed(c) /\ ~(pc = "reask" /\ c \in asks)
        <5>1. ReaskOwed(c) = r
          BY <4>2 DEF ReaskOwed
        <5> QED BY <1>2, <1>3, <1>5, <5>1
      <4>3. CASE ~Closed(c) /\ pc = "reask" /\ c \in asks
        <5>1. ReaskOwed(c) = r + 1
          BY <4>3 DEF ReaskOwed
        <5>2. pc' = "reask" /\ (c \in asks' \/ r1 = r + 1)
          <6>1. pc' = "reask" /\ (asks' = asks \/ MarkReasked)
            BY <1>1, <2>3, <4>3, FineStops DEF FireGoal, SurfaceGoal, MarkAsked
          <6>2. CASE MarkReasked
            <7>1. Closes(c)
              BY <1>1, <4>3 DEF PassShape, Shown, Closed, Closes
            <7>2. PICK d \in asks, o \in Outcomes :
                    /\ Charge(o)
                    /\ checkin' = IF o # "store" /\ Closes(d)
                                  THEN [checkin EXCEPT ![d].at = now, ![d].reasks = @ + 1] ELSE checkin
                    /\ o = "ok" => asks' = asks \ {d}
              BY <6>2 DEF MarkReasked
            <7>3. o = "ok" /\ asks' = asks \ {d}
              BY <1>1, <2>3, <7>2, ChargeIs
            <7>4. CASE d = c
              <8>1. checkin' = [checkin EXCEPT ![c].at = now, ![c].reasks = @ + 1]
                BY <7>1, <7>2, <7>3, <7>4
              <8>2. checkin \in [CheckIns -> CheckinRow]
                BY <1>1 DEF Inv, Types, TypeOK, CheckinRow
              <8>3. r1 = r + 1
                BY <8>1, <8>2 DEF CheckinRow
              <8> QED BY <6>1, <8>3
            <7>5. CASE d # c
              BY <4>3, <6>1, <7>3, <7>5
            <7> QED BY <7>4, <7>5
          <6> QED BY <4>3, <6>1, <6>2
        <5>3. ReaskOwed(c)' >= r + 1
          BY <1>2, <1>3, <5>2 DEF ReaskOwed, Pending
        <5> QED BY <1>2, <1>4, <1>5, <5>1, <5>3
      <4> QED BY <4>1, <4>2, <4>3
    <3> QED BY <1>0, <1>4, <1>5, <2>1, <2>3, <3>1, StaysWithin
  <2> QED BY <1>0, <2>2, <2>3
<1> QED BY <1>9, <1>10

LEMMA OwedInit == Init => OwedInv
<1> SUFFICES ASSUME Init PROVE OwedInv
  OBVIOUS
<1>1. Inv
  BY InitInv
<1>2. PassShape
  <2>1. /\ faults = 0 /\ crashes = 0 /\ chosen.goals = {} /\ asks = {} /\ left = {} /\ sentOn = {}
        /\ pc = "idle"
    BY DEF Init
  <2>2. \A c \in CheckIns : checkin[c].reasks = 0 /\ checkin[c].todo = (c \notin Goals)
    BY DEF Init
  <2>3. \A c \in CheckIns : checkin[c].reasks <= MaxCheckinReasks
    BY <2>2, DigestAssumption
  <2>4. \A c \in Goals : ~checkin[c].todo
    BY <2>2, DigestAssumption
  <2>5. \A q \in Questions : question[q].at = NoTime
    BY DEF Init
  <2> QED BY <2>1, <2>3, <2>4, <2>5 DEF PassShape
<1>3. /\ TodayOwed \in Nat /\ Failures = 0
      /\ \A q \in Questions : QuestionOwed(q) \in Nat
      /\ \A c \in Goals : GoalOwed(c) \in Nat
      /\ \A c \in CheckIns : ReaskOwed(c) \in Nat
  BY DigestAssumption DEF Init, TodayOwed, QuestionOwed, GoalOwed, ReaskOwed, Failures, Closed, Begun
<1>4. /\ carried.today = 0 /\ \A q \in Questions : carried.questions[q] = 0
      /\ \A c \in CheckIns : carried.checkins[c] = 0
  BY DEF Init
<1>5. Counted
  BY <1>3, <1>4, DigestAssumption DEF Counted
<1> QED BY <1>1, <1>2, <1>5 DEF OwedInv

LEMMA OwedStep == OwedInv /\ [Next]_vars => OwedInv'
<1> SUFFICES ASSUME OwedInv, [Next]_vars PROVE OwedInv'
  OBVIOUS
<1>1. Inv'
  BY StepKeepsInv DEF OwedInv
<1>2. PassShape'
  BY <1>1, ShapeStep DEF OwedInv
<1>3. Counted'
  BY <1>1, <1>2, TodayCounted, QuestionCounted, GoalCounted, ReaskCounted DEF Counted
<1> QED BY <1>1, <1>2, <1>3 DEF OwedInv

(* One digest a local date, a question and a goal asked once, and a        *)
(* check-in asked again as often as its cap, whatever the answers coming   *)
(* in between the pass's reads and its writes; each failure or crash       *)
(* repeats at most once.                                                   *)
THEOREM SaidNoMoreThanOwed == Spec => []SaidAsOwed
<1>1. OwedInv => SaidAsOwed
  <2> SUFFICES ASSUME OwedInv PROVE SaidAsOwed
    OBVIOUS
  <2>0. Failures \in Nat /\ MaxCheckinReasks \in Nat
    BY SumIs, DigestAssumption DEF OwedInv, PassShape, Failures
  <2>1. carried.today <= 1 + Failures
    BY <2>0, CountsAre DEF OwedInv, Inv, Counted, TodayOwed
  <2>2. \A q \in Questions : carried.questions[q] <= 1 + Failures
    BY <2>0, CountsAre DEF OwedInv, Inv, Counted, QuestionOwed
  <2>3. ASSUME NEW c \in Goals PROVE carried.checkins[c] <= Failures + 1
    <3>1. carried.checkins[c] \in Nat
      BY CountsAre, DigestAssumption DEF OwedInv, Inv
    <3> QED BY <2>0, <3>1 DEF OwedInv, Counted, GoalOwed
  <2>4. ASSUME NEW c \in CheckIns \ Goals PROVE carried.checkins[c] <= Failures + MaxCheckinReasks
    <3>1. carried.checkins[c] \in Nat /\ carried.checkins[c] <= Failures + ReaskOwed(c)
      BY CountsAre DEF OwedInv, Inv, Counted
    <3>2. checkin[c].reasks \in Nat /\ checkin[c].reasks <= MaxCheckinReasks
          /\ (c \in asks => checkin[c].reasks < MaxCheckinReasks)
      BY DEF OwedInv, Inv, Types, TypeOK, PassShape
    <3>3. ReaskOwed(c) \in Nat /\ ReaskOwed(c) <= MaxCheckinReasks
      BY <2>0, <3>2 DEF ReaskOwed
    <3> QED BY <2>0, <3>1, <3>3
  <2> QED BY <2>1, <2>2, <2>3, <2>4 DEF SaidAsOwed
<1> QED BY <1>1, OwedInit, OwedStep, PTL DEF Spec

----------------------------------------------------------------------------
(* An open question is not on its way out unless the running sweep has     *)
(* still to judge it: while digests go out every day, fewer than           *)
(* MaxDigestDeferrals of them came after it.                               *)
Stamped(q) == question[q].at # NoTime
Young(q) ==
    \/ ~EveryDaySince(question[q].at)
    \/ Cardinality(DigestsAfter(question[q].at)) < MaxDigestDeferrals
    \/ question[q].at = now
Judged == pc # "idle" => \A q \in Open : (pc = "questions" /\ q \in left) \/ Young(q)
NoneOverdue ==
    \A q \in Open : EveryDaySince(question[q].at) =>
        Cardinality(DigestsAfter(question[q].at)) <= MaxDigestDeferrals

(* What the stamps and the history a pass reads hold.                      *)
StampShape ==
    /\ IsFiniteSet(sentOn)
    /\ Start <= now /\ now <= Horizon
    /\ \A q \in Questions : Stamped(q) => Start <= question[q].at /\ question[q].at <= now
    /\ \A q \in Questions : question[q].st = "asked" => Stamped(q)
    /\ \A p, q \in chosen.questions : p = q
    /\ pc # "idle" => history.sent = {t \in sentOn : t >= HistoryStart}

(* Why few are open: each question asked since any instant answers for a   *)
(* digest of that time, for a failure, or for the digest going out.        *)
AskedSince(a) == {q \in Questions : Stamped(q) /\ question[q].at >= a}
SentSince(a) == {t \in sentOn : t >= a}
Going == IF pc = "sent" THEN 1 ELSE 0

(* AskedSince, SentSince and Going count for every instant.                *)
Booked ==
    \A a \in Int : Cardinality(AskedSince(a)) <= Cardinality(SentSince(a)) + Failures + Going

CloseInv == OwedInv /\ Judged /\ NoneOverdue /\ StampShape /\ Booked

(* A digest row is written at the end of its pass, of the day it is.       *)
Logs ==
    \/ UNCHANGED sentOn
    \/ pc = "sent" /\ Stop /\ Fine /\ sentOn' = sentOn \cup {now}

(* The clock moves between passes; a pass reads the log as it begins.      *)
Clocks ==
    \/ UNCHANGED now
    \/ pc = "idle" /\ pc' = "idle" /\ now < Horizon /\ now' = now + 1 /\ UNCHANGED << question, related, sentOn >>

Reads ==
    \/ pc' = "idle"
    \/ pc = "idle" /\ BeginDigest
    \/ pc # "idle" /\ UNCHANGED << history, now >>

(* What a step makes of the open questions: some close, or the pass marks  *)
(* the one it asked.                                                       *)
Asks ==
    \/ \A q \in Questions :
         /\ question'[q].at = question[q].at
         /\ question'[q].st = "asked" => question[q].st = "asked"
         /\ q \in Open' => q \in Open
    \/ /\ pc = "question" /\ UNCHANGED << now, sentOn, related >>
       /\ \A q \in Questions : q \notin chosen.questions => question'[q] = question[q]
       /\ \A q \in chosen.questions : question'[q].at = now
       /\ (pc' = "sent" /\ Fine) \/ (pc' = "idle" /\ Fails)

LEMMA LogsIs == ASSUME OwedInv, [Next]_vars PROVE Logs
<1>1. CASE RecordSent
  <2>1. faults \in Nat /\ crashes \in Nat
    BY DEF OwedInv, PassShape
  <2> QED BY <1>1, <2>1 DEF RecordSent, Logs, Charge, Fine, Failures
<1>2. CASE ~RecordSent
  BY <1>2 DEF Logs, Next, DigestStep, vars, tables, BeginDigest, ExpireQuestion, QuestionsDone,
         JudgeCheckIn, Compose, SendDigest, MarkReasked, FireGoal, SurfaceGoal, MarkAsked, Deliver,
         ArmGoal, UnitDone, QueueQuestion, AnswerRead, AnswerWrite, CurateRead, CurateRelation,
         CurateClose, Tick, Crash
<1> QED BY <1>1, <1>2

LEMMA ClocksIs == ASSUME [Next]_vars PROVE Clocks
BY DEF Clocks, Next, DigestStep, vars, tables, passVars, BeginDigest, ExpireQuestion, QuestionsDone,
       JudgeCheckIn, Compose, SendDigest, MarkReasked, FireGoal, SurfaceGoal, MarkAsked, RecordSent,
       Deliver, ArmGoal, UnitDone, QueueQuestion, AnswerRead, AnswerWrite, CurateRead, CurateRelation,
       CurateClose, Tick, Crash

LEMMA ReadsIs == ASSUME [Next]_vars PROVE Reads
<1>1. CASE ExpireQuestion \/ QuestionsDone \/ JudgeCheckIn \/ Compose \/ MarkReasked
  <2>1. pc' = "idle" \/ UNCHANGED << history, now >>
    BY <1>1 DEF ExpireQuestion, QuestionsDone, JudgeCheckIn, Compose, MarkReasked, Stop
  <2>2. pc # "idle"
    BY <1>1 DEF ExpireQuestion, QuestionsDone, JudgeCheckIn, Compose, MarkReasked
  <2> QED BY <2>1, <2>2 DEF Reads
<1>2. CASE SendDigest \/ FireGoal \/ SurfaceGoal \/ MarkAsked \/ RecordSent
  <2>1. pc' = "idle" \/ UNCHANGED << history, now >>
    BY <1>2 DEF SendDigest, Unsent, FireGoal, SurfaceGoal, MarkAsked, RecordSent, Stop, GoTo
  <2>2. pc # "idle"
    BY <1>2 DEF SendDigest, FireGoal, SurfaceGoal, MarkAsked, RecordSent
  <2> QED BY <2>1, <2>2 DEF Reads
<1>3. CASE BeginDigest
  BY <1>3 DEF BeginDigest, Reads
<1>4. CASE Tick \/ Crash
  BY <1>4 DEF Tick, Crash, Stop, passVars, Reads
<1>5. CASE \/ \E c \in CheckIns : Deliver(c) \/ ArmGoal(c) \/ UnitDone(c)
           \/ QueueQuestion \/ AnswerRead \/ AnswerWrite
           \/ CurateRead \/ CurateRelation \/ CurateClose \/ UNCHANGED vars
  <2>1. UNCHANGED << passVars, now >>
    BY <1>5 DEF Deliver, ArmGoal, UnitDone, QueueQuestion, AnswerRead, AnswerWrite, CurateRead,
         CurateRelation, CurateClose, vars
  <2> QED BY <2>1 DEF passVars, Reads
<1> QED BY <1>1, <1>2, <1>3, <1>4, <1>5 DEF Next, DigestStep

LEMMA AsksIs == ASSUME OwedInv, [Next]_vars PROVE Asks
<1>0. /\ question \in [Questions -> [st : {"none", "queued", "asked", "confirmed", "rejected", "expired"},
                                     at : Times]]
      /\ related \subseteq Questions /\ faults \in Nat /\ crashes \in Nat
  BY DEF OwedInv, PassShape, Inv, Types, TypeOK
<1> DEFINE Quiet == \A q \in Questions : /\ question'[q].at = question[q].at
                                         /\ question'[q].st = "asked" => question[q].st = "asked"
                                         /\ q \in Open' => q \in Open
<1>1. CASE UNCHANGED question /\ related' \subseteq related
  BY <1>1 DEF Asks, Open
<1>2. ASSUME NEW r \in Questions, NEW st, st # "asked", UNCHANGED related,
             question' = [question EXCEPT ![r].st = st]
      PROVE  Quiet
  BY <1>0, <1>2 DEF Open
<1>3. CASE MarkAsked
  <2>1. PICK o \in Outcomes :
          /\ Charge(o) /\ (IF o # "ok" THEN Stop ELSE GoTo("sent"))
          /\ question' = [q \in Questions |->
               IF o # "store" /\ q \in chosen.questions
               THEN [st |-> IF question[q].st = "queued" THEN "asked" ELSE question[q].st, at |-> now]
               ELSE question[q]]
    BY <1>3 DEF MarkAsked
  <2>2. CASE o = "store"
    <3>1. question' = question /\ related' = related
      BY <1>0, <1>3, <2>1, <2>2 DEF MarkAsked
    <3> QED BY <1>1, <3>1
  <2>3. CASE o # "store"
    <3>1. /\ \A q \in Questions : q \notin chosen.questions => question'[q] = question[q]
          /\ \A q \in chosen.questions : question'[q].at = now
      BY <2>1, <2>3 DEF OwedInv, Inv, Types
    <3>2. (pc' = "sent" /\ Fine) \/ (pc' = "idle" /\ Fails)
      <4>1. Fine \/ Fails
        BY FineOrFails DEF OwedInv
      <4> QED BY <1>0, <2>1, <4>1 DEF Charge, Fine, Fails, Failures, Stop, GoTo
    <3> QED BY <1>3, <3>1, <3>2 DEF MarkAsked, Asks
  <2> QED BY <2>2, <2>3
<1>4. CASE ExpireQuestion
  <2>1. UNCHANGED related /\ (question' = question \/ \E q \in left : question' = [question EXCEPT ![q].st = "expired"])
    BY <1>4 DEF ExpireQuestion, SetQuestion
  <2>2. left \subseteq Questions
    BY <1>4 DEF ExpireQuestion, OwedInv, Inv, Types
  <2> QED BY <1>1, <1>2, <2>1, <2>2 DEF Asks
<1>5. CASE QueueQuestion
  <2>1. PICK q \in Questions : /\ question[q].st = "none" /\ question' = [question EXCEPT ![q].st = "queued"]
                               /\ related' = related \cup {q}
    BY <1>5 DEF QueueQuestion, SetQuestion, Oldest
  <2>2. Quiet
    BY <1>0, <2>1 DEF Open
  <2> QED BY <2>2 DEF Asks
<1>6. CASE CurateClose
  <2>1. UNCHANGED related /\ (question' = question \/ \E st \in {"confirmed", "rejected"} :
            question[curated].st \in {"queued", "asked"} /\ question' = [question EXCEPT ![curated].st = st])
    BY <1>6 DEF CurateClose, Settle, SetQuestion
  <2>2. CASE curated \in Questions
    BY <1>1, <1>2, <2>1, <2>2 DEF Asks
  <2>3. CASE curated \notin Questions
    <3>1. question' = question
      BY <1>0, <2>1, <2>3
    <3> QED BY <1>1, <2>1, <3>1
  <2> QED BY <2>2, <2>3
<1>7. CASE BeginDigest \/ QuestionsDone \/ JudgeCheckIn \/ Compose \/ SendDigest \/ MarkReasked
           \/ FireGoal \/ SurfaceGoal \/ RecordSent \/ AnswerRead \/ AnswerWrite \/ CurateRead
           \/ CurateRelation \/ Tick \/ Crash \/ UNCHANGED vars
           \/ (\E c \in CheckIns : Deliver(c) \/ ArmGoal(c) \/ UnitDone(c))
  <2>1. UNCHANGED question /\ related' \subseteq related
    BY <1>7 DEF vars, tables, BeginDigest, QuestionsDone, JudgeCheckIn, Compose, SendDigest,
         MarkReasked, FireGoal, SurfaceGoal, RecordSent, Deliver, ArmGoal, UnitDone, AnswerRead,
         AnswerWrite, CurateRead, CurateRelation, Tick, Crash
  <2> QED BY <1>1, <2>1
<1> QED BY <1>3, <1>4, <1>5, <1>6, <1>7 DEF Next, DigestStep

(* Digests have gone out every day since, and did up to a step before.     *)
LEMMA EveryDayBefore ==
    ASSUME OwedInv, [Next]_vars, NEW a, EveryDaySince(a)'
    PROVE  EveryDaySince(a)
<1> SUFFICES ASSUME NEW d \in Days, DayOf(a) <= d, d < DayOf(now) PROVE \E t \in sentOn : DayOf(t) = d
  BY DEF EveryDaySince
<1>0. now \in Int /\ DayLen \in Int /\ DayLen > 0 /\ d \in Int
  BY ClockAssumption, DigestAssumption DEF OwedInv, Inv, Types, Days
<1>1. DayOf(now) \in Int /\ DayOf(now') \in Int /\ DayOf(now) <= DayOf(now')
  <2>1. now' = now \/ now' = now + 1
    BY ClocksIs DEF Clocks
  <2> QED BY <1>0, <2>1 DEF DayOf
<1>2. d < DayOf(now')
  BY <1>0, <1>1
<1>3. PICK t \in sentOn' : DayOf(t) = d
  BY <1>2 DEF EveryDaySince, Days
<1>4. t \in sentOn \/ t = now
  BY LogsIs DEF Logs
<1>5. t # now
  BY <1>0, <1>1, <1>3
<1> QED BY <1>3, <1>4, <1>5

(* What lies before the log the pass reads is of a day before its window.  *)
LEMMA WindowDays ==
    ASSUME NEW t \in Int, NEW n \in Int, NEW m \in Nat, t < n - (m + 2) * DayLen
    PROVE  DayOf(t) + m + 2 <= DayOf(n)
<1> DEFINE L == DayLen
           x == t \div L
           y == n \div L
<1>1. L \in Int /\ L > 0
  BY ClockAssumption
<1>2. x \in Int /\ y \in Int /\ x * L <= t /\ n < (y + 1) * L
  BY <1>1
<1> HIDE DEF L, x, y
<1>3. x * L < (y + 1) * L - (m + 2) * L
  <2>1. x * L \in Int /\ (y + 1) * L \in Int /\ (m + 2) * L \in Int
    BY <1>1, <1>2
  <2>2. t < n - (m + 2) * L
    BY DEF L
  <2> QED BY <1>2, <2>1, <2>2
<1>4. (y + 1) * L - (m + 2) * L = (y - m - 1) * L
  BY <1>1, <1>2
<1>5. ASSUME y - m - 1 <= x PROVE FALSE
  <2>1. PICK k \in Nat : x = (y - m - 1) + k
    <3>1. x - (y - m - 1) \in Nat /\ x = (y - m - 1) + (x - (y - m - 1))
      BY <1>2, <1>5
    <3> QED BY <3>1
  <2>2. x * L = (y - m - 1) * L + k * L
    BY <1>1, <1>2, <2>1
  <2>3. k * L >= 0 /\ k * L \in Int /\ (y - m - 1) * L \in Int
    BY <1>1, <1>2
  <2> QED BY <1>3, <1>4, <2>2, <2>3
<1> QED BY <1>2, <1>5 DEF x, y, L, DayOf

LEMMA DaysInOrder ==
    ASSUME NEW s \in Int, NEW t \in Int, s <= t
    PROVE  DayOf(s) \in Int /\ DayOf(t) \in Int /\ DayOf(s) <= DayOf(t)
BY ClockAssumption DEF DayOf

(* A sweep that reads too short a log would count too few digests.  When   *)
(* one went out every day, what the pass reads holds either all those      *)
(* after the question or more of them than the question lives through.     *)
LEMMA DaysAreRows ==
    ASSUME CloseInv, pc # "idle", NEW a \in Int, Start <= a, EveryDaySince(a),
           NEW t0 \in sentOn, t0 > a, t0 < HistoryStart
    PROVE  DigestsSince(a) > MaxDigestDeferrals
<1> DEFINE M == MaxDigestDeferrals
           D == (DayOf(now) - M - 1) .. (DayOf(now) - 1)
           R == {t \in history.sent : t > a}
<1>0. /\ now \in Int /\ DayLen \in Int /\ DayLen > 0 /\ M \in Nat /\ sentOn \subseteq Int /\ t0 \in Int
      /\ Start \in Nat /\ Horizon \in Nat /\ now <= Horizon /\ IsFiniteSet(sentOn)
      /\ history.sent = {t \in sentOn : t >= HistoryStart}
  BY ClockAssumption, DigestAssumption DEF CloseInv, OwedInv, Inv, Types, TypeOK, StampShape
<1>1. HistoryStart = now - (M + 2) * DayLen
  BY DEF HistoryStart
<1>2. DayOf(now) \in Int /\ DayOf(Horizon) \in Int /\ DayOf(now) <= DayOf(Horizon)
  BY <1>0, DaysInOrder
<1>3. DayOf(a) \in Int /\ DayOf(a) + M + 2 <= DayOf(now) /\ DayOf(a) >= 0
  <2>1. DayOf(t0) + M + 2 <= DayOf(now)
    BY <1>0, <1>1, WindowDays
  <2>2. DayOf(t0) \in Int /\ DayOf(a) \in Int /\ DayOf(a) <= DayOf(t0)
    BY <1>0, DaysInOrder
  <2>3. DayOf(a) >= 0
    <3>1. a >= 0
      BY <1>0
    <3> QED BY <1>0, <3>1 DEF DayOf
  <2> QED BY <1>0, <1>2, <2>1, <2>2, <2>3
<1>4. ASSUME NEW d \in D PROVE \E t \in R : DayOf(t) = d
  <2>1. d \in Int /\ DayOf(now) - M - 1 <= d /\ d < DayOf(now)
    BY <1>0, <1>2
  <2>2. d \in Days /\ DayOf(a) < d
    BY <1>0, <1>2, <1>3, <2>1 DEF Days
  <2>3. PICK t \in sentOn : DayOf(t) = d
    BY <1>3, <2>1, <2>2 DEF EveryDaySince
  <2>4. t \in Int /\ ~(t <= a)
    BY <1>0, <1>3, <2>1, <2>2, <2>3, DaysInOrder
  <2>5. ~(t < HistoryStart)
    BY <1>0, <1>1, <1>2, <2>1, <2>3, <2>4, WindowDays
  <2>6. HistoryStart \in Int
    BY <1>0, <1>1
  <2> QED BY <1>0, <2>3, <2>4, <2>5, <2>6
<1>5. IsFiniteSet(R)
  <2>1. R \in SUBSET sentOn
    BY <1>0
  <2> HIDE DEF R
  <2> QED BY <1>0, <2>1, FS_Subset
<1>6. IsFiniteSet(D) /\ Cardinality(D) = M + 1
  <2>1. PICK l \in Int, u \in Int : l = DayOf(now) - M - 1 /\ u = DayOf(now) - 1
    BY <1>0, <1>2
  <2>2. IsFiniteSet(l .. u) /\ Cardinality(l .. u) = IF l > u THEN 0 ELSE u - l + 1
    BY FS_Interval
  <2>3. ~(l > u) /\ u - l + 1 = M + 1
    BY <1>0, <1>2, <2>1
  <2> QED BY <2>1, <2>2, <2>3
<1>7. DigestsSince(a) = Cardinality(R)
  BY DEF DigestsSince
<1> HIDE DEF D, R
<1> DEFINE f == [d \in D |-> CHOOSE t \in R : DayOf(t) = d]
<1>8. f \in Injection(D, R)
  <2>1. \A d \in D : f[d] \in R /\ DayOf(f[d]) = d
    BY <1>4
  <2>2. f \in [D -> R]
    BY <2>1
  <2> QED BY <2>1, <2>2 DEF Injection, IsInjective
<1> HIDE DEF f
<1>9. Cardinality(D) <= Cardinality(R)
  BY <1>5, <1>8, FS_Injection
<1>10. Cardinality(R) \in Nat
  BY <1>5, FS_CardinalityType
<1> QED BY <1>0, <1>6, <1>7, <1>9, <1>10

LEMMA SinceIsNat ==
    ASSUME CloseInv, pc # "idle", NEW a PROVE DigestsSince(a) \in Nat
<1>1. {t \in history.sent : t > a} \in SUBSET sentOn /\ IsFiniteSet(sentOn)
  BY DEF CloseInv, StampShape
<1>2. PICK S \in SUBSET sentOn : S = {t \in history.sent : t > a}
  BY <1>1
<1>3. IsFiniteSet(S) /\ Cardinality(S) \in Nat
  BY <1>1, FS_Subset, FS_CardinalityType
<1> QED BY <1>2, <1>3 DEF DigestsSince

(* So a question the sweep leaves has seen few.                            *)
LEMMA CountedEnough ==
    ASSUME CloseInv, pc # "idle", NEW q \in Open, DigestsSince(question[q].at) < MaxDigestDeferrals
    PROVE  Young(q)
<1> DEFINE a == question[q].at
<1>0. /\ now \in Int /\ sentOn \subseteq Int /\ IsFiniteSet(sentOn) /\ MaxDigestDeferrals \in Nat
      /\ history.sent = {t \in sentOn : t >= HistoryStart} /\ a \in Int /\ Start <= a
  <2>0. /\ now \in Int /\ sentOn \subseteq Int /\ IsFiniteSet(sentOn) /\ MaxDigestDeferrals \in Nat
        /\ history.sent = {t \in sentOn : t >= HistoryStart}
    BY DigestAssumption DEF CloseInv, OwedInv, Inv, Types, TypeOK, StampShape
  <2>1. q \in Questions /\ question[q].st = "asked"
    BY DEF Open, CloseInv, OwedInv, Inv, Types, TypeOK
  <2>2. a \in Times
    BY <2>1 DEF CloseInv, OwedInv, Inv, Types, TypeOK
  <2>3. a # NoTime /\ Start <= a
    BY <2>1 DEF CloseInv, StampShape, Stamped
  <2> QED BY <2>0, <2>2, <2>3 DEF Times
<1>1. HistoryStart \in Int
  BY <1>0, ClockAssumption, DigestAssumption DEF HistoryStart
<1> SUFFICES ASSUME EveryDaySince(a) PROVE Cardinality(DigestsAfter(a)) < MaxDigestDeferrals
  BY DEF Young
<1>2. CASE \E t0 \in sentOn : t0 > a /\ t0 < HistoryStart
  <2>1. DigestsSince(a) > MaxDigestDeferrals
    BY <1>0, <1>2, DaysAreRows
  <2>2. DigestsSince(a) \in Nat
    BY SinceIsNat
  <2> QED BY <1>0, <2>1, <2>2
<1>3. CASE \A t0 \in sentOn : t0 > a => ~(t0 < HistoryStart)
  <2>1. {t \in history.sent : t > a} = DigestsAfter(a)
    <3>1. \A t \in sentOn : t > a => t >= HistoryStart
      BY <1>0, <1>1, <1>3
    <3>2. \A t : t \in history.sent <=> t \in sentOn /\ t >= HistoryStart
      BY <1>0
    <3> HIDE DEF a
    <3> QED BY <3>1, <3>2 DEF DigestsAfter
  <2>2. Cardinality({t \in history.sent : t > a}) < MaxDigestDeferrals
    BY DEF DigestsSince
  <2> QED BY <2>1, <2>2
<1> QED BY <1>2, <1>3

(* The pass asks about one question at a time.                             *)
LEMMA ChosenIs ==
    ASSUME CloseInv, [Next]_vars
    PROVE  \A p, q \in chosen'.questions : p = q
<1>0. \A p, q \in chosen.questions : p = q
  BY DEF CloseInv, StampShape
<1>1. CASE UNCHANGED chosen \/ chosen'.questions = {}
  BY <1>0, <1>1
<1>2. CASE Compose
  <2>1. CASE Stop
    BY <1>1, <2>1 DEF Stop
  <2>2. CASE ~Stop
    <3>1. PICK low \in BOOLEAN, dormant \in SUBSET Unasked :
            chosen' = [questions |-> IF low THEN {} ELSE Oldest(Unasked \ dormant),
                       goals     |-> IF low THEN {}
                                     ELSE Oldest({c \in Goals : checkin[c].st = "armed"})]
      BY <1>2, <2>2 DEF Compose
    <3>2. Unasked \subseteq Nat
      BY DigestAssumption DEF Unasked, CloseInv, OwedInv, Inv, Types, TypeOK
    <3>3. ASSUME NEW p \in chosen'.questions, NEW q \in chosen'.questions PROVE p = q
      <4>1. p \in Oldest(Unasked \ dormant) /\ q \in Oldest(Unasked \ dormant)
        BY <3>1, <3>3
      <4>2. p \in Nat /\ q \in Nat /\ p <= q /\ q <= p
        BY <3>2, <4>1 DEF Oldest
      <4> QED BY <4>2
    <3> QED BY <3>3
  <2> QED BY <2>1, <2>2
<1>3. CASE ~Compose
  <2>1. UNCHANGED chosen \/ Stop
    <3>1. CASE DigestStep
      BY <1>3, <3>1 DEF DigestStep, passVars, BeginDigest, ExpireQuestion, QuestionsDone,
           JudgeCheckIn, SendDigest, Unsent, MarkReasked, FireGoal, SurfaceGoal, MarkAsked,
           RecordSent, GoTo
    <3>2. CASE ~DigestStep
      BY <1>3, <3>2 DEF Next, vars, passVars, Deliver, ArmGoal, UnitDone, QueueQuestion, AnswerRead,
           AnswerWrite, CurateRead, CurateRelation, CurateClose, Tick, Crash
    <3> QED BY <3>1, <3>2
  <2> QED BY <1>1, <2>1 DEF Stop
<1> QED BY <1>2, <1>3

LEMMA StampStep ==
    ASSUME CloseInv, OwedInv', [Next]_vars
    PROVE  StampShape'
<1>0. /\ now \in Int /\ Start \in Nat /\ Horizon \in Nat /\ IsFiniteSet(sentOn) /\ NoTime \notin Int
      /\ Start <= now /\ now <= Horizon /\ OwedInv
      /\ \A q \in Questions : question[q].at \in Times
  BY DigestAssumption, ClockAssumption DEF CloseInv, OwedInv, Inv, Types, TypeOK, StampShape
<1>1. Clocks /\ Logs /\ Asks /\ Reads
  BY <1>0, ClocksIs, LogsIs, AsksIs, ReadsIs
<1>2. IsFiniteSet(sentOn')
  BY <1>0, <1>1, FS_AddElement DEF Logs
<1>3. now' \in Int /\ now <= now' /\ now' <= Horizon
  BY <1>0, <1>1 DEF Clocks
<1>4. ASSUME NEW q \in Questions, Stamped(q)'
      PROVE  Start <= question'[q].at /\ question'[q].at <= now'
  <2>1. CASE question'[q].at = question[q].at
    <3>1. question[q].at \in Int /\ Start <= question[q].at /\ question[q].at <= now
      BY <1>0, <1>4, <2>1 DEF Stamped, CloseInv, StampShape, Times
    <3> QED BY <1>0, <1>3, <2>1, <3>1
  <2>2. CASE question'[q].at = now
    BY <1>0, <1>3, <2>2
  <2>3. question'[q].at = question[q].at \/ question'[q].at = now
    BY <1>1 DEF Asks
  <2> QED BY <2>1, <2>2, <2>3
<1>5. ASSUME NEW q \in Questions, question'[q].st = "asked" PROVE Stamped(q)'
  <2>1. CASE question[q].st = "asked" /\ question'[q].at = question[q].at
    BY <2>1 DEF Stamped, CloseInv, StampShape
  <2>2. CASE question'[q].at = now
    BY <1>0, <2>2 DEF Stamped
  <2>3. \/ question[q].st = "asked" /\ question'[q].at = question[q].at
        \/ question'[q].at = now
    BY <1>1, <1>5 DEF Asks
  <2> QED BY <2>1, <2>2, <2>3
<1>6. \A p, q \in chosen'.questions : p = q
  BY ChosenIs
<1>7. ASSUME pc' # "idle" PROVE history'.sent = {t \in sentOn' : t >= HistoryStart'}
  <2>1. CASE pc = "idle" /\ BeginDigest
    BY <2>1 DEF BeginDigest, tables, HistoryStart
  <2>2. CASE pc # "idle" /\ UNCHANGED << history, now >>
    <3>1. sentOn' = sentOn
      BY <1>1, <1>7 DEF Logs, Stop
    <3> QED BY <2>2, <3>1 DEF CloseInv, StampShape, HistoryStart
  <2> QED BY <1>1, <1>7, <2>1, <2>2 DEF Reads
<1>8. Start <= now'
  BY <1>0, <1>3
<1> QED BY <1>2, <1>3, <1>4, <1>5, <1>6, <1>7, <1>8 DEF StampShape

(* What the sweep has still to judge.                                      *)
LEMMA LeftIs ==
    ASSUME [Next]_vars, pc = "questions"
    PROVE  \/ pc' = "idle"
           \/ pc' = "questions" /\ left' = left
           \/ pc' = "questions" /\ ExpireQuestion
           \/ pc' = "checkins" /\ QuestionsDone
BY DEF Next, DigestStep, vars, passVars, BeginDigest, ExpireQuestion, QuestionsDone,
       JudgeCheckIn, Compose, SendDigest, MarkReasked, FireGoal, SurfaceGoal, MarkAsked, RecordSent,
       Deliver, ArmGoal, UnitDone, QueueQuestion, AnswerRead, AnswerWrite, CurateRead, CurateRelation,
       CurateClose, Tick, Crash, Stop

LEMMA PhasesAre ==
    ASSUME OwedInv, [Next]_vars, pc \notin {"idle", "questions"}
    PROVE  pc' # "questions"
BY PassIs DEF OwedInv, PassMoves, Stop

LEMMA JudgedStep ==
    ASSUME CloseInv, [Next]_vars
    PROVE  Judged'
<1> SUFFICES ASSUME pc' # "idle", NEW q \in Open'
             PROVE  (pc' = "questions" /\ q \in left') \/ Young(q)'
  BY DEF Judged
<1>0. OwedInv /\ Judged /\ question \in [Questions -> [st : {"none", "queued", "asked", "confirmed",
                              "rejected", "expired"}, at : Times]] /\ related \subseteq Questions
  BY DEF CloseInv, OwedInv, Inv, Types, TypeOK
<1>1. Clocks /\ Logs /\ Asks /\ Reads
  BY <1>0, ClocksIs, LogsIs, AsksIs, ReadsIs
<1>2. now' = now /\ sentOn' = sentOn
  BY <1>1 DEF Clocks, Logs, Stop
<1>3. q \in Questions
  BY <1>0, StepKeepsInv DEF Open, OwedInv, Inv, Types, TypeOK
<1>4. CASE question'[q].at = now
  BY <1>2, <1>4 DEF Young
<1>5. CASE q \in Open /\ question'[q].at = question[q].at
  <2>1. Young(q) => Young(q)'
    BY <1>2, <1>5 DEF Young, EveryDaySince, DigestsAfter
  <2>2. CASE pc = "idle"
    <3>1. BeginDigest
      BY <1>1, <2>2 DEF Reads
    <3> QED BY <1>5, <3>1 DEF BeginDigest
  <2>3. CASE pc = "questions"
    <3>1. q \in left \/ Young(q)
      BY <1>0, <1>5, <2>3 DEF Judged
    <3>2. CASE pc' = "questions" /\ left' = left
      BY <2>1, <3>1, <3>2
    <3>3. CASE pc' = "checkins" /\ QuestionsDone
      BY <2>1, <3>1, <3>3 DEF QuestionsDone
    <3>4. CASE pc' = "questions" /\ ExpireQuestion
      <4>1. PICK r \in left :
              LET stale == DigestsSince(question[r].at) >= MaxDigestDeferrals
              IN  /\ left' = left \ {r}
                  /\ stale => SetQuestion(r, "expired")
        BY <3>4 DEF ExpireQuestion, Stop
      <4>2. CASE q # r
        BY <2>1, <3>1, <3>4, <4>1, <4>2
      <4>3. CASE q = r /\ DigestsSince(question[q].at) >= MaxDigestDeferrals
        <5>1. question'[q].st = "expired"
          BY <1>0, <1>3, <4>1, <4>3 DEF SetQuestion
        <5> QED BY <5>1 DEF Open
      <4>4. CASE q = r /\ ~(DigestsSince(question[q].at) >= MaxDigestDeferrals)
        <5>1. DigestsSince(question[q].at) < MaxDigestDeferrals
          BY <4>4, <2>3, SinceIsNat, DigestAssumption
        <5>2. Young(q)
          BY <1>5, <2>3, <5>1, CountedEnough
        <5> QED BY <2>1, <5>2
      <4> QED BY <4>2, <4>3, <4>4
    <3> QED BY <2>3, <3>2, <3>3, <3>4, LeftIs
  <2>4. CASE pc \notin {"idle", "questions"}
    BY <1>0, <1>5, <2>1, <2>4 DEF Judged
  <2> QED BY <2>2, <2>3, <2>4
<1>6. question'[q].at = now \/ (q \in Open /\ question'[q].at = question[q].at)
  <2>1. q \in Open' => \A r \in Questions : question'[r] = question[r] => (related' = related /\ r = q => q \in Open)
    BY DEF Open
  <2> QED BY <1>1, <1>3, <2>1 DEF Asks
<1> QED BY <1>4, <1>5, <1>6

(* No digest of the present instant, or of its date, went out before the   *)
(* running one.                                                            *)
LEMMA NoneSinceNow ==
    ASSUME OwedInv
    PROVE  /\ DigestsAfter(now) = {}
           /\ pc # "idle" => SentSince(now) = {} /\ now \notin sentOn
<1>1. now \in Int /\ sentOn \subseteq Int /\ \A t \in sentOn : t <= now
  BY DEF OwedInv, Inv, Types, TypeOK, PassShape
<1>2. ASSUME NEW t \in sentOn PROVE ~(t > now) /\ (t >= now => t = now)
  BY <1>1
<1>3. pc # "idle" => now \notin sentOn
  BY DEF OwedInv, PassShape
<1>4. DigestsAfter(now) = {}
  BY <1>2 DEF DigestsAfter
<1>5. ASSUME pc # "idle" PROVE SentSince(now) = {}
  BY <1>2, <1>3, <1>5 DEF SentSince
<1> QED BY <1>3, <1>4, <1>5

LEMMA NoneOverdueStep ==
    ASSUME CloseInv, OwedInv', [Next]_vars
    PROVE  NoneOverdue'
<1> SUFFICES ASSUME NEW q \in Open', NEW a, a = question'[q].at, EveryDaySince(a)'
             PROVE  Cardinality(DigestsAfter(a)') <= MaxDigestDeferrals
  BY DEF NoneOverdue, EveryDaySince, DigestsAfter
<1>0. /\ OwedInv /\ MaxDigestDeferrals \in Nat /\ IsFiniteSet(sentOn)
      /\ Clocks /\ Logs /\ Asks
  BY ClocksIs, LogsIs, AsksIs, DigestAssumption DEF CloseInv, StampShape
<1>1. CASE a = now /\ now' = now
  <2>1. \A t \in sentOn' : t \in Int /\ t <= now
    BY <1>1 DEF OwedInv, Inv, Types, TypeOK, PassShape
  <2>2. now \in Int
    BY <1>0 DEF OwedInv, Inv, Types
  <2>3. DigestsAfter(a)' = {}
    BY <1>1, <2>1, <2>2 DEF DigestsAfter
  <2> QED BY <1>0, <2>3, FS_EmptySet
<1>2. CASE q \in Open /\ a = question[q].at
  <2>1. EveryDaySince(a)
    BY <1>2, EveryDayBefore, <1>0
  <2>2. CASE sentOn' = sentOn
    BY <1>2, <2>1, <2>2 DEF CloseInv, NoneOverdue, DigestsAfter
  <2>3. CASE pc = "sent" /\ sentOn' = sentOn \cup {now}
    <3>1. CASE a = now
      <4>1. now' = now
        BY <1>0, <2>3 DEF Clocks
      <4> QED BY <1>1, <1>2, <3>1, <4>1
    <3>2. CASE Cardinality(DigestsAfter(a)) < MaxDigestDeferrals
      <4>1. DigestsAfter(a)' \subseteq DigestsAfter(a) \cup {now}
        BY <2>3 DEF DigestsAfter
      <4>2. IsFiniteSet(DigestsAfter(a)) /\ Cardinality(DigestsAfter(a)) \in Nat
        <5>1. PICK S \in SUBSET sentOn : S = DigestsAfter(a)
          BY DEF DigestsAfter
        <5> QED BY <1>0, <5>1, FS_Subset, FS_CardinalityType
      <4>3. /\ IsFiniteSet(DigestsAfter(a) \cup {now})
            /\ Cardinality(DigestsAfter(a) \cup {now}) <= Cardinality(DigestsAfter(a)) + 1
            /\ Cardinality(DigestsAfter(a) \cup {now}) \in Nat
        <5>1. PICK c \in Nat : c = Cardinality(DigestsAfter(a))
          BY <4>2
        <5>2. /\ IsFiniteSet(DigestsAfter(a) \cup {now})
              /\ Cardinality(DigestsAfter(a) \cup {now}) = IF now \in DigestsAfter(a) THEN c ELSE c + 1
          BY <4>2, <5>1, FS_AddElement
        <5> QED BY <5>1, <5>2
      <4>4. Cardinality(DigestsAfter(a)') <= Cardinality(DigestsAfter(a) \cup {now})
            /\ Cardinality(DigestsAfter(a)') \in Nat
        <5>1. PICK S \in SUBSET (DigestsAfter(a) \cup {now}) : S = DigestsAfter(a)'
          BY <4>1
        <5> QED BY <4>3, <5>1, FS_Subset, FS_CardinalityType
      <4>5. Cardinality(DigestsAfter(a)') <= MaxDigestDeferrals
        BY <1>0, <3>2, <4>2, <4>3, <4>4
      <4> QED BY <4>5
    <3>3. Young(q)
      BY <1>2, <2>3 DEF CloseInv, Judged
    <3> QED BY <1>2, <2>1, <3>1, <3>2, <3>3 DEF Young
  <2> QED BY <1>0, <2>2, <2>3 DEF Logs
<1>3. q \in Questions
  BY DEF Open, OwedInv, Inv, Types, TypeOK
<1>4. \/ a = now /\ now' = now
      \/ q \in Open /\ a = question[q].at
  <2>1. q \in Open' => \A r \in Questions : question'[r] = question[r] => (related' = related /\ r = q => q \in Open)
    BY DEF Open
  <2> QED BY <1>0, <1>3, <2>1 DEF Asks
<1> QED BY <1>1, <1>2, <1>4

(* The counts of Booked, before a step and after it.                       *)
LEMMA BooksAre ==
    ASSUME CloseInv, NEW a
    PROVE  /\ IsFiniteSet(AskedSince(a)) /\ Cardinality(AskedSince(a)) \in Nat
           /\ IsFiniteSet(SentSince(a)) /\ Cardinality(SentSince(a)) \in Nat
<1>1. IsFiniteSet(Questions) /\ IsFiniteSet(sentOn)
  BY DigestAssumption DEF CloseInv, StampShape
<1>2. PICK A \in SUBSET Questions : A = AskedSince(a)
  BY DEF AskedSince
<1>3. PICK S \in SUBSET sentOn : S = SentSince(a)
  BY DEF SentSince
<1> QED BY <1>1, <1>2, <1>3, FS_Subset, FS_CardinalityType

LEMMA BookedSum ==
    ASSUME NEW n \in Nat, NEW s \in Nat, NEW f \in Nat, NEW g \in {0, 1},
           NEW n1 \in Nat, NEW s1 \in Nat, NEW f1 \in Nat, NEW g1 \in {0, 1},
           n <= s + f + g, f1 = f \/ f1 = f + 1, s1 >= s,
           \/ n1 <= n /\ (g1 >= g \/ f1 = f + 1 \/ s1 = s + 1)
           \/ n1 <= n + 1 /\ g = 0 /\ (g1 = 1 \/ f1 = f + 1)
           \/ n1 = 0
    PROVE  n1 <= s1 + f1 + g1
OBVIOUS

LEMMA BookedStep ==
    ASSUME CloseInv, OwedInv', StampShape', [Next]_vars
    PROVE  Booked'
<1> SUFFICES ASSUME NEW a \in Int
             PROVE  Cardinality(AskedSince(a)') <= Cardinality(SentSince(a)') + Failures' + Going'
  BY DEF Booked
<1>0. /\ OwedInv /\ Logs /\ Asks /\ PassMoves /\ PassShape /\ IsFiniteSet(Questions)
      /\ IsFiniteSet(sentOn) /\ IsFiniteSet(sentOn') /\ now \in Int /\ sentOn \subseteq Int
      /\ \A q \in Questions : question[q].at \in Times
  BY LogsIs, AsksIs, PassIs, DigestAssumption DEF CloseInv, OwedInv, StampShape, Inv, Types, TypeOK
<1>1. PICK n \in Nat : n = Cardinality(AskedSince(a))
  BY BooksAre
<1>2. PICK s \in Nat : s = Cardinality(SentSince(a))
  BY BooksAre
<1>3. PICK n1 \in Nat : n1 = Cardinality(AskedSince(a)')
  <2>1. PICK A \in SUBSET Questions : A = AskedSince(a)'
    BY DEF AskedSince
  <2> QED BY <1>0, <2>1, FS_Subset, FS_CardinalityType
<1>4. PICK s1 \in Nat : s1 = Cardinality(SentSince(a)')
  <2>1. PICK S \in SUBSET sentOn' : S = SentSince(a)'
    BY DEF SentSince
  <2> QED BY <1>0, <2>1, FS_Subset, FS_CardinalityType
<1>5. PICK f \in Nat, f1 \in Nat : /\ f = Failures /\ f1 = Failures' /\ (f1 = f \/ f1 = f + 1)
                                   /\ (f1 = f <=> Fine)
  BY <1>0, FailuresAre DEF Fine, Fails
<1>6. n <= s + f + Going
  BY <1>1, <1>2, <1>5 DEF CloseInv, Booked
<1>7. Going \in {0, 1} /\ Going' \in {0, 1}
  BY DEF Going
<1>8. s1 >= s /\ (sentOn' = sentOn \cup {now} /\ now \notin sentOn /\ now >= a => s1 = s + 1)
  <2>1. sentOn' = sentOn => s1 = s
    BY <1>2, <1>4 DEF SentSince
  <2>2. CASE sentOn' = sentOn \cup {now}
    <3>1. CASE now >= a
      <4>1. SentSince(a)' = SentSince(a) \cup {now}
        BY <2>2, <3>1 DEF SentSince
      <4>2. s1 = IF now \in SentSince(a) THEN s ELSE s + 1
        BY <1>2, <1>4, <4>1, BooksAre, FS_AddElement
      <4> QED BY <4>2 DEF SentSince
    <3>2. CASE ~(now >= a)
      <4>1. SentSince(a)' = SentSince(a)
        BY <2>2, <3>2 DEF SentSince
      <4> QED BY <1>2, <1>4, <3>2, <4>1
    <3> QED BY <3>1, <3>2
  <2> QED BY <1>0, <2>1, <2>2 DEF Logs
<1>9. CASE \A q \in Questions : question'[q].at = question[q].at
  <2>1. AskedSince(a)' = AskedSince(a)
    BY <1>9 DEF AskedSince, Stamped
  <2>2. n1 = n
    BY <1>1, <1>3, <2>1
  <2>3. CASE Going' >= Going \/ f1 = f + 1
    BY <1>5, <1>6, <1>7, <1>8, <1>3, <1>4, <2>2, <2>3, BookedSum
  <2>4. CASE pc = "sent" /\ pc' # "sent" /\ Fine
    <3>1. RecordSent /\ now \in sentOn'
      BY <1>0, <2>4, FineStops DEF FireGoal, SurfaceGoal, MarkAsked
    <3>2. now \notin sentOn
      BY <1>0, <2>4, NoneSinceNow
    <3>3. sentOn' = sentOn \cup {now}
      BY <1>0, <3>1, <3>2 DEF Logs
    <3>4. CASE now >= a
      <4>1. s1 = s + 1
        BY <1>8, <3>2, <3>3, <3>4
      <4> QED BY <1>5, <1>6, <1>7, <1>8, <1>3, <1>4, <2>2, <4>1, BookedSum
    <3>5. CASE ~(now >= a)
      <4>1. ASSUME NEW q \in Questions, Stamped(q) PROVE ~(question[q].at >= a)
        <5>1. question[q].at \in Int /\ question[q].at <= now
          BY <1>0, <4>1 DEF Stamped, Times, CloseInv, StampShape
        <5> QED BY <1>0, <3>5, <5>1
      <4>2. AskedSince(a) = {}
        BY <4>1 DEF AskedSince
      <4>3. n1 = 0
        BY <1>3, <2>1, <4>2, FS_EmptySet
      <4> QED BY <1>5, <1>6, <1>7, <1>8, <1>3, <1>4, <4>3, BookedSum
    <3> QED BY <3>4, <3>5
  <2>5. (Going' >= Going \/ f1 = f + 1) \/ (pc = "sent" /\ pc' # "sent" /\ Fine)
    BY <1>5 DEF Going
  <2> QED BY <2>3, <2>4, <2>5
<1>10. CASE /\ pc = "question"
            /\ \A q \in Questions : q \notin chosen.questions => question'[q] = question[q]
            /\ (pc' = "sent" /\ Fine) \/ (pc' = "idle" /\ Fails)
  <2>1. AskedSince(a)' \subseteq AskedSince(a) \cup chosen.questions
    BY <1>10 DEF AskedSince, Stamped
  <2>2. PICK x : chosen.questions \subseteq {x}
    BY DEF CloseInv, StampShape
  <2>3. AskedSince(a)' \subseteq AskedSince(a) \cup {x}
    BY <2>1, <2>2
  <2>4. n1 <= n + 1
    <3>1. /\ IsFiniteSet(AskedSince(a) \cup {x})
          /\ Cardinality(AskedSince(a) \cup {x}) = IF x \in AskedSince(a) THEN n ELSE n + 1
      BY <1>1, BooksAre, FS_AddElement
    <3>2. PICK A \in SUBSET (AskedSince(a) \cup {x}) : A = AskedSince(a)'
      BY <2>3
    <3>3. n1 <= Cardinality(AskedSince(a) \cup {x})
      BY <1>3, <3>1, <3>2, FS_Subset
    <3> QED BY <3>1, <3>3
  <2>5. Going = 0 /\ (Going' = 1 \/ f1 = f + 1)
    BY <1>5, <1>10 DEF Going, Fails
  <2> QED BY <1>5, <1>6, <1>7, <1>8, <1>3, <1>4, <2>4, <2>5, BookedSum
<1> QED BY <1>0, <1>9, <1>10 DEF Asks

LEMMA CloseInit == Init => CloseInv
<1> SUFFICES ASSUME Init PROVE CloseInv
  OBVIOUS
<1>1. OwedInv
  BY OwedInit
<1>2. Judged /\ NoneOverdue
  BY DEF Init, Judged, NoneOverdue, Open
<1>3. StampShape
  <2>1. IsFiniteSet({})
    BY FS_EmptySet
  <2> QED BY <2>1, DigestAssumption DEF Init, StampShape, Stamped
<1>4. ASSUME NEW a \in Int PROVE Cardinality(AskedSince(a)) <= Cardinality(SentSince(a)) + Failures + Going
  <2>1. AskedSince(a) = {} /\ SentSince(a) = {} /\ Going = 0 /\ Failures = 0
    BY DEF Init, AskedSince, SentSince, Going, Failures, Stamped
  <2> QED BY <2>1, FS_EmptySet
<1> QED BY <1>1, <1>2, <1>3, <1>4 DEF CloseInv, Booked

LEMMA CloseStep == CloseInv /\ [Next]_vars => CloseInv'
<1> SUFFICES ASSUME CloseInv, [Next]_vars PROVE CloseInv'
  OBVIOUS
<1>1. OwedInv'
  BY OwedStep DEF CloseInv
<1>2. StampShape'
  BY <1>1, StampStep
<1> QED BY <1>1, <1>2, JudgedStep, NoneOverdueStep, BookedStep DEF CloseInv

(* Of the open questions there is one asked first.                         *)
LEMMA AskedFirst ==
    ASSUME CloseInv, Open # {}
    PROVE  \E q \in Open : \A p \in Open : question[p].at >= question[q].at
<1> DEFINE T == {question[q].at : q \in Open}
<1>1. \A q \in Open : question[q].at \in Nat
  <2> SUFFICES ASSUME NEW q \in Open PROVE question[q].at \in Nat
    OBVIOUS
  <2>1. q \in Questions /\ question[q].st = "asked"
    BY DEF Open, CloseInv, OwedInv, Inv, Types, TypeOK
  <2>2. question[q].at \in Times
    BY <2>1 DEF CloseInv, OwedInv, Inv, Types, TypeOK
  <2>3. question[q].at # NoTime /\ Start <= question[q].at
    BY <2>1 DEF CloseInv, StampShape, Stamped
  <2> QED BY <2>2, <2>3, DigestAssumption DEF Times
<1>2. T \subseteq Nat /\ T # {}
  BY <1>1
<1>3. PICK a \in T : \A t \in T : a <= t
  <2> HIDE DEF T
  <2> QED BY <1>2, LeastExists
<1>4. PICK q \in Open : a = question[q].at
  BY <1>3
<1>5. ASSUME NEW p \in Open PROVE question[p].at >= a
  <2>1. question[p].at \in T
    OBVIOUS
  <2>2. a <= question[p].at
    BY <1>3, <2>1
  <2>3. a \in Nat /\ question[p].at \in Nat
    BY <1>1, <1>4
  <2> QED BY <2>2, <2>3
<1> QED BY <1>4, <1>5

LEMMA FewAreOpen ==
    ASSUME CloseInv, EveryDaySince(Start)
    PROVE  Cardinality(Open) <= MaxDigestDeferrals + 1 + Failures
<1>0. /\ MaxDigestDeferrals \in Nat /\ Failures \in Nat /\ now \in Int /\ Start \in Nat /\ OwedInv
      /\ IsFiniteSet(Questions) /\ IsFiniteSet(sentOn) /\ sentOn \subseteq Int
      /\ \A t \in sentOn : t <= now
  BY DigestAssumption, SumIs DEF CloseInv, OwedInv, PassShape, Inv, Types, TypeOK, StampShape, Failures
<1>1. CASE Open = {}
  <2>1. Cardinality(Open) = 0
    BY <1>1, FS_EmptySet
  <2> QED BY <1>0, <2>1
<1>2. CASE Open # {}
  <2>1. PICK q \in Open : \A p \in Open : question[p].at >= question[q].at
    BY <1>2, AskedFirst
  <2> DEFINE a == question[q].at
  <2>2. q \in Questions /\ a # NoTime /\ a \in Int /\ Start <= a
    <3>1. q \in Questions /\ question[q].st = "asked"
      BY DEF Open, CloseInv, OwedInv, Inv, Types, TypeOK
    <3>2. a \in Times
      BY <3>1 DEF CloseInv, OwedInv, Inv, Types, TypeOK
    <3>3. a # NoTime /\ Start <= a
      BY <3>1 DEF CloseInv, StampShape, Stamped
    <3> QED BY <3>1, <3>2, <3>3 DEF Times
  <2>3. EveryDaySince(a)
    <3>1. DayOf(Start) \in Int /\ DayOf(a) \in Int /\ DayOf(Start) <= DayOf(a)
      BY <1>0, <2>2, DaysInOrder
    <3>2. \A d \in Days : d \in Int
      BY DEF Days
    <3>3. \A d \in Days : DayOf(a) <= d => DayOf(Start) <= d
      BY <3>1, <3>2
    <3> QED BY <3>3 DEF EveryDaySince
  <2>4. Open \subseteq AskedSince(a)
    <3>1. ASSUME NEW p \in Open PROVE p \in Questions /\ Stamped(p)
      <4>1. p \in Questions /\ question[p].st = "asked"
        BY DEF Open, CloseInv, OwedInv, Inv, Types, TypeOK
      <4> QED BY <4>1 DEF CloseInv, StampShape
    <3> QED BY <2>1, <3>1 DEF AskedSince
  <2>5. Cardinality(Open) <= Cardinality(AskedSince(a)) /\ Cardinality(Open) \in Nat
    <3>1. PICK S \in SUBSET AskedSince(a) : S = Open
      BY <2>4
    <3> QED BY <3>1, BooksAre, FS_Subset, FS_CardinalityType
  <2>6. PICK n \in Nat : n = Cardinality(AskedSince(a))
    BY BooksAre
  <2>7. PICK s \in Nat : s = Cardinality(SentSince(a))
    BY BooksAre
  <2>8. n <= s + Failures + Going
    BY <2>2, <2>6, <2>7 DEF CloseInv, Booked
  <2>9. PICK m \in Nat : m = Cardinality(DigestsAfter(a)) /\ s <= m + 1
    <3>1. IsFiniteSet(DigestsAfter(a)) /\ Cardinality(DigestsAfter(a)) \in Nat
      <4>1. PICK S \in SUBSET sentOn : S = DigestsAfter(a)
        BY DEF DigestsAfter
      <4> QED BY <1>0, <4>1, FS_Subset, FS_CardinalityType
    <3>2. PICK m \in Nat : m = Cardinality(DigestsAfter(a))
      BY <3>1
    <3>3. /\ IsFiniteSet(DigestsAfter(a) \cup {a})
          /\ Cardinality(DigestsAfter(a) \cup {a}) = IF a \in DigestsAfter(a) THEN m ELSE m + 1
      BY <3>1, <3>2, FS_AddElement
    <3>4. SentSince(a) \subseteq DigestsAfter(a) \cup {a}
      <4>1. ASSUME NEW t \in SentSince(a) PROVE t \in DigestsAfter(a) \cup {a}
        <5>1. t \in sentOn /\ t \in Int /\ t >= a
          BY <1>0 DEF SentSince
        <5>2. t > a \/ t = a
          BY <2>2, <5>1
        <5> QED BY <5>1, <5>2 DEF DigestsAfter
      <4> QED BY <4>1
    <3>5. PICK S \in SUBSET (DigestsAfter(a) \cup {a}) : S = SentSince(a)
      BY <3>4
    <3>6. s <= Cardinality(DigestsAfter(a) \cup {a})
      BY <2>7, <3>3, <3>5, FS_Subset
    <3> QED BY <3>2, <3>3, <3>6
  <2>10. CASE pc # "sent"
    <3>1. m <= MaxDigestDeferrals
      BY <2>3, <2>9 DEF CloseInv, NoneOverdue
    <3> QED BY <1>0, <2>5, <2>6, <2>8, <2>9, <2>10, <3>1 DEF Going
  <2>11. CASE pc = "sent"
    <3>1. Going = 1
      BY <2>11 DEF Going
    <3>2. CASE a = now
      <4>1. SentSince(a) = {}
        BY <1>0, <2>11, <3>2, NoneSinceNow
      <4>2. s = 0
        BY <2>7, <4>1, FS_EmptySet
      <4> QED BY <1>0, <2>5, <2>6, <2>8, <3>1, <4>2
    <3>3. CASE m < MaxDigestDeferrals
      BY <1>0, <2>5, <2>6, <2>8, <2>9, <3>1, <3>3
    <3>4. Young(q)
      BY <2>11 DEF CloseInv, Judged
    <3> QED BY <2>3, <2>9, <3>2, <3>3, <3>4 DEF Young
  <2> QED BY <2>10, <2>11
<1> QED BY <1>1, <1>2

(* While a digest goes out every day, no question outlives                 *)
(* MaxDigestDeferrals digests after the one that asked it, and no more     *)
(* than that and one are open at once: the window the sweep reads is wide  *)
(* enough for what it counts, and each failure leaves at most one more.    *)
THEOREM QuestionsAreClosed == Spec => []QuestionsClose
<1>1. CloseInv => QuestionsClose
  <2> SUFFICES ASSUME CloseInv PROVE QuestionsClose
    OBVIOUS
  <2>0. Failures \in Nat /\ MaxDigestDeferrals \in Nat /\ IsFiniteSet(sentOn)
    BY DigestAssumption, SumIs DEF CloseInv, OwedInv, PassShape, StampShape, Failures
  <2>1. ASSUME NEW q \in Open, EveryDaySince(question[q].at)
        PROVE  Cardinality(DigestsAfter(question[q].at)) <= MaxDigestDeferrals + Failures
    <3>1. PICK S \in SUBSET sentOn : S = DigestsAfter(question[q].at)
      BY DEF DigestsAfter
    <3>2. Cardinality(S) \in Nat
      BY <2>0, <3>1, FS_Subset, FS_CardinalityType
    <3>3. Cardinality(S) <= MaxDigestDeferrals
      BY <2>1, <3>1 DEF CloseInv, NoneOverdue
    <3> QED BY <2>0, <3>1, <3>2, <3>3
  <2> QED BY <2>1, FewAreOpen DEF QuestionsClose
<1> QED BY <1>1, CloseInit, CloseStep, PTL DEF Spec

============================================================================
