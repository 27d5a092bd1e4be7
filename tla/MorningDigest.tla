--------------------------- MODULE MorningDigest ---------------------------
(***************************************************************************)
(* The morning digest (internal/brain/digest.go and digest_checkin.go):    *)
(* one message a day that asks check-ins again, asks one goal check-in and *)
(* one relation question, and names the tasks due.  What it said is marked *)
(* after the send, row by row; what nobody answers is closed by its own    *)
(* sweeps.  The chat's answers (checkin.go, goal_checkin.go) and the       *)
(* curation of relations (relation_curation.go) run beside it and share    *)
(* the triggers and pending_questions tables.                              *)
(*                                                                         *)
(* A check-in is a fired trigger the user was shown and has not answered.  *)
(* Recurring rows armed before ADR-0034, the only ones the digest carries  *)
(* as items, the sweep of past reminders (ReminderPass) and the words of   *)
(* the message are left out.                                               *)
(***************************************************************************)
EXTENDS ReminderClock, FiniteSets, Sequences

CONSTANTS
    QuietEnd,
    CheckIns,           \* trigger ids
    Goals,              \* those that ask about a goal
    Questions,          \* pending question ids, in the order they are queued
    MaxCheckinReasks, MaxReasksPerDigest, MaxDigestDeferrals,
    TasksDue,           \* whether a task may be due on a morning: a set of Booleans
    Start, Horizon, MaxCrashes, MaxFaults       \* bounds

ASSUME DigestAssumption ==
    /\ QuietEnd \in 0 .. DayLen - 1
    /\ CheckIns \subseteq Nat /\ IsFiniteSet(CheckIns) /\ Goals \subseteq CheckIns
    /\ Questions \subseteq Nat /\ IsFiniteSet(Questions)
    /\ {MaxCheckinReasks, MaxReasksPerDigest, MaxDigestDeferrals} \subseteq Nat
    /\ TasksDue \subseteq BOOLEAN /\ TasksDue # {}
    /\ Start \in Nat /\ Horizon \in Nat /\ Start <= Horizon
    /\ {MaxCrashes, MaxFaults} \subseteq Nat

VARIABLES
    now,
    checkin,    \* [CheckIns -> [st, at, reasks, todo, snoozed]]
    question,   \* [Questions -> [st, at]], at = asked_at
    related,    \* the questions whose relation the table still holds
    sentOn,     \* the instants of the check.digest.sent rows
    pc,         \* where the digest is
    left,       \* rows its sweep has still to judge
    asks,       \* the check-ins it asks again
    chosen,     \* the question and the goal it asks: sets of one or none
    history,    \* what the log held when the pass began: [sent, snoozed]
    apc, answered,      \* an answer to a check-in in progress
    kpc, curated,       \* a curation of a relation in progress
    crashes, faults,
    carried     \* ghost: messages that reached the user, about each thing

tables == << checkin, question, related, sentOn >>
passVars == << pc, left, asks, chosen, history >>
otherVars == << apc, answered, kpc, curated >>
ghostVars == << carried >>
vars == << now, tables, passVars, otherVars, crashes, faults, ghostVars >>

Days == 0 .. DayOf(Horizon)

----------------------------------------------------------------------------
(* Reads.                                                                  *)

(* Mutant: a window too narrow to hold what is counted in it.              *)
BugHistoryStart == now - (MaxDigestDeferrals - 1) * DayLen

HistoryStart == now - (MaxDigestDeferrals + 2) * DayLen     \* digestHistoryDays

Latest(S) == CHOOSE t \in S : \A s \in S : s <= t
LastDigest == IF sentOn = {} THEN NoTime ELSE Latest(sentOn)

Delivered == {c \in CheckIns : checkin[c].st = "open"}
Unasked == {q \in related : question[q].st = "queued"}
Open == {q \in related : question[q].st = "asked"}

DigestsSince(at) == Cardinality({t \in history.sent : t > at})

(***************************************************************************)
(* QuietHours.CheckinStep, on a check-in and when it was last put off.     *)
(***************************************************************************)
ReaskDue(c, snoozed) ==
    /\ c.reasks < MaxCheckinReasks
    /\ MorningsAfter(QuietEnd, c.at, now, 1) > 0
    /\ c.reasks > 0 \/ (snoozed # NoTime /\ MorningsAfter(QuietEnd, snoozed, now, 1) > 0)

(* Mutants: a check-in asked often enough goes on waiting; the last        *)
(* morning is one later than morningsAfter counts.                         *)
BugCheckinStep(c, todo, snoozed) ==
    LET mornings == MorningsAfter(QuietEnd, c.at, now, MaxCheckinReasks + 1)
    IN  CASE mornings = 0 -> "wait"
          [] mornings > 0 /\ todo /\ (ReaskDue(c, snoozed) \/ c.reasks >= MaxCheckinReasks) -> "reask"
          [] mornings > MaxCheckinReasks /\ ~(todo /\ ReaskDue(c, snoozed)) -> "expire"
          [] OTHER -> "wait"

BugLastMorning(c, todo, snoozed) ==
    LET mornings == MorningsAfter(QuietEnd, c.at, now, MaxCheckinReasks + 1)
    IN  CASE mornings = 0 -> "wait"
          [] mornings > 0 /\ c.reasks >= MaxCheckinReasks -> "expire"
          [] mornings > 0 /\ todo /\ ReaskDue(c, snoozed) -> "reask"
          [] mornings > MaxCheckinReasks + 1 /\ ~(todo /\ ReaskDue(c, snoozed)) -> "expire"
          [] OTHER -> "wait"

CheckinStep(c, todo, snoozed) ==
    LET mornings == MorningsAfter(QuietEnd, c.at, now, MaxCheckinReasks + 1)
    IN  CASE mornings = 0 -> "wait"
          [] mornings > 0 /\ c.reasks >= MaxCheckinReasks -> "expire"
          [] mornings > 0 /\ todo /\ ReaskDue(c, snoozed) -> "reask"
          [] mornings > MaxCheckinReasks /\ ~(todo /\ ReaskDue(c, snoozed)) -> "expire"
          [] OTHER -> "wait"

(* The longest waiting first, and no more than one digest asks.            *)
Earlier(c, d) ==
    \/ checkin[c].at < checkin[d].at
    \/ checkin[c].at = checkin[d].at /\ c < d
LongestWaiting(S) ==
    {c \in S : Cardinality({d \in S : Earlier(d, c)}) < MaxReasksPerDigest}

----------------------------------------------------------------------------
(* Init: nothing delivered, nothing queued.                                *)

Init ==
    /\ now = Start
    /\ checkin = [c \in CheckIns |->
                    [st |-> "none", at |-> NoTime, reasks |-> 0, todo |-> c \notin Goals,
                     snoozed |-> NoTime]]
    /\ question = [q \in Questions |-> [st |-> "none", at |-> NoTime]]
    /\ related = {} /\ sentOn = {}
    /\ pc = "idle" /\ left = {} /\ asks = {}
    /\ chosen = [questions |-> {}, goals |-> {}]
    /\ history = [sent |-> {}, snoozed |-> [c \in CheckIns |-> NoTime]]
    /\ apc = "idle" /\ answered = NoTime /\ kpc = "idle" /\ curated = NoTime
    /\ crashes = 0 /\ faults = 0
    /\ carried = [today |-> 0, questions |-> [q \in Questions |-> 0],
                  checkins |-> [c \in CheckIns |-> 0]]

----------------------------------------------------------------------------
(* A step ends "ok", or "store" when its call fails and changes nothing,   *)
(* or "log" when the row after the write fails.  Both return an error and  *)
(* end the digest where it is.                                             *)
Outcomes == {"ok", "store", "log"}

Charge(o) ==
    /\ o # "ok" => faults < MaxFaults
    /\ faults' = IF o = "ok" THEN faults ELSE faults + 1
    /\ UNCHANGED crashes

Stop ==
    /\ pc' = "idle" /\ left' = {} /\ asks' = {}
    /\ chosen' = [questions |-> {}, goals |-> {}]
    /\ history' = [sent |-> {}, snoozed |-> [c \in CheckIns |-> NoTime]]

GoTo(label) == pc' = label /\ UNCHANGED << left, asks, chosen, history >>

SetCheckin(c, st) == checkin' = [checkin EXCEPT ![c].st = st]
SetQuestion(q, st) == question' = [question EXCEPT ![q].st = st]

BeginDigest ==
    /\ pc = "idle" /\ DigestDue(QuietEnd, LastDigest, now)
    /\ pc' = "questions" /\ left' = Open
    /\ history' = [sent    |-> {t \in sentOn : t >= HistoryStart},
                   snoozed |-> [c \in CheckIns |->
                                  IF checkin[c].snoozed # NoTime /\ checkin[c].snoozed >= HistoryStart
                                  THEN checkin[c].snoozed ELSE NoTime]]
    /\ UNCHANGED << now, tables, asks, chosen, otherVars, crashes, faults, ghostVars >>

(* expireStaleQuestions: an open question closes once MaxDigestDeferrals   *)
(* digests went out after it.  One answered meanwhile is an error.         *)
ExpireQuestion ==
    /\ pc = "questions" /\ left # {}
    /\ \E q \in left, o \in Outcomes :
        LET stale == DigestsSince(question[q].at) >= MaxDigestDeferrals
            open  == question[q].st = "asked"
        IN  /\ o # "ok" => stale
            /\ Charge(o)
            /\ IF stale /\ open /\ o # "store" THEN SetQuestion(q, "expired") ELSE UNCHANGED question
            /\ IF o # "ok" \/ (stale /\ ~open) THEN Stop
               ELSE left' = left \ {q} /\ UNCHANGED << pc, asks, chosen, history >>
    /\ UNCHANGED << now, checkin, related, sentOn, otherVars, ghostVars >>

QuestionsDone ==
    /\ pc = "questions" /\ left = {}
    /\ pc' = "checkins" /\ left' = Delivered
    /\ UNCHANGED << now, tables, asks, chosen, history, otherVars, crashes, faults, ghostVars >>

(* Mutant: the close looks only at what the pass read.                     *)
BugCloses(c) == TRUE

(* ExpireUnanswered's and Reask's precondition.                            *)
Closes(c) == checkin[c].st = "open"

(* openCheckins: a unit that cannot be read leaves its check-in unasked,   *)
(* and its lifetime still closes it; a row answered meanwhile is skipped.  *)
JudgeCheckIn ==
    /\ pc = "checkins" /\ left # {}
    /\ \E c \in left, readable \in BOOLEAN, o \in Outcomes :
        LET step    == CheckinStep(checkin[c], readable /\ checkin[c].todo, history.snoozed[c])
            expires == step = "expire" /\ Closes(c)
        IN  /\ readable \/ o = "ok"
            /\ o # "ok" => step = "expire"
            /\ Charge(IF readable THEN o ELSE "store")
            /\ IF expires /\ o # "store" THEN SetCheckin(c, "expired") ELSE UNCHANGED checkin
            /\ IF o # "ok" THEN Stop
               ELSE /\ left' = left \ {c}
                    /\ asks' = IF step = "reask" THEN asks \cup {c} ELSE asks
                    /\ UNCHANGED << pc, chosen, history >>
    /\ UNCHANGED << now, question, related, sentOn, otherVars, ghostVars >>

(* What the digest says: the re-asks; on a morning that is not low on      *)
(* energy the oldest queued question whose relation is not dormant, and    *)
(* the oldest goal; and the tasks due.  With nothing to say it is not sent. *)
Oldest(S) == {x \in S : \A y \in S : x <= y}

Compose ==
    /\ pc = "checkins" /\ left = {}
    /\ \E low \in BOOLEAN, tasks \in TasksDue, dormant \in SUBSET Unasked, o \in {"ok", "store"} :
        LET said  == LongestWaiting(asks)
            about == [questions |-> IF low THEN {} ELSE Oldest(Unasked \ dormant),
                      goals     |-> IF low THEN {}
                                    ELSE Oldest({c \in Goals : checkin[c].st = "armed"})]
            empty == said \cup about.questions \cup about.goals = {} /\ ~tasks
        IN  /\ Charge(o)
            /\ IF o # "ok" \/ empty THEN Stop
               ELSE pc' = "send" /\ asks' = said /\ chosen' = about /\ UNCHANGED << left, history >>
    /\ UNCHANGED << now, tables, otherVars, carried >>

Carried ==
    [today     |-> carried.today + 1,
     questions |-> [q \in Questions |->
                      carried.questions[q] + IF q \in chosen.questions THEN 1 ELSE 0],
     checkins  |-> [c \in CheckIns |->
                      carried.checkins[c] + IF c \in asks \cup chosen.goals THEN 1 ELSE 0]]

(* A send may fail before or after the message was carried.                *)
Unsent == Stop

SendDigest ==
    /\ pc = "send"
    /\ \/ Charge("ok") /\ GoTo("reask") /\ carried' = Carried
       \/ Charge("store") /\ Unsent /\ carried' \in {carried, Carried}
    /\ UNCHANGED << now, tables, otherVars >>

(* The marks, each its own write: the check-ins asked again, the goal, the *)
(* question, and last the digest itself.                                   *)
MarkReasked ==
    /\ pc = "reask" /\ asks # {}
    /\ \E c \in asks, o \in Outcomes :
        /\ Charge(o)
        /\ checkin' = IF o # "store" /\ Closes(c)
                      THEN [checkin EXCEPT ![c].at = now, ![c].reasks = @ + 1] ELSE checkin
        /\ IF o # "ok" THEN Stop
           ELSE asks' = asks \ {c} /\ UNCHANGED << pc, left, chosen, history >>
    /\ UNCHANGED << now, question, related, sentOn, otherVars, ghostVars >>

FireGoal ==
    /\ pc = "reask" /\ asks = {}
    /\ \E o \in {"ok", "store"} :
        /\ Charge(o)
        /\ o # "ok" => chosen.goals # {}
        /\ IF o # "ok" THEN Stop ELSE GoTo("goal")
        /\ checkin' = [c \in CheckIns |-> IF o = "ok" /\ c \in chosen.goals
                                          THEN [checkin[c] EXCEPT !.st = "fired"] ELSE checkin[c]]
    /\ UNCHANGED << now, question, related, sentOn, otherVars, ghostVars >>

SurfaceGoal ==
    /\ pc = "goal"
    /\ \E o \in Outcomes :
        LET shown == IF o = "store" THEN {} ELSE chosen.goals
        IN  /\ Charge(o)
            /\ o # "ok" => chosen.goals # {}
            /\ IF o # "ok" THEN Stop ELSE GoTo("question")
            /\ checkin' = [c \in CheckIns |-> IF c \in shown
                             THEN [checkin[c] EXCEPT !.st = "open", !.at = now] ELSE checkin[c]]
    /\ UNCHANGED << now, question, related, sentOn, otherVars, ghostVars >>

(* MarkAsked asks only that asked_at is NULL: a question the user settled  *)
(* from Today meanwhile keeps its resolution and is stamped all the same.  *)
MarkAsked ==
    /\ pc = "question"
    /\ \E o \in Outcomes :
        /\ Charge(o)
        /\ o # "ok" => chosen.questions # {}
        /\ IF o # "ok" THEN Stop ELSE GoTo("sent")
        /\ question' = [q \in Questions |->
              IF o # "store" /\ q \in chosen.questions
              THEN [st |-> IF question[q].st = "queued" THEN "asked" ELSE question[q].st, at |-> now]
              ELSE question[q]]
    /\ UNCHANGED << now, checkin, related, sentOn, otherVars, ghostVars >>

RecordSent ==
    /\ pc = "sent"
    /\ \/ Charge("ok") /\ sentOn' = sentOn \cup {now}
       \/ Charge("log") /\ UNCHANGED sentOn
    /\ Stop
    /\ UNCHANGED << now, checkin, question, related, otherVars, carried >>

----------------------------------------------------------------------------
(* The rest of the system: pushes, goals armed by consolidation, units     *)
(* done, questions queued by connect.                                      *)

Deliver(c) ==
    /\ c \notin Goals /\ checkin[c].st = "none"
    /\ checkin' = [checkin EXCEPT ![c].st = "open", ![c].at = now]
    /\ UNCHANGED << now, question, related, sentOn, passVars, otherVars, crashes, faults, ghostVars >>

(* A goal armed; and one fired that was never surfaced, which the next due *)
(* scan lapses when it is overdue and pushes on its own when it is not.    *)
ArmGoal(c) ==
    /\ c \in Goals
    /\ \/ checkin[c].st = "none" /\ SetCheckin(c, "armed")
       \/ checkin[c].st = "fired" /\ pc = "idle" /\ SetCheckin(c, "expired")
       \/ checkin[c].st = "fired" /\ pc = "idle"
          /\ checkin' = [checkin EXCEPT ![c].st = "open", ![c].at = now]
    /\ UNCHANGED << now, question, related, sentOn, passVars, otherVars, crashes, faults, ghostVars >>

UnitDone(c) ==
    /\ checkin[c].todo /\ checkin[c].st = "open"
    /\ checkin' = [checkin EXCEPT ![c].todo = FALSE]
    /\ UNCHANGED << now, question, related, sentOn, passVars, otherVars, crashes, faults, ghostVars >>

QueueQuestion ==
    /\ \E q \in Oldest({r \in Questions : question[r].st = "none"}) :
        SetQuestion(q, "queued") /\ related' = related \cup {q}
    /\ UNCHANGED << now, checkin, sentOn, passVars, otherVars, crashes, faults, ghostVars >>

----------------------------------------------------------------------------
(* An answer to an open check-in: it is read, then resolved if it is still *)
(* open; a "not yet" only leaves its row.                                  *)

AnswerRead ==
    /\ apc = "idle"
    /\ answered' \in Delivered /\ apc' \in {"resolve", "snooze"}
    /\ UNCHANGED << now, tables, passVars, kpc, curated, crashes, faults, ghostVars >>

AnswerWrite ==
    /\ apc # "idle"
    /\ \E o \in {"ok", "store"} :
        /\ Charge(o)
        /\ IF o # "ok" THEN UNCHANGED checkin
           ELSE \/ apc = "snooze" /\ checkin' = [checkin EXCEPT ![answered].snoozed = now]
                \/ apc = "resolve" /\ Closes(answered) /\ SetCheckin(answered, "answered")
                \/ apc = "resolve" /\ ~Closes(answered) /\ UNCHANGED checkin
    /\ apc' = "idle" /\ answered' = NoTime
    /\ UNCHANGED << now, question, related, sentOn, passVars, kpc, curated, ghostVars >>

(* A relation confirmed or rejected, from the chat (the question asked     *)
(* last) or from Today and the graph (any waiting one): the relation       *)
(* first, then its question.                                               *)
CurateRead ==
    /\ kpc = "idle"
    /\ curated' \in Unasked \cup Open /\ kpc' \in {"confirm", "reject"}
    /\ UNCHANGED << now, tables, passVars, apc, answered, crashes, faults, ghostVars >>

Settle(to) ==
    /\ \E o \in {"ok", "store"} :
        /\ Charge(o)
        /\ IF o = "ok" /\ question[curated].st \in {"queued", "asked"}
           THEN SetQuestion(curated, to) ELSE UNCHANGED question
    /\ kpc' = "idle" /\ curated' = NoTime

CurateRelation ==
    /\ kpc = "reject"
    /\ \E o \in {"ok", "store"} :
        /\ Charge(o)
        /\ IF o = "ok" THEN related' = related \ {curated} /\ kpc' = "close" /\ UNCHANGED curated
           ELSE kpc' = "idle" /\ curated' = NoTime /\ UNCHANGED related
    /\ UNCHANGED << now, checkin, question, sentOn, passVars, apc, answered, ghostVars >>

CurateClose ==
    /\ \/ kpc = "confirm" /\ Settle("confirmed")
       \/ kpc = "close" /\ Settle("rejected")
    /\ UNCHANGED << now, checkin, related, sentOn, passVars, apc, answered, ghostVars >>

----------------------------------------------------------------------------
Tick ==
    /\ pc = "idle" /\ apc = "idle" /\ kpc = "idle" /\ now < Horizon
    /\ now' = now + 1
    /\ carried' = IF DayOf(now') = DayOf(now) THEN carried ELSE [carried EXCEPT !.today = 0]
    /\ UNCHANGED << tables, passVars, otherVars, crashes, faults >>

Crash ==
    /\ crashes < MaxCrashes
    /\ pc # "idle" \/ apc # "idle" \/ kpc # "idle"
    /\ crashes' = crashes + 1
    /\ Stop
    /\ apc' = "idle" /\ answered' = NoTime /\ kpc' = "idle" /\ curated' = NoTime
    /\ UNCHANGED << now, tables, faults, ghostVars >>

DigestStep ==
    \/ BeginDigest \/ ExpireQuestion \/ QuestionsDone \/ JudgeCheckIn \/ Compose \/ SendDigest
    \/ MarkReasked \/ FireGoal \/ SurfaceGoal \/ MarkAsked \/ RecordSent

Next ==
    \/ DigestStep
    \/ \E c \in CheckIns : Deliver(c) \/ ArmGoal(c) \/ UnitDone(c)
    \/ QueueQuestion \/ AnswerRead \/ AnswerWrite
    \/ CurateRead \/ CurateRelation \/ CurateClose
    \/ Tick \/ Crash

Spec == Init /\ [][Next]_vars

----------------------------------------------------------------------------
Failures == faults + crashes

(* Types: the two tables and the pass's own sets.                          *)
TypeOK ==
    /\ checkin \in [CheckIns -> [st : {"none", "armed", "fired", "open", "answered", "expired"},
                                 at : Times, reasks : Nat, todo : BOOLEAN, snoozed : Times]]
    /\ question \in [Questions -> [st : {"none", "queued", "asked", "confirmed", "rejected",
                                         "expired"}, at : Times]]
    /\ related \subseteq Questions /\ sentOn \subseteq Int
    /\ pc \in {"idle", "questions", "checkins", "send", "reask", "goal", "question", "sent"}
    /\ left \subseteq CheckIns \cup Questions /\ asks \subseteq CheckIns
    /\ \A c \in CheckIns : checkin[c].st = "open" => checkin[c].at \in Int

(* What is marked was said: a question stamped asked_at, and every re-ask  *)
(* counted on a check-in, reached the user in some digest, whatever failed *)
(* on the way.                                                             *)
MarkedWasCarried ==
    /\ \A q \in Questions : question[q].at # NoTime => carried.questions[q] > 0
    /\ \A c \in CheckIns : checkin[c].reasks <= carried.checkins[c]

(* Nothing is said more often than it is owed: one digest a local date, a  *)
(* question and a goal asked once, a check-in asked again at most          *)
(* MaxCheckinReasks times.  Only a failure or a crash between the send and *)
(* its marks repeats something, once each.                                 *)
SaidAsOwed ==
    /\ carried.today <= 1 + Failures
    /\ \A q \in Questions : carried.questions[q] <= 1 + Failures
    /\ \A c \in CheckIns :
        carried.checkins[c] <= Failures + IF c \in Goals THEN 1 ELSE MaxCheckinReasks

(* I39: a check-in does not stay open for ever, put off, asked again,      *)
(* unreadable or about a unit that is done.  Since it last reached the     *)
(* user no more than MaxCheckinReasks digests of later days went out, or   *)
(* one more for each failure; where one digest may ask every check-in      *)
(* there is, since one it had no room for is asked on a later morning.     *)
CheckInsClose ==
    Cardinality(CheckIns) <= MaxReasksPerDigest =>
        \A c \in Delivered :
            Cardinality({t \in sentOn : DayOf(t) > DayOf(checkin[c].at)})
                <= MaxCheckinReasks + Failures

(* An answer stands: the sweep and the re-ask work on what they read       *)
(* before it came, and still leave an answered check-in, or a closed one,  *)
(* as it is.                                                               *)
AnswerIsFinal ==
    [][\A c \in CheckIns : checkin[c].st \in {"answered", "expired"} =>
            checkin'[c].st = checkin[c].st /\ checkin'[c].reasks = checkin[c].reasks]_vars

(* While a digest goes out every day, a question is open through           *)
(* MaxDigestDeferrals digests after the one that asked it, and so at most  *)
(* one more question than that is open.                                    *)
DigestsAfter(at) == {t \in sentOn : t > at}
EveryDaySince(at) ==
    \A d \in Days : DayOf(at) <= d /\ d < DayOf(now) => \E t \in sentOn : DayOf(t) = d
QuestionsClose ==
    /\ \A q \in Open : EveryDaySince(question[q].at) =>
            Cardinality(DigestsAfter(question[q].at)) <= MaxDigestDeferrals + Failures
    /\ EveryDaySince(Start) => Cardinality(Open) <= MaxDigestDeferrals + 1 + Failures

============================================================================
