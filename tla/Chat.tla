------------------------------- MODULE Chat -------------------------------
(***************************************************************************)
(* What one message does to the vault, step by step                        *)
(* (src/internal/brain/capture.go): the handling of a message of Channel,  *)
(* taken apart, beside the pass over Timers.  A message whose handling     *)
(* fails or is cut by a crash is delivered again, and the model may read   *)
(* it differently the second time.                                         *)
(***************************************************************************)
EXTENDS Channel, Timers

CONSTANTS CheckIns,    \* check-ins open when the story begins, in the order delivered
          Goals,       \* those of them that ask about a goal
          KindsRead,   \* what the model may take a message for
          Outcomes,    \* what the model may take it to answer
          MaxWithTimers   \* messages, where there is a timer

ASSUME ChatAssumption ==
    /\ CheckIns \subseteq Nat \ {0} /\ IsFiniteSet(CheckIns)
    /\ Goals \subseteq CheckIns
    /\ KindsRead \subseteq {"note", "event", "timer", "cancel", "list",
                            "correct", "recall", "talk", "scope"}
    /\ Outcomes \subseteq {"none", "goal", "checkin", "both"} /\ "none" \in Outcomes
    /\ MaxWithTimers \in Nat

VARIABLES step,     \* where captureRunner.at is
          reading,  \* what the model made of the message
          shown,    \* the live timers its prompt listed
          goals,    \* the goal check-ins its prompt listed
          part,     \* what this handling has written
          log,      \* the rows it has recorded of what it kept
          owed,     \* the row it records next, and the step after
          units,    \* ghost: units made of each update
          answer    \* which update answered each check-in, 0 for none

capVars == <<step, reading, shown, goals, part, log, owed>>
effects == <<units, answer>>
vars == <<chVars, capVars, effects, timerVars>>

Readings == [kind : KindsRead, outcome : Outcomes]
Nothing == [kind |-> "list", outcome |-> "none"]

Steps == {"off", "classify", "cancel", "correct", "answers", "fork", "create",
          "embed", "relate", "name", "arm", "record", "reply"}

(* The rows a handling may owe: "talk" stands for those of a conversation, *)
(* "answer" for those of an answered check-in, "judged" for those of a     *)
(* judgement that keeps no relation.                                       *)
Rows == {"none", "classified", "embedding_failed", "persisted", "judged",
         "armed", "arm_refused", "talk", "answer", "cancelled", "named"}

(* Those that tell of something the handling keeps. *)
Telling == {"classified", "embedding_failed", "persisted", "armed", "arm_refused"}

Owe(row, then) == owed' = [row |-> row, then |-> then] /\ step' = "record"
OweNothing == [row |-> "none", then |-> "off"]

(* Bounds: the timers there may be, and the messages beside them. *)
Sent == {u \in Updates : kind[u] # "none"}
MoreMayCome ==
    reading.kind = "timer" \/ FreeTimers # TimerIds
        => Cardinality(Sent) < MaxWithTimers

OpenCheckIns == {c \in CheckIns : answer[c] = 0}

Init ==
    /\ ChannelInit /\ TimersInit
    /\ step = "off" /\ reading = Nothing /\ shown = {} /\ goals = {}
    /\ part = {} /\ log = {} /\ owed = OweNothing
    /\ units = [u \in Updates |-> 0]
    /\ answer = [c \in CheckIns |-> 0]

---------------------------------------------------------------------------
(* One message.                                                            *)

Forget ==
    /\ reading' = Nothing /\ shown' = {} /\ goals' = {}
    /\ part' = {} /\ log' = {} /\ owed' = OweNothing

(* An error returned by captureRunner.at: what was written stays. *)
Abort ==
    /\ Fault /\ BreakBatch(Msg)
    /\ step' = "off" /\ Forget

Quiet == UNCHANGED chVars
AtStep(s) == run = "handle" /\ step = s

(* The conversation, the live timers and the open goals are read before    *)
(* the model is asked.                                                     *)
BeginCapture ==
    /\ AtStep("off")
    /\ \/ /\ shown' = PendingTimers
          /\ goals' = OpenCheckIns \intersect Goals
          /\ step' = "classify"
          /\ Quiet /\ UNCHANGED <<reading, part, log, owed>>
       \/ Abort
    /\ UNCHANGED <<effects, timerVars>>

(* The model's reading, or no usable answer.  A reading that sets a timer  *)
(* is taken while an id is free (a bound of the model).                    *)
Classify ==
    /\ AtStep("classify")
    /\ \/ /\ \E r \in Readings :
              /\ r.kind \in {"list", "cancel"} => r.outcome = "none"
              /\ r.kind = "timer" =>
                    FreeTimers # {} /\ Cardinality(Sent) <= MaxWithTimers
              /\ reading' = r
              /\ step' = CASE r.kind = "list" -> "reply"
                           [] r.kind = "cancel" -> "cancel"
                           [] OTHER -> "answers"
              /\ shown' = IF r.kind = "cancel" THEN shown ELSE {}
          /\ Quiet /\ UNCHANGED <<goals, part, log, owed>>
       \/ Abort
    /\ UNCHANGED <<effects, timerVars>>

(* answerTimers: the position names one of the timers shown, or is unclear *)
(* and asked about.                                                        *)
CancelTimer ==
    /\ AtStep("cancel")
    /\ \/ /\ step' = "reply"
          /\ Quiet /\ UNCHANGED <<reading, shown, goals, part, log, owed, timer>>
       \/ /\ \E t \in shown :
              /\ CancelRow(t)
              /\ IF timer[t] = "pending"
                 THEN Owe("cancelled", "reply")
                 ELSE step' = "reply" /\ UNCHANGED owed
          /\ Quiet /\ UNCHANGED <<reading, shown, goals, part, log>>
       \/ Abort /\ UNCHANGED timer
    /\ UNCHANGED <<effects, ripe, speaks, told, missed, pass, slips, stops>>

(* The correction runner's own steps are modelled in UnitEdits. *)
CorrectReferent ==
    /\ AtStep("correct")
    /\ \/ /\ step' = "reply"
          /\ Quiet /\ UNCHANGED <<reading, shown, goals, part, log, owed>>
       \/ Abort
    /\ UNCHANGED <<effects, timerVars>>

(* resolveGoalCheckIn binds a listed goal; only when none bound does       *)
(* resolveCheckIn take the answer: for the check-in delivered last when    *)
(* the chat lists no item, else for the one whose item the answer names.   *)
Newest(S) == CHOOSE c \in S : \A d \in S : d <= c

Resolve(c) ==
    /\ answer' = [answer EXCEPT ![c] = Msg]
    /\ Owe("answer", "fork")

Answers(of) == reading.outcome \in {of, "both"}

AnswerGoal ==
    /\ Answers("goal")
    /\ \E g \in goals :
        IF answer[g] = 0 THEN Resolve(g)
        ELSE Owe("answer", "fork") /\ UNCHANGED answer

AnswerCheckIn ==
    /\ Answers("checkin") /\ ~(Answers("goal") /\ goals # {})
    /\ LET open == OpenCheckIns \ Goals IN
       \/ open # {} /\ Resolve(Newest(open))
       \/ \E c \in open : Resolve(c)
       \/ Owe("answer", "fork") /\ UNCHANGED answer

AnswersNothing == ~Answers("checkin") /\ (Answers("goal") => goals = {})

ResolveAnswers ==
    /\ AtStep("answers")
    /\ \/ /\ \/ AnswerGoal
             \/ AnswerCheckIn
             \/ AnswersNothing /\ step' = "fork" /\ UNCHANGED <<answer, owed>>
          /\ reading' = [reading EXCEPT !.outcome = "none"] /\ goals' = {}
          /\ Quiet /\ UNCHANGED <<shown, part, log>>
       \/ ~AnswersNothing /\ Abort /\ UNCHANGED answer
    /\ UNCHANGED <<units, timerVars>>

(* What becomes of the message by its kind: a timer is armed or refused,   *)
(* talk is answered, a recall is read, a memory is kept.                   *)
ForkByKind ==
    /\ AtStep("fork")
    /\ \/ /\ \/ /\ reading.kind = "timer"
                /\ step' = "arm" /\ UNCHANGED owed
             \/ reading.kind = "timer" /\ Owe("arm_refused", "reply")
             \/ reading.kind \in {"talk", "scope"} /\ Owe("talk", "reply")
             \/ reading.kind = "correct" /\ step' = "correct" /\ UNCHANGED owed
             \/ /\ reading.kind = "recall"
                /\ step' = "reply" /\ UNCHANGED owed
             \/ /\ reading.kind \in {"note", "event"}
                /\ step' = "create" /\ UNCHANGED owed
          /\ Quiet /\ UNCHANGED <<reading, shown, goals, part, log>>
       \/ reading.kind = "recall" /\ Abort
    /\ UNCHANGED <<effects, timerVars>>

(* log.Record: what the handling owes, and then the next step. *)
Record ==
    /\ AtStep("record")
    /\ \/ /\ log' = log \union ({owed.row} \intersect Telling)
          /\ step' = owed.then /\ owed' = OweNothing
          /\ Quiet /\ UNCHANGED <<reading, shown, goals, part>>
       \/ Abort
    /\ UNCHANGED <<effects, timerVars>>

CreateUnit ==
    /\ AtStep("create")
    /\ \/ /\ units' = [units EXCEPT ![Msg] = @ + 1]
          /\ part' = part \union {"unit"}
          /\ Owe("classified", "embed")
          /\ Quiet /\ UNCHANGED <<reading, shown, goals, log>>
       \/ Abort /\ UNCHANGED units
    /\ UNCHANGED <<answer, timerVars>>

(* A unit that cannot be embedded is kept, and the failure recorded. *)
BugEmbedAndStore ==
    /\ AtStep("embed")
    /\ step' = "name" /\ Fault
    /\ UNCHANGED <<kind, gone, seen, held, answered, inbox, batch, marked, run,
                   settled, again, failed, crashes>>
    /\ UNCHANGED <<reading, shown, goals, part, log, owed, effects, timerVars>>
EmbedAndStore ==
    /\ AtStep("embed")
    /\ \/ /\ part' = part \union {"embedded"}
          /\ step' = "relate"
          /\ Quiet /\ UNCHANGED owed
       \/ /\ Fault /\ Owe("embedding_failed", "name")
          /\ UNCHANGED <<kind, gone, seen, held, answered, inbox, batch,
                         marked, run, settled, again, failed, crashes, part>>
    /\ UNCHANGED <<reading, shown, goals, log, effects, timerVars>>

(* recallCandidates and judgeRelation: no neighbour, an answer that        *)
(* proposes nothing, or one of the outcomes that leave a row.              *)
JudgeRelation ==
    /\ AtStep("relate")
    /\ \/ /\ \/ step' = "name" /\ UNCHANGED <<owed, part>>
             \/ Owe("judged", "name") /\ UNCHANGED part
             \/ Owe("persisted", "name") /\ part' = part \union {"relation"}
          /\ Quiet /\ UNCHANGED <<reading, shown, goals, log>>
       \/ /\ Fault /\ Owe("judged", "name")
          /\ UNCHANGED <<kind, gone, seen, held, answered, inbox, batch,
                         marked, run, settled, again, failed, crashes>>
          /\ UNCHANGED <<reading, shown, goals, log, part>>
       \/ Abort
    /\ UNCHANGED <<effects, timerVars>>

(* A dated unit without a title is named once, before anything is armed;   *)
(* a provider that fails leaves it untitled.                               *)
NameUnit ==
    /\ AtStep("name")
    /\ \/ step' = "arm" /\ UNCHANGED owed
       \/ reading.kind = "event" /\ Owe("named", "arm")
    /\ Quiet
    /\ UNCHANGED <<reading, shown, goals, part, log, effects, timerVars>>

(* armAll, one plan at a time: the row of the store, then the row of the   *)
(* log.  A note arms nothing; an event that cannot be armed may say why.   *)
SetTimer ==
    /\ reading.kind = "timer"
    /\ \E t \in FreeTimers : CreateRow(t)
    /\ Owe("armed", "reply")
    /\ UNCHANGED part

ArmEvent ==
    /\ reading.kind = "event"
    /\ part' = part \union {"armed"}
    /\ \/ Owe("armed", "reply")
       \/ "armed" \notin part /\ Owe("armed", "arm")
    /\ UNCHANGED timer

ArmNothing ==
    /\ reading.kind \in {"note", "event"} /\ "armed" \notin part
    /\ \/ step' = "reply" /\ UNCHANGED owed
       \/ reading.kind = "event" /\ Owe("arm_refused", "reply")
    /\ UNCHANGED <<part, timer>>

Arm ==
    /\ AtStep("arm")
    /\ \/ /\ SetTimer \/ ArmEvent \/ ArmNothing
          /\ Quiet /\ UNCHANGED <<reading, shown, goals, log>>
       \/ Abort /\ UNCHANGED timer
    /\ UNCHANGED <<effects, ripe, speaks, told, missed, pass, slips, stops>>

BugReply ==
    /\ AtStep("reply")
    /\ run' = "next" /\ batch' = batch \ {Msg}
    /\ step' = "off" /\ Forget
    /\ UNCHANGED <<kind, gone, seen, held, answered, inbox, marked,
                   settled, again, failed, faults, crashes, effects, timerVars>>
(* The exchange joins the conversation and the reply is sent; neither      *)
(* failing undoes the handling.                                            *)
Reply ==
    /\ AtStep("reply")
    /\ run' = "done"
    /\ step' = "off" /\ Forget
    /\ UNCHANGED <<kind, gone, seen, held, answered, inbox, batch, marked,
                   settled, again, failed, faults, crashes, effects, timerVars>>

CaptureStep ==
    \/ BeginCapture \/ Classify \/ CancelTimer \/ CorrectReferent
    \/ ResolveAnswers \/ ForkByKind \/ Record \/ CreateUnit \/ EmbedAndStore
    \/ JudgeRelation \/ NameUnit \/ Arm \/ Reply

---------------------------------------------------------------------------

Restart ==
    /\ ChannelRestart /\ TimersRestart
    /\ step' = "off" /\ Forget
    /\ UNCHANGED effects

TimersAlone ==
    \/ Ripen \/ PassStep
    \/ \E t \in TimerIds : SomeoneCancels(t)

Next ==
    \/ ((MoreMayCome /\ UserSends) \/ RunnerStep) /\ UNCHANGED <<capVars, effects, timerVars>>
    \/ CaptureStep
    \/ TimersAlone /\ UNCHANGED <<chVars, capVars, effects>>
    \/ Restart

Spec == Init /\ [][Next]_vars

(* The runner polls on, the handling of a message ends, and the scheduler  *)
(* passes again.                                                           *)
FairSpec ==
    /\ Spec
    /\ WF_vars(RunnerStep /\ UNCHANGED <<capVars, effects, timerVars>>)
    /\ WF_vars(CaptureStep)
    /\ WF_vars(PassStep /\ UNCHANGED <<chVars, capVars, effects>>)

---------------------------------------------------------------------------

TypeOK ==
    /\ ChannelTypeOK /\ TimersTypeOK
    /\ step \in Steps /\ reading \in Readings \union {Nothing}
    /\ shown \subseteq TimerIds /\ goals \subseteq Goals
    /\ part \subseteq {"unit", "embedded", "relation", "armed"}
    /\ log \subseteq Telling /\ owed \in [row : Rows, then : Steps]
    /\ units \in [Updates -> Nat]
    /\ answer \in [CheckIns -> {0} \union Updates]

(* A message takes effect once, and once more for each handling of it that *)
(* failed part way or was cut by a crash: no unit and no answer comes of a *)
(* message already handled.                                                *)
Deliveries(u) == 1 + failed[u] + crashes
NoEffectTwice ==
    \A u \in Updates :
        /\ units[u] <= Deliveries(u)
        /\ Cardinality({c \in CheckIns : answer[c] = u}) <= Deliveries(u)

(* When a message is answered, what was kept of it is whole or a row says  *)
(* what is missing: a unit has its row, its vector or the row of its       *)
(* failure, a relation its row, a timer that was asked for its row.        *)
AnsweredIsRecorded ==
    step = "reply" =>
        /\ reading.kind \in {"note", "event"} => "unit" \in part
        /\ "unit" \in part =>
              /\ "classified" \in log
              /\ "embedded" \in part \/ "embedding_failed" \in log
        /\ "relation" \in part => "persisted" \in log
        /\ reading.kind = "timer" => log \intersect {"armed", "arm_refused"} # {}

(* Every update is dealt with, whatever failed on the way, unless the      *)
(* server refuses the credentials and the channel stops; and a timer whose *)
(* hour came does not stay armed: it rings or is dropped.                  *)
NothingWaitsForEver ==
    /\ \A u \in Updates :
        kind[u] # "none" ~> (settled[u] # "no" \/ run = "stopped")
    /\ \A t \in TimerIds : ripe[t] # "ahead" ~> timer[t] # "pending"

===========================================================================
