------------------------------ MODULE Relations ------------------------------
(***************************************************************************)
(* The relations between units, and everyone who writes them with no lock  *)
(* between: the nightly pass (strengthen, connect, reweight, learn), the   *)
(* judge that runs after each capture, the user who confirms or rejects a  *)
(* relation from the graph or by answering its question in the chat, and   *)
(* who undoes what was learned.  Each reads rows, computes, and writes     *)
(* them back whole; no transaction spans two calls, so any call may be the *)
(* last that succeeds.                                                     *)
(*                                                                         *)
(* A relation is kept by its ends (one type stands for each); confidence   *)
(* and strength are steps on a small scale, an instant is a tick.          *)
(***************************************************************************)
EXTENDS Integers, FiniteSets, Sequences

CONSTANTS Units,        \* the units there may be
          Early,        \* those captured before the model starts
          Confidences,  \* what a judge may answer
          MaxStrength,  \* the strength no gain raises
          DefaultBar,   \* min_confidence_to_persist, at first
          FormerBar,    \* what it was before the learner moved it there
          MinBar, MaxBar, \* the learner's range of it
          Asserted,     \* min_confidence_to_surface, at first
          SampleSize,   \* the verdicts the learner looks at
          ToMove,       \* how many of them must agree
          Cooldown,     \* ticks between two moves of a bar
          MaxIds,       \* relations ever judged
          MaxActs,      \* what the user does about relations and bars
          Horizon,      \* the last tick
          MaxMishaps    \* calls that fail, crashes, and units closed meanwhile

ASSUME RelationsAssumption ==
    /\ Early \subseteq Units /\ Confidences \subseteq Nat
    /\ MinBar \in Nat /\ MaxBar \in Nat /\ {DefaultBar, FormerBar} \subseteq MinBar .. MaxBar
    /\ {MaxStrength, Asserted, SampleSize, ToMove, Cooldown} \subseteq Nat
    /\ {MaxIds, MaxActs, Horizon, MaxMishaps} \subseteq Nat

VARIABLES row,      \* the relations table, by ends
          ask,      \* pending_questions, by the relation id they name
          asked,    \* the questions asked, the latest last
          bar,      \* relation_thresholds of the type
          told,     \* the latest decision_log row about the bar
          verdict,  \* learning_signals about relations, in the order written
          live,     \* the units in the pool
          touched,  \* their last_touched_at
          lastRun,  \* consolidation_last_run_at
          night,    \* the pass under way
          hand,     \* what the chat and the page are doing with a relation
          tuner,    \* what the learning page is doing with the bar
          judging,  \* the capture whose relation is being judged
          now, acts, mishaps,
          ids,      \* ghost: the relations judged so far
          gone, raised, noted, \* ghosts: ids deleted, raised, journaled before a delete
          used      \* ghost: the verdicts behind each move of the bar

table == <<row, ask, asked, ids>>
units == <<live, touched>>
bars == <<bar, told>>
ghosts == <<gone, raised, noted, used>>
counts == <<now, acts, mishaps>>
vars == <<table, units, bars, verdict, lastRun, night, hand, tuner, judging, counts, ghosts>>

Never == -1
NoUnit == "none"
Hands == {"chat", "page"}
Ends == {p \in Units \X Units : p[1] # p[2]}
Flip(p) == <<p[2], p[1]>>
NoRelation == [id |-> 0, conf |-> 0, strength |-> 0, by |-> "nobody"]
Stored(p) == row[p].id # 0
EndsOf(i) == {p \in Ends : row[p].id = i}
Bothlive(p) == {p[1], p[2]} \subseteq live
Dormant(c) == c < bar.persist
Uncertain(c) == c < bar.surface
Larger(a, b) == IF a >= b THEN a ELSE b

(* What the store makes of an upsert: ends already related keep their id    *)
(* and maker, and take the strength and the confidence given.               *)
Upserted(p, r) ==
    [row EXCEPT ![p] = IF @.id = 0 THEN r ELSE [@ EXCEPT !.strength = r.strength, !.conf = r.conf]]

NightIdle == [pc |-> "idle", at |-> 0, since |-> Never, seen |-> {}, todo |-> {}, met |-> {},
              id |-> 0, next |-> 0, was |-> <<0, 0>>, sample |-> {}]
HandIdle == [pc |-> "idle", yes |-> FALSE, id |-> 0, ends |-> {}, rel |-> NoRelation, asks |-> FALSE]
TunerIdle == [pc |-> "idle", back |-> <<0, 0>>]
Untold == [kind |-> "none", to |-> <<0, 0>>, back |-> <<0, 0>>]

Init ==
    /\ row = [p \in Ends |-> NoRelation] /\ ask = [i \in 1 .. MaxIds |-> "none"] /\ asked = <<>> /\ ids = 0
    /\ live = Early /\ touched = [u \in Units |-> IF u \in Early THEN 0 ELSE Never]
    /\ bar = [persist |-> DefaultBar, surface |-> Asserted, pinned |-> FALSE, adjusted |-> Never]
    /\ told = [kind |-> "learned", to |-> <<DefaultBar, Asserted>>, back |-> <<FormerBar, Asserted>>]
    /\ verdict = <<>> /\ lastRun = Never
    /\ night = NightIdle /\ hand = [h \in Hands |-> HandIdle] /\ tuner = TunerIdle /\ judging = NoUnit
    /\ now = 0 /\ acts = 0 /\ mishaps = 0
    /\ gone = {} /\ raised = {} /\ noted = {} /\ used = {}

Mishap == mishaps < MaxMishaps /\ mishaps' = mishaps + 1 /\ UNCHANGED <<now, acts>>
Act == acts < MaxActs /\ acts' = acts + 1 /\ UNCHANGED <<now, mishaps>>
NightOnly == UNCHANGED <<hand, tuner, judging, counts>>

(* What a judge answers: how sure it is that two units are related, or      *)
(* nothing that can be read, of a kind, or about the unit it was shown.     *)
Nothing == -1
Judgments == Confidences \cup {Nothing}
Relates(p, c, by) ==
    /\ ids < MaxIds /\ ids' = ids + 1
    /\ row' = Upserted(p, [id |-> ids', conf |-> c, strength |-> 1, by |-> by])

-----------------------------------------------------------------------------
(* A capture stores its unit, then asks the judge about it and one of those *)
(* recalled; a judgment below the bar, or none, stores nothing.             *)
Captures(u) ==
    /\ judging = NoUnit /\ touched[u] = Never
    /\ live' = live \cup {u} /\ touched' = [touched EXCEPT ![u] = now] /\ judging' = u
    /\ UNCHANGED <<table, bars, verdict, lastRun, night, hand, tuner, counts, ghosts>>

CaptureJudges ==
    /\ judging # NoUnit /\ judging' = NoUnit
    /\ \E v \in Units, c \in Judgments :
          IF Dormant(c) \/ v \notin live \ {judging} THEN UNCHANGED table
          ELSE Relates(<<judging, v>>, c, "system") /\ UNCHANGED <<ask, asked>>
    /\ UNCHANGED <<units, bars, verdict, lastRun, night, hand, tuner, counts, ghosts>>

(* A unit closed, archived or deleted from the pool meanwhile.              *)
Leaves(u) ==
    /\ u \in live /\ Mishap
    /\ live' = live \ {u}
    /\ UNCHANGED <<table, touched, bars, verdict, lastRun, night, hand, tuner, judging, ghosts>>

-----------------------------------------------------------------------------
(* The pass reads when the last one that finished began, and the relations  *)
(* both of whose ends were touched since: their strength rises one by one,  *)
(* each written whole from what was read.                                   *)
Evidence(since) ==
    {p \in Ends : /\ Stored(p) /\ since # Never
                  /\ touched[p[1]] >= since /\ touched[p[2]] >= since
                  /\ row[p].strength < MaxStrength}

NightBegins ==
    /\ night.pc = "idle" /\ lastRun # now
    /\ night' = [NightIdle EXCEPT !.pc = "strengthen", !.at = now, !.since = lastRun,
                                  !.seen = {<<p, row[p]>> : p \in Evidence(lastRun)}]
    /\ NightOnly /\ UNCHANGED <<table, units, bars, verdict, lastRun, ghosts>>

Strengthens ==
    /\ night.pc = "strengthen"
    /\ \E s \in night.seen :
          /\ \A t \in night.seen : s[2].id <= t[2].id
          /\ row' = Upserted(s[1], [s[2] EXCEPT !.strength = @ + 1, !.by = "nobody"])
          /\ night' = [night EXCEPT !.seen = @ \ {s}]
    /\ NightOnly /\ UNCHANGED <<ask, asked, ids, units, bars, verdict, lastRun, ghosts>>

(* Each unit touched since is recalled against the pool; a pair related in  *)
(* either direction is left out, as the table is now.                       *)
Sources(since) == {u \in live : since = Never \/ touched[u] >= since}
Unrelated == {p \in Ends : Bothlive(p) /\ ~Stored(p) /\ ~Stored(Flip(p))}

ConnectReads ==
    /\ night.pc = "strengthen" /\ night.seen = {}
    /\ \E pairs \in SUBSET {p \in Unrelated : p[1] \in Sources(night.since)} :
          /\ Cardinality(pairs) <= MaxIds
          /\ night' = [night EXCEPT !.pc = "connect", !.since = Never, !.todo = pairs]
    /\ NightOnly /\ UNCHANGED <<table, units, bars, verdict, lastRun, ghosts>>

(* The judge is asked about one pair; what it relates is stored above the   *)
(* bar, and asked about while it is not asserted.                           *)
Connects(p) ==
    /\ night.pc = "connect" /\ p \in night.todo
    /\ \E c \in Judgments :
          IF Dormant(c) THEN night' = [night EXCEPT !.todo = @ \ {p}] /\ UNCHANGED <<row, ids>>
          ELSE /\ Relates(p, c, "consolidation")
               /\ night' = [night EXCEPT !.todo = @ \ {p}, !.met = @ \cup {p[1], p[2]},
                                         !.pc = IF Uncertain(c) THEN "ask" ELSE @,
                                         !.id = IF Uncertain(c) THEN ids' ELSE @]
    /\ NightOnly /\ UNCHANGED <<ask, asked, units, bars, verdict, lastRun, ghosts>>

(* A question about a relation that is gone, or that an earlier judgment's  *)
(* row took the place of, is refused, and the refusal ends the pass.        *)
QueuesQuestion ==
    /\ night.pc = "ask"
    /\ IF EndsOf(night.id) = {}
       THEN night' = NightIdle /\ UNCHANGED ask
       ELSE /\ ask' = [ask EXCEPT ![night.id] = "queued"]
            /\ night' = [night EXCEPT !.pc = "connect", !.id = 0]
    /\ NightOnly /\ UNCHANGED <<row, asked, ids, units, bars, verdict, lastRun, ghosts>>

(* The ends of the new relations are boosted, those light enough.           *)
Reweighs ==
    /\ night.pc = "connect" /\ night.todo = {}
    /\ \E light \in SUBSET (night.met \cap live) :
          touched' = [u \in Units |-> IF u \in light THEN night.at ELSE touched[u]]
    /\ night' = [night EXCEPT !.pc = "learn", !.met = {}]
    /\ NightOnly /\ UNCHANGED <<table, live, bars, verdict, lastRun, ghosts>>

-----------------------------------------------------------------------------
(* The learner, last: of the latest verdicts on relations Nooma made, given *)
(* since the bar last moved, enough of a kind move it a step, within its    *)
(* range, the surface bar never below it.  One the user pinned stays.       *)
Ours(by) == by \in {"system", "consolidation"}
(* Mutant: verdicts given before the bar last moved count again. *)
BugCounted(at) == {k \in 1 .. Len(verdict) : Ours(verdict[k].by) /\ verdict[k].at <= at}
Counted(at) == {k \in 1 .. Len(verdict) :
                  Ours(verdict[k].by) /\ verdict[k].at <= at /\ verdict[k].at > bar.adjusted}
Sample(at, sample) ==
    /\ sample \subseteq Counted(at)
    /\ Cardinality(sample) = IF Cardinality(Counted(at)) < SampleSize
                            THEN Cardinality(Counted(at)) ELSE SampleSize
    /\ \A k \in sample, o \in Counted(at) \ sample : verdict[o].at <= verdict[k].at
Learnt(sample) ==
    LET rejected == Cardinality({k \in sample : verdict[k].no})
    IN  IF rejected >= ToMove THEN IF bar.persist < MaxBar THEN bar.persist + 1 ELSE Never
        ELSE IF Cardinality(sample) - rejected >= ToMove /\ bar.persist > MinBar
             THEN bar.persist - 1 ELSE Never
MayLearn == ~bar.pinned /\ (bar.adjusted = Never \/ night.at - bar.adjusted >= Cooldown)

Learns ==
    /\ night.pc = "learn"
    /\ \E sample \in SUBSET (1 .. Len(verdict)) :
          /\ Sample(night.at, sample)
          /\ night' = IF MayLearn /\ Learnt(sample) # Never
                      THEN [night EXCEPT !.pc = "move", !.next = Learnt(sample), !.sample = sample,
                                         !.was = <<bar.persist, bar.surface>>]
                      ELSE [night EXCEPT !.pc = "finish"]
    /\ NightOnly /\ UNCHANGED <<table, units, bars, verdict, lastRun, ghosts>>

NextBar == <<night.next, Larger(night.was[2], night.next)>>
(* Mutant: the write does not look at the pin again. *)
BugMoves ==
    /\ night.pc = "move" /\ night' = [night EXCEPT !.pc = "log"]
    /\ bar' = [persist |-> NextBar[1], surface |-> NextBar[2], pinned |-> FALSE, adjusted |-> night.at]
    /\ used' = used \cup night.sample
    /\ NightOnly /\ UNCHANGED <<table, units, told, verdict, lastRun, gone, raised, noted>>
Moves ==
    /\ night.pc = "move"
    /\ IF bar.pinned
       THEN night' = [night EXCEPT !.pc = "finish"] /\ UNCHANGED <<bar, used>>
       ELSE /\ bar' = [persist |-> NextBar[1], surface |-> NextBar[2], pinned |-> FALSE, adjusted |-> night.at]
            /\ used' = used \cup night.sample
            /\ night' = [night EXCEPT !.pc = "log"]
    /\ NightOnly /\ UNCHANGED <<table, units, told, verdict, lastRun, gone, raised, noted>>

LogsMove ==
    /\ night.pc = "log" /\ night' = [NightIdle EXCEPT !.pc = "finish", !.at = night.at]
    /\ told' = [kind |-> "learned", to |-> NextBar, back |-> night.was]
    /\ NightOnly /\ UNCHANGED <<table, units, bar, verdict, lastRun, ghosts>>

Finishes ==
    /\ night.pc = "finish" /\ night' = NightIdle /\ lastRun' = night.at
    /\ NightOnly /\ UNCHANGED <<table, units, bars, verdict, ghosts>>

(* Any call may be the one that fails: the pass ends there, what it wrote   *)
(* stands, and the next one starts from the same last run.                  *)
NightFails ==
    /\ night.pc # "idle" /\ night' = NightIdle /\ Mishap
    /\ UNCHANGED <<table, units, bars, verdict, lastRun, hand, tuner, judging, ghosts>>

-----------------------------------------------------------------------------
(* The digest asks the first queued question whose relation is there and    *)
(* awake, and closes one left unanswered through the digests it is given.   *)
Visible(i) == EndsOf(i) # {}
Awake(i) == \E p \in EndsOf(i) : ~Dormant(row[p].conf)
ChatOnly == UNCHANGED <<units, bars, verdict, lastRun, night, tuner, judging, ghosts>>

DigestAsks(i) ==
    /\ ask[i] = "queued" /\ Visible(i) /\ Awake(i)
    /\ \A j \in 1 .. i - 1 : ~(ask[j] = "queued" /\ Visible(j) /\ Awake(j))
    /\ ask' = [ask EXCEPT ![i] = "asked"] /\ asked' = Append(asked, i)
    /\ ChatOnly /\ UNCHANGED <<row, ids, hand, counts>>

DigestExpires(i) ==
    /\ ask[i] = "asked" /\ Visible(i) /\ ask' = [ask EXCEPT ![i] = "expired"]
    /\ ChatOnly /\ UNCHANGED <<row, asked, ids, hand, counts>>

(* An answer in the chat is to the question asked last of those open; the   *)
(* page names the relation itself, which must be awake and its ends live.   *)
Open == {k \in 1 .. Len(asked) : ask[asked[k]] = "asked" /\ Visible(asked[k])}
ChatAnswers(yes) ==
    /\ hand["chat"].pc = "idle" /\ Open # {} /\ Act
    /\ \E k \in Open :
          /\ \A o \in Open : o <= k
          /\ hand' = [hand EXCEPT !["chat"] = [HandIdle EXCEPT !.pc = "read", !.yes = yes,
                                                              !.id = asked[k], !.asks = TRUE]]
    /\ ChatOnly /\ UNCHANGED table

PageCurates(p, yes) ==
    /\ hand["page"].pc = "idle" /\ Stored(p) /\ ~Dormant(row[p].conf) /\ Bothlive(p) /\ Act
    /\ hand' = [hand EXCEPT !["page"] =
                  [HandIdle EXCEPT !.pc = IF yes THEN "read" ELSE "journal", !.yes = yes, !.id = row[p].id,
                                   !.asks = ask[row[p].id] \in {"queued", "asked"}]]
    /\ ChatOnly /\ UNCHANGED table

(* A rejection from the page records the row as it was before anything      *)
(* else; a confirmation's row comes after, and its failure stops nothing.   *)
Steps(h, rec) == hand' = [hand EXCEPT ![h] = rec]
HandOnly == UNCHANGED <<units, bars, lastRun, night, tuner, judging, counts, used>>
Journals(h) ==
    /\ hand[h].pc = "journal" /\ Steps(h, [hand[h] EXCEPT !.pc = "read"])
    /\ noted' = noted \cup {hand[h].id}
    /\ HandOnly /\ UNCHANGED <<table, verdict, gone, raised>>

(* Confirming and rejecting read the relation by its id; one already gone   *)
(* ends the answer there.                                                   *)
ReadsRelation(h) ==
    /\ hand[h].pc = "read"
    /\ IF ~Visible(hand[h].id) THEN Steps(h, HandIdle)
       ELSE Steps(h, [hand[h] EXCEPT !.pc = IF hand[h].yes THEN "raise" ELSE "signal",
                                     !.ends = EndsOf(hand[h].id),
                                     !.rel = row[CHOOSE p \in EndsOf(hand[h].id) : TRUE]])
    /\ HandOnly /\ UNCHANGED <<table, verdict, gone, raised, noted>>

(* The row goes back whole, its confidence at least the surface bar.        *)
Raises(h) ==
    /\ hand[h].pc = "raise" /\ Steps(h, [hand[h] EXCEPT !.pc = "signal", !.ends = {}])
    /\ \E p \in hand[h].ends : row' = Upserted(p, [hand[h].rel EXCEPT !.conf = Larger(@, bar.surface)])
    /\ raised' = raised \cup {hand[h].id}
    /\ HandOnly /\ UNCHANGED <<ask, asked, ids, verdict, gone, noted>>

(* A rejection's signal comes before its delete, a confirmation's after its *)
(* raise.                                                                   *)
(* Mutant: the question is closed before the delete. *)
BugSignals(h) ==
    /\ hand[h].pc = "signal"
    /\ verdict' = Append(verdict, [id |-> hand[h].id, no |-> ~hand[h].yes, by |-> hand[h].rel.by, at |-> now])
    /\ Steps(h, [hand[h] EXCEPT !.pc = "close", !.ends = {}, !.rel = NoRelation])
    /\ HandOnly /\ UNCHANGED <<table, gone, raised, noted>>
Signals(h) ==
    /\ hand[h].pc = "signal"
    /\ verdict' = Append(verdict, [id |-> hand[h].id, no |-> ~hand[h].yes, by |-> hand[h].rel.by, at |-> now])
    /\ Steps(h, [hand[h] EXCEPT !.pc = IF hand[h].yes THEN "close" ELSE "delete",
                               !.ends = {}, !.rel = NoRelation])
    /\ HandOnly /\ UNCHANGED <<table, gone, raised, noted>>

Deletes(h) ==
    /\ hand[h].pc = "delete"
    /\ IF ~Visible(hand[h].id) THEN Steps(h, HandIdle) /\ UNCHANGED <<row, gone>>
       ELSE /\ row' = [p \in Ends |-> IF row[p].id = hand[h].id THEN NoRelation ELSE row[p]]
            /\ gone' = gone \cup {<<h, hand[h].id>>}
            /\ Steps(h, [hand[h] EXCEPT !.pc = "close"])
    /\ HandOnly /\ UNCHANGED <<ask, asked, ids, verdict, raised, noted>>

(* The questions found waiting on the relation are closed, unless another   *)
(* answer or the digest closed them first.                                  *)
Closes(h) ==
    /\ hand[h].pc = "close" /\ Steps(h, HandIdle)
    /\ ask' = IF hand[h].asks /\ ask[hand[h].id] \in {"queued", "asked"}
              THEN [ask EXCEPT ![hand[h].id] = IF hand[h].yes THEN "yes" ELSE "no"] ELSE ask
    /\ HandOnly /\ UNCHANGED <<row, asked, ids, verdict, gone, raised, noted>>

HandFails(h) ==
    /\ hand[h].pc # "idle" /\ Steps(h, HandIdle) /\ Mishap
    /\ UNCHANGED <<table, units, bars, verdict, lastRun, night, tuner, judging, ghosts>>

-----------------------------------------------------------------------------
(* The learning page: the last change of the bar, if no other followed it   *)
(* and the bar is what it left, is taken back and the value before it       *)
(* pinned; a pinned bar is let go.  The row about it comes after.           *)
TunerOnly == UNCHANGED <<table, units, verdict, lastRun, night, hand, judging, ghosts>>
UndoReads ==
    /\ tuner.pc = "idle" /\ Act /\ tuner' = [pc |-> "view", back |-> told.back]
    /\ told.kind = "learned"
    /\ TunerOnly /\ UNCHANGED bars

UndoViews ==
    /\ tuner.pc = "view"
    /\ tuner' = IF told.kind = "learned" /\ ~bar.pinned /\ told.to = <<bar.persist, bar.surface>>
                THEN [tuner EXCEPT !.pc = "pin"] ELSE TunerIdle
    /\ TunerOnly /\ UNCHANGED <<bars, counts>>

Pins ==
    /\ tuner.pc = "pin" /\ tuner' = [tuner EXCEPT !.pc = "undone"]
    /\ bar' = [persist |-> tuner.back[1], surface |-> tuner.back[2], pinned |-> TRUE, adjusted |-> now]
    /\ TunerOnly /\ UNCHANGED <<told, counts>>

LetsGo ==
    /\ tuner.pc = "idle" /\ bar.pinned
    /\ bar' = [bar EXCEPT !.pinned = FALSE, !.adjusted = now]
    /\ tuner' = [TunerIdle EXCEPT !.pc = "released"]
    /\ TunerOnly /\ UNCHANGED <<told, counts>>

LogsTuning ==
    /\ tuner.pc \in {"undone", "released"} /\ tuner' = TunerIdle
    /\ told' = [Untold EXCEPT !.kind = tuner.pc]
    /\ TunerOnly /\ UNCHANGED <<bar, counts>>

TunerFails ==
    /\ tuner.pc # "idle" /\ tuner' = TunerIdle /\ Mishap
    /\ TunerOnly /\ UNCHANGED bars

Tick ==
    /\ now < Horizon /\ now' = now + 1
    /\ UNCHANGED <<table, units, bars, verdict, lastRun, night, hand, tuner, judging, acts, mishaps, ghosts>>

Nightly ==
    \/ NightBegins \/ Strengthens \/ ConnectReads \/ (\E p \in Ends : Connects(p)) \/ QueuesQuestion
    \/ Reweighs \/ Learns \/ Moves \/ LogsMove \/ Finishes \/ NightFails
Handed(h) ==
    Journals(h) \/ ReadsRelation(h) \/ Raises(h) \/ Signals(h) \/ Deletes(h) \/ Closes(h) \/ HandFails(h)
Tuned == UndoReads \/ UndoViews \/ Pins \/ LetsGo \/ LogsTuning \/ TunerFails
Next ==
    \/ \E u \in Units : Captures(u) \/ Leaves(u)
    \/ CaptureJudges \/ Nightly \/ Tuned \/ Tick
    \/ \E i \in 1 .. MaxIds : DigestAsks(i) \/ DigestExpires(i)
    \/ \E yes \in BOOLEAN : ChatAnswers(yes) \/ \E p \in Ends : PageCurates(p, yes)
    \/ \E h \in Hands : Handed(h)
Spec == Init /\ [][Next]_vars

-----------------------------------------------------------------------------
TypeOK ==
    /\ row \in [Ends -> [id : 0 .. MaxIds, conf : Nat, strength : Nat, by : {"nobody", "system", "consolidation"}]]
    /\ ask \in [1 .. MaxIds -> {"none", "queued", "asked", "yes", "no", "expired"}] /\ ids \in 0 .. MaxIds
    /\ live \subseteq Units /\ bar.persist \in MinBar .. MaxBar /\ bar.pinned \in BOOLEAN

(* A relation is deleted only once the verdict that says so is written,     *)
(* the page's once its row is in the log too; a verdict that confirms one   *)
(* stands only on a raise that landed; and a question is closed as either   *)
(* only about a relation that was.  Whatever fails, and whoever else        *)
(* answered meanwhile, nothing teaches the learner what did not happen and  *)
(* nothing vanishes without a trace (consolidate.go, checkin.go).           *)
AnswersAreHonest ==
    /\ \A g \in gone : /\ \E k \in 1 .. Len(verdict) : verdict[k].id = g[2] /\ verdict[k].no
                       /\ g[1] = "page" => g[2] \in noted
    /\ \A k \in 1 .. Len(verdict) : ~verdict[k].no => verdict[k].id \in raised
    /\ \A i \in 1 .. MaxIds : /\ ask[i] = "yes" => i \in raised
                              /\ ask[i] = "no" => \E h \in Hands : <<h, i>> \in gone

(* No verdict of the user's moves a bar twice, however passes fail, bars    *)
(* are undone and released, and the clock stands (learning/relation.go).    *)
NoVerdictMovesTwice == night.pc = "move" /\ ~bar.pinned => night.sample \cap used = {}

(* What the user pinned stays until the user changes it, the learner having *)
(* read the bar before it was pinned included (relationrepo.go).            *)
PinStands == [][bar.pinned /\ bar' # bar => night' = night]_vars
===============================================================================
