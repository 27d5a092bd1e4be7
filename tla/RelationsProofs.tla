--------------------------- MODULE RelationsProofs ---------------------------
(***************************************************************************)
(* What Relations promises for any units, judgments, bars and bounds: a    *)
(* bar the user pinned stays, what the user answered is recorded as it     *)
(* happened, and no verdict moves a bar twice.                             *)
(***************************************************************************)
EXTENDS Relations, TLAPS, SequenceTheorems

(* The inductive invariant: the shape of every row and record, in parts    *)
(* that most steps leave alone.                                            *)
Makers == {"nobody", "system", "consolidation"}
Rels == [id : 0 .. MaxIds, conf : Nat, strength : Nat, by : Makers]
Verdicts == [id : 0 .. MaxIds, no : BOOLEAN, by : Makers, at : Nat]
Bars == MinBar .. MaxBar

TableShape ==
    /\ row \in [Ends -> Rels] /\ ids \in 0 .. MaxIds /\ live \subseteq Units
    /\ ask \in [1 .. MaxIds -> {"none", "queued", "asked", "yes", "no", "expired"}]
    /\ asked \in Seq(1 .. MaxIds)
BarShape ==
    /\ bar \in [persist : Bars, surface : Nat, pinned : BOOLEAN, adjusted : Int]
    /\ told \in [kind : {"none", "learned", "undone", "released"}, to : Nat \X Nat, back : Nat \X Nat]
    /\ told.kind = "learned" => told.back[1] \in Bars
TunerShape ==
    /\ tuner \in [pc : {"idle", "view", "pin", "undone", "released"}, back : Nat \X Nat]
    /\ tuner.pc \in {"view", "pin"} => tuner.back[1] \in Bars
VerdictShape == verdict \in Seq(Verdicts)
Nights ==
    [pc : {"idle", "strengthen", "connect", "ask", "learn", "move", "log", "finish"}, at : Nat,
     since : Int, seen : SUBSET (Ends \X Rels), todo : SUBSET Ends, met : SUBSET Units,
     id : 0 .. MaxIds, next : Nat, was : Nat \X Nat, sample : SUBSET Nat]
NightShape ==
    /\ night \in Nights
    /\ night.pc \in {"move", "log"} => night.next \in Bars /\ night.was[1] \in Bars
Handfuls ==
    [pc : {"idle", "read", "journal", "raise", "signal", "delete", "close"}, yes : BOOLEAN,
     id : 0 .. MaxIds, ends : SUBSET Ends, rel : Rels, asks : BOOLEAN]
HandShape == hand \in [Hands -> Handfuls]
ClockShape == now \in Nat /\ lastRun \in Int

Shape == TableShape /\ BarShape /\ TunerShape /\ VerdictShape /\ NightShape /\ HandShape /\ ClockShape

LEMMA NoRelationIsOne == NoRelation \in Rels
BY RelationsAssumption DEF NoRelation, Rels, Makers

LEMMA IdleShapes == NightIdle \in Nights /\ HandIdle \in Handfuls
<1>1. MaxIds \in Nat /\ 0 \in 0 .. MaxIds
  BY RelationsAssumption
<1>2. NightIdle \in Nights
  BY <1>1 DEF NightIdle, Nights, Never
<1>3. HandIdle \in Handfuls
  BY <1>1, NoRelationIsOne DEF HandIdle, Handfuls
<1> QED BY <1>2, <1>3

LEMMA InitShape == Init => Shape
<1> SUFFICES ASSUME Init PROVE Shape
  OBVIOUS
<1>1. TableShape
  BY NoRelationIsOne, RelationsAssumption DEF Init, TableShape
<1>2. BarShape /\ TunerShape
  BY RelationsAssumption DEF Init, BarShape, TunerShape, TunerIdle, Bars, Never
<1>3. VerdictShape /\ HandShape /\ ClockShape
  BY IdleShapes DEF Init, VerdictShape, HandShape, ClockShape, Never
<1>4. NightShape
  BY IdleShapes DEF Init, NightShape, NightIdle
<1> QED BY <1>1, <1>2, <1>3, <1>4 DEF Shape

LEMMA GainsKeep ==
  ASSUME NEW r \in Rels
  PROVE  [r EXCEPT !.strength = @ + 1, !.by = "nobody"] \in Rels
<1>1. r.strength + 1 \in Nat
  BY DEF Rels
<1> QED BY <1>1 DEF Rels, Makers

LEMMA BarFacts ==
  ASSUME BarShape
  PROVE  bar.persist \in Bars /\ bar.persist \in Nat /\ bar.surface \in Nat /\ bar.adjusted \in Int
<1>1. bar.persist \in Bars /\ bar.surface \in Nat /\ bar.adjusted \in Int
  BY DEF BarShape
<1>2. Bars \subseteq Nat
  BY RelationsAssumption DEF Bars
<1> QED BY <1>1, <1>2

LEMMA LearntIsABar == ASSUME BarShape, NEW sample PROVE Learnt(sample) \in Bars \cup {Never}
<1>1. MinBar \in Nat /\ MaxBar \in Nat /\ bar.persist \in MinBar .. MaxBar
  BY BarFacts, RelationsAssumption DEF Bars
<1> QED BY <1>1 DEF Learnt, Bars, Never

(* Storing a whole row keeps the table one.                                *)
LEMMA UpsertKeeps ==
  ASSUME row \in [Ends -> Rels], NEW p, NEW r \in Rels
  PROVE  Upserted(p, r) \in [Ends -> Rels]
BY DEF Upserted, Rels

LEMMA RelatesKeeps ==
  ASSUME TableShape, BarShape, NEW p, NEW c \in Judgments, ~Dormant(c), NEW by \in Makers,
         Relates(p, c, by)
  PROVE  row' \in [Ends -> Rels] /\ ids' \in 1 .. MaxIds
<1>1. c \in Nat
  BY RelationsAssumption DEF Dormant, Judgments, Nothing, BarShape, Bars
<1>2. ids' \in 1 .. MaxIds /\ ids' \in 0 .. MaxIds
  BY RelationsAssumption DEF Relates, TableShape
<1>3. [id |-> ids', conf |-> c, strength |-> 1, by |-> by] \in Rels
  BY <1>1, <1>2 DEF Rels
<1> QED BY <1>2, <1>3, UpsertKeeps DEF Relates, TableShape

(* A step that leaves a part's variables alone keeps the part.             *)
LEMMA PartsKeep ==
  ASSUME Shape
  PROVE  /\ UNCHANGED <<table, live>> => TableShape'
         /\ UNCHANGED bars => BarShape'
         /\ UNCHANGED tuner => TunerShape'
         /\ UNCHANGED verdict => VerdictShape'
         /\ UNCHANGED night => NightShape'
         /\ UNCHANGED hand => HandShape'
         /\ UNCHANGED <<now, lastRun>> => ClockShape'
BY DEF Shape, TableShape, BarShape, TunerShape, VerdictShape, NightShape, HandShape, ClockShape,
       table, bars

(* The pass: each of its steps keeps the night a night, whatever it writes.*)
LEMMA NightStepShape == ASSUME Shape, Nightly PROVE NightShape'
<1> USE DEF Shape, NightShape
<1>1. CASE NightBegins
  <2>1. {<<p, row[p]>> : p \in Evidence(lastRun)} \subseteq Ends \X Rels
    BY DEF TableShape, Evidence
  <2>2. night' \in Nights /\ night'.pc = "strengthen"
    BY <1>1, <2>1, IdleShapes DEF NightBegins, Nights, ClockShape
  <2> QED BY <2>2
<1>2. CASE Strengthens
  <2>1. night' \in Nights /\ night'.pc = "strengthen"
    BY <1>2 DEF Strengthens, Nights
  <2> QED BY <2>1
<1>3. CASE ConnectReads
  <2>1. PICK pairs \in SUBSET Ends :
          night' = [night EXCEPT !.pc = "connect", !.since = Never, !.todo = pairs]
    <3>1. {p \in Unrelated : p[1] \in Sources(night.since)} \subseteq Ends
      BY DEF Unrelated
    <3> QED BY <1>3, <3>1 DEF ConnectReads
  <2>2. Never \in Int
    BY DEF Never
  <2>3. night' \in Nights /\ night'.pc = "connect"
    BY <2>1, <2>2 DEF Nights
  <2> QED BY <2>3
<1>4. ASSUME NEW p \in Ends, Connects(p) PROVE NightShape'
  <2>1. p[1] \in Units /\ p[2] \in Units
    BY DEF Ends
  <2>2. PICK c \in Judgments :
          IF Dormant(c) THEN night' = [night EXCEPT !.todo = @ \ {p}] /\ UNCHANGED <<row, ids>>
          ELSE /\ Relates(p, c, "consolidation")
               /\ night' = [night EXCEPT !.todo = @ \ {p}, !.met = @ \cup {p[1], p[2]},
                                         !.pc = IF Uncertain(c) THEN "ask" ELSE @,
                                         !.id = IF Uncertain(c) THEN ids' ELSE @]
    BY <1>4 DEF Connects
  <2>3. CASE Dormant(c)
    BY <2>2, <2>3, <1>4 DEF Nights, Connects
  <2>4. CASE ~Dormant(c)
    <3>1. ids' \in 0 .. MaxIds
      BY <2>2, <2>4, RelatesKeeps, RelationsAssumption DEF Makers
    <3>2. night.todo \ {p} \in SUBSET Ends /\ night.met \cup {p[1], p[2]} \in SUBSET Units
      BY <2>1 DEF Nights
    <3>3. night.pc = "connect"
      BY <1>4 DEF Connects
    <3>4. PICK todo \in SUBSET Ends, met \in SUBSET Units, pc \in {"connect", "ask"},
               id \in 0 .. MaxIds :
            night' = [night EXCEPT !.todo = todo, !.met = met, !.pc = pc, !.id = id]
      <4>1. CASE Uncertain(c)
        BY <2>2, <2>4, <3>1, <3>2, <4>1
      <4>2. CASE ~Uncertain(c)
        <5>1. night.id \in 0 .. MaxIds
          BY DEF Nights
        <5> QED BY <2>2, <2>4, <3>2, <3>3, <4>2, <5>1
      <4> QED BY <4>1, <4>2
    <3>5. night' \in Nights /\ night'.pc = pc
      BY <3>4 DEF Nights
    <3> QED BY <3>5
  <2> QED BY <2>3, <2>4
<1>5. CASE QueuesQuestion
  <2>1. CASE night' = NightIdle
    BY <2>1, IdleShapes DEF NightIdle
  <2>2. CASE night' = [night EXCEPT !.pc = "connect", !.id = 0]
    <3>1. 0 \in 0 .. MaxIds
      BY RelationsAssumption
    <3>2. night' \in Nights /\ night'.pc = "connect"
      BY <2>2, <3>1 DEF Nights
    <3> QED BY <3>2
  <2>3. night' = NightIdle \/ night' = [night EXCEPT !.pc = "connect", !.id = 0]
    BY <1>5 DEF QueuesQuestion
  <2> QED BY <2>1, <2>2, <2>3
<1>6. CASE Reweighs
  <2>1. night' \in Nights /\ night'.pc = "learn"
    BY <1>6 DEF Reweighs, Nights
  <2> QED BY <2>1
<1>7. CASE Learns
  <2>1. PICK sample \in SUBSET (1 .. Len(verdict)) :
          night' = IF MayLearn /\ Learnt(sample) # Never
                   THEN [night EXCEPT !.pc = "move", !.next = Learnt(sample), !.sample = sample,
                                      !.was = <<bar.persist, bar.surface>>]
                   ELSE [night EXCEPT !.pc = "finish"]
    BY <1>7 DEF Learns
  <2>2. sample \subseteq Nat
    BY DEF VerdictShape
  <2>3. bar.persist \in Bars /\ bar.persist \in Nat /\ bar.surface \in Nat
    BY BarFacts
  <2>4. Learnt(sample) # Never => Learnt(sample) \in Bars /\ Learnt(sample) \in Nat
    BY LearntIsABar, RelationsAssumption DEF Bars
  <2>5. night' \in Nights
    BY <2>1, <2>2, <2>3, <2>4 DEF Nights
  <2>6. night'.pc = "move" => night'.next \in Bars /\ night'.was[1] \in Bars
    BY <2>1, <2>3, <2>4 DEF Nights
  <2>7. night'.pc \in {"move", "finish"}
    BY <2>1 DEF Nights
  <2> QED BY <2>5, <2>6, <2>7
<1>8. CASE Moves
  <2>1. night' \in Nights /\ night'.pc \in {"finish", "log"}
    BY <1>8 DEF Moves, Nights
  <2>2. night'.next = night.next /\ night'.was = night.was /\ night.pc = "move"
    BY <1>8 DEF Moves, Nights
  <2> QED BY <2>1, <2>2
<1>9. CASE LogsMove
  <2>1. night' \in Nights /\ night'.pc = "finish"
    BY <1>9, IdleShapes DEF LogsMove, Nights
  <2> QED BY <2>1
<1>10. CASE Finishes \/ NightFails
  <2>1. night' = NightIdle
    BY <1>10 DEF Finishes, NightFails
  <2> QED BY <2>1, IdleShapes DEF NightIdle
<1> QED BY <1>1, <1>2, <1>3, <1>4, <1>5, <1>6, <1>7, <1>8, <1>9, <1>10 DEF Nightly

LEMMA NextBarShape ==
  ASSUME NightShape, night.pc \in {"move", "log"}
  PROVE  NextBar \in Nat \X Nat /\ NextBar[1] \in Bars /\ NextBar[2] \in Nat
<1>1. night.next \in Bars /\ night.next \in Nat /\ night.was[2] \in Nat
  BY DEF NightShape, Nights
<1> QED BY <1>1 DEF NextBar, Larger

(* What the pass writes to the table, the bar and its row is of their      *)
(* shape, and it writes nowhere else.                                      *)
LEMMA NightlyShape == ASSUME Shape, Nightly PROVE Shape'
<1> USE DEF Shape
<1>1. NightShape' /\ TunerShape' /\ VerdictShape' /\ HandShape' /\ now' = now
  <2>1. UNCHANGED <<tuner, verdict, hand, now>>
    BY DEF Nightly, NightBegins, Strengthens, ConnectReads, Connects, QueuesQuestion, Reweighs,
       Learns, Moves, LogsMove, Finishes, NightFails, NightOnly, counts, Mishap
  <2> QED BY <2>1, NightStepShape, PartsKeep
<1>2. ClockShape'
  <2>1. CASE Finishes
    BY <1>1, <2>1 DEF Finishes, ClockShape, NightShape, Nights
  <2>2. CASE ~Finishes
    BY <1>1, <2>2 DEF Nightly, NightBegins, Strengthens, ConnectReads, Connects, QueuesQuestion,
       Reweighs, Learns, Moves, LogsMove, NightFails, ClockShape
  <2> QED BY <2>1, <2>2
<1>3. BarShape'
  <2>1. CASE Moves
    <3>1. NextBar[1] \in Bars /\ NextBar[2] \in Nat
      BY <2>1, NextBarShape DEF Moves
    <3>2. night.at \in Int
      BY DEF NightShape, Nights
    <3>3. [persist |-> NextBar[1], surface |-> NextBar[2], pinned |-> FALSE, adjusted |-> night.at]
             \in [persist : Bars, surface : Nat, pinned : BOOLEAN, adjusted : Int]
      BY <3>1, <3>2
    <3> QED BY <2>1, <3>3 DEF Moves, BarShape
  <2>2. CASE LogsMove
    <3>1. NextBar \in Nat \X Nat /\ night.was \in Nat \X Nat /\ night.was[1] \in Bars
      BY <2>2, NextBarShape DEF LogsMove, NightShape, Nights
    <3> QED BY <2>2, <3>1 DEF LogsMove, BarShape
  <2>3. CASE ~Moves /\ ~LogsMove
    <3>1. UNCHANGED bars
      BY <2>3 DEF Nightly, NightBegins, Strengthens, ConnectReads, Connects, QueuesQuestion,
         Reweighs, Learns, Finishes, NightFails
    <3> QED BY <3>1, PartsKeep
  <2> QED BY <2>1, <2>2, <2>3
<1>4. TableShape'
  <2>1. CASE Strengthens
    <3>1. PICK s \in night.seen : row' = Upserted(s[1], [s[2] EXCEPT !.strength = @ + 1, !.by = "nobody"])
      BY <2>1 DEF Strengthens
    <3>2. s[1] \in Ends /\ s[2] \in Rels
      BY <3>1 DEF NightShape, Nights
    <3>3. [s[2] EXCEPT !.strength = @ + 1, !.by = "nobody"] \in Rels
      BY <3>2, GainsKeep
    <3> QED BY <2>1, <3>1, <3>2, <3>3, UpsertKeeps DEF Strengthens, TableShape, units
  <2>2. ASSUME NEW p \in Ends, Connects(p) PROVE TableShape'
    <3>1. PICK c \in Judgments :
            IF Dormant(c) THEN UNCHANGED <<row, ids>> ELSE Relates(p, c, "consolidation")
      BY <2>2 DEF Connects
    <3>2. UNCHANGED <<ask, asked, live>>
      BY <2>2 DEF Connects, units
    <3>3. row' \in [Ends -> Rels] /\ ids' \in 0 .. MaxIds
      BY <3>1, RelatesKeeps, RelationsAssumption DEF TableShape, Makers
    <3> QED BY <3>2, <3>3 DEF TableShape
  <2>3. CASE QueuesQuestion
    BY <2>3 DEF QueuesQuestion, TableShape, units
  <2>4. CASE ~Strengthens /\ ~(\E p \in Ends : Connects(p)) /\ ~QueuesQuestion
    <3>1. UNCHANGED <<table, live>>
      BY <2>4 DEF Nightly, NightBegins, ConnectReads, Reweighs, Learns, Moves, LogsMove, Finishes,
         NightFails, units
    <3> QED BY <3>1, PartsKeep
  <2> QED BY <2>1, <2>2, <2>3, <2>4
<1> QED BY <1>1, <1>2, <1>3, <1>4

(* A hand holds a relation as it read it, and writes it back whole.        *)
LEMMA HandedShape == ASSUME Shape, NEW h \in Hands, Handed(h) PROVE Shape'
<1> USE DEF Shape
<1>1. BarShape' /\ TunerShape' /\ NightShape' /\ ClockShape'
  <2>1. UNCHANGED <<bars, tuner, night, now, lastRun>>
    BY DEF Handed, Journals, ReadsRelation, Raises, Signals, Deletes, Closes, HandFails, HandOnly,
       counts, Mishap
  <2> QED BY <2>1, PartsKeep
<1>2. hand[h] \in Handfuls
  BY DEF HandShape
<1>3. HandShape'
  <2>1. ASSUME NEW rec \in Handfuls, Steps(h, rec) PROVE HandShape'
    BY <2>1 DEF HandShape, Steps
  <2>2. CASE Journals(h)
    <3>1. [hand[h] EXCEPT !.pc = "read"] \in Handfuls
      BY <1>2 DEF Handfuls
    <3> QED BY <2>1, <2>2, <3>1 DEF Journals
  <2>3. CASE ReadsRelation(h)
    <3>1. CASE ~Visible(hand[h].id)
      BY <2>1, <2>3, <3>1, IdleShapes DEF ReadsRelation
    <3>2. CASE Visible(hand[h].id)
      <4>1. row[CHOOSE p \in EndsOf(hand[h].id) : TRUE] \in Rels /\ EndsOf(hand[h].id) \in SUBSET Ends
        BY <3>2 DEF Visible, EndsOf, TableShape
      <4> DEFINE rec == [hand[h] EXCEPT !.pc = IF hand[h].yes THEN "raise" ELSE "signal",
                                       !.ends = EndsOf(hand[h].id),
                                       !.rel = row[CHOOSE p \in EndsOf(hand[h].id) : TRUE]]
      <4>2. rec \in Handfuls
        BY <1>2, <4>1 DEF Handfuls
      <4>3. Steps(h, rec)
        BY <2>3, <3>2 DEF ReadsRelation
      <4> QED BY <2>1, <4>2, <4>3
    <3> QED BY <3>1, <3>2
  <2>4. CASE Raises(h)
    <3>1. [hand[h] EXCEPT !.pc = "signal", !.ends = {}] \in Handfuls
      BY <1>2 DEF Handfuls
    <3> QED BY <2>1, <2>4, <3>1 DEF Raises
  <2>5. CASE Signals(h)
    <3>1. [hand[h] EXCEPT !.pc = IF hand[h].yes THEN "close" ELSE "delete",
                          !.ends = {}, !.rel = NoRelation] \in Handfuls
      BY <1>2, NoRelationIsOne DEF Handfuls
    <3> QED BY <2>1, <2>5, <3>1 DEF Signals
  <2>6. CASE Deletes(h)
    <3>1. [hand[h] EXCEPT !.pc = "close"] \in Handfuls
      BY <1>2 DEF Handfuls
    <3> QED BY <2>1, <2>6, <3>1, IdleShapes DEF Deletes
  <2>7. CASE Closes(h) \/ HandFails(h)
    BY <2>1, <2>7, IdleShapes DEF Closes, HandFails
  <2> QED BY <2>2, <2>3, <2>4, <2>5, <2>6, <2>7 DEF Handed
<1>4. VerdictShape'
  <2>1. CASE Signals(h)
    <3>1. [id |-> hand[h].id, no |-> ~hand[h].yes, by |-> hand[h].rel.by, at |-> now] \in Verdicts
      BY <1>2 DEF Verdicts, Handfuls, Rels, ClockShape
    <3> QED BY <2>1, <3>1 DEF Signals, VerdictShape
  <2>2. CASE ~Signals(h)
    BY <2>2, PartsKeep DEF Handed, Journals, ReadsRelation, Raises, Deletes, Closes, HandFails
  <2> QED BY <2>1, <2>2
<1>5. TableShape'
  <2>1. live' = live
    BY DEF Handed, Journals, ReadsRelation, Raises, Signals, Deletes, Closes, HandFails, HandOnly, units
  <2>2. CASE Raises(h)
    <3>1. PICK p \in hand[h].ends : row' = Upserted(p, [hand[h].rel EXCEPT !.conf = Larger(@, bar.surface)])
      BY <2>2 DEF Raises
    <3>2. p \in Ends /\ hand[h].rel \in Rels
      BY <1>2 DEF Handfuls
    <3>3. [hand[h].rel EXCEPT !.conf = Larger(@, bar.surface)] \in Rels
      BY <3>2, BarFacts DEF Rels, Larger
    <3> QED BY <2>1, <2>2, <3>1, <3>2, <3>3, UpsertKeeps DEF Raises, TableShape
  <2>3. CASE Deletes(h)
    <3>1. row' \in [Ends -> Rels]
      BY <2>3, NoRelationIsOne DEF Deletes, TableShape
    <3> QED BY <2>1, <2>3, <3>1 DEF Deletes, TableShape
  <2>4. CASE Closes(h)
    BY <2>1, <2>4 DEF Closes, TableShape
  <2>5. CASE ~Raises(h) /\ ~Deletes(h) /\ ~Closes(h)
    BY <2>1, <2>5, PartsKeep DEF Handed, Journals, ReadsRelation, Signals, HandFails, table
  <2> QED BY <2>2, <2>3, <2>4, <2>5
<1> QED BY <1>1, <1>3, <1>4, <1>5

(* The captures, and units that leave.                                     *)
LEMMA CapturesShape ==
  ASSUME Shape, (\E u \in Units : Captures(u) \/ Leaves(u)) \/ CaptureJudges \/ Tick
  PROVE  Shape'
<1> USE DEF Shape
<1>1. UNCHANGED <<bars, verdict, lastRun, night, hand, tuner>>
  BY DEF Captures, Leaves, CaptureJudges, Tick
<1>2. ClockShape'
  BY <1>1 DEF Captures, Leaves, CaptureJudges, Tick, ClockShape, counts, Mishap
<1>3. TableShape'
  <2>1. ASSUME NEW u \in Units, Captures(u) \/ Leaves(u) PROVE TableShape'
    BY <2>1 DEF Captures, Leaves, TableShape, table
  <2>2. CASE CaptureJudges
    <3>1. PICK v \in Units, c \in Judgments :
            IF Dormant(c) \/ v \notin live \ {judging} THEN UNCHANGED table
            ELSE Relates(<<judging, v>>, c, "system") /\ UNCHANGED <<ask, asked>>
      BY <2>2 DEF CaptureJudges
    <3>2. UNCHANGED live
      BY <2>2 DEF CaptureJudges, units
    <3>3. CASE UNCHANGED table
      BY <3>2, <3>3, PartsKeep
    <3>4. CASE ~Dormant(c) /\ Relates(<<judging, v>>, c, "system") /\ UNCHANGED <<ask, asked>>
      <4>1. row' \in [Ends -> Rels] /\ ids' \in 0 .. MaxIds
        BY <3>4, RelatesKeeps, RelationsAssumption DEF Makers
      <4> QED BY <3>2, <3>4, <4>1 DEF TableShape
    <3> QED BY <3>1, <3>3, <3>4
  <2>3. CASE Tick
    BY <2>3, PartsKeep DEF Tick, units
  <2> QED BY <2>1, <2>2, <2>3
<1> QED BY <1>1, <1>2, <1>3, PartsKeep

(* The digest, and the beginnings of an answer.                            *)
LEMMA AsksShape ==
  ASSUME Shape,
         \/ \E i \in 1 .. MaxIds : DigestAsks(i) \/ DigestExpires(i)
         \/ \E yes \in BOOLEAN : ChatAnswers(yes) \/ \E p \in Ends : PageCurates(p, yes)
  PROVE  Shape'
<1> USE DEF Shape
<1>1. UNCHANGED <<bars, tuner, night, verdict, now, lastRun, live, row, ids>>
  BY DEF DigestAsks, DigestExpires, ChatAnswers, PageCurates, ChatOnly, units, table, counts, Act
<1>2. TableShape'
  <2>1. ASSUME NEW i \in 1 .. MaxIds, DigestAsks(i) PROVE TableShape'
    <3>1. Append(asked, i) \in Seq(1 .. MaxIds)
      BY DEF TableShape
    <3> QED BY <1>1, <2>1, <3>1 DEF DigestAsks, TableShape
  <2>2. ASSUME NEW i \in 1 .. MaxIds, DigestExpires(i) PROVE TableShape'
    BY <1>1, <2>2 DEF DigestExpires, TableShape
  <2>3. ASSUME UNCHANGED table PROVE TableShape'
    BY <1>1, <2>3, PartsKeep
  <2> QED BY <2>1, <2>2, <2>3 DEF ChatAnswers, PageCurates
<1>3. HandShape'
  <2>1. ASSUME NEW h \in Hands, NEW rec \in Handfuls, hand' = [hand EXCEPT ![h] = rec] PROVE HandShape'
    BY <2>1 DEF HandShape
  <2>2. ASSUME NEW yes \in BOOLEAN, ChatAnswers(yes) PROVE HandShape'
    <3>1. PICK k \in Open : hand' = [hand EXCEPT !["chat"] = [HandIdle EXCEPT !.pc = "read", !.yes = yes,
                                                                 !.id = asked[k], !.asks = TRUE]]
      BY <2>2 DEF ChatAnswers
    <3>2. asked[k] \in 0 .. MaxIds
      <4>1. k \in 1 .. Len(asked) /\ asked \in Seq(1 .. MaxIds)
        BY DEF Open, TableShape
      <4>2. asked[k] \in 1 .. MaxIds
        BY <4>1, ElementOfSeq
      <4> QED BY <4>2
    <3>4. [HandIdle EXCEPT !.pc = "read", !.yes = yes, !.id = asked[k], !.asks = TRUE] \in Handfuls
      BY <3>2, IdleShapes DEF Handfuls
    <3> QED BY <2>1, <3>1, <3>4 DEF Hands
  <2>3. ASSUME NEW yes \in BOOLEAN, NEW p \in Ends, PageCurates(p, yes) PROVE HandShape'
    <3>1. row[p].id \in 0 .. MaxIds
      BY DEF TableShape, Rels
    <3> DEFINE b == ask[row[p].id] \in {"queued", "asked"}
    <3>2. b \in BOOLEAN
      OBVIOUS
    <3>3. hand' = [hand EXCEPT !["page"] = [HandIdle EXCEPT !.pc = IF yes THEN "read" ELSE "journal",
                                                             !.yes = yes, !.id = row[p].id, !.asks = b]]
      BY <2>3 DEF PageCurates
    <3> HIDE DEF b
    <3>4. [HandIdle EXCEPT !.pc = IF yes THEN "read" ELSE "journal",
                           !.yes = yes, !.id = row[p].id, !.asks = b] \in Handfuls
      BY <3>1, <3>2, IdleShapes DEF Handfuls
    <3> QED BY <2>1, <3>3, <3>4 DEF Hands
  <2>4. ASSUME \E i \in 1 .. MaxIds : DigestAsks(i) \/ DigestExpires(i) PROVE HandShape'
    BY <2>4, PartsKeep DEF DigestAsks, DigestExpires
  <2> QED BY <2>2, <2>3, <2>4
<1> QED BY <1>1, <1>2, <1>3, PartsKeep

(* What the learning page undoes it puts back as the row about it says.    *)
LEMMA TunedShape == ASSUME Shape, Tuned PROVE Shape'
<1> USE DEF Shape
<1>1. UNCHANGED <<table, live, verdict, lastRun, night, hand, now>>
  BY DEF Tuned, UndoReads, UndoViews, Pins, LetsGo, LogsTuning, TunerFails, TunerOnly, units, counts, Act, Mishap
<1>2. <<0, 0>> \in Nat \X Nat
  OBVIOUS
<1>3. TunerShape'
  <2>1. CASE UndoReads
    BY <2>1 DEF UndoReads, TunerShape, BarShape
  <2>2. CASE UndoViews
    BY <2>2, <1>2 DEF UndoViews, TunerShape, TunerIdle
  <2>3. CASE Pins
    BY <2>3 DEF Pins, TunerShape
  <2>4. CASE LetsGo \/ LogsTuning \/ TunerFails
    BY <2>4, <1>2 DEF LetsGo, LogsTuning, TunerFails, TunerShape, TunerIdle
  <2> QED BY <2>1, <2>2, <2>3, <2>4 DEF Tuned
<1>4. BarShape'
  <2>1. CASE Pins
    <3>1. tuner.back[1] \in Bars /\ tuner.back[2] \in Nat /\ now \in Int
      BY <2>1 DEF Pins, TunerShape, ClockShape
    <3>2. [persist |-> tuner.back[1], surface |-> tuner.back[2], pinned |-> TRUE, adjusted |-> now]
             \in [persist : Bars, surface : Nat, pinned : BOOLEAN, adjusted : Int]
      BY <3>1
    <3> QED BY <2>1, <3>2 DEF Pins, BarShape
  <2>2. CASE LetsGo
    <3>1. [bar EXCEPT !.pinned = FALSE, !.adjusted = now]
             \in [persist : Bars, surface : Nat, pinned : BOOLEAN, adjusted : Int]
      <4>1. bar \in [persist : Bars, surface : Nat, pinned : BOOLEAN, adjusted : Int] /\ now \in Int
        BY DEF BarShape, ClockShape
      <4> QED BY <4>1
    <3> QED BY <2>2, <3>1 DEF LetsGo, BarShape
  <2>3. CASE LogsTuning
    <3>1. Untold.to \in Nat \X Nat /\ Untold.back \in Nat \X Nat
      BY <1>2 DEF Untold
    <3> QED BY <2>3, <3>1 DEF LogsTuning, BarShape, Untold, TunerShape
  <2>4. CASE UndoReads \/ UndoViews \/ TunerFails
    BY <2>4, PartsKeep DEF UndoReads, UndoViews, TunerFails, bars
  <2> QED BY <2>1, <2>2, <2>3, <2>4 DEF Tuned
<1> QED BY <1>1, <1>3, <1>4, PartsKeep

LEMMA ShapeKeeps == Shape /\ [Next]_vars => Shape'
<1>1. ASSUME Shape, UNCHANGED vars PROVE Shape'
  BY <1>1, PartsKeep DEF vars, Shape, units, bars, counts
<1> QED BY <1>1, NightlyShape, HandedShape, CapturesShape, AsksShape, TunedShape DEF Next

(* The table, the bar and the pool are always what their columns allow.    *)
THEOREM RelationTypes == Spec => []TypeOK
<1>1. Shape => TypeOK
  BY BarFacts DEF Shape, TypeOK, TableShape, Rels, Makers, BarShape, Bars
<1>2. Spec => []Shape
  BY InitShape, ShapeKeeps, PTL DEF Spec
<1> QED BY <1>1, <1>2, PTL

(* A verdict written leaves those before it as they are.                   *)
LEMMA VerdictGrows ==
  ASSUME VerdictShape, NEW v \in Verdicts, verdict' = Append(verdict, v)
  PROVE  /\ Len(verdict) \in Nat /\ Len(verdict') = Len(verdict) + 1
         /\ \A k \in 1 .. Len(verdict) : verdict'[k] = verdict[k]
         /\ verdict'[Len(verdict')] = v
BY DEF VerdictShape

LEMMA SignalIsAVerdict ==
  ASSUME Shape, NEW h \in Hands, Signals(h)
  PROVE  /\ Len(verdict) \in Nat /\ Len(verdict') = Len(verdict) + 1
         /\ \A k \in 1 .. Len(verdict) : verdict'[k] = verdict[k]
         /\ verdict'[Len(verdict')].id = hand[h].id
         /\ verdict'[Len(verdict')].no <=> ~hand[h].yes
         /\ verdict'[Len(verdict')].at = now
<1> DEFINE v == [id |-> hand[h].id, no |-> ~hand[h].yes, by |-> hand[h].rel.by, at |-> now]
<1>1. v \in Verdicts
  BY DEF Shape, HandShape, Handfuls, Verdicts, Rels, ClockShape
<1>2. v.id = hand[h].id /\ (v.no <=> ~hand[h].yes) /\ v.at = now
  OBVIOUS
<1>3. verdict' = Append(verdict, v)
  BY DEF Signals
<1> HIDE DEF v
<1> QED BY <1>1, <1>2, <1>3, VerdictGrows DEF Shape

LEMMA VerdictTimes ==
  ASSUME VerdictShape, NEW k \in 1 .. Len(verdict)
  PROVE  verdict[k].at \in Nat
<1>1. verdict[k] \in Verdicts
  BY ElementOfSeq DEF VerdictShape
<1> QED BY <1>1 DEF Verdicts

-----------------------------------------------------------------------------
(* What a hand has done so far of what its answer takes: between the write *)
(* it is at and the one before, what AnswersAreHonest says of the end.     *)
Rejected(i) == \E k \in 1 .. Len(verdict) : verdict[k].id = i /\ verdict[k].no
Underway(h) ==
    /\ hand[h].pc \in {"signal", "close"} /\ hand[h].yes => hand[h].id \in raised
    /\ hand[h].pc = "raise" => hand[h].yes
    /\ hand[h].pc = "delete" => ~hand[h].yes /\ Rejected(hand[h].id)
    /\ hand[h].pc = "close" /\ ~hand[h].yes => <<h, hand[h].id>> \in gone
    /\ h = "page" /\ ~hand[h].yes /\ hand[h].pc \notin {"idle", "journal"} => hand[h].id \in noted
Honest == AnswersAreHonest /\ \A h \in Hands : Underway(h)

LEMMA InitHonest == Init => Honest
<1> SUFFICES ASSUME Init PROVE Honest
  OBVIOUS
<1>1. AnswersAreHonest
  BY RelationsAssumption DEF Init, AnswersAreHonest
<1>2. ASSUME NEW h \in Hands PROVE Underway(h)
  BY <1>2 DEF Init, Underway, HandIdle
<1> QED BY <1>1, <1>2 DEF Honest

(* Everyone else may close, queue or ask a question, but never as answered.*)
LEMMA HonestAside ==
  ASSUME Honest, UNCHANGED <<hand, verdict, gone, raised, noted>>,
         \A i \in 1 .. MaxIds : ask'[i] = ask[i] \/ ask'[i] \in {"queued", "asked", "expired"}
  PROVE  Honest'
<1>1. \A h \in Hands : Underway(h)'
  BY DEF Honest, Underway, Rejected
<1>2. AnswersAreHonest'
  BY DEF Honest, AnswersAreHonest
<1> QED BY <1>1, <1>2 DEF Honest

(* A hand that begins or stops claims nothing.                             *)
LEMMA HonestBegins ==
  ASSUME Honest, HandShape, NEW h \in Hands, NEW rec \in Handfuls, hand' = [hand EXCEPT ![h] = rec],
         rec.pc \in {"idle", "journal"} \/ (rec.pc = "read" /\ (h = "chat" \/ rec.yes)),
         UNCHANGED <<ask, verdict, gone, raised, noted>>
  PROVE  Honest'
<1>1. \A g \in Hands : g # h => Underway(g)'
  BY DEF Honest, Underway, Rejected, HandShape
<1>2. hand'[h] = rec
  BY DEF HandShape
<1>3. Underway(h)'
  BY <1>2 DEF Underway
<1>4. AnswersAreHonest'
  BY DEF Honest, AnswersAreHonest
<1> QED BY <1>1, <1>3, <1>4 DEF Honest

(* What was written stays written, so the other hand's claims stand.       *)
LEMMA OtherHandStands ==
  ASSUME Honest, HandShape, NEW h \in Hands, NEW rec, Steps(h, rec),
         gone \subseteq gone', raised \subseteq raised', noted \subseteq noted',
         \A i : Rejected(i) => Rejected(i)'
  PROVE  hand'[h] = rec /\ \A g \in Hands \ {h} : Underway(g)'
<1>1. hand'[h] = rec /\ \A g \in Hands \ {h} : hand'[g] = hand[g]
  BY DEF HandShape, Steps
<1> QED BY <1>1 DEF Honest, Underway

LEMMA RejectedStays == ASSUME Shape, NEW h \in Hands, Signals(h), NEW i, Rejected(i) PROVE Rejected(i)'
<1>1. PICK k \in 1 .. Len(verdict) : verdict[k].id = i /\ verdict[k].no
  BY DEF Rejected
<1>2. /\ Len(verdict) \in Nat /\ Len(verdict') = Len(verdict) + 1
      /\ \A j \in 1 .. Len(verdict) : verdict'[j] = verdict[j]
  BY SignalIsAVerdict
<1>3. k \in 1 .. Len(verdict') /\ verdict'[k] = verdict[k]
  BY <1>1, <1>2
<1> QED BY <1>1, <1>3 DEF Rejected

(* Each write of an answer is made where its claim is already true.        *)
LEMMA HandedHonest == ASSUME Shape, Honest, NEW h \in Hands, Handed(h) PROVE Honest'
<1> USE DEF Shape
<1>1. hand[h] \in Handfuls /\ DOMAIN hand[h] = {"pc", "yes", "id", "ends", "rel", "asks"}
  BY DEF HandShape, Handfuls
<1>2. Underway(h) /\ AnswersAreHonest
  BY DEF Honest
<1>3. CASE Journals(h)
  <2>1. hand'[h] = [hand[h] EXCEPT !.pc = "read"] /\ \A g \in Hands \ {h} : Underway(g)'
    BY <1>3, OtherHandStands DEF Journals, Rejected
  <2>2. noted' = noted \cup {hand[h].id} /\ UNCHANGED <<ask, verdict, gone, raised>>
    BY <1>3 DEF Journals, table
  <2>3. Underway(h)'
    BY <1>1, <2>1, <2>2 DEF Underway
  <2>4. AnswersAreHonest'
    BY <1>2, <2>2 DEF AnswersAreHonest
  <2> QED BY <2>1, <2>3, <2>4 DEF Honest
<1>4. CASE ReadsRelation(h)
  <2>1. UNCHANGED <<ask, verdict, gone, raised, noted>>
    BY <1>4 DEF ReadsRelation, table
  <2>2. AnswersAreHonest'
    BY <1>2, <2>1 DEF AnswersAreHonest
  <2>3. CASE ~Visible(hand[h].id)
    BY <1>4, <2>1, <2>3, HonestBegins, IdleShapes DEF ReadsRelation, Steps, HandIdle
  <2>4. CASE Visible(hand[h].id)
    <3>1. /\ hand'[h] = [hand[h] EXCEPT !.pc = IF hand[h].yes THEN "raise" ELSE "signal",
                                        !.ends = EndsOf(hand[h].id),
                                        !.rel = row[CHOOSE p \in EndsOf(hand[h].id) : TRUE]]
          /\ \A g \in Hands \ {h} : Underway(g)'
      BY <1>4, <2>1, <2>4, OtherHandStands DEF ReadsRelation, Rejected
    <3>2. /\ hand'[h].pc = IF hand[h].yes THEN "raise" ELSE "signal"
          /\ hand'[h].yes = hand[h].yes /\ hand'[h].id = hand[h].id /\ hand[h].pc = "read"
      BY <1>1, <1>4, <3>1 DEF ReadsRelation
    <3>3. Underway(h)'
      BY <1>2, <2>1, <3>2 DEF Underway
    <3> QED BY <2>2, <3>1, <3>3 DEF Honest
  <2> QED BY <2>3, <2>4
<1>5. CASE Raises(h)
  <2>1. raised' = raised \cup {hand[h].id} /\ UNCHANGED <<ask, verdict, gone, noted>>
    BY <1>5 DEF Raises
  <2>2. /\ hand'[h] = [hand[h] EXCEPT !.pc = "signal", !.ends = {}]
        /\ \A g \in Hands \ {h} : Underway(g)'
    BY <1>5, <2>1, OtherHandStands DEF Raises, Rejected
  <2>3. hand'[h].pc = "signal" /\ hand'[h].yes = hand[h].yes /\ hand'[h].id = hand[h].id /\ hand[h].pc = "raise"
    BY <1>1, <1>5, <2>2 DEF Raises
  <2>4. Underway(h)'
    BY <1>2, <2>1, <2>3 DEF Underway
  <2>5. AnswersAreHonest'
    BY <1>2, <2>1 DEF AnswersAreHonest
  <2> QED BY <2>2, <2>4, <2>5 DEF Honest
<1>6. CASE Signals(h)
  <2>1. UNCHANGED <<ask, gone, raised, noted>>
    BY <1>6 DEF Signals, table
  <2>2. /\ hand'[h] = [hand[h] EXCEPT !.pc = IF hand[h].yes THEN "close" ELSE "delete",
                                      !.ends = {}, !.rel = NoRelation]
        /\ \A g \in Hands \ {h} : Underway(g)'
    BY <1>6, <2>1, OtherHandStands, RejectedStays DEF Signals
  <2>3. /\ hand'[h].pc = IF hand[h].yes THEN "close" ELSE "delete"
        /\ hand'[h].yes = hand[h].yes /\ hand'[h].id = hand[h].id /\ hand[h].pc = "signal"
    BY <1>1, <1>6, <2>2 DEF Signals
  <2> DEFINE n == Len(verdict')
  <2>4. /\ Len(verdict) \in Nat /\ n = Len(verdict) + 1
        /\ \A k \in 1 .. Len(verdict) : verdict'[k] = verdict[k]
        /\ verdict'[n].id = hand[h].id /\ (verdict'[n].no <=> ~hand[h].yes)
    BY <1>6, SignalIsAVerdict
  <2>5. n \in 1 .. n
    BY <2>4
  <2>6. ~hand[h].yes => Rejected(hand[h].id)'
    <3> SUFFICES ASSUME ~hand[h].yes PROVE Rejected(hand[h].id)'
      OBVIOUS
    <3>1. verdict'[n].no
      BY <2>4
    <3> QED BY <2>3, <2>4, <2>5, <3>1 DEF Rejected
  <2>7. Underway(h)'
    BY <1>2, <2>1, <2>3, <2>6 DEF Underway
  <2>8. \A k \in 1 .. Len(verdict)' : ~verdict'[k].no => verdict'[k].id \in raised'
    <3> SUFFICES ASSUME NEW k \in 1 .. Len(verdict)', ~verdict'[k].no PROVE verdict'[k].id \in raised
      BY <2>1
    <3>1. CASE k = Len(verdict)'
      <4>1. hand[h].yes
        BY <2>4, <3>1
      <4> QED BY <1>2, <2>3, <2>4, <3>1, <4>1 DEF Underway
    <3>2. CASE k # Len(verdict)'
      <4>1. k \in 1 .. Len(verdict) /\ verdict'[k] = verdict[k]
        BY <2>4, <3>2
      <4> QED BY <1>2, <4>1 DEF AnswersAreHonest
    <3> QED BY <3>1, <3>2
  <2>9. \A g \in gone : Rejected(g[2]) /\ (g[1] = "page" => g[2] \in noted)
    BY <1>2 DEF AnswersAreHonest, Rejected
  <2>10. \A g \in gone' : Rejected(g[2])' /\ (g[1] = "page" => g[2] \in noted')
    BY <1>6, <2>1, <2>9, RejectedStays
  <2>11. AnswersAreHonest'
    BY <1>2, <2>1, <2>8, <2>10 DEF AnswersAreHonest, Rejected
  <2> QED BY <2>2, <2>7, <2>11 DEF Honest
<1>7. CASE Deletes(h)
  <2>1. UNCHANGED <<ask, verdict, raised, noted>>
    BY <1>7 DEF Deletes
  <2>2. CASE ~Visible(hand[h].id)
    BY <1>7, <2>1, <2>2, HonestBegins, IdleShapes DEF Deletes, Steps, HandIdle
  <2>3. CASE Visible(hand[h].id)
    <3>1. gone' = gone \cup {<<h, hand[h].id>>}
      BY <1>7, <2>3 DEF Deletes
    <3>2. hand'[h] = [hand[h] EXCEPT !.pc = "close"] /\ \A g \in Hands \ {h} : Underway(g)'
      BY <1>7, <2>1, <2>3, <3>1, OtherHandStands DEF Deletes, Rejected
    <3>3. hand'[h].pc = "close" /\ hand'[h].yes = hand[h].yes /\ hand'[h].id = hand[h].id /\ hand[h].pc = "delete"
      BY <1>1, <1>7, <3>2 DEF Deletes
    <3>4. Underway(h)'
      BY <1>2, <2>1, <3>1, <3>3 DEF Underway
    <3>5. Rejected(hand[h].id) /\ (h = "page" => hand[h].id \in noted)
      BY <1>2, <3>3 DEF Underway
    <3>6. \A g \in gone' : Rejected(g[2]) /\ (g[1] = "page" => g[2] \in noted)
      BY <1>2, <3>1, <3>5 DEF AnswersAreHonest, Rejected
    <3>7. AnswersAreHonest'
      BY <1>2, <2>1, <3>1, <3>6 DEF AnswersAreHonest, Rejected
    <3> QED BY <3>2, <3>4, <3>7 DEF Honest
  <2> QED BY <2>2, <2>3
<1>8. CASE Closes(h)
  <2>1. UNCHANGED <<verdict, gone, raised, noted>> /\ hand[h].pc = "close"
    BY <1>8 DEF Closes
  <2>2. hand'[h] = HandIdle /\ \A g \in Hands \ {h} : Underway(g)'
    BY <1>8, <2>1, OtherHandStands DEF Closes, Rejected
  <2>3. Underway(h)'
    BY <2>2 DEF Underway, HandIdle
  <2>4. \A i \in 1 .. MaxIds : ask'[i] = ask[i] \/ (i = hand[h].id /\ ask'[i] = IF hand[h].yes THEN "yes" ELSE "no")
    BY <1>8 DEF Closes, TableShape
  <2>5. AnswersAreHonest'
    BY <1>2, <2>1, <2>4 DEF AnswersAreHonest, Underway
  <2> QED BY <2>2, <2>3, <2>5 DEF Honest
<1>9. CASE HandFails(h)
  BY <1>9, HonestBegins, IdleShapes DEF HandFails, Steps, HandIdle, table, ghosts
<1> QED BY <1>3, <1>4, <1>5, <1>6, <1>7, <1>8, <1>9 DEF Handed

LEMMA HonestKeeps == Shape /\ Honest /\ [Next]_vars => Honest'
<1> SUFFICES ASSUME Shape, Honest, [Next]_vars PROVE Honest'
  OBVIOUS
<1> USE DEF Shape
<1>1. ASSUME NEW h \in Hands, Handed(h) PROVE Honest'
  BY <1>1, HandedHonest
<1>2. CASE QueuesQuestion
  <2>1. \A i \in 1 .. MaxIds : ask'[i] = ask[i] \/ ask'[i] = "queued"
    BY <1>2 DEF QueuesQuestion, TableShape
  <2> QED BY <1>2, <2>1, HonestAside DEF QueuesQuestion, NightOnly, ghosts
<1>3. ASSUME NEW i \in 1 .. MaxIds, DigestAsks(i) \/ DigestExpires(i) PROVE Honest'
  <2>1. \A j \in 1 .. MaxIds : ask'[j] = ask[j] \/ ask'[j] \in {"asked", "expired"}
    BY <1>3 DEF DigestAsks, DigestExpires, TableShape
  <2> QED BY <1>3, <2>1, HonestAside DEF DigestAsks, DigestExpires, ChatOnly, ghosts
<1>4. ASSUME NEW yes \in BOOLEAN, ChatAnswers(yes) PROVE Honest'
  <2>1. PICK k \in Open : hand' = [hand EXCEPT !["chat"] = [HandIdle EXCEPT !.pc = "read", !.yes = yes,
                                                               !.id = asked[k], !.asks = TRUE]]
    BY <1>4 DEF ChatAnswers
  <2>2. UNCHANGED <<ask, verdict, gone, raised, noted>>
    BY <1>4 DEF ChatAnswers, ChatOnly, table, ghosts
  <2>3. \A g \in Hands : g # "chat" => hand'[g] = hand[g]
    BY <2>1 DEF HandShape
  <2>4. hand'["chat"].pc = "read"
    BY <2>1 DEF HandShape, Hands, HandIdle
  <2>5. \A g \in Hands : Underway(g)'
    BY <2>2, <2>3, <2>4 DEF Honest, Underway, Rejected
  <2> QED BY <2>2, <2>5 DEF Honest, AnswersAreHonest
<1>5. ASSUME NEW yes \in BOOLEAN, NEW p \in Ends, PageCurates(p, yes) PROVE Honest'
  <2>1. PICK a : hand' = [hand EXCEPT !["page"] =
                            [HandIdle EXCEPT !.pc = IF yes THEN "read" ELSE "journal", !.yes = yes,
                                             !.id = row[p].id, !.asks = a]]
    BY <1>5, Zenon DEF PageCurates
  <2>2. UNCHANGED <<ask, verdict, gone, raised, noted>>
    BY <1>5 DEF PageCurates, ChatOnly, table, ghosts
  <2>3. \A g \in Hands : g # "page" => hand'[g] = hand[g]
    BY <2>1 DEF HandShape
  <2>4. (hand'["page"].pc = "read" /\ hand'["page"].yes) \/ hand'["page"].pc = "journal"
    BY <2>1 DEF HandShape, Hands, HandIdle
  <2>5. \A g \in Hands : Underway(g)'
    BY <2>2, <2>3, <2>4 DEF Honest, Underway, Rejected
  <2> QED BY <2>2, <2>5 DEF Honest, AnswersAreHonest
<1>6. ASSUME UNCHANGED <<ask, hand, verdict, gone, raised, noted>> PROVE Honest'
  BY <1>6, HonestAside
<1>7. ASSUME Nightly, ~QueuesQuestion PROVE Honest'
  <2>1. UNCHANGED <<ask, hand, verdict, gone, raised, noted>>
    BY <1>7 DEF Nightly, NightBegins, Strengthens, ConnectReads, Connects, Reweighs,
       Learns, Moves, LogsMove, Finishes, NightFails, NightOnly, table, ghosts
  <2> QED BY <1>6, <2>1
<1>8. ASSUME Tuned \/ Tick \/ CaptureJudges \/ \E u \in Units : Captures(u) \/ Leaves(u) PROVE Honest'
  <2>1. UNCHANGED <<ask, hand, verdict, gone, raised, noted>>
    BY <1>8 DEF Tuned, UndoReads, UndoViews, Pins, LetsGo, LogsTuning, TunerFails, TunerOnly, Tick,
       CaptureJudges, Captures, Leaves, table, ghosts
  <2> QED BY <1>6, <2>1
<1>9. CASE UNCHANGED vars
  BY <1>6, <1>9 DEF vars, table, ghosts
<1> QED BY <1>1, <1>2, <1>3, <1>4, <1>5, <1>7, <1>8, <1>9 DEF Next

(* Nothing teaches the learner what did not happen, and no relation goes   *)
(* without its verdict and, from the page, its row in the log.             *)
THEOREM AnswersStayHonest == Spec => []AnswersAreHonest
<1>1. Spec => [](Shape /\ Honest)
  BY InitShape, ShapeKeeps, InitHonest, HonestKeeps, PTL DEF Spec
<1> QED BY <1>1, PTL DEF Honest

-----------------------------------------------------------------------------
(* No verdict counts twice: those behind a move are no younger than it, a  *)
(* pass looks only at verdicts from before it began and after the last     *)
(* move, and only the pass under way moves the bar.                        *)
Spent ==
    /\ \A k \in used : k \in 1 .. Len(verdict) /\ verdict[k].at <= bar.adjusted
    /\ \A k \in 1 .. Len(verdict) : verdict[k].at <= now
    /\ night.pc # "idle" => night.at <= now /\ \A k \in used : verdict[k].at <= night.at
    /\ night.pc = "move" => /\ night.sample \cap used = {}
                            /\ \A k \in night.sample : k \in 1 .. Len(verdict) /\ verdict[k].at <= night.at

LEMMA InitSpent == Init => Spent
<1> SUFFICES ASSUME Init PROVE Spent
  OBVIOUS
<1>1. Len(verdict) = 0 /\ used = {} /\ night.pc = "idle"
  BY DEF Init, NightIdle
<1> QED BY <1>1 DEF Spent

(* A step of the pass that neither samples nor moves keeps its instant.    *)
LEMMA SpentAside ==
  ASSUME Shape, Spent, UNCHANGED <<used, verdict>>, bar'.adjusted \in {bar.adjusted, now},
         now' >= now, now' \in Nat,
         night' = night \/ night'.pc = "idle"
            \/ (night'.at = night.at /\ night.pc # "idle" /\ night'.pc # "move")
            \/ (night'.at = now /\ night'.pc # "move")
  PROVE  Spent'
<1> USE DEF Shape
<1>1. bar.adjusted \in Int /\ now \in Nat /\ night.at \in Nat
  BY BarFacts DEF ClockShape, NightShape, Nights
<1>2. \A k \in 1 .. Len(verdict) : verdict[k].at \in Nat
  BY VerdictTimes
<1> QED BY <1>1, <1>2 DEF Spent

LEMMA SpentKeeps == Shape /\ Spent /\ [Next]_vars => Spent'
<1> SUFFICES ASSUME Shape, Spent, [Next]_vars PROVE Spent'
  OBVIOUS
<1> USE DEF Shape
<1>1. night \in Nights /\ DOMAIN night = {"pc", "at", "since", "seen", "todo", "met", "id", "next", "was", "sample"}
  BY DEF NightShape, Nights
<1>2. now \in Nat /\ now >= now
  BY DEF ClockShape
<1>3. ASSUME NEW h \in Hands, Signals(h) PROVE Spent'
  <2> DEFINE n == Len(verdict')
  <2>1. /\ Len(verdict) \in Nat /\ n = Len(verdict) + 1
        /\ \A k \in 1 .. Len(verdict) : verdict'[k] = verdict[k]
        /\ verdict'[n].at = now
    BY <1>3, SignalIsAVerdict
  <2>2. UNCHANGED <<used, bar, night, now>>
    BY <1>3 DEF Signals, HandOnly, bars, counts
  <2>3. \A k \in 1 .. n : k \in 1 .. Len(verdict) \/ k = n
    BY <2>1
  <2>4. \A k \in 1 .. Len(verdict) : k \in 1 .. n
    BY <2>1
  <2> QED BY <1>2, <2>1, <2>2, <2>3, <2>4 DEF Spent
<1>4. CASE Learns
  <2>1. UNCHANGED <<used, bar, verdict, now>>
    BY <1>4 DEF Learns, NightOnly, bars, ghosts, counts
  <2>2. PICK sample \in SUBSET (1 .. Len(verdict)) :
          /\ Sample(night.at, sample)
          /\ night' = IF MayLearn /\ Learnt(sample) # Never
                      THEN [night EXCEPT !.pc = "move", !.next = Learnt(sample), !.sample = sample,
                                         !.was = <<bar.persist, bar.surface>>]
                      ELSE [night EXCEPT !.pc = "finish"]
    BY <1>4 DEF Learns
  <2>3. \A k \in sample : k \in 1 .. Len(verdict) /\ verdict[k].at <= night.at /\ verdict[k].at > bar.adjusted
    BY <2>2 DEF Sample, Counted
  <2>4. \A k \in 1 .. Len(verdict) : verdict[k].at \in Nat
    BY VerdictTimes
  <2>5. sample \cap used = {}
    BY <2>3, <2>4, BarFacts DEF Spent
  <2>6. night'.at = night.at /\ night.pc = "learn"
    BY <1>1, <1>4, <2>2 DEF Learns
  <2>7. night'.pc = "move" => night'.sample = sample
    BY <1>1, <2>2
  <2> QED BY <2>1, <2>3, <2>5, <2>6, <2>7 DEF Spent
<1>5. CASE Moves /\ ~bar.pinned
  <2>1. /\ bar' = [persist |-> NextBar[1], surface |-> NextBar[2], pinned |-> FALSE, adjusted |-> night.at]
        /\ used' = used \cup night.sample /\ night' = [night EXCEPT !.pc = "log"]
        /\ night.pc = "move" /\ UNCHANGED <<verdict, now>>
    BY <1>5 DEF Moves, NightOnly, counts
  <2>2. bar'.adjusted = night.at /\ night'.at = night.at /\ night'.pc = "log"
    BY <1>1, <2>1
  <2> QED BY <2>1, <2>2 DEF Spent
<1>6. CASE Tuned
  <2>1. UNCHANGED <<used, verdict, night, now>>
    BY <1>6 DEF Tuned, UndoReads, UndoViews, Pins, LetsGo, LogsTuning, TunerFails, TunerOnly, ghosts,
       counts, Act, Mishap
  <2>2. bar'.adjusted \in {bar.adjusted, now}
    <3>1. DOMAIN bar = {"persist", "surface", "pinned", "adjusted"}
      BY DEF BarShape
    <3>2. CASE Pins
      BY <3>2 DEF Pins
    <3>3. CASE LetsGo
      BY <3>1, <3>3 DEF LetsGo
    <3>4. CASE ~Pins /\ ~LetsGo
      BY <1>6, <3>4 DEF Tuned, UndoReads, UndoViews, LogsTuning, TunerFails, bars
    <3> QED BY <3>2, <3>3, <3>4
  <2> QED BY <1>2, <2>1, <2>2, SpentAside
<1>7. ASSUME Nightly, ~Learns, ~(Moves /\ ~bar.pinned) PROVE Spent'
  <2>1. UNCHANGED <<used, verdict, bar, now>>
    BY <1>7 DEF Nightly, NightBegins, Strengthens, ConnectReads, Connects, QueuesQuestion, Reweighs,
       Moves, LogsMove, Finishes, NightFails, NightOnly, bars, ghosts, counts, Mishap
  <2>2. night'.pc = "idle" \/ (night'.at = night.at /\ night.pc # "idle" /\ night'.pc # "move")
          \/ (night'.at = now /\ night'.pc # "move")
    <3>1. CASE NightBegins
      BY <3>1, IdleShapes DEF NightBegins, Nights
    <3>2. CASE Strengthens
      BY <1>1, <3>2 DEF Strengthens
    <3>3. CASE ConnectReads
      BY <1>1, <3>3 DEF ConnectReads
    <3>4. CASE \E p \in Ends : Connects(p)
      BY <1>1, <3>4 DEF Connects
    <3>5. CASE QueuesQuestion
      <4>1. CASE night' = NightIdle
        BY <4>1 DEF NightIdle
      <4>2. CASE night' = [night EXCEPT !.pc = "connect", !.id = 0]
        BY <1>1, <3>5, <4>2 DEF QueuesQuestion
      <4> QED BY <3>5, <4>1, <4>2 DEF QueuesQuestion
    <3>6. CASE Reweighs
      BY <1>1, <3>6 DEF Reweighs
    <3>7. CASE Moves
      BY <1>1, <1>7, <3>7 DEF Moves
    <3>8. CASE LogsMove
      BY <1>1, <3>8, IdleShapes DEF LogsMove, Nights
    <3>9. CASE Finishes \/ NightFails
      BY <3>9 DEF Finishes, NightFails, NightIdle
    <3> QED BY <1>7, <3>1, <3>2, <3>3, <3>4, <3>5, <3>6, <3>7, <3>8, <3>9 DEF Nightly
  <2> QED BY <1>2, <2>1, <2>2, SpentAside
<1>8. ASSUME UNCHANGED <<used, verdict, bar, night, now>> PROVE Spent'
  BY <1>2, <1>8, SpentAside
<1>9. ASSUME NEW h \in Hands, Handed(h), ~Signals(h) PROVE Spent'
  <2>1. UNCHANGED <<used, verdict, bar, night, now>>
    BY <1>9 DEF Handed, Journals, ReadsRelation, Raises, Deletes, Closes, HandFails, HandOnly,
       bars, ghosts, counts, Mishap
  <2> QED BY <1>8, <2>1
<1>10. ASSUME \/ CaptureJudges \/ \E u \in Units : Captures(u) \/ Leaves(u)
              \/ \E i \in 1 .. MaxIds : DigestAsks(i) \/ DigestExpires(i)
              \/ \E yes \in BOOLEAN : ChatAnswers(yes) \/ \E p \in Ends : PageCurates(p, yes)
       PROVE Spent'
  <2>1. UNCHANGED <<used, verdict, bar, night, now>>
    BY <1>10 DEF CaptureJudges, Captures, Leaves, DigestAsks, DigestExpires, ChatAnswers, PageCurates,
       ChatOnly, bars, ghosts, counts, Act, Mishap
  <2> QED BY <1>8, <2>1
<1>11. CASE Tick
  <2>1. UNCHANGED <<used, verdict, bar, night>> /\ now' = now + 1
    BY <1>11 DEF Tick, bars, ghosts
  <2> QED BY <1>2, <2>1, SpentAside
<1>12. CASE UNCHANGED vars
  BY <1>8, <1>12 DEF vars, bars, ghosts, counts
<1> QED BY <1>3, <1>4, <1>5, <1>6, <1>7, <1>9, <1>10, <1>11, <1>12 DEF Next

(* However passes fail, and the bar is undone, pinned and let go between,  *)
(* what moved it once does not move it again.                              *)
THEOREM VerdictsMoveOnce == Spec => []NoVerdictMovesTwice
<1>1. Spent => NoVerdictMovesTwice
  BY DEF Spent, NoVerdictMovesTwice
<1>2. Spec => [](Shape /\ Spent)
  BY InitShape, ShapeKeeps, InitSpent, SpentKeeps, PTL DEF Spec
<1> QED BY <1>1, <1>2, PTL

-----------------------------------------------------------------------------
(* A bar that is pinned is changed by the page alone: the pass reads it    *)
(* unpinned, and looks again as it writes.                                 *)
THEOREM PinsStand == Spec => PinStands
<1>1. [Next]_vars => [bar.pinned /\ bar' # bar => night' = night]_vars
  <2> SUFFICES ASSUME Next, bar.pinned, bar' # bar PROVE night' = night
    BY DEF vars
  <2>1. ASSUME Nightly PROVE FALSE
    BY <2>1 DEF Nightly, NightBegins, Strengthens, ConnectReads, Connects, QueuesQuestion, Reweighs,
       Learns, Moves, LogsMove, Finishes, NightFails, bars
  <2>2. ASSUME NEW h \in Hands, Handed(h) PROVE FALSE
    BY <2>2 DEF Handed, Journals, ReadsRelation, Raises, Signals, Deletes, Closes, HandFails, HandOnly, bars
  <2>3. CASE Tuned
    BY <2>3 DEF Tuned, UndoReads, UndoViews, Pins, LetsGo, LogsTuning, TunerFails, TunerOnly
  <2>4. ASSUME \/ \E u \in Units : Captures(u) \/ Leaves(u)
               \/ CaptureJudges \/ Tick
               \/ \E i \in 1 .. MaxIds : DigestAsks(i) \/ DigestExpires(i)
               \/ \E yes \in BOOLEAN : ChatAnswers(yes) \/ \E p \in Ends : PageCurates(p, yes)
        PROVE FALSE
    BY <2>4 DEF Captures, Leaves, CaptureJudges, Tick, DigestAsks, DigestExpires, ChatAnswers,
       PageCurates, ChatOnly, bars
  <2> QED BY <2>1, <2>2, <2>3, <2>4 DEF Next
<1> QED BY <1>1, PTL DEF Spec, PinStands
==============================================================================
