---------------------------- MODULE ChatProofs ----------------------------
(***************************************************************************)
(* For every value of the constants.  The channel: nothing is dropped that *)
(* was not dealt with, and a process hands a message on once.  The chat:   *)
(* the handling of a message, taken apart, is a handling of Channel and    *)
(* leaves a record of what it kept; no unit and no answer comes of a       *)
(* message already handled; what it does to the timers is what Timers      *)
(* allows, so a timer rings at most once and those unheard are counted.    *)
(***************************************************************************)
EXTENDS Chat, TLAPS, FiniteSetTheorems, WellFoundedInduction,
        SequenceTheorems

-----------------------------------------------------------------------------
(* The channel alone: the offset never passes an update not dealt with.    *)

UpTo(x, T) == {y \in T : y <= x}

(* A set of numbers that is not empty has a least one.                     *)
LEMMA LeastExists ==
  ASSUME NEW T, T \subseteq Nat, T # {}
  PROVE  \E x \in T : \A y \in T : x <= y
<1> DEFINE F == {UpTo(x, T) : x \in T}
<1>1. F \subseteq FiniteSubsetsOf(Nat)
  <2>1. ASSUME NEW x \in T PROVE UpTo(x, T) \in SUBSET Nat /\ IsFiniteSet(UpTo(x, T))
    <3>1. UpTo(x, T) \in SUBSET Nat /\ \A s \in UpTo(x, T) : s <= x
      BY DEF UpTo
    <3> QED BY <3>1, FS_BoundedSetOfNaturals
  <2> QED BY <2>1 DEF FiniteSubsetsOf
<1>2. F # {} OBVIOUS
<1>3. PICK G \in F : \A H \in F : ~ (<<H, G>> \in StrictSubsetOrdering(Nat))
  <2> HIDE DEF F
  <2> QED BY <1>1, <1>2, FS_StrictSubsetOrderingWellFounded, WFMin
<1>4. PICK x \in T : G = UpTo(x, T) OBVIOUS
<1>5. ASSUME NEW y \in T, y < x PROVE FALSE
  <2>1. UpTo(y, T) \in F OBVIOUS
  <2>2. UpTo(y, T) \subseteq G
    <3>1. y \in Nat /\ x \in Nat /\ \A z \in T : z \in Nat
      OBVIOUS
    <3>2. \A z \in T : z <= y => z <= x
      BY <3>1, <1>5
    <3> QED BY <1>4, <3>2 DEF UpTo
  <2>3. x \in G /\ x \notin UpTo(y, T)
    BY <1>4, <1>5 DEF UpTo
  <2>4. UpTo(y, T) \subseteq Nat /\ G \subseteq Nat
    BY <1>4 DEF UpTo
  <2>5. <<UpTo(y, T), G>> \in StrictSubsetOrdering(Nat)
    BY <2>2, <2>3, <2>4 DEF StrictSubsetOrdering
  <2> QED BY <2>1, <2>5, <1>3
<1>6. \A y \in T : x \in Nat /\ y \in Nat /\ ~(y < x) BY <1>5
<1> QED BY <1>6

LEMMA SmallestIsLeast ==
  ASSUME NEW S, S \subseteq Nat, S # {}
  PROVE  Smallest(S) \in S /\ \A v \in S : Smallest(S) <= v
BY LeastExists DEF Smallest

---------------------------------------------------------------------------

Settled(u) == settled[u] # "no"

(* On its way: still in the poll's result, or in the batch.                *)
OnItsWay(u) == u \in inbox \/ u \in batch

Ends == {"no", "handled", "answered", "ignored"}

CursorType ==
    /\ run \in Runs
    /\ kind \in [Updates -> Kinds \union {"none"}]
    /\ settled \in [Updates -> Ends]
    /\ gone \in Nat /\ seen \in Nat
    /\ held \subseteq Updates /\ answered \subseteq Updates
    /\ inbox \subseteq Updates /\ batch \subseteq Updates

SentInOrder == \A u, v \in Updates : u < v /\ kind[v] # "none" => kind[u] # "none"
KnownWasSent == \A u \in held \union inbox \union batch : kind[u] # "none"
RunnerHas ==
    /\ run \in {"handle", "done"} => batch # {}
    /\ run # "sort" => inbox = {}
DroppedIsSettled == \A u \in Updates : u < gone => Settled(u)
SeenIsAccounted ==
    /\ \A u \in Updates : u <= seen => u \in held \/ Settled(u)
    /\ \A u \in held \union batch : u <= seen
AnsweredIsSettled == \A u \in answered : Settled(u)
HeldIsOnItsWay ==
    run \in {"sort", "next", "handle", "done"} =>
        \A u \in held : Settled(u) \/ OnItsWay(u)
InboxFollows ==
    \A u \in inbox, w \in Updates :
        w < u => w \in inbox \/ w <= seen \/ Settled(w)
RingIsSettled ==
    /\ marked \in Seq(Updates)
    /\ \A i \in 1 .. Len(marked) : Settled(marked[i])

CursorInv ==
    /\ CursorType /\ SentInOrder /\ KnownWasSent /\ RunnerHas
    /\ DroppedIsSettled /\ SeenIsAccounted /\ AnsweredIsSettled
    /\ HeldIsOnItsWay /\ InboxFollows /\ RingIsSettled

LEMMA UpdatesAreNat == NumUpdates \in Nat /\ Updates \subseteq Nat /\ \A u \in Updates : u > 0
BY ChannelAssumption DEF Updates

(* What the next poll starts from leaves nothing unsettled behind.         *)
LEMMA OffsetLeavesSettled ==
  ASSUME CursorType, SeenIsAccounted
  PROVE  /\ NextOffset \in Nat
         /\ \A u \in Updates : u < NextOffset => Settled(u)
<1>0. held \subseteq Updates /\ held \subseteq Nat /\ seen \in Nat
  BY UpdatesAreNat DEF CursorType
<1>1. CASE held # {}
  <2>1. Smallest(held) \in held /\ \A v \in held : Smallest(held) <= v
    BY <1>1, <1>0, SmallestIsLeast
  <2>2. NextOffset = Smallest(held)
    BY <1>1 DEF NextOffset
  <2> DEFINE least == Smallest(held)
  <2> HIDE DEF least
  <2>3. ASSUME NEW u \in Updates, u < least PROVE Settled(u)
    <3>0. least \in held /\ \A v \in held : least <= v
      BY <2>1 DEF least
    <3>1. u \notin held /\ least <= seen /\ least \in Nat /\ u \in Nat
      BY <1>0, <3>0, <2>3, UpdatesAreNat DEF SeenIsAccounted
    <3>2. u <= seen
      BY <1>0, <2>3, <3>1
    <3> QED BY <3>1, <3>2 DEF SeenIsAccounted
  <2> QED BY <1>0, <2>1, <2>2, <2>3 DEF least
<1>2. CASE held = {}
  BY <1>0, <1>2, UpdatesAreNat DEF SeenIsAccounted, NextOffset
<1> QED BY <1>1, <1>2

LEMMA CursorInit == ChannelInit => CursorInv
BY UpdatesAreNat DEF ChannelInit, CursorInv, CursorType, SentInOrder, KnownWasSent, RunnerHas,
   DroppedIsSettled, SeenIsAccounted, AnsweredIsSettled, HeldIsOnItsWay, InboxFollows,
   RingIsSettled, Runs, Ends, Settled, OnItsWay

(* The ring's part, when it is left alone.                                 *)
LEMMA RingStays ==
  ASSUME RingIsSettled, marked' = marked, \A u \in Updates : Settled(u) => Settled(u)'
  PROVE  RingIsSettled'
<1>1. \A i \in 1 .. Len(marked) : marked[i] \in Updates
  BY DEF RingIsSettled
<1> QED BY <1>1 DEF RingIsSettled

(* Steps that settle nothing, hold nothing and move no cursor.             *)
LEMMA CursorQuiet ==
  ASSUME CursorInv,
         UNCHANGED <<kind, gone, seen, held, answered, inbox, marked, settled>>,
         run' \in Runs, batch' \subseteq batch,
         run' \in {"handle", "done"} => batch' # {},
         run' # "sort" => inbox = {},
         run' \in {"sort", "next", "handle", "done"} =>
             \A u \in held : Settled(u) \/ u \in inbox \/ u \in batch'
  PROVE  CursorInv'
<1>1. \A u \in Updates : Settled(u)' = Settled(u)
  BY DEF Settled
<1>2. CursorType' /\ SentInOrder' /\ KnownWasSent' /\ RunnerHas'
  BY DEF CursorInv, CursorType, SentInOrder, KnownWasSent, RunnerHas
<1>3. DroppedIsSettled' /\ SeenIsAccounted' /\ AnsweredIsSettled' /\ InboxFollows'
  BY <1>1 DEF CursorInv, CursorType, DroppedIsSettled, SeenIsAccounted, AnsweredIsSettled, InboxFollows
<1>4. HeldIsOnItsWay'
  BY <1>1 DEF HeldIsOnItsWay, OnItsWay, CursorInv, CursorType
<1>5. RingIsSettled'
  BY <1>1, RingStays DEF CursorInv
<1> QED BY <1>2, <1>3, <1>4, <1>5 DEF CursorInv

LEMMA CursorSends == CursorInv /\ UserSends => CursorInv'
<1> SUFFICES ASSUME CursorInv, UserSends PROVE CursorInv'
  OBVIOUS
<1>1. PICK u \in Updates, k \in Kinds :
        /\ kind[u] = "none"
        /\ \A v \in Updates : v < u => kind[v] # "none"
        /\ kind' = [kind EXCEPT ![u] = k]
  BY DEF UserSends
<1>2. k # "none"
  BY ChannelAssumption
<1>3. UNCHANGED <<gone, seen, held, answered, inbox, batch, marked, run, settled>>
  BY DEF UserSends
<1>4. CursorType'
  BY <1>1, <1>3 DEF CursorInv, CursorType
<1>5. \A v \in Updates : kind'[v] = IF v = u THEN k ELSE kind[v]
  BY <1>1 DEF CursorInv, CursorType
<1>6. SentInOrder' /\ KnownWasSent'
  BY <1>1, <1>2, <1>3, <1>5, UpdatesAreNat DEF CursorInv, CursorType, SentInOrder, KnownWasSent
<1>7. RunnerHas' /\ DroppedIsSettled' /\ SeenIsAccounted' /\ AnsweredIsSettled' /\ InboxFollows' /\ HeldIsOnItsWay'
  BY <1>3 DEF CursorInv, RunnerHas, DroppedIsSettled, SeenIsAccounted, AnsweredIsSettled,
              InboxFollows, HeldIsOnItsWay, Settled, OnItsWay
<1>8. RingIsSettled'
  BY <1>3, RingStays DEF CursorInv, Settled
<1> QED BY <1>4, <1>6, <1>7, <1>8 DEF CursorInv

LEMMA CursorPoll == CursorInv /\ Poll => CursorInv'
<1> SUFFICES ASSUME CursorInv, Poll PROVE CursorInv'
  OBVIOUS
<1> DEFINE from == Confirmed(NextOffset)
<1>1. NextOffset \in Nat /\ \A u \in Updates : u < NextOffset => Settled(u)
  BY OffsetLeavesSettled DEF CursorInv
<1>2. from \in Nat /\ \A u \in Updates : u < from => Settled(u)
  BY <1>1 DEF Confirmed, CursorInv, CursorType, DroppedIsSettled
<1> HIDE DEF from
<1>3. /\ UNCHANGED <<kind, seen, held, marked, settled>>
      /\ batch' = {} /\ answered' \subseteq answered
      /\ gone' \in {gone, from}
      /\ \A u \in Updates : Settled(u)' = Settled(u)
  BY DEF Poll, ForgetAnsweredBelow, Settled, from
<1>4. \/ run' = "sort" /\ inbox' = Pending(from)
      \/ run' \in {"poll", "stopped"} /\ inbox' = {}
  BY DEF Poll, from, CursorInv, RunnerHas
<1>5. inbox' \subseteq Updates /\ \A u \in inbox' : kind[u] # "none"
  BY <1>4 DEF Pending
<1>6. CursorType' /\ SentInOrder' /\ KnownWasSent' /\ RunnerHas'
  BY <1>2, <1>3, <1>4, <1>5 DEF CursorInv, CursorType, SentInOrder, KnownWasSent, RunnerHas, Runs
<1>7. DroppedIsSettled' /\ SeenIsAccounted' /\ AnsweredIsSettled'
  BY <1>2, <1>3 DEF CursorInv, CursorType, DroppedIsSettled, SeenIsAccounted, AnsweredIsSettled
<1>8. \A u \in Updates : kind[u] # "none" => Settled(u) \/ run' # "sort" \/ u \in inbox'
  BY <1>2, <1>4, UpdatesAreNat DEF Pending
<1>9. HeldIsOnItsWay'
  BY <1>3, <1>4, <1>8 DEF HeldIsOnItsWay, OnItsWay, CursorInv, CursorType, KnownWasSent
<1>10. InboxFollows'
  BY <1>3, <1>4, <1>5, <1>8 DEF InboxFollows, CursorInv, SentInOrder
<1>11. RingIsSettled'
  BY <1>3, RingStays DEF CursorInv
<1> QED BY <1>6, <1>7, <1>9, <1>10, <1>11 DEF CursorInv

LEMMA CursorAdmit == CursorInv /\ Admit => CursorInv'
<1> SUFFICES ASSUME CursorInv, Admit PROVE CursorInv'
  OBVIOUS
<1>0. inbox # {} /\ inbox \subseteq Updates /\ inbox \subseteq Nat
  BY UpdatesAreNat DEF Admit, CursorInv, CursorType
<1>1. PICK u \in inbox : u = Smallest(inbox) /\ \A v \in inbox : u <= v
  BY <1>0, SmallestIsLeast
<1>2. /\ seen' = IF u > seen THEN u ELSE seen
      /\ inbox' = inbox \ {u}
      /\ run = "sort" /\ run' = run
      /\ UNCHANGED <<kind, gone, marked>>
  BY <1>1 DEF Admit, Observe
<1>3. \/ /\ settled' = [settled EXCEPT ![u] = "ignored"]
         /\ UNCHANGED <<held, answered, batch>>
      \/ /\ u \in answered
         /\ UNCHANGED <<held, batch, answered, settled>>
      \/ /\ answered' = answered \union {u}
         /\ settled' = [settled EXCEPT ![u] = IF @ = "no" THEN "answered" ELSE @]
         /\ UNCHANGED <<held, batch>>
      \/ /\ held' = held \union {u} /\ batch' = batch \union {u}
         /\ UNCHANGED <<answered, settled>>
  BY <1>1 DEF Admit, Ignored, AnsweredHere, Admitted, AnswerHere, Hold
<1>4. /\ u \in Updates /\ u \in Nat /\ kind[u] # "none"
      /\ seen \in Nat /\ seen' \in Nat /\ u <= seen' /\ seen <= seen'
      /\ seen' \in {u, seen}
  BY <1>0, <1>1, <1>2 DEF CursorInv, CursorType, KnownWasSent
<1>5. settled \in [Updates -> Ends] /\ settled' \in [Updates -> Ends]
  BY <1>3, <1>4 DEF CursorInv, CursorType, Ends
<1>6. /\ \A w \in Updates : Settled(w) => Settled(w)'
      /\ u \in held' \/ Settled(u)'
      /\ held \subseteq held' /\ held' \subseteq held \union {u}
      /\ batch \subseteq batch' /\ batch' \subseteq batch \union {u}
      /\ u \in held' => u \in batch' \/ u \in held
      /\ answered' \subseteq answered \union {u}
      /\ u \in answered' => Settled(u)' \/ u \in answered
  BY <1>3, <1>4, <1>5 DEF Settled, Ends, CursorInv, AnsweredIsSettled
<1>7. CursorType' /\ SentInOrder' /\ KnownWasSent' /\ RunnerHas'
  BY <1>0, <1>2, <1>4, <1>5, <1>6 DEF CursorInv, CursorType, SentInOrder, KnownWasSent, RunnerHas, Runs
<1>8. DroppedIsSettled' /\ AnsweredIsSettled'
  BY <1>2, <1>4, <1>6 DEF CursorInv, CursorType, DroppedIsSettled, AnsweredIsSettled
<1>9. ASSUME NEW w \in Updates, w <= seen' PROVE w \in held' \/ Settled(w)'
  <2>1. CASE w <= seen
    BY <1>6, <2>1 DEF CursorInv, SeenIsAccounted
  <2>2. CASE w = u
    BY <1>6, <2>2
  <2>3. CASE w < u /\ ~(w <= seen)
    <3>1. w \notin inbox
      BY <1>0, <1>1, <2>3, UpdatesAreNat
    <3> QED BY <1>1, <1>6, <2>3, <3>1 DEF CursorInv, InboxFollows
  <2> QED BY <1>4, <1>9, <2>1, <2>2, <2>3, UpdatesAreNat
<1>10. \A w \in held' \union batch' : w <= seen'
  BY <1>4, <1>6, UpdatesAreNat DEF CursorInv, SeenIsAccounted, CursorType
<1>11. HeldIsOnItsWay'
  <2>1. ASSUME NEW w \in held', ~ Settled(w)' PROVE OnItsWay(w)'
    <3>1. CASE w = u
      <4>1. u \in batch' \/ u \in held
        BY <1>6, <2>1, <3>1
      <4>2. CASE u \in held /\ u \notin batch'
        BY <1>3, <1>4, <1>6, <2>1, <3>1, <4>2 DEF Settled, CursorInv, AnsweredIsSettled, CursorType
      <4> QED BY <3>1, <4>1, <4>2 DEF OnItsWay
    <3>2. CASE w # u
      <4>1. w \in held /\ w \in Updates
        BY <1>6, <2>1, <3>2 DEF CursorInv, CursorType
      <4> QED BY <1>2, <1>6, <2>1, <3>2, <4>1 DEF CursorInv, HeldIsOnItsWay, OnItsWay
    <3> QED BY <3>1, <3>2
  <2> QED BY <2>1 DEF HeldIsOnItsWay
<1>12. InboxFollows'
  BY <1>0, <1>1, <1>2, <1>4, <1>6, UpdatesAreNat DEF CursorInv, InboxFollows
<1>13. RingIsSettled'
  BY <1>2, <1>6, RingStays DEF CursorInv
<1> QED BY <1>7, <1>8, <1>9, <1>10, <1>11, <1>12, <1>13 DEF CursorInv, SeenIsAccounted

(* The head of a batch that is not empty.                                  *)
LEMMA MsgIsFirst ==
  ASSUME CursorType, batch # {}
  PROVE  Msg \in batch /\ Msg \in Updates /\ \A v \in batch : Msg <= v
<1>1. batch \subseteq Updates /\ batch \subseteq Nat
  BY UpdatesAreNat DEF CursorType
<1> QED BY <1>1, SmallestIsLeast DEF Msg

LEMMA CursorTake ==
  CursorInv /\ (Sorted \/ TakeMessage \/ Handled \/ HandleGoesOn) => CursorInv'
<1> SUFFICES ASSUME CursorInv, Sorted \/ TakeMessage \/ Handled \/ HandleGoesOn
             PROVE  CursorInv'
  OBVIOUS
<1>1. CASE Sorted \/ Handled \/ HandleGoesOn
  BY <1>1, CursorQuiet DEF Sorted, Handled, HandleGoesOn, CursorInv, RunnerHas,
                           HeldIsOnItsWay, OnItsWay, Runs
<1>2. CASE TakeMessage
  <2>1. CASE batch = {} /\ run' = "poll" /\ batch' = batch
    BY <1>2, <2>1, CursorQuiet DEF TakeMessage, CursorInv, RunnerHas, Runs
  <2>2. CASE batch # {} /\ run' = "handle" /\ batch' = batch
    BY <1>2, <2>2, CursorQuiet DEF TakeMessage, CursorInv, RunnerHas, HeldIsOnItsWay, OnItsWay, Runs
  <2>3. CASE batch # {} /\ InRing(Msg) /\ batch' = batch \ {Msg} /\ run' = run
    <3>1. Settled(Msg)
      BY <2>3 DEF InRing, CursorInv, RingIsSettled
    <3> QED BY <1>2, <2>3, <3>1, CursorQuiet DEF TakeMessage, CursorInv, RunnerHas, HeldIsOnItsWay, OnItsWay, Runs
  <2> QED BY <1>2, <2>1, <2>2, <2>3 DEF TakeMessage
<1> QED BY <1>1, <1>2

LEMMA CursorBreaks == CursorInv /\ HandleFails => CursorInv'
BY CursorQuiet DEF HandleFails, BreakBatch, CursorInv, RunnerHas, Runs

(* The ring gains the message handled, and at most loses its oldest.       *)
LEMMA RingGains ==
  ASSUME RingIsSettled, NEW u \in Updates, Mark(u),
         \A w \in Updates : Settled(w) => Settled(w)', Settled(u)'
  PROVE  RingIsSettled'
<1> DEFINE full == Append(marked, u)
<1>1. marked \in Seq(Updates) /\ \A i \in 1 .. Len(marked) : marked[i] \in Updates /\ settled'[marked[i]] # "no"
  BY DEF RingIsSettled, Settled
<1>2. /\ full \in Seq(Updates) /\ Len(full) = Len(marked) + 1
      /\ \A i \in 1 .. Len(marked) : full[i] = marked[i]
      /\ full[Len(marked) + 1] = u
  BY <1>1, AppendProperties
<1>3. \A i \in 1 .. Len(full) : full[i] = u \/ i \in 1 .. Len(marked)
  BY <1>1, <1>2, LenProperties
<1>4. \A i \in 1 .. Len(full) : settled'[full[i]] # "no"
  BY <1>1, <1>2, <1>3 DEF Settled
<1>5. full # <<>>
  BY <1>1, <1>2, LenProperties
<1> HIDE DEF full
<1>6. Tail(full) \in Seq(Updates) /\ Len(Tail(full)) = Len(full) - 1 /\ Len(full) \in Nat
      /\ \A i \in 1 .. Len(Tail(full)) : Tail(full)[i] = full[i + 1]
  BY <1>2, <1>5, HeadTailProperties, LenProperties
<1>7. \A i \in 1 .. Len(Tail(full)) : settled'[Tail(full)[i]] # "no"
  <2>1. \A i \in 1 .. Len(Tail(full)) : i + 1 \in 1 .. Len(full)
    BY <1>6
  <2> QED BY <1>4, <1>6, <2>1
<1>8. marked' \in {marked, full, Tail(full)}
  BY DEF Mark, full
<1>9. CASE marked' = marked
  BY <1>1, <1>9 DEF RingIsSettled, Settled
<1>10. CASE marked' = full
  BY <1>2, <1>4, <1>10 DEF RingIsSettled, Settled
<1>11. CASE marked' = Tail(full)
  BY <1>6, <1>7, <1>11 DEF RingIsSettled, Settled
<1> QED BY <1>8, <1>9, <1>10, <1>11

LEMMA CursorConfirm == CursorInv /\ Confirm => CursorInv'
<1> SUFFICES ASSUME CursorInv, Confirm PROVE CursorInv'
  OBVIOUS
<1>1. PICK u \in batch : u = Msg /\ u \in Updates /\ \A v \in batch : u <= v
  BY MsgIsFirst DEF Confirm, CursorInv, RunnerHas
<1>2. /\ Mark(u) /\ settled' = [settled EXCEPT ![u] = "handled"]
      /\ UNCHANGED <<kind, gone, seen, answered, inbox>>
      /\ run = "done" /\ run' \in {"next", "poll"} /\ batch' \subseteq batch
      /\ \/ held' = Release(u) /\ batch' = batch \ {u}
         \/ held' = held /\ run' = "poll"
  BY <1>1 DEF Confirm
<1>3. settled' \in [Updates -> Ends]
  BY <1>1, <1>2 DEF CursorInv, CursorType, Ends
<1>4. /\ \A w \in Updates : Settled(w) => Settled(w)'
      /\ Settled(u)'
      /\ \A w \in Updates : w # u => Settled(w)' = Settled(w)
  BY <1>1, <1>2 DEF Settled, CursorInv, CursorType
<1>5. held' \subseteq held
  BY <1>2 DEF Release
<1>6. CursorType' /\ SentInOrder' /\ KnownWasSent' /\ RunnerHas'
  BY <1>2, <1>3, <1>5 DEF CursorInv, CursorType, SentInOrder, KnownWasSent, RunnerHas, Runs
<1>7. DroppedIsSettled' /\ AnsweredIsSettled' /\ InboxFollows'
  BY <1>2, <1>4 DEF CursorInv, CursorType, RunnerHas, DroppedIsSettled, AnsweredIsSettled, InboxFollows
<1>8. ASSUME NEW w \in held PROVE w \in held' \/ Settled(w)'
  <2>1. CASE w = u
    BY <1>4, <2>1
  <2>2. CASE w \notin batch
    BY <1>2, <1>4, <2>2 DEF CursorInv, CursorType, HeldIsOnItsWay, OnItsWay, RunnerHas
  <2>3. CASE w \in batch /\ w # u
    <3>1. w > u
      BY <1>1, <2>3, UpdatesAreNat DEF CursorInv, CursorType
    <3> QED BY <1>2, <3>1 DEF Release
  <2> QED BY <2>1, <2>2, <2>3
<1>9. SeenIsAccounted'
  BY <1>2, <1>4, <1>5, <1>8 DEF CursorInv, CursorType, SeenIsAccounted
<1>10. HeldIsOnItsWay'
  BY <1>2, <1>4, <1>5 DEF CursorInv, CursorType, RunnerHas, HeldIsOnItsWay, OnItsWay
<1>11. RingIsSettled'
  BY <1>1, <1>2, <1>4, RingGains DEF CursorInv
<1> QED BY <1>6, <1>7, <1>9, <1>10, <1>11 DEF CursorInv

LEMMA CursorRestart == CursorInv /\ ChannelRestart => CursorInv'
<1> SUFFICES ASSUME CursorInv, ChannelRestart PROVE CursorInv'
  OBVIOUS
<1>1. /\ seen' = 0 /\ held' = {} /\ answered' = {}
      /\ inbox' = {} /\ batch' = {} /\ marked' = <<>> /\ run' = "poll"
      /\ UNCHANGED <<kind, gone, settled>>
  BY DEF ChannelRestart
<1>2. CursorType' /\ SentInOrder' /\ KnownWasSent' /\ RunnerHas' /\ DroppedIsSettled'
  BY <1>1 DEF CursorInv, CursorType, SentInOrder, KnownWasSent, RunnerHas, DroppedIsSettled,
              Runs, Settled
<1>3. SeenIsAccounted' /\ AnsweredIsSettled' /\ HeldIsOnItsWay' /\ InboxFollows'
  BY <1>1, UpdatesAreNat DEF SeenIsAccounted, AnsweredIsSettled, HeldIsOnItsWay, InboxFollows
<1>4. RingIsSettled'
  <2>1. marked' \in Seq(Updates) /\ Len(marked') = 0
    BY <1>1, EmptySeq
  <2> QED BY <2>1 DEF RingIsSettled
<1> QED BY <1>2, <1>3, <1>4 DEF CursorInv

LEMMA CursorStep == CursorInv /\ [ChannelNext]_chVars => CursorInv'
<1> SUFFICES ASSUME CursorInv, [ChannelNext]_chVars PROVE CursorInv'
  OBVIOUS
<1>1. CASE UserSends
  BY <1>1, CursorSends
<1>2. CASE Poll
  BY <1>2, CursorPoll
<1>3. CASE Admit
  BY <1>3, CursorAdmit
<1>4. CASE Sorted \/ TakeMessage \/ Handled \/ HandleGoesOn
  BY <1>4, CursorTake
<1>5. CASE HandleFails
  BY <1>5, CursorBreaks
<1>6. CASE Confirm
  BY <1>6, CursorConfirm
<1>7. CASE ChannelRestart
  BY <1>7, CursorRestart
<1>8. CASE UNCHANGED chVars
  BY <1>8, CursorQuiet DEF chVars, CursorInv, CursorType, RunnerHas, HeldIsOnItsWay, OnItsWay, Runs
<1> QED BY <1>1, <1>2, <1>3, <1>4, <1>5, <1>6, <1>7, <1>8 DEF ChannelNext, RunnerStep

(* Whatever fails, the server drops only what was dealt with.              *)
THEOREM ChannelLosesNothing == ChannelSpec => []NothingIsLost
<1>1. CursorInv => NothingIsLost
  BY DEF CursorInv, DroppedIsSettled, NothingIsLost, Settled
<1> QED BY <1>1, CursorInit, CursorStep, PTL DEF ChannelSpec


-----------------------------------------------------------------------------
(* The channel hands a message on once.  A message dealt with and released *)
(* lies below everything the channel holds, so no poll brings it back; one *)
(* whose confirmation failed is delivered again, and is in the ring, where *)
(* the failures since bound how deep it lies.  The ring's length matters   *)
(* only there: Telegram's confirmations do not fail.                       *)

Known == held \union inbox \union batch

(* Behind every poll to come. *)
Below(u) == (u <= seen \/ u < gone) /\ \A h \in Known : u < h

(* Handed on, or never to be. *)
Dealt(u) == kind[u] \in {"other", "command"} \/ u \in answered \/ again[u] > 0 \/ Below(u)

InTheRing(u) == \E i \in 1 .. Len(marked) : marked[i] = u /\ i + faults > Len(marked)

RingShape ==
    /\ again \in [Updates -> Nat] /\ faults \in 0 .. MaxFaults
    /\ Len(marked) <= Window
    /\ \A i \in 1 .. Len(marked) : again[marked[i]] > 0
AdmittedOnly ==
    /\ batch \subseteq held /\ inbox \intersect batch = {}
    /\ \A u \in batch : kind[u] \in {"text", "voice"} /\ u \notin answered
    /\ \A u \in answered : kind[u] \in {"command", "voice"}
NoneGone == \A h \in Known : h >= gone
EarlierDealt ==
    \A w \in inbox \union batch, u \in Updates :
        u < w => u \in inbox \union batch \/ Dealt(u)
HandledInOrder == \A v, u \in Updates : again[v] > 0 /\ u < v => Dealt(u)
Remembered ==
    \A u \in Updates : again[u] > 0 => again[u] = 1 /\ (Below(u) \/ InTheRing(u))
HandsOnNew == run \in {"handle", "done"} => ~InRing(Msg)

OnceInv ==
    /\ RingShape /\ AdmittedOnly /\ NoneGone /\ EarlierDealt
    /\ HandledInOrder /\ Remembered /\ HandsOnNew

LEMMA OnceInit == ChannelInit => OnceInv
BY ChannelAssumption, UpdatesAreNat
   DEF ChannelInit, OnceInv, RingShape, AdmittedOnly, NoneGone, EarlierDealt, HandledInOrder,
       Remembered, HandsOnNew, Known

(* A step that only hands a batch on, drops what was handled from it, or   *)
(* breaks it off.                                                          *)
LEMMA OnceQuiet ==
  ASSUME CursorInv, OnceInv,
         UNCHANGED <<kind, gone, seen, held, answered, inbox, marked, again>>,
         batch' \subseteq batch,
         \A u \in batch \ batch' : again[u] > 0 \/ (batch' = {} /\ inbox = {}),
         faults' \in 0 .. MaxFaults, faults' >= faults,
         run' \in {"handle", "done"} => ~InRing(Msg)'
  PROVE  OnceInv'
<1>1. RingShape' /\ AdmittedOnly' /\ NoneGone' /\ HandsOnNew'
  BY DEF OnceInv, RingShape, AdmittedOnly, NoneGone, HandsOnNew, Known
<1>2. \A u \in Updates : Below(u) => Below(u)'
  BY DEF Below, Known
<1>3. \A u \in Updates : Dealt(u) => Dealt(u)'
  BY <1>2 DEF Dealt
<1>4. EarlierDealt'
  <2>1. ASSUME NEW w \in inbox \union batch', NEW u \in Updates, u < w
        PROVE  u \in inbox \union batch' \/ Dealt(u)'
    <3>1. u \in inbox \union batch \/ Dealt(u)
      BY <2>1 DEF OnceInv, EarlierDealt
    <3>2. CASE u \in batch /\ u \notin batch'
      BY <2>1, <3>2 DEF Dealt
    <3> QED BY <1>3, <3>1, <3>2
  <2> QED BY <2>1 DEF EarlierDealt
<1>5. HandledInOrder'
  BY <1>3 DEF OnceInv, HandledInOrder
<1>6. Remembered'
  <2>1. \A u \in Updates : InTheRing(u) => InTheRing(u)'
    <3>1. Len(marked) \in Nat
      BY LenProperties DEF CursorInv, RingIsSettled
    <3>2. \A i \in 1 .. Len(marked) : i + faults > Len(marked) => i + faults' > Len(marked)
      BY <3>1 DEF OnceInv, RingShape
    <3> QED BY <3>2 DEF InTheRing
  <2> QED BY <1>2, <2>1 DEF OnceInv, Remembered
<1> QED BY <1>1, <1>4, <1>5, <1>6 DEF OnceInv

(* What the channel holds and knows are update ids.                        *)
LEMMA KnownAreNat ==
  ASSUME CursorInv
  PROVE  Known \subseteq Updates /\ Known \subseteq Nat /\ seen \in Nat /\ gone \in Nat
BY UpdatesAreNat DEF CursorInv, CursorType, Known

LEMMA OnceSends == CursorInv /\ OnceInv /\ UserSends => OnceInv'
<1> SUFFICES ASSUME CursorInv, OnceInv, UserSends PROVE OnceInv'
  OBVIOUS
<1>1. PICK u \in Updates, k \in Kinds : kind[u] = "none" /\ kind' = [kind EXCEPT ![u] = k]
  BY DEF UserSends
<1>2. UNCHANGED <<gone, seen, held, answered, inbox, batch, marked, run, again, faults>>
  BY DEF UserSends
<1>3. \A v \in Updates : kind[v] # "none" => kind'[v] = kind[v]
  BY <1>1 DEF CursorInv, CursorType
<1>4. batch \subseteq Updates /\ answered \subseteq Updates
  BY DEF CursorInv, CursorType
<1>5. \A v \in Updates : Below(v)' = Below(v)
  BY <1>2 DEF Below, Known
<1>6. \A v \in Updates : Dealt(v) => Dealt(v)'
  BY <1>2, <1>3, <1>5 DEF Dealt
<1>7. RingShape' /\ NoneGone' /\ HandsOnNew'
  BY <1>2 DEF OnceInv, RingShape, NoneGone, HandsOnNew, Known, InRing, Msg
<1>8. AdmittedOnly'
  BY <1>2, <1>3, <1>4 DEF OnceInv, AdmittedOnly
<1>9. EarlierDealt' /\ HandledInOrder'
  BY <1>2, <1>6 DEF OnceInv, EarlierDealt, HandledInOrder
<1>10. Remembered'
  BY <1>2, <1>5 DEF OnceInv, Remembered, InTheRing
<1> QED BY <1>7, <1>8, <1>9, <1>10 DEF OnceInv

(* The next poll begins above what lies below, and at or below all that is *)
(* held; what lies before its start lies below from then on.               *)
LEMMA PollStarts ==
  ASSUME CursorInv, OnceInv, inbox = {}
  PROVE  /\ Confirmed(NextOffset) \in Nat /\ Confirmed(NextOffset) >= gone
         /\ NextOffset <= Confirmed(NextOffset)
         /\ \A u \in Updates : Below(u) => u < Confirmed(NextOffset)
         /\ \A h \in held : h >= Confirmed(NextOffset)
         /\ \A u \in Updates : u < Confirmed(NextOffset) =>
               (u <= seen \/ u < Confirmed(NextOffset)) /\ \A h \in held : u < h
<1> DEFINE from == Confirmed(NextOffset)
<1>0. held \subseteq Nat /\ held \subseteq Updates /\ seen \in Nat /\ gone \in Nat
  BY UpdatesAreNat DEF CursorInv, CursorType
<1>1. CASE held # {}
  <2>1. NextOffset \in held /\ \A v \in held : NextOffset <= v
    BY <1>0, <1>1, SmallestIsLeast DEF NextOffset
  <2>2. from = NextOffset /\ from >= gone
    BY <1>0, <2>1 DEF Confirmed, OnceInv, NoneGone, Known
  <2>3. \A u \in Updates : Below(u) => u < from
    BY <2>1, <2>2 DEF Below, Known
  <2>4. \A h \in held : h >= from
    BY <1>0, <2>1, <2>2
  <2>5. \A u \in Updates : u < from => \A h \in held : u < h
    BY <1>0, <2>4, <2>1, <2>2, UpdatesAreNat
  <2> QED BY <1>0, <2>1, <2>2, <2>3, <2>4, <2>5
<1>2. CASE held = {}
  <2>1. NextOffset \in Nat /\ \A u \in Updates : u <= seen => u < NextOffset
    BY <1>0, <1>2, UpdatesAreNat DEF NextOffset
  <2>2. from \in Nat /\ from >= gone /\ NextOffset <= from
    BY <1>0, <2>1 DEF Confirmed
  <2>3. \A u \in Updates : Below(u) => u < from
    BY <1>0, <2>1, <2>2, UpdatesAreNat DEF Below
  <2> QED BY <1>2, <2>2, <2>3
<1> QED BY <1>1, <1>2

LEMMA OncePoll == CursorInv /\ OnceInv /\ Poll => OnceInv'
<1> SUFFICES ASSUME CursorInv, OnceInv, Poll PROVE OnceInv'
  OBVIOUS
<1> DEFINE from == Confirmed(NextOffset)
<1>1. inbox = {} /\ run = "poll"
  BY DEF Poll, CursorInv, RunnerHas
<1>2. /\ UNCHANGED <<kind, seen, held, marked, again>> /\ batch' = {}
      /\ answered' = {u \in answered : u >= NextOffset}
      /\ gone' \in {gone, from} /\ inbox' \in {{}, Pending(from)}
      /\ inbox' # {} => gone' = from
      /\ run' \notin {"handle", "done"}
  BY <1>1 DEF Poll, ForgetAnsweredBelow
<1>3. faults' \in 0 .. MaxFaults /\ faults' >= faults
  BY ChannelAssumption DEF Poll, Fault, OnceInv, RingShape
<1>4. /\ from \in Nat /\ from >= gone /\ NextOffset <= from
      /\ \A u \in Updates : Below(u) => u < from
      /\ \A h \in held : h >= from
      /\ \A u \in Updates : u < from => (u <= seen \/ u < from) /\ \A h \in held : u < h
  BY <1>1, PollStarts
<1>5. /\ held \subseteq Nat /\ held \subseteq Updates /\ seen \in Nat /\ gone \in Nat
      /\ batch \subseteq Updates /\ answered \subseteq Updates
  BY UpdatesAreNat DEF CursorInv, CursorType
<1> HIDE DEF from
<1>6. inbox' \subseteq Updates /\ \A h \in inbox' : h >= from /\ kind[h] # "none"
  BY <1>2 DEF Pending
<1>7. gone' \in Nat /\ gone' >= gone /\ gone' <= from
  BY <1>2, <1>4, <1>5
<1>8. ASSUME NEW u \in Updates, Below(u) PROVE Below(u)'
  <2>1. u < from /\ \A h \in held : u < h
    BY <1>4, <1>8
  <2>2. \A h \in inbox' : u < h
    BY <1>4, <1>6, <2>1, UpdatesAreNat
  <2>3. u <= seen' \/ u < gone'
    BY <1>2, <1>5, <1>7, <1>8, UpdatesAreNat DEF Below
  <2> QED BY <1>2, <2>1, <2>2, <2>3 DEF Below, Known
<1>9. ASSUME NEW u \in Updates, Dealt(u) PROVE Dealt(u)'
  <2>1. CASE u \in answered /\ u \notin answered'
    <3>0. NextOffset \in Nat
      BY OffsetLeavesSettled DEF CursorInv
    <3>1. u < NextOffset
      <4>1. ~(u >= NextOffset)
        BY <1>2, <2>1
      <4> QED BY <3>0, <4>1, UpdatesAreNat
    <3>2. held = {} => NextOffset = IF seen = 0 THEN 0 ELSE seen + 1
      BY DEF NextOffset
    <3>3. held # {} => NextOffset \in held /\ \A h \in held : NextOffset <= h
      BY <1>5, SmallestIsLeast DEF NextOffset
    <3>4. \A h \in held : u < h
      BY <1>5, <3>0, <3>1, <3>3, UpdatesAreNat
    <3>5. u <= seen
      <4>1. CASE held = {}
        BY <1>5, <3>1, <3>2, <4>1, UpdatesAreNat
      <4>2. CASE held # {}
        <5>1. NextOffset <= seen
          BY <3>3, <4>2 DEF CursorInv, SeenIsAccounted
        <5> QED BY <1>5, <3>0, <3>1, <5>1, UpdatesAreNat
      <4> QED BY <4>1, <4>2
    <3>6. Below(u)
      <4>1. batch \subseteq held
        BY DEF OnceInv, AdmittedOnly
      <4> QED BY <1>1, <3>4, <3>5, <4>1 DEF Below, Known
    <3> QED BY <1>8, <3>6 DEF Dealt
  <2>2. CASE ~(u \in answered /\ u \notin answered')
    BY <1>2, <1>8, <1>9, <2>2 DEF Dealt
  <2> QED BY <2>1, <2>2
<1>10. RingShape' /\ HandsOnNew'
  BY <1>2, <1>3 DEF OnceInv, RingShape, HandsOnNew
<1>11. AdmittedOnly'
  BY <1>2 DEF OnceInv, AdmittedOnly
<1>12. NoneGone'
  <2>1. \A h \in held : h >= gone'
    BY <1>4, <1>5, <1>7
  <2>2. \A h \in inbox' : h >= gone'
    BY <1>4, <1>6, <1>7, UpdatesAreNat
  <2> QED BY <1>2, <2>1, <2>2 DEF NoneGone, Known
<1>13. EarlierDealt'
  <2>1. ASSUME NEW w \in inbox', NEW u \in Updates, u < w
        PROVE  u \in inbox' \/ Dealt(u)'
    <3>1. kind[u] # "none" /\ gone' = from /\ inbox' = Pending(from)
      BY <1>2, <1>6, <2>1 DEF CursorInv, SentInOrder
    <3>2. CASE u >= from
      BY <3>1, <3>2 DEF Pending
    <3>3. CASE ~(u >= from)
      <4>1. u < from
        BY <1>4, <3>3, UpdatesAreNat
      <4>2. u < gone' /\ \A h \in held : u < h
        BY <1>4, <3>1, <4>1
      <4>3. \A h \in inbox' : u < h
        BY <1>4, <1>6, <4>1, UpdatesAreNat
      <4> QED BY <1>2, <4>2, <4>3 DEF Dealt, Below, Known
    <3> QED BY <3>2, <3>3
  <2> QED BY <1>2, <2>1 DEF EarlierDealt
<1>14. HandledInOrder'
  BY <1>2, <1>9 DEF OnceInv, HandledInOrder
<1>15. Remembered'
  <2>1. \A u \in Updates : InTheRing(u) => InTheRing(u)'
    <3>1. Len(marked) \in Nat
      BY LenProperties DEF CursorInv, RingIsSettled
    <3>2. \A i \in 1 .. Len(marked) : i + faults > Len(marked) => i + faults' > Len(marked)
      BY <1>3, <3>1 DEF OnceInv, RingShape
    <3> QED BY <1>2, <3>2 DEF InTheRing
  <2> QED BY <1>2, <1>8, <2>1 DEF OnceInv, Remembered
<1> QED BY <1>10, <1>11, <1>12, <1>13, <1>14, <1>15 DEF OnceInv

LEMMA OnceAdmit == CursorInv /\ OnceInv /\ Admit => OnceInv'
<1> SUFFICES ASSUME CursorInv, OnceInv, Admit PROVE OnceInv'
  OBVIOUS
<1>0. inbox # {} /\ inbox \subseteq Updates /\ inbox \subseteq Nat
  BY UpdatesAreNat DEF Admit, CursorInv, CursorType
<1>1. PICK u \in inbox : u = Smallest(inbox) /\ \A v \in inbox : u <= v
  BY <1>0, SmallestIsLeast
<1>2. /\ seen' = IF u > seen THEN u ELSE seen
      /\ inbox' = inbox \ {u}
      /\ UNCHANGED <<kind, gone, marked, again, faults>> /\ run' = "sort"
  BY <1>1 DEF Admit, Observe
<1>3. \/ kind[u] = "other" /\ UNCHANGED <<held, answered, batch>>
      \/ /\ kind[u] \in {"command", "voice"} /\ answered' = answered \union {u}
         /\ UNCHANGED <<held, batch>>
      \/ /\ kind[u] \in {"text", "voice"} /\ u \notin answered
         /\ held' = held \union {u} /\ batch' = batch \union {u} /\ answered' = answered
  <2>1. CASE Ignored(u)
    BY <2>1 DEF Ignored
  <2>2. CASE AnsweredHere(u)
    BY <2>2 DEF AnsweredHere, AnswerHere
  <2>3. CASE Admitted(u)
    <3>1. CASE kind[u] = "text"
      <4>1. u \notin answered
        BY <3>1 DEF OnceInv, AdmittedOnly
      <4> QED BY <2>3, <3>1, <4>1 DEF Admitted, Hold
    <3> QED BY <2>3, <3>1 DEF Admitted, Hold
  <2> QED BY <1>1, <2>1, <2>2, <2>3 DEF Admit
<1>4. /\ u \in Updates /\ u \in Nat /\ seen \in Nat /\ seen' \in Nat
      /\ seen <= seen' /\ u <= seen'
  BY <1>0, <1>1, <1>2 DEF CursorInv, CursorType
<1>5. Known' \subseteq Known /\ inbox' \union batch' \subseteq inbox \union batch
  BY <1>2, <1>3, <1>1 DEF Known
<1>6. \A x \in Updates : Below(x) => Below(x)'
  BY <1>2, <1>4, <1>5, UpdatesAreNat DEF Below, CursorInv, CursorType
<1>7. \A x \in Updates : Dealt(x) => Dealt(x)'
  BY <1>2, <1>3, <1>6 DEF Dealt
<1>8. u \in batch' \/ Dealt(u)'
  BY <1>2, <1>3 DEF Dealt
<1>9. RingShape' /\ HandsOnNew'
  BY <1>2 DEF OnceInv, RingShape, HandsOnNew
<1>10. AdmittedOnly'
  <2>1. u \notin batch
    BY DEF OnceInv, AdmittedOnly
  <2> QED BY <1>1, <1>2, <1>3, <2>1 DEF OnceInv, AdmittedOnly
<1>11. NoneGone'
  BY <1>2, <1>5 DEF OnceInv, NoneGone
<1>12. EarlierDealt'
  <2>1. ASSUME NEW w \in inbox' \union batch', NEW x \in Updates, x < w
        PROVE  x \in inbox' \union batch' \/ Dealt(x)'
    <3>1. x \in inbox \union batch \/ Dealt(x)
      BY <1>5, <2>1 DEF OnceInv, EarlierDealt
    <3>2. x \in batch => x \in batch'
      BY <1>3
    <3> QED BY <1>2, <1>7, <1>8, <3>1, <3>2
  <2> QED BY <2>1 DEF EarlierDealt
<1>13. HandledInOrder'
  BY <1>2, <1>7 DEF OnceInv, HandledInOrder
<1>14. Remembered'
  <2>1. \A x \in Updates : InTheRing(x) => InTheRing(x)'
    BY <1>2 DEF InTheRing
  <2> QED BY <1>2, <1>6, <2>1 DEF OnceInv, Remembered
<1> QED BY <1>9, <1>10, <1>11, <1>12, <1>13, <1>14 DEF OnceInv

LEMMA RingIs == CursorInv => marked \in Seq(Updates) /\ Len(marked) \in Nat /\ DOMAIN marked = 1 .. Len(marked)
BY LenProperties DEF CursorInv, RingIsSettled

LEMMA OnceTake ==
  CursorInv /\ OnceInv /\ (Sorted \/ TakeMessage \/ Handled \/ HandleGoesOn \/ HandleFails)
      => OnceInv'
<1> SUFFICES ASSUME CursorInv, OnceInv,
                    Sorted \/ TakeMessage \/ Handled \/ HandleGoesOn \/ HandleFails
             PROVE  OnceInv'
  OBVIOUS
<1>0. faults \in 0 .. MaxFaults /\ MaxFaults \in Nat
  BY ChannelAssumption DEF OnceInv, RingShape
<1>1. CASE Sorted \/ Handled \/ HandleGoesOn
  <2>1. UNCHANGED <<kind, gone, seen, held, answered, inbox, batch, marked, again>>
    BY <1>1 DEF Sorted, Handled, HandleGoesOn
  <2>2. faults' \in 0 .. MaxFaults /\ faults' >= faults
    BY <1>0, <1>1 DEF Sorted, Handled, HandleGoesOn, Fault
  <2>3. run' \in {"handle", "done"} => ~InRing(Msg)'
    BY <1>1, <2>1 DEF Sorted, Handled, HandleGoesOn, OnceInv, HandsOnNew, InRing, Msg
  <2> QED BY <2>1, <2>2, <2>3, OnceQuiet
<1>2. CASE TakeMessage
  <2>1. UNCHANGED <<kind, gone, seen, held, answered, inbox, marked, again, faults>>
    BY <1>2 DEF TakeMessage
  <2>2. faults' \in 0 .. MaxFaults /\ faults' >= faults
    BY <1>0, <2>1
  <2>3. CASE batch' = batch /\ run' = "poll"
    BY <2>1, <2>2, <2>3, OnceQuiet
  <2>4. CASE batch' = batch /\ run' = "handle" /\ ~InRing(Msg)
    <3>1. ~InRing(Msg)'
      BY <2>1, <2>4 DEF InRing, Msg
    <3> QED BY <2>1, <2>2, <2>4, <3>1, OnceQuiet
  <2>5. CASE batch' = batch \ {Msg} /\ InRing(Msg) /\ run' = run
    <3>1. again[Msg] > 0
      BY <2>5, RingIs DEF InRing, OnceInv, RingShape
    <3>2. run' \notin {"handle", "done"}
      BY <1>2, <2>5 DEF TakeMessage
    <3> QED BY <2>1, <2>2, <2>5, <3>1, <3>2, OnceQuiet
  <2> QED BY <1>2, <2>3, <2>4, <2>5 DEF TakeMessage
<1>3. CASE HandleFails
  <2>1. /\ UNCHANGED <<kind, gone, seen, held, answered, inbox, marked, again>>
        /\ batch' = {} /\ run' = "poll" /\ run = "handle"
    BY <1>3 DEF HandleFails, BreakBatch
  <2>2. faults' \in 0 .. MaxFaults /\ faults' >= faults
    BY <1>0, <1>3 DEF HandleFails, Fault
  <2>3. inbox = {}
    BY <2>1 DEF CursorInv, RunnerHas
  <2> QED BY <2>1, <2>2, <2>3, OnceQuiet
<1> QED BY <1>1, <1>2, <1>3

(* A confirmation the channel refuses, the message being handled.          *)
ConfirmFails == run = "done" /\ run' = "poll" /\ crashes' = crashes

(* What the runner hands on it has not handled before.                     *)
LEMMA MsgIsNew ==
  ASSUME CursorInv, OnceInv, run \in {"handle", "done"}
  PROVE  /\ Msg \in batch /\ Msg \in Updates /\ (\A v \in batch : Msg <= v)
         /\ again[Msg] = 0 /\ ~Dealt(Msg)
<1>1. Msg \in batch /\ Msg \in Updates /\ \A v \in batch : Msg <= v
  BY MsgIsFirst DEF CursorInv, RunnerHas
<1>2. ~Below(Msg)
  BY <1>1, UpdatesAreNat DEF Below, Known
<1>3. ~InTheRing(Msg)
  BY RingIs DEF OnceInv, HandsOnNew, InRing, InTheRing
<1>4. ~(again[Msg] > 0)
  BY <1>1, <1>2, <1>3 DEF OnceInv, Remembered
<1>5. again[Msg] = 0
  BY <1>1, <1>4 DEF OnceInv, RingShape
<1>6. ~Dealt(Msg)
  BY <1>1, <1>2, <1>4 DEF Dealt, OnceInv, AdmittedOnly
<1> QED BY <1>1, <1>5, <1>6

(* The ring after a mark: the message is in it, and what it held is one    *)
(* deeper, or dropped from its bottom when it was full.                    *)
LEMMA RingTakes ==
  ASSUME NEW T, marked \in Seq(T), NEW u \in T, ~InRing(u), Mark(u), Window \in Nat \ {0},
         Len(marked) <= Window
  PROVE  /\ marked' \in Seq(T) /\ Len(marked') \in Nat /\ Len(marked) \in Nat
         /\ Len(marked') <= Window
         /\ \A i \in 1 .. Len(marked') : marked'[i] = u \/ \E j \in 1 .. Len(marked) : marked'[i] = marked[j]
         /\ Len(marked') >= 1 /\ marked'[Len(marked')] = u
         /\ \/ /\ Len(marked') = Len(marked) + 1
               /\ \A i \in 1 .. Len(marked) : marked'[i] = marked[i]
            \/ /\ Len(marked') = Len(marked) /\ Len(marked) = Window
               /\ \A i \in 1 .. Len(marked) : i >= 2 => marked'[i - 1] = marked[i]
<1> DEFINE full == Append(marked, u)
<1>1. /\ full \in Seq(T) /\ Len(full) = Len(marked) + 1 /\ Len(marked) \in Nat
      /\ \A i \in 1 .. Len(marked) : full[i] = marked[i]
      /\ full[Len(marked) + 1] = u
  BY AppendProperties, LenProperties
<1>2. marked' = IF Len(full) > Window THEN Tail(full) ELSE full
  BY DEF Mark, full
<1>3. full # <<>>
  BY <1>1, LenProperties
<1> HIDE DEF full
<1>4. CASE marked' = full /\ ~(Len(full) > Window)
  <2>1. \A i \in 1 .. Len(full) : i \in 1 .. Len(marked) \/ i = Len(marked) + 1
    BY <1>1
  <2> QED BY <1>1, <1>4, <2>1
<1>5. CASE marked' = Tail(full) /\ Len(full) > Window
  <2>1. /\ Tail(full) \in Seq(T) /\ Len(Tail(full)) = Len(full) - 1
        /\ \A i \in 1 .. Len(Tail(full)) : Tail(full)[i] = full[i + 1]
    BY <1>1, <1>3, HeadTailProperties
  <2>2. Len(marked) = Window /\ Len(marked') = Len(marked)
    BY <1>1, <1>5, <2>1
  <2>3. \A i \in 1 .. Len(marked') : i + 1 \in 1 .. Len(marked) \/ i = Len(marked)
    BY <1>1, <2>2
  <2>4. \A i \in 1 .. Len(marked') : marked'[i] = full[i + 1]
    BY <1>5, <2>1
  <2>5. \A i \in 1 .. Len(marked) : i >= 2 => i - 1 \in 1 .. Len(marked') /\ (i - 1) + 1 = i
    BY <1>1, <2>2
  <2>6. \A i \in 1 .. Len(marked) : i >= 2 => marked'[i - 1] = marked[i]
    BY <1>1, <2>4, <2>5
  <2>7. Len(marked') \in 1 .. Len(marked')
    BY <1>1, <2>2
  <2>8. marked'[Len(marked')] = u
    BY <1>1, <2>2, <2>4, <2>7
  <2>9. \A i \in 1 .. Len(marked') : marked'[i] = u \/ \E j \in 1 .. Len(marked) : marked'[i] = marked[j]
    BY <1>1, <2>2, <2>3, <2>4
  <2> QED BY <1>1, <1>5, <2>1, <2>2, <2>6, <2>7, <2>8, <2>9
<1> QED BY <1>2, <1>4, <1>5

LEMMA OnceConfirm ==
  ASSUME CursorInv, OnceInv, Confirm, MaxFaults <= Window \/ ~ConfirmFails
  PROVE  OnceInv'
<1>1. PICK u \in Updates :
        /\ u = Msg /\ u \in batch /\ (\A v \in batch : u <= v)
        /\ again[u] = 0 /\ ~Dealt(u) /\ ~InRing(u)
  BY MsgIsNew DEF Confirm, OnceInv, HandsOnNew
<1>2. /\ Mark(u) /\ again' = [again EXCEPT ![u] = @ + 1]
      /\ UNCHANGED <<kind, gone, seen, answered, inbox, crashes>>
      /\ \/ held' = Release(u) /\ batch' = batch \ {u} /\ run' = "next" /\ faults' = faults
         \/ /\ held' = held /\ batch' = {} /\ run' = "poll"
            /\ faults < MaxFaults /\ faults' = faults + 1 /\ MaxFaults <= Window
  BY <1>1 DEF Confirm, Fault, ConfirmFails
<1>3. inbox = {} /\ held \subseteq Updates /\ batch \subseteq Updates /\ seen \in Nat
  BY DEF Confirm, CursorInv, RunnerHas, CursorType
<1>4. held' \subseteq held /\ batch' \subseteq batch /\ Known' \subseteq Known
  BY <1>2, <1>3 DEF Release, Known
<1>5. /\ again \in [Updates -> Nat] /\ again' \in [Updates -> Nat] /\ again'[u] = 1
      /\ \A v \in Updates : v # u => again'[v] = again[v]
      /\ faults \in 0 .. MaxFaults /\ MaxFaults \in Nat
  BY <1>1, <1>2, ChannelAssumption DEF OnceInv, RingShape
<1>6. \A v \in Updates : Below(v) => Below(v)'
  BY <1>2, <1>4 DEF Below
<1>7. \A v \in Updates : Dealt(v) => Dealt(v)'
  BY <1>1, <1>2, <1>5, <1>6 DEF Dealt
<1>8. /\ marked' \in Seq(Updates) /\ Len(marked') \in Nat /\ Len(marked) \in Nat
      /\ Len(marked') <= Window
      /\ \A i \in 1 .. Len(marked') : marked'[i] = u \/ \E j \in 1 .. Len(marked) : marked'[i] = marked[j]
      /\ Len(marked') >= 1 /\ marked'[Len(marked')] = u
      /\ \/ /\ Len(marked') = Len(marked) + 1
            /\ \A i \in 1 .. Len(marked) : marked'[i] = marked[i]
         \/ /\ Len(marked') = Len(marked) /\ Len(marked) = Window
            /\ \A i \in 1 .. Len(marked) : i >= 2 => marked'[i - 1] = marked[i]
  <2>1. marked \in Seq(Updates) /\ Len(marked) <= Window /\ Window \in Nat \ {0}
    BY ChannelAssumption DEF CursorInv, RingIsSettled, OnceInv, RingShape
  <2> QED BY <1>1, <1>2, <2>1, RingTakes
<1>9. RingShape'
  <2>1. faults' \in 0 .. MaxFaults
    BY <1>2, <1>5
  <2>2. \A i \in 1 .. Len(marked) : marked[i] \in Updates /\ again[marked[i]] > 0
    BY DEF CursorInv, RingIsSettled, OnceInv, RingShape
  <2>3. ASSUME NEW i \in 1 .. Len(marked') PROVE again'[marked'[i]] > 0
    <3>1. CASE marked'[i] = u
      BY <1>5, <3>1
    <3>2. CASE \E j \in 1 .. Len(marked) : marked'[i] = marked[j]
      BY <1>5, <2>2, <3>2
    <3> QED BY <1>8, <3>1, <3>2
  <2> QED BY <1>5, <1>8, <2>1, <2>3 DEF RingShape
<1>10. AdmittedOnly'
  <2>1. batch' \subseteq held'
    <3>1. ASSUME NEW v \in batch, v # u PROVE v > u
      BY <1>1, <1>3, <3>1, UpdatesAreNat
    <3> QED BY <1>2, <3>1 DEF Release, OnceInv, AdmittedOnly
  <2> QED BY <1>2, <1>3, <1>4, <2>1 DEF OnceInv, AdmittedOnly
<1>11. NoneGone'
  BY <1>2, <1>4 DEF OnceInv, NoneGone
<1>12. EarlierDealt'
  <2>1. ASSUME NEW w \in batch', NEW v \in Updates, v < w
        PROVE  v \in batch' \/ Dealt(v)'
    <3>1. v \in batch \/ Dealt(v)
      BY <1>3, <1>4, <2>1 DEF OnceInv, EarlierDealt
    <3>2. v \in batch => v \in batch' \/ v = u
      BY <1>2, <2>1
    <3>3. Dealt(u)'
      BY <1>5 DEF Dealt
    <3> QED BY <1>7, <3>1, <3>2, <3>3
  <2> QED BY <1>2, <1>3, <2>1 DEF EarlierDealt
<1>13. HandledInOrder'
  <2>1. ASSUME NEW v \in Updates, NEW w \in Updates, again'[v] > 0, w < v PROVE Dealt(w)'
    <3>1. CASE v = u
      <4>1. w \notin batch
        BY <1>1, <1>3, <2>1, <3>1, UpdatesAreNat
      <4>2. w \in inbox \union batch \/ Dealt(w)
        BY <1>1, <2>1, <3>1 DEF OnceInv, EarlierDealt
      <4> QED BY <1>3, <1>7, <4>1, <4>2
    <3>2. CASE v # u
      BY <1>5, <1>7, <2>1, <3>2 DEF OnceInv, HandledInOrder
    <3> QED BY <3>1, <3>2
  <2> QED BY <2>1 DEF HandledInOrder
<1>14. Remembered'
  <2>1. \A v \in Updates : again'[v] > 0 => again'[v] = 1
    BY <1>5 DEF OnceInv, Remembered
  <2>2. \A v \in Updates : again'[v] > 0 /\ v # u => Below(v) \/ InTheRing(v)
    BY <1>5 DEF OnceInv, Remembered
  <2>3. CASE run' = "next"
    <3>1. held' = Release(u) /\ batch' \subseteq held'
      BY <1>2, <1>10, <2>3 DEF AdmittedOnly
    <3>2. \A h \in Known' : h > u
      BY <1>2, <1>3, <3>1 DEF Known, Release
    <3>3. u <= seen
      BY <1>1 DEF CursorInv, SeenIsAccounted
    <3>4. ASSUME NEW v \in Updates, again'[v] > 0 PROVE Below(v)'
      <4>1. CASE v = u
        BY <1>2, <3>2, <3>3, <4>1, UpdatesAreNat, KnownAreNat, <1>4 DEF Below
      <4>2. CASE v # u /\ u < v
        BY <1>1, <1>5, <3>4, <4>2 DEF OnceInv, HandledInOrder
      <4>3. CASE v # u /\ v < u
        <5>1. v <= seen'
          BY <1>1, <1>2, <1>3, <3>3, <4>3, UpdatesAreNat
        <5>2. \A h \in Known' : v < h
          BY <1>1, <1>4, <3>2, <4>3, UpdatesAreNat, KnownAreNat
        <5> QED BY <5>1, <5>2 DEF Below
      <4> QED BY <1>1, <4>1, <4>2, <4>3, UpdatesAreNat
    <3> QED BY <2>1, <3>4 DEF Remembered
  <2>4. CASE run' # "next"
    <3>1. faults < MaxFaults /\ faults' = faults + 1 /\ MaxFaults <= Window
      BY <1>2, <2>4
    <3>2. InTheRing(u)'
      <4>1. Len(marked') \in 1 .. Len(marked') /\ Len(marked') + faults' > Len(marked')
        BY <1>5, <1>8, <3>1
      <4> QED BY <1>8, <4>1 DEF InTheRing
    <3>3. ASSUME NEW v \in Updates, InTheRing(v) PROVE InTheRing(v)'
      <4>1. PICK i \in 1 .. Len(marked) : marked[i] = v /\ i + faults > Len(marked)
        BY <3>3 DEF InTheRing
      <4>2. CASE /\ Len(marked') = Len(marked) + 1
                 /\ \A j \in 1 .. Len(marked) : marked'[j] = marked[j]
        <5>1. i \in 1 .. Len(marked') /\ marked'[i] = v
          BY <1>8, <4>1, <4>2
        <5>2. i + faults' > Len(marked')
          BY <1>5, <3>1, <4>1, <4>2
        <5> QED BY <5>1, <5>2 DEF InTheRing
      <4>3. CASE /\ Len(marked') = Len(marked) /\ Len(marked) = Window
                 /\ \A j \in 1 .. Len(marked) : j >= 2 => marked'[j - 1] = marked[j]
        <5>1. i >= 2
          BY <1>5, <1>8, <3>1, <4>1, <4>3, ChannelAssumption
        <5>2. i - 1 \in 1 .. Len(marked') /\ (i - 1) + faults' > Len(marked') /\ marked'[i - 1] = v
          BY <1>5, <1>8, <3>1, <4>1, <4>3, <5>1
        <5> QED BY <5>2 DEF InTheRing
      <4> QED BY <1>8, <4>2, <4>3
    <3> QED BY <1>6, <2>1, <2>2, <3>2, <3>3 DEF Remembered
  <2> QED BY <2>3, <2>4
<1>15. HandsOnNew'
  BY <1>2 DEF HandsOnNew
<1> QED BY <1>9, <1>10, <1>11, <1>12, <1>13, <1>14, <1>15 DEF OnceInv

LEMMA OnceRestart == CursorInv /\ OnceInv /\ ChannelRestart => OnceInv'
<1> SUFFICES ASSUME CursorInv, OnceInv, ChannelRestart PROVE OnceInv'
  OBVIOUS
<1>1. /\ held' = {} /\ answered' = {} /\ inbox' = {} /\ batch' = {} /\ marked' = <<>>
      /\ run' = "poll" /\ again' = [u \in Updates |-> 0] /\ faults' = faults
  BY DEF ChannelRestart
<1>2. Len(marked') = 0 /\ Window \in Nat
  BY <1>1, EmptySeq, ChannelAssumption
<1>3. \A u \in Updates : again'[u] = 0
  BY <1>1
<1>4. RingShape'
  BY <1>1, <1>2 DEF OnceInv, RingShape
<1>5. AdmittedOnly' /\ NoneGone' /\ EarlierDealt' /\ HandsOnNew'
  BY <1>1 DEF AdmittedOnly, NoneGone, EarlierDealt, HandsOnNew, Known
<1>6. HandledInOrder' /\ Remembered'
  BY <1>3 DEF HandledInOrder, Remembered
<1> QED BY <1>4, <1>5, <1>6 DEF OnceInv

LEMMA OnceStep ==
  ASSUME CursorInv, OnceInv, [ChannelNext]_chVars, MaxFaults <= Window \/ ~ConfirmFails
  PROVE  OnceInv'
<1>1. CASE UserSends
  BY <1>1, OnceSends
<1>2. CASE Poll
  BY <1>2, OncePoll
<1>3. CASE Admit
  BY <1>3, OnceAdmit
<1>4. CASE Sorted \/ TakeMessage \/ Handled \/ HandleGoesOn \/ HandleFails
  BY <1>4, OnceTake
<1>5. CASE Confirm
  BY <1>5, OnceConfirm
<1>6. CASE ChannelRestart
  BY <1>6, OnceRestart
<1>7. CASE UNCHANGED chVars
  <2>1. faults \in 0 .. MaxFaults /\ MaxFaults \in Nat
    BY ChannelAssumption DEF OnceInv, RingShape
  <2>2. HandsOnNew'
    BY <1>7 DEF chVars, OnceInv, HandsOnNew, InRing, Msg
  <2> QED BY <1>7, <2>1, <2>2, OnceQuiet DEF chVars, HandsOnNew
<1> QED BY <1>1, <1>2, <1>3, <1>4, <1>5, <1>6, <1>7 DEF ChannelNext, RunnerStep

(* One process hands a message on once, while fewer of its calls fail than *)
(* the ring remembers messages.                                            *)
THEOREM ChannelHandlesOnce ==
    MaxFaults <= Window => (ChannelSpec => []HandledOnce)
<1> SUFFICES ASSUME MaxFaults <= Window PROVE ChannelSpec => []HandledOnce
  OBVIOUS
<1>1. CursorInv /\ OnceInv /\ [ChannelNext]_chVars => CursorInv' /\ OnceInv'
  BY CursorStep, OnceStep
<1>2. OnceInv => HandledOnce
  BY DEF OnceInv, Remembered, RingShape, HandledOnce
<1> QED BY <1>1, <1>2, CursorInit, OnceInit, PTL DEF ChannelSpec

-----------------------------------------------------------------------------
(* The chat.                                                               *)

(* Every step of the chat is one of the channel, or leaves it alone.       *)
LEMMA ChatStepIsChannelStep == [Next]_vars => [ChannelNext]_chVars
<1> SUFFICES ASSUME [Next]_vars PROVE [ChannelNext]_chVars
  OBVIOUS
<1>1. ASSUME Abort, run = "handle" PROVE ChannelNext
  BY <1>1 DEF Abort, HandleFails, ChannelNext
<1>2. CASE ((MoreMayCome /\ UserSends) \/ RunnerStep) /\ UNCHANGED <<capVars, effects, timerVars>>
  BY <1>2 DEF ChannelNext
<1>3. CASE CaptureStep
  <2>1. CASE BeginCapture
    BY <2>1, <1>1 DEF BeginCapture, AtStep, Quiet
  <2>2. CASE Classify
    BY <2>2, <1>1 DEF Classify, AtStep, Quiet
  <2>3. CASE CancelTimer
    BY <2>3, <1>1 DEF CancelTimer, AtStep, Quiet
  <2>4. CASE CorrectReferent
    BY <2>4, <1>1 DEF CorrectReferent, AtStep, Quiet
  <2>5. CASE ResolveAnswers
    BY <2>5, <1>1 DEF ResolveAnswers, AtStep, Quiet
  <2>6. CASE ForkByKind
    BY <2>6, <1>1 DEF ForkByKind, AtStep, Quiet
  <2>7. CASE Record
    BY <2>7, <1>1 DEF Record, AtStep, Quiet
  <2>8. CASE CreateUnit
    BY <2>8, <1>1 DEF CreateUnit, AtStep, Quiet
  <2>9. CASE EmbedAndStore
    BY <2>9 DEF EmbedAndStore, AtStep, Quiet, HandleGoesOn, ChannelNext
  <2>10. CASE JudgeRelation
    BY <2>10, <1>1 DEF JudgeRelation, AtStep, Quiet, HandleGoesOn, ChannelNext
  <2>11. CASE NameUnit
    BY <2>11 DEF NameUnit, Quiet
  <2>12. CASE Arm
    BY <2>12, <1>1 DEF Arm, AtStep, Quiet
  <2>13. CASE Reply
    BY <2>13 DEF Reply, AtStep, Handled, ChannelNext
  <2> QED
    BY <1>3, <2>1, <2>2, <2>3, <2>4, <2>5, <2>6, <2>7, <2>8, <2>9, <2>10,
       <2>11, <2>12, <2>13 DEF CaptureStep
<1>4. CASE TimersAlone /\ UNCHANGED <<chVars, capVars, effects>>
  BY <1>4 DEF chVars
<1>5. CASE Restart
  BY <1>5 DEF Restart, ChannelNext
<1>6. CASE UNCHANGED vars
  BY <1>6 DEF vars
<1> QED BY <1>2, <1>3, <1>4, <1>5, <1>6 DEF Next

(* The handling, step by step, implements the channel's one-step handling. *)
THEOREM ChatImplementsChannel == Spec => ChannelSpec
BY ChatStepIsChannelStep, PTL DEF Spec, Init, ChannelSpec

(* However a message's handling fails or is cut short, the server drops it *)
(* only once it was dealt with.                                            *)
THEOREM ChatLosesNothing == Spec => []NothingIsLost
BY ChatImplementsChannel, ChannelLosesNothing, PTL

---------------------------------------------------------------------------
(* The timers.                                                             *)

(* A timer being said was fired by this pass and not said before; one that *)
(* rang is fired, and no statement takes a row out of "fired".             *)
Passes == [at : {"idle", "next", "say"}, fire : SUBSET TimerIds,
           drop : SUBSET TimerIds, t : {0} \union TimerIds]

RingInv ==
    /\ timer \in [TimerIds -> {"none", "pending", "fired", "cancelled"}]
    /\ told \in [TimerIds -> Nat]
    /\ pass \in Passes
    /\ \A t \in TimerIds : timer[t] # "fired" => told[t] = 0
    /\ \A t \in TimerIds : told[t] <= 1
    /\ pass.at = "say" => /\ pass.t \in TimerIds
                          /\ timer[pass.t] = "fired" /\ told[pass.t] = 0

LEMMA PassesClosed ==
  /\ Idle \in Passes /\ Idle.at = "idle"
  /\ \A p \in Passes : /\ [p EXCEPT !.at = "next", !.t = 0] \in Passes
                       /\ [p EXCEPT !.at = "next", !.t = 0].at = "next"
  /\ \A p \in Passes, t \in TimerIds :
        /\ [p EXCEPT !.fire = @ \ {t}, !.drop = @ \ {t}] \in Passes
        /\ [p EXCEPT !.fire = @ \ {t}, !.drop = @ \ {t}].at = p.at
<1>1. Idle \in Passes /\ Idle.at = "idle"
  BY DEF Idle, Passes
<1>2. ASSUME NEW p \in Passes
      PROVE  /\ [p EXCEPT !.at = "next", !.t = 0] \in Passes
             /\ [p EXCEPT !.at = "next", !.t = 0].at = "next"
  BY DEF Passes
<1>3. ASSUME NEW p \in Passes, NEW t \in TimerIds
      PROVE  /\ [p EXCEPT !.fire = @ \ {t}, !.drop = @ \ {t}] \in Passes
             /\ [p EXCEPT !.fire = @ \ {t}, !.drop = @ \ {t}].at = p.at
  BY DEF Passes
<1> QED BY <1>1, <1>2, <1>3

LEMMA RingStart == TimersInit => RingInv
BY TimersAssumption DEF TimersInit, RingInv, Idle, Passes

(* A row only leaves "none" or "pending".                                  *)
RowsMove ==
    /\ timer' \in [TimerIds -> {"none", "pending", "fired", "cancelled"}]
    /\ \A t \in TimerIds : timer[t] = "fired" => timer'[t] = "fired"

LEMMA RingByRows ==
  ASSUME RingInv, RowsMove, UNCHANGED <<told, pass>>
  PROVE  RingInv'
BY DEF RingInv, RowsMove

LEMMA RingStep == RingInv /\ [TimersNext]_timerVars => RingInv'
<1> SUFFICES ASSUME RingInv, [TimersNext]_timerVars PROVE RingInv'
  OBVIOUS
<1>1. ASSUME NEW t \in TimerIds, ChatSets(t) \/ SomeoneCancels(t) PROVE RingInv'
  BY <1>1, RingByRows DEF ChatSets, SomeoneCancels, CreateRow, CancelRow, FreeTimers, RowsMove, RingInv
<1>2. CASE Ripen
  BY <1>2, RingByRows DEF Ripen, RowsMove, RingInv
<1>3. CASE BeginTimers
  BY <1>3 DEF BeginTimers, DueTimers, PendingTimers, Idle, RingInv, Passes
<1>4. CASE EndTimers \/ TimersRestart
  BY <1>4 DEF EndTimers, TimersRestart, Idle, RingInv, Passes
<1>5. CASE JudgeTimer
  <2>1. PICK t \in pass.fire \union pass.drop :
          LET rest == [pass EXCEPT !.fire = @ \ {t}, !.drop = @ \ {t}] IN
          \/ /\ t \in pass.fire
             /\ FireRow(t)
             /\ pass' = AfterFire(t, rest)
          \/ CancelRow(t) /\ pass' \in {rest, Idle}
          \/ pass' = Idle /\ UNCHANGED timer
    BY <1>5 DEF JudgeTimer
  <2>2. t \in TimerIds /\ told' = told
    BY <1>5, <2>1 DEF RingInv, JudgeTimer, Passes
  <2>3. RowsMove
    BY <2>1, <2>2 DEF FireRow, CancelRow, RowsMove, RingInv
  <2> DEFINE rest == [pass EXCEPT !.fire = @ \ {t}, !.drop = @ \ {t}]
  <2>4. pass' \in {rest, Idle} \/ (FireRow(t) /\ pass' = AfterFire(t, rest))
    BY <2>1
  <2>5. pass.at = "next" /\ rest.at = "next" /\ Idle.at = "idle"
    BY <1>5 DEF JudgeTimer, Idle, RingInv, Passes
  <2>6. CASE pass' \in {rest, Idle}
    <3>1. pass \in Passes
      BY DEF RingInv
    <3>2. rest \in Passes
      BY <2>2, <3>1, PassesClosed
    <3>3. Idle \in Passes
      BY PassesClosed
    <3>4. pass' \in Passes /\ pass'.at # "say"
      <4> HIDE DEF rest
      <4> QED BY <2>5, <2>6, <3>2, <3>3
    <3> QED BY <2>2, <2>3, <3>4 DEF RowsMove, RingInv
  <2>7. CASE FireRow(t) /\ pass' = AfterFire(t, rest)
    <3>1. CASE timer[t] = "pending"
      <4>1. pass' = [rest EXCEPT !.at = "say", !.t = t] /\ told[t] = 0
        BY <2>2, <2>7, <3>1 DEF AfterFire, RingInv
      <4>2. timer' = [timer EXCEPT ![t] = "fired"]
        BY <2>7, <3>1 DEF FireRow
      <4>3. pass'.at = "say" /\ pass'.t = t /\ timer'[t] = "fired"
        BY <2>2, <4>1, <4>2 DEF RingInv, Passes
      <4>4. pass' \in Passes
        BY <2>2, <4>1 DEF RingInv, Passes
      <4> QED BY <2>2, <2>3, <4>1, <4>3, <4>4 DEF RowsMove, RingInv
    <3>2. CASE timer[t] # "pending"
      BY <2>2, <2>3, <2>5, <2>7, <3>2 DEF AfterFire, RowsMove, RingInv, Passes
    <3> QED BY <3>1, <3>2
  <2> QED BY <2>4, <2>6, <2>7
<1>6. CASE SayTimer
  <2>1. pass.at = "say" /\ pass.t \in TimerIds /\ timer[pass.t] = "fired" /\ timer' = timer
    BY <1>6 DEF SayTimer, RingInv
  <2>2. \/ /\ told' = [told EXCEPT ![pass.t] = @ + 1]
           /\ pass' = [pass EXCEPT !.at = "next", !.t = 0]
        \/ /\ told' = told
           /\ pass' \in {[pass EXCEPT !.at = "next", !.t = 0], Idle}
    BY <1>6 DEF SayTimer
  <2>3. told' \in [TimerIds -> Nat] /\ \A t \in TimerIds :
          told'[t] = told[t] \/ (t = pass.t /\ told'[t] = told[t] + 1)
    BY <2>1, <2>2 DEF RingInv
  <2>4. /\ pass'.at \in {"idle", "next"}
        /\ pass' \in Passes
    <3>1. pass \in Passes
      BY DEF RingInv
    <3> QED BY <2>2, <3>1, PassesClosed
  <2> QED BY <2>1, <2>3, <2>4 DEF RingInv
<1>7. CASE UNCHANGED timerVars
  BY <1>7 DEF timerVars, RingInv
<1> QED BY <1>1, <1>2, <1>3, <1>4, <1>5, <1>6, <1>7 DEF TimersNext, PassStep

(* What the chat may name is an id.                                        *)
ShownInv == shown \subseteq TimerIds

LEMMA ShownStep == ShownInv /\ [Next]_vars => ShownInv'
BY DEF ShownInv, Next, CaptureStep, BeginCapture, Classify, CancelTimer, CorrectReferent,
       ResolveAnswers, ForkByKind, Record, CreateUnit, EmbedAndStore, JudgeRelation, NameUnit,
       Arm, Reply, Abort, Forget, Restart, TimersAlone, PendingTimers, vars, capVars

(* What the chat does to the timers is a step of Timers.                   *)
LEMMA ChatStepIsTimersStep ==
  ShownInv /\ [Next]_vars => [TimersNext]_timerVars
<1> SUFFICES ASSUME ShownInv, [Next]_vars PROVE [TimersNext]_timerVars
  OBVIOUS
<1>1. CASE CancelTimer
  <2>1. CASE timer' = timer
    BY <1>1, <2>1 DEF CancelTimer, timerVars
  <2>2. CASE timer' # timer
    <3>1. PICK t \in shown : CancelRow(t)
      BY <1>1, <2>2 DEF CancelTimer
    <3>2. t \in TimerIds /\ timer[t] # "none"
      BY <2>2, <3>1 DEF ShownInv, CancelRow
    <3>3. SomeoneCancels(t)
      BY <1>1, <3>1, <3>2 DEF CancelTimer, SomeoneCancels
    <3> QED BY <3>2, <3>3 DEF TimersNext
  <2> QED BY <2>1, <2>2
<1>2. CASE Arm
  <2>1. CASE timer' = timer
    BY <1>2, <2>1 DEF Arm, timerVars
  <2>2. CASE timer' # timer
    <3>1. PICK t \in FreeTimers : CreateRow(t)
      BY <1>2, <2>2 DEF Arm, SetTimer, ArmEvent, ArmNothing
    <3>2. ChatSets(t) /\ t \in TimerIds
      BY <1>2, <3>1 DEF Arm, ChatSets, FreeTimers
    <3> QED BY <3>2 DEF TimersNext
  <2> QED BY <2>1, <2>2
<1>3. CASE CaptureStep /\ ~CancelTimer /\ ~Arm
  BY <1>3 DEF CaptureStep, BeginCapture, Classify, CorrectReferent, ResolveAnswers, ForkByKind,
              Record, CreateUnit, EmbedAndStore, JudgeRelation, NameUnit, Reply
<1>4. CASE TimersAlone
  BY <1>4 DEF TimersAlone, TimersNext
<1>5. CASE Restart
  BY <1>5 DEF Restart, TimersNext
<1>6. CASE UNCHANGED timerVars
  BY <1>6
<1> QED BY <1>1, <1>2, <1>3, <1>4, <1>5, <1>6 DEF Next, vars, CaptureStep

(* Whatever the chat does beside it, the timers behave as Timers says: the *)
(* safety part of its specification holds of the whole.                    *)
THEOREM ChatImplementsTimers == Spec => TimersInit /\ [][TimersNext]_timerVars
<1>1. Init => ShownInv /\ TimersInit
  BY DEF Init, ShownInv
<1> QED BY <1>1, ShownStep, ChatStepIsTimersStep, PTL DEF Spec

(* A timer rings at most once and never after it was cancelled, whatever   *)
(* the chat, the page, the pass and restarts do to it.                     *)
THEOREM ChatRingsOnce == Spec => []RingsOnce
<1>1. Init => RingInv /\ ShownInv
  BY RingStart DEF Init, ShownInv
<1>2. RingInv /\ ShownInv /\ [Next]_vars => RingInv' /\ ShownInv'
  BY RingStep, ShownStep, ChatStepIsTimersStep
<1>3. RingInv => RingsOnce
  BY DEF RingInv, RingsOnce
<1> QED BY <1>1, <1>2, <1>3, PTL DEF Spec

---------------------------------------------------------------------------
(* Why a timer nobody heard is told of: only the pass that fired it can    *)
(* leave it unsaid, and it does so by a failed call or a restart.          *)
HeardInv ==
    /\ pass.at # "say" => pass.t = 0
    /\ slips \in Nat /\ stops \in Nat
    /\ UnheardIsRecorded

LEMMA CardGrows ==
  ASSUME NEW S, IsFiniteSet(S), NEW T, NEW x, T \subseteq S \union {x}
  PROVE  /\ IsFiniteSet(T) /\ Cardinality(T) \in Nat /\ Cardinality(S) \in Nat
         /\ Cardinality(T) <= Cardinality(S) + 1
         /\ T \subseteq S => Cardinality(T) <= Cardinality(S)
<1>1. Cardinality(S) \in Nat
  BY FS_CardinalityType
<1>2. /\ IsFiniteSet(S \union {x})
      /\ Cardinality(S \union {x}) = IF x \in S THEN Cardinality(S) ELSE Cardinality(S) + 1
  BY FS_AddElement
<1>3. IsFiniteSet(T) /\ Cardinality(T) <= Cardinality(S \union {x})
  BY <1>2, FS_Subset
<1>4. Cardinality(T) \in Nat
  BY <1>3, FS_CardinalityType
<1>5. T \subseteq S => Cardinality(T) <= Cardinality(S)
  BY FS_Subset
<1> QED BY <1>1, <1>2, <1>3, <1>4, <1>5

LEMMA Sums ==
  ASSUME NEW a \in Nat, NEW b \in Nat, NEW c \in Nat, NEW d \in Nat
  PROVE  /\ c = a \/ c = a + 1 => c + b >= a + b
         /\ c = a + 1 => c + b >= a + b + 1
         /\ d = b + 1 => a + d >= a + b + 1
OBVIOUS

LEMMA Covered ==
  ASSUME NEW new \in Nat, NEW old \in Nat, NEW before \in Nat, NEW after \in Int,
         old <= before, new <= old + 1,
         (new <= old /\ after >= before) \/ after >= before + 1
  PROVE  new <= after
OBVIOUS

(* What may be lost at a step: the timer being said, for one slip or stop. *)
LEMMA LossIsCounted ==
  ASSUME HeardInv, NEW x,
         speaks' = speaks, slips' \in Nat, stops' \in Nat,
         \/ /\ slips' + stops' >= slips + stops
            /\ (Unheard \ missed)' \subseteq Unheard \ missed
         \/ /\ slips' + stops' >= slips + stops + 1
            /\ (Unheard \ missed)' \subseteq (Unheard \ missed) \union {x}
  PROVE  UnheardIsRecorded'
<1> SUFFICES ASSUME speaks PROVE Cardinality((Unheard \ missed)') <= slips' + stops'
  BY DEF UnheardIsRecorded
<1>1. IsFiniteSet(Unheard \ missed)
  <2>1. Unheard \ missed \in SUBSET TimerIds
    BY DEF Unheard
  <2> QED BY <2>1, TimersAssumption, FS_Subset
<1>2. Cardinality(Unheard \ missed) <= slips + stops /\ slips \in Nat /\ stops \in Nat
  BY DEF HeardInv, UnheardIsRecorded
<1>3. /\ Cardinality((Unheard \ missed)') \in Nat /\ Cardinality(Unheard \ missed) \in Nat
      /\ Cardinality((Unheard \ missed)') <= Cardinality(Unheard \ missed) + 1
      /\ (Unheard \ missed)' \subseteq Unheard \ missed
            => Cardinality((Unheard \ missed)') <= Cardinality(Unheard \ missed)
  <2>1. (Unheard \ missed)' \subseteq (Unheard \ missed) \union {x}
    OBVIOUS
  <2> QED BY <1>1, <2>1, CardGrows
<1> DEFINE old == Cardinality(Unheard \ missed)
           new == Cardinality((Unheard \ missed)')
<1>4. /\ old \in Nat /\ new \in Nat /\ new <= old + 1 /\ old <= slips + stops
      /\ \/ new <= old /\ slips' + stops' >= slips + stops
         \/ slips' + stops' >= slips + stops + 1
  BY <1>2, <1>3
<1> HIDE DEF old, new
<1> DEFINE before == slips + stops
           after == slips' + stops'
<1>5. before \in Nat /\ after \in Int /\ old <= before
      /\ ((new <= old /\ after >= before) \/ after >= before + 1)
  <2>1. before \in Nat
    BY <1>2
  <2>2. after \in Int
    OBVIOUS
  <2>3. old <= before /\ ((new <= old /\ after >= before) \/ after >= before + 1)
    BY <1>4
  <2> QED BY <2>1, <2>2, <2>3
<1>6. new <= after
  <2> HIDE DEF before, after
  <2> QED BY <1>4, <1>5, Covered
<1> QED BY <1>6 DEF new

(* A statement about a row that is not "fired" leaves those fired as they  *)
(* were, and so the unheard.                                               *)
LEMMA SameUnheard ==
  ASSUME HeardInv, UNCHANGED <<speaks, told, missed, pass, slips, stops>>,
         \A t \in TimerIds : timer'[t] = "fired" <=> timer[t] = "fired"
  PROVE  HeardInv'
<1>1. Unheard' = Unheard
  BY DEF Unheard
<1> QED BY <1>1 DEF HeardInv, UnheardIsRecorded

LEMMA HeardStep == RingInv /\ HeardInv /\ [TimersNext]_timerVars => HeardInv'
<1> SUFFICES ASSUME RingInv, HeardInv, [TimersNext]_timerVars PROVE HeardInv'
  OBVIOUS
<1>1. ASSUME NEW t \in TimerIds, ChatSets(t) \/ SomeoneCancels(t) PROVE HeardInv'
  BY <1>1, SameUnheard DEF ChatSets, SomeoneCancels, CreateRow, CancelRow, FreeTimers, RingInv
<1>2. CASE Ripen \/ UNCHANGED timerVars
  BY <1>2, SameUnheard DEF Ripen, timerVars
<1>3. CASE BeginTimers \/ EndTimers
  <2>0. Idle.t = 0 /\ Idle.at = "idle"
    BY DEF Idle
  <2>1. pass.t = 0 /\ pass'.t = 0 /\ pass'.at # "say"
    <3>1. CASE BeginTimers
      <4>1. pass.t = 0
        BY <3>1 DEF BeginTimers, HeardInv
      <4>2. pass'.t = 0 /\ pass'.at = "next"
        BY <3>1 DEF BeginTimers, Idle
      <4> QED BY <4>1, <4>2
    <3>2. CASE EndTimers
      BY <2>0, <3>2 DEF EndTimers, HeardInv
    <3> QED BY <1>3, <3>1, <3>2
  <2>2. UNCHANGED <<timer, speaks, told, missed, slips, stops>>
    BY <1>3 DEF BeginTimers, EndTimers
  <2>3. Unheard' = Unheard
    BY <2>1, <2>2 DEF Unheard
  <2> QED BY <2>1, <2>2, <2>3 DEF HeardInv, UnheardIsRecorded
<1>4. CASE JudgeTimer
  <2>1. PICK t \in pass.fire \union pass.drop :
          LET rest == [pass EXCEPT !.fire = @ \ {t}, !.drop = @ \ {t}] IN
          \/ FireRow(t) /\ pass' = AfterFire(t, rest)
          \/ CancelRow(t) /\ pass' \in {rest, Idle}
          \/ pass' = Idle /\ UNCHANGED timer
    BY <1>4 DEF JudgeTimer
  <2>2. /\ t \in TimerIds /\ t # 0 /\ UNCHANGED <<speaks, told, missed, stops>>
        /\ pass.at = "next" /\ pass.t = 0
        /\ slips' \in {slips, slips + 1}
    BY <1>4, <2>1, TimersAssumption DEF RingInv, HeardInv, JudgeTimer, Passes, Slip
  <2> DEFINE rest == [pass EXCEPT !.fire = @ \ {t}, !.drop = @ \ {t}]
  <2>3. rest.at = "next" /\ rest.t = 0 /\ rest \in Passes /\ Idle.at = "idle" /\ Idle.t = 0
    BY <2>2 DEF Idle, RingInv, Passes
  <2>4. \/ /\ pass'.t = 0 /\ pass'.at # "say"
           /\ timer' \in {timer, [timer EXCEPT ![t] = "cancelled"]}
           /\ timer' # timer => timer[t] = "pending"
        \/ /\ pass'.t = t /\ pass'.at = "say"
           /\ timer' = [timer EXCEPT ![t] = "fired"] /\ timer[t] = "pending"
    <3>1. CASE FireRow(t) /\ pass' = AfterFire(t, rest)
      BY <2>3, <3>1 DEF FireRow, AfterFire, Passes
    <3>2. CASE CancelRow(t) /\ pass' \in {rest, Idle}
      <4> HIDE DEF rest
      <4> QED BY <2>3, <3>2 DEF CancelRow
    <3>3. CASE pass' = Idle /\ UNCHANGED timer
      BY <2>3, <3>3
    <3> QED BY <2>1, <3>1, <3>2, <3>3
  <2>5. Unheard' \subseteq Unheard
    <3>1. timer \in [TimerIds -> {"none", "pending", "fired", "cancelled"}]
      BY DEF RingInv
    <3>2. CASE pass'.t = 0 /\ timer' \in {timer, [timer EXCEPT ![t] = "cancelled"]}
      <4>1. \A x \in TimerIds : timer'[x] = "fired" => timer[x] = "fired"
        BY <2>2, <3>1, <3>2
      <4> QED BY <2>2, <3>2, <4>1, TimersAssumption DEF Unheard
    <3>3. CASE pass'.t = t /\ timer' = [timer EXCEPT ![t] = "fired"]
      <4>1. \A x \in TimerIds : timer'[x] = "fired" /\ x # t => timer[x] = "fired"
        BY <2>2, <3>1, <3>3
      <4> QED BY <2>2, <3>3, <4>1, TimersAssumption DEF Unheard
    <3> QED BY <2>4, <3>2, <3>3
  <2>6. UnheardIsRecorded'
    <3>1. (Unheard \ missed)' \subseteq Unheard \ missed
      BY <2>2, <2>5
    <3>0. speaks' = speaks
      BY <2>2
    <3>2. slips' \in Nat /\ stops' \in Nat /\ slips' + stops' >= slips + stops
      <4>1. (slips' = slips \/ slips' = slips + 1) /\ stops' = stops
        BY <2>2
      <4>2. slips \in Nat /\ stops \in Nat /\ slips' \in Nat
        BY <4>1 DEF HeardInv
      <4> QED BY <4>1, <4>2, Sums
    <3> QED BY <3>0, <3>1, <3>2, LossIsCounted
  <2> QED BY <2>2, <2>4, <2>6 DEF HeardInv
<1>5. CASE SayTimer
  <2> DEFINE t == pass.t
  <2>1. /\ t \in TimerIds /\ t # 0 /\ UNCHANGED <<timer, speaks, stops>>
        /\ pass'.t = 0 /\ pass'.at # "say"
    <3>1. t \in TimerIds /\ t # 0 /\ UNCHANGED <<timer, speaks, stops>> /\ pass \in Passes
      BY <1>5, TimersAssumption DEF SayTimer, RingInv
    <3>2. pass' = [pass EXCEPT !.at = "next", !.t = 0] \/ pass' = Idle
      BY <1>5 DEF SayTimer
    <3>3. pass'.t = 0 /\ pass'.at # "say"
      <4>1. CASE pass' = [pass EXCEPT !.at = "next", !.t = 0]
        BY <3>1, <4>1 DEF Passes
      <4>2. CASE pass' = Idle
        BY <4>2 DEF Idle
      <4> QED BY <3>2, <4>1, <4>2
    <3> QED BY <3>1, <3>3
  <2>2. \/ /\ slips' = slips
           /\ speaks => told' = [told EXCEPT ![t] = @ + 1] /\ missed' = missed
        \/ /\ told' = told /\ missed' = missed \union {t} /\ slips' = slips + 1
        \/ /\ told' = told /\ missed' = missed /\ slips' = slips + 1
    BY <1>5 DEF SayTimer, Slip
  <2>3. /\ slips' \in Nat /\ stops' \in Nat /\ slips' + stops' >= slips + stops
        /\ slips' = slips + 1 => slips' + stops' >= slips + stops + 1
    <3>1. (slips' = slips \/ slips' = slips + 1) /\ stops' = stops
      BY <2>1, <2>2
    <3>2. slips \in Nat /\ stops \in Nat
      BY DEF HeardInv
    <3>3. slips' \in Nat
      BY <3>1, <3>2
    <3> QED BY <3>1, <3>2, <3>3, Sums
  <2>4. UnheardIsRecorded'
    <3>1. CASE told' = [told EXCEPT ![t] = @ + 1] /\ UNCHANGED <<missed, slips>>
      <4>1. (Unheard \ missed)' \subseteq Unheard \ missed
        BY <2>1, <3>1 DEF Unheard, RingInv
      <4> QED BY <2>1, <4>1, <2>3, LossIsCounted
    <3>2. CASE told' = told /\ missed' \in {missed, missed \union {t}} /\ slips' = slips + 1
      <4>1. (Unheard \ missed)' \subseteq (Unheard \ missed) \union {t}
        BY <2>1, <3>2 DEF Unheard
      <4>2. slips' + stops' >= slips + stops + 1
        BY <2>3, <3>2
      <4> QED BY <2>1, <4>1, <4>2, <2>3, LossIsCounted
    <3>3. CASE ~speaks
      BY <2>1, <3>3 DEF UnheardIsRecorded
    <3> QED BY <2>2, <3>1, <3>2, <3>3
  <2> QED BY <2>1, <2>3, <2>4 DEF HeardInv
<1>6. CASE TimersRestart
  <2>1. /\ UNCHANGED <<timer, speaks, told, missed, slips>> /\ stops' = stops + 1
        /\ pass'.t = 0 /\ pass'.at # "say"
    BY <1>6 DEF TimersRestart, Idle
  <2>2. (Unheard \ missed)' \subseteq (Unheard \ missed) \union {pass.t}
    BY <2>1 DEF Unheard
  <2>3. slips' \in Nat /\ stops' \in Nat /\ slips' + stops' >= slips + stops + 1
    BY <2>1 DEF HeardInv
  <2>4. UnheardIsRecorded'
    BY <2>1, <2>2, <2>3, LossIsCounted
  <2> QED BY <2>1, <2>3, <2>4 DEF HeardInv
<1> QED BY <1>1, <1>2, <1>3, <1>4, <1>5, <1>6 DEF TimersNext, PassStep

LEMMA HeardStart == TimersInit => HeardInv
<1> SUFFICES ASSUME TimersInit PROVE HeardInv
  OBVIOUS
<1>1. Unheard \ missed = {}
  BY DEF TimersInit, Unheard
<1>2. pass.t = 0 /\ slips = 0 /\ stops = 0
  BY DEF TimersInit, Idle
<1> QED BY <1>1, <1>2, FS_EmptySet DEF HeardInv, UnheardIsRecorded

(* Where the pass has a chat to speak to, a timer that fired and was never *)
(* heard is one the row of a failed send tells of, or a failed call or a   *)
(* restart accounts for, whatever the chat and the page do meanwhile.      *)
THEOREM ChatMissesAreCounted == Spec => []UnheardIsRecorded
<1>1. Init => RingInv /\ HeardInv /\ ShownInv
  BY RingStart, HeardStart DEF Init, ShownInv
<1>2. RingInv /\ HeardInv /\ ShownInv /\ [Next]_vars => RingInv' /\ HeardInv' /\ ShownInv'
  BY RingStep, HeardStep, ShownStep, ChatStepIsTimersStep
<1>3. HeardInv => UnheardIsRecorded
  BY DEF HeardInv
<1> QED BY <1>1, <1>2, <1>3, PTL DEF Spec

---------------------------------------------------------------------------
(* How far the handling of a message has come.                             *)

At == IF step = "record" THEN owed.then ELSE step

(* What the log says of it, the row it is about to record counted in.      *)
Kept == log \union {owed.row}

Whole ==
    /\ "unit" \in part /\ "classified" \in Kept
    /\ "embedded" \in part \/ "embedding_failed" \in Kept
    /\ "relation" \in part => "persisted" \in Kept

(* Where nothing was kept yet, and where what was kept is a memory.        *)
Before == {"off", "classify", "cancel", "correct", "answers", "fork", "create"}
Memory == {"create", "embed", "relate", "name"}

CaptureShape ==
    /\ reading \in Readings \union {Nothing}
    /\ step \in Steps /\ owed \in [row : Rows, then : Steps]
    /\ run # "handle" => step = "off"
    /\ step # "record" => owed = OweNothing
    /\ step = "record" => owed.then \in {"fork", "embed", "name", "arm", "reply"}

KeptAsFar ==
    /\ At \in Before => part = {}
    /\ At = "cancel" => reading.kind = "cancel"
    /\ At = "correct" => reading.kind = "correct"
    /\ At \in Memory => reading.kind \in {"note", "event"}
    /\ At \in {"embed", "relate"} =>
          "unit" \in part /\ "classified" \in Kept /\ "relation" \notin part
    /\ At = "relate" => "embedded" \in part
    /\ At = "name" => Whole
    /\ At = "arm" => \/ reading.kind = "timer" /\ part = {}
                     \/ reading.kind \in {"note", "event"} /\ Whole
    /\ At = "reply" =>
          \/ reading.kind \in {"note", "event"} /\ Whole
          \/ /\ reading.kind \notin {"note", "event"} /\ part = {}
             /\ reading.kind = "timer" => Kept \intersect {"armed", "arm_refused"} # {}

KeptInv == CaptureShape /\ KeptAsFar

LEMMA KeptForgets == Forget /\ step' = "off" => KeptInv'
BY DEF Forget, KeptInv, CaptureShape, KeptAsFar, OweNothing, Nothing, Rows, Steps, At, Before, Memory

LEMMA KeptStart == Init => KeptInv
BY DEF Init, ChannelInit, KeptInv, CaptureShape, KeptAsFar, OweNothing, Nothing, Rows, Steps, At, Before, Memory

(* A row owed is a row kept, and recording it loses none that tells.       *)
LEMMA OwedIsKept ==
  ASSUME NEW row \in Rows, NEW then \in Steps, Owe(row, then), then # "record"
  PROVE  At' = then /\ owed' \in [row : Rows, then : Steps] /\ Kept' = log' \union {row}
         /\ step' = "record" /\ owed'.then = then
BY DEF Owe, At, Kept

LEMMA KeptStep == KeptInv /\ [Next]_vars => KeptInv'
<1> SUFFICES ASSUME KeptInv, [Next]_vars PROVE KeptInv'
  OBVIOUS
<1>0. /\ OweNothing.row = "none" /\ OweNothing \in [row : Rows, then : Steps]
      /\ Nothing.kind = "list" /\ "record" \in Steps
  BY DEF OweNothing, Nothing, Rows, Steps
<1>1. CASE Abort \/ Reply \/ Restart
  BY <1>1, KeptForgets DEF Abort, Reply, Restart
<1>2. CASE UNCHANGED <<capVars, run>>
  BY <1>2 DEF capVars, KeptInv, CaptureShape, KeptAsFar, At, Kept, Whole
<1>3. CASE RunnerStep /\ UNCHANGED capVars
  <2>1. step = "off" /\ step' = "off" /\ UNCHANGED <<reading, part, log, owed>>
    BY <1>3 DEF RunnerStep, Poll, Admit, Sorted, TakeMessage, Confirm, KeptInv, CaptureShape, capVars
  <2> QED BY <2>1 DEF KeptInv, CaptureShape, KeptAsFar, At, Kept, Whole
<1>4. CASE BeginCapture /\ ~Abort
  BY <1>0, <1>4 DEF BeginCapture, AtStep, Quiet, chVars, KeptInv, CaptureShape, KeptAsFar, At, Before, Memory, Steps
<1>5. CASE Classify /\ ~Abort
  <2>1. /\ step = "classify" /\ UNCHANGED <<part, log, owed, run>> /\ run = "handle"
        /\ reading' \in Readings
        /\ \/ reading'.kind = "list" /\ step' = "reply"
           \/ reading'.kind = "cancel" /\ step' = "cancel"
           \/ step' = "answers"
    BY <1>5 DEF Classify, AtStep, Quiet, chVars
  <2> QED BY <1>0, <2>1 DEF KeptInv, CaptureShape, KeptAsFar, At, Before, Memory, Steps
<1>6. CASE CancelTimer /\ ~Abort
  <2>1. /\ step = "cancel" /\ UNCHANGED <<part, log, reading, run>> /\ run = "handle"
        /\ \/ step' = "reply" /\ owed' = owed
           \/ Owe("cancelled", "reply")
    BY <1>6 DEF CancelTimer, AtStep, Quiet, chVars
  <2>2. "cancelled" \in Rows /\ "reply" \in Steps
    BY DEF Rows, Steps
  <2>3. reading.kind = "cancel" /\ part = {} /\ owed = OweNothing
    BY <2>1 DEF KeptInv, CaptureShape, KeptAsFar, At, Before
  <2>4. At' = "reply" /\ CaptureShape'
    BY <1>0, <2>1, <2>2, <2>3, OwedIsKept DEF KeptInv, CaptureShape, At
  <2> QED BY <2>1, <2>3, <2>4 DEF KeptInv, KeptAsFar, Before, Memory
<1>7. CASE CorrectReferent /\ ~Abort
  <2>1. /\ step = "correct" /\ UNCHANGED <<part, log, reading, owed, run>> /\ step' = "reply"
    BY <1>7 DEF CorrectReferent, AtStep, Quiet, chVars
  <2> QED BY <1>0, <2>1 DEF KeptInv, CaptureShape, KeptAsFar, At, Before, Memory, Steps
<1>8. CASE ResolveAnswers /\ ~Abort
  <2>1. /\ step = "answers" /\ UNCHANGED <<part, log, run>> /\ run = "handle"
        /\ reading' = [reading EXCEPT !.outcome = "none"]
        /\ \/ step' = "fork" /\ owed' = owed
           \/ Owe("answer", "fork")
    BY <1>8 DEF ResolveAnswers, AnswerGoal, AnswerCheckIn, Resolve, AtStep, Quiet, chVars
  <2>2. "answer" \in Rows /\ "fork" \in Steps
    BY DEF Rows, Steps
  <2>3. reading' \in Readings \union {Nothing} /\ owed = OweNothing /\ part = {}
    BY <2>1, ChatAssumption DEF KeptInv, CaptureShape, KeptAsFar, At, Before, Readings, Nothing
  <2>4. At' = "fork" /\ CaptureShape'
    BY <1>0, <2>1, <2>2, <2>3, OwedIsKept DEF KeptInv, CaptureShape, At
  <2> QED BY <2>1, <2>3, <2>4 DEF KeptInv, KeptAsFar, Before, Memory
<1>9. CASE ForkByKind /\ ~Abort
  <2>1. /\ step = "fork" /\ UNCHANGED <<part, log, reading, run>> /\ run = "handle"
        /\ \/ reading.kind = "timer" /\ step' = "arm" /\ owed' = owed
           \/ reading.kind = "timer" /\ Owe("arm_refused", "reply")
           \/ reading.kind \in {"talk", "scope"} /\ Owe("talk", "reply")
           \/ reading.kind = "correct" /\ step' = "correct" /\ owed' = owed
           \/ reading.kind = "recall" /\ step' = "reply" /\ owed' = owed
           \/ reading.kind \in {"note", "event"} /\ step' = "create" /\ owed' = owed
    BY <1>9 DEF ForkByKind, AtStep, Quiet, chVars
  <2>2. {"arm_refused", "talk"} \subseteq Rows /\ {"arm", "reply", "correct", "create"} \subseteq Steps
    BY DEF Rows, Steps
  <2>3. owed = OweNothing /\ part = {}
    BY <2>1 DEF KeptInv, CaptureShape, KeptAsFar, At, Before
  <2>4. CASE Owe("arm_refused", "reply") \/ Owe("talk", "reply")
    <3>1. At' = "reply" /\ CaptureShape' /\ (Owe("arm_refused", "reply") => "arm_refused" \in Kept')
      BY <1>0, <2>1, <2>2, <2>3, <2>4, OwedIsKept DEF KeptInv, CaptureShape
    <3> QED BY <2>1, <2>3, <2>4, <3>1 DEF KeptInv, KeptAsFar, Before, Memory, Owe
  <2>5. CASE owed' = owed
    <3>1. At' = step' /\ CaptureShape'
      BY <1>0, <2>1, <2>2, <2>3, <2>5 DEF KeptInv, CaptureShape, At, Owe
    <3> QED BY <1>0, <2>1, <2>3, <2>5, <3>1 DEF KeptInv, KeptAsFar, Before, Memory, Owe, Steps, CaptureShape
  <2> QED BY <2>1, <2>4, <2>5
<1>10. CASE Record /\ ~Abort
  <2>1. /\ step = "record" /\ UNCHANGED <<part, reading, run>> /\ run = "handle"
        /\ log' = log \union ({owed.row} \intersect Telling)
        /\ step' = owed.then /\ owed' = OweNothing
    BY <1>10 DEF Record, AtStep, Quiet, chVars
  <2>2. owed.then \in {"fork", "embed", "name", "arm", "reply"}
    BY <2>1 DEF KeptInv, CaptureShape
  <2>3. At' = At /\ CaptureShape'
    BY <1>0, <2>1, <2>2 DEF KeptInv, CaptureShape, At, Steps
  <2>4. \A row \in Telling : row \in Kept => row \in Kept'
    BY <2>1 DEF Kept
  <2>5. {"classified", "embedding_failed", "persisted", "armed", "arm_refused"} = Telling
    BY DEF Telling
  <2>6. Whole => Whole'
    BY <2>1, <2>4, <2>5 DEF Whole
  <2>7. Kept \intersect {"armed", "arm_refused"} # {} => Kept' \intersect {"armed", "arm_refused"} # {}
    BY <2>4, <2>5
  <2> QED BY <2>1, <2>3, <2>4, <2>5, <2>6, <2>7 DEF KeptInv, KeptAsFar
<1>11. CASE CreateUnit /\ ~Abort
  <2>1. /\ step = "create" /\ UNCHANGED <<log, reading, run>> /\ run = "handle"
        /\ part' = part \union {"unit"} /\ Owe("classified", "embed")
    BY <1>11 DEF CreateUnit, AtStep, Quiet, chVars
  <2>2. "classified" \in Rows /\ "embed" \in Steps
    BY DEF Rows, Steps
  <2>3. part = {} /\ reading.kind \in {"note", "event"}
    BY <2>1 DEF KeptInv, CaptureShape, KeptAsFar, At, Before, Memory
  <2>4. At' = "embed" /\ CaptureShape' /\ "classified" \in Kept'
    BY <1>0, <2>1, <2>2, OwedIsKept DEF KeptInv, CaptureShape
  <2> QED BY <2>1, <2>3, <2>4 DEF KeptInv, KeptAsFar, Before, Memory
<1>12. CASE EmbedAndStore
  <2>1. /\ step = "embed" /\ UNCHANGED <<log, reading, run>> /\ run = "handle"
        /\ \/ part' = part \union {"embedded"} /\ step' = "relate" /\ owed' = owed
           \/ part' = part /\ Owe("embedding_failed", "name")
    BY <1>12 DEF EmbedAndStore, AtStep, Quiet, chVars
  <2>2. "embedding_failed" \in Rows /\ {"name", "relate"} \subseteq Steps
    BY DEF Rows, Steps
  <2>3. /\ reading.kind \in {"note", "event"} /\ owed = OweNothing
        /\ "unit" \in part /\ "classified" \in Kept /\ "relation" \notin part
    BY <2>1 DEF KeptInv, CaptureShape, KeptAsFar, At, Memory
  <2>4. "classified" \in log
    BY <1>0, <2>3 DEF Kept
  <2>5. CASE step' = "relate" /\ owed' = owed
    <3>1. At' = "relate" /\ CaptureShape'
      BY <1>0, <2>1, <2>2, <2>3, <2>5 DEF KeptInv, CaptureShape, At
    <3> QED BY <2>1, <2>3, <2>4, <2>5, <3>1 DEF KeptInv, KeptAsFar, Before, Memory, Kept, Owe
  <2>6. CASE part' = part /\ Owe("embedding_failed", "name")
    <3>1. At' = "name" /\ CaptureShape' /\ Kept' = log' \union {"embedding_failed"}
      BY <1>0, <2>1, <2>2, <2>6, OwedIsKept DEF KeptInv, CaptureShape
    <3>2. Whole'
      BY <2>1, <2>3, <2>4, <2>6, <3>1 DEF Whole
    <3> QED BY <2>1, <2>3, <3>1, <3>2 DEF KeptInv, KeptAsFar, Before, Memory
  <2> QED BY <2>1, <2>5, <2>6
<1>13. CASE JudgeRelation /\ ~Abort
  <2>1. /\ step = "relate" /\ UNCHANGED <<log, reading, run>> /\ run = "handle"
        /\ \/ step' = "name" /\ owed' = owed /\ part' = part
           \/ Owe("judged", "name") /\ part' = part
           \/ Owe("persisted", "name") /\ part' = part \union {"relation"}
    BY <1>13 DEF JudgeRelation, AtStep, Quiet, chVars
  <2>2. {"judged", "persisted"} \subseteq Rows /\ "name" \in Steps
    BY DEF Rows, Steps
  <2>3. /\ reading.kind \in {"note", "event"} /\ owed = OweNothing
        /\ "unit" \in part /\ "classified" \in Kept /\ "relation" \notin part /\ "embedded" \in part
    BY <2>1 DEF KeptInv, CaptureShape, KeptAsFar, At, Memory
  <2>4. "classified" \in log
    BY <1>0, <2>3 DEF Kept
  <2>5. /\ At' = "name" /\ CaptureShape' /\ log \subseteq Kept'
        /\ Owe("persisted", "name") => "persisted" \in Kept'
    BY <1>0, <2>1, <2>2, <2>3, OwedIsKept DEF KeptInv, CaptureShape, At, Kept
  <2>6. Whole'
    BY <2>1, <2>3, <2>4, <2>5 DEF Whole
  <2> QED BY <2>1, <2>3, <2>5, <2>6 DEF KeptInv, KeptAsFar, Before, Memory
<1>14. CASE NameUnit
  <2>1. /\ step = "name" /\ UNCHANGED <<log, reading, run, part>> /\ run = "handle"
        /\ \/ step' = "arm" /\ owed' = owed
           \/ Owe("named", "arm")
    BY <1>14 DEF NameUnit, AtStep, Quiet, chVars
  <2>2. "named" \in Rows /\ "arm" \in Steps
    BY DEF Rows, Steps
  <2>3. reading.kind \in {"note", "event"} /\ owed = OweNothing /\ Whole
    BY <2>1 DEF KeptInv, CaptureShape, KeptAsFar, At, Memory
  <2>4. At' = "arm" /\ CaptureShape' /\ log \subseteq Kept'
    BY <1>0, <2>1, <2>2, <2>3, OwedIsKept DEF KeptInv, CaptureShape, At, Kept
  <2>5. Whole'
    BY <1>0, <2>1, <2>3, <2>4 DEF Whole, Kept
  <2> QED BY <2>1, <2>3, <2>4, <2>5 DEF KeptInv, KeptAsFar, Before, Memory
<1>15. CASE Arm /\ ~Abort
  <2>1. /\ step = "arm" /\ UNCHANGED <<log, reading, run>> /\ run = "handle"
        /\ \/ reading.kind = "timer" /\ Owe("armed", "reply") /\ part' = part
           \/ /\ reading.kind = "event" /\ part' = part \union {"armed"}
              /\ Owe("armed", "reply") \/ Owe("armed", "arm")
           \/ /\ reading.kind \in {"note", "event"} /\ part' = part
              /\ \/ step' = "reply" /\ owed' = owed
                 \/ Owe("arm_refused", "reply")
    BY <1>15 DEF Arm, SetTimer, ArmEvent, ArmNothing, AtStep, Quiet, chVars
  <2>2. {"armed", "arm_refused"} \subseteq Rows /\ {"arm", "reply"} \subseteq Steps
    BY DEF Rows, Steps
  <2>3. /\ owed = OweNothing
        /\ \/ reading.kind = "timer" /\ part = {}
           \/ reading.kind \in {"note", "event"} /\ Whole
    BY <2>1 DEF KeptInv, CaptureShape, KeptAsFar, At
  <2>4. /\ At' \in {"reply", "arm"} /\ CaptureShape' /\ log \subseteq Kept'
        /\ Owe("armed", "reply") => At' = "reply" /\ "armed" \in Kept'
    BY <1>0, <2>1, <2>2, <2>3, OwedIsKept DEF KeptInv, CaptureShape, At, Kept
  <2>5. CASE reading.kind = "timer"
    BY <2>1, <2>3, <2>4, <2>5 DEF KeptInv, KeptAsFar, Before, Memory
  <2>6. CASE reading.kind # "timer"
    <3>1. Whole'
      BY <1>0, <2>1, <2>3, <2>4, <2>6 DEF Whole, Kept
    <3> QED BY <2>1, <2>3, <2>4, <2>6, <3>1 DEF KeptInv, KeptAsFar, Before, Memory
  <2> QED BY <2>5, <2>6
<1>16. CASE UserSends /\ UNCHANGED capVars
  BY <1>2, <1>16 DEF UserSends
<1>17. CASE TimersAlone /\ UNCHANGED <<chVars, capVars, effects>>
  BY <1>2, <1>17 DEF chVars
<1>18. CASE UNCHANGED vars
  BY <1>2, <1>18 DEF vars, chVars
<1> QED
  BY <1>1, <1>3, <1>4, <1>5, <1>6, <1>7, <1>8, <1>9, <1>10, <1>11, <1>12, <1>13, <1>14,
     <1>15, <1>16, <1>17, <1>18 DEF Next, CaptureStep

(* What is kept of an answered message is whole, or a row says what of it  *)
(* is missing.                                                             *)
THEOREM ChatRecordsWhatItKept == Spec => []AnsweredIsRecorded
<1>1. KeptInv => AnsweredIsRecorded
  <2> SUFFICES ASSUME KeptInv, step = "reply" PROVE AnsweredIsRecorded
    BY DEF AnsweredIsRecorded
  <2>1. At = "reply" /\ Kept = log \union {"none"}
    BY DEF At, Kept, KeptInv, CaptureShape, OweNothing
  <2> QED BY <2>1 DEF KeptInv, KeptAsFar, Whole, AnsweredIsRecorded
<1> QED BY <1>1, KeptStart, KeptStep, PTL DEF Spec

---------------------------------------------------------------------------
(* Effects are counted against deliveries: a handling that made a unit, or *)
(* answered a check-in, either ends by being marked, or fails, or is cut.  *)

Made == {"embed", "relate", "name", "arm", "reply"}
Resolved == Made \union {"cancel", "correct", "fork", "create"}

(* The handling of u is past the point S begins at, and not marked yet.    *)
Took(u, S) ==
    IF run \in {"handle", "done"} /\ u = Msg /\ (run = "handle" => At \in S) THEN 1 ELSE 0

Budget(u, S) == failed[u] + crashes + again[u] + Took(u, S)

AnsweredBy(u) == {c \in CheckIns : answer[c] = u}

EffectType ==
    /\ units \in [Updates -> Nat] /\ answer \in [CheckIns -> {0} \union Updates]
    /\ failed \in [Updates -> Nat] /\ crashes \in Nat /\ again \in [Updates -> Nat]

EffectInv ==
    /\ EffectType
    /\ \A u \in Updates : units[u] <= Budget(u, Made)
    /\ \A u \in Updates : Cardinality(AnsweredBy(u)) <= Budget(u, Resolved)

(* What a step may do to the count of u's deliveries.                      *)
Goes == run' = run /\ UNCHANGED <<failed, crashes, again, batch>>

LEMMA TookIs == \A u : \A S : Took(u, S) \in {0, 1}
BY DEF Took

LEMMA MoreOfOne ==
  ASSUME NEW f \in Nat, NEW c \in Nat, NEW a \in Nat, NEW t \in {0, 1},
         NEW f1 \in Nat, NEW c1 \in Nat, NEW a1 \in Nat, NEW t1 \in {0, 1},
         \/ f1 >= f /\ c1 >= c /\ a1 >= a /\ t1 >= t
         \/ f1 = f + 1 /\ c1 = c /\ a1 = a
         \/ f1 = f /\ c1 = c /\ a1 = a + 1
         \/ f1 = f /\ c1 = c + 1 /\ a1 = 0 /\ t1 = 0 /\ a + t <= 1
  PROVE  f1 + c1 + a1 + t1 >= f + c + a + t
OBVIOUS

LEMMA OneMore ==
  ASSUME NEW f \in Nat, NEW c \in Nat, NEW a \in Nat,
         NEW n \in Nat, NEW n1 \in Nat, n1 <= n + 1, n <= f + c + a + 0
  PROVE  n1 <= f + c + a + 1
OBVIOUS

LEMMA StillWithin ==
  ASSUME NEW n \in Nat, NEW n1 \in Nat, n1 <= n, NEW b \in Nat, NEW b1 \in Nat, b1 >= b, n <= b
  PROVE  n1 <= b1
OBVIOUS

LEMMA BudgetIsNat ==
  ASSUME EffectType, NEW u \in Updates, NEW S
  PROVE  /\ Budget(u, S) \in Nat /\ failed[u] \in Nat /\ crashes \in Nat /\ again[u] \in Nat
<1>1. failed[u] \in Nat /\ crashes \in Nat /\ again[u] \in Nat
  BY DEF EffectType
<1>2. Took(u, S) \in Nat
  BY TookIs
<1> QED BY <1>1, <1>2 DEF Budget

LEMMA AnswersAreFinite ==
  ASSUME NEW u PROVE IsFiniteSet(AnsweredBy(u)) /\ Cardinality(AnsweredBy(u)) \in Nat
<1>1. AnsweredBy(u) \in SUBSET CheckIns
  BY DEF AnsweredBy
<1> QED BY <1>1, ChatAssumption, FS_Subset, FS_CardinalityType

(* At most one of a handling under way and a mark counts for an update.    *)
LEMMA MarkedOrInHand ==
  ASSUME CursorInv, OnceInv, NEW u \in Updates, NEW S
  PROVE  again[u] \in Nat /\ again[u] + Took(u, S) <= 1
<1>1. again[u] \in Nat /\ again[u] <= 1
  BY DEF OnceInv, RingShape, Remembered
<1>2. Took(u, S) = 1 => again[u] = 0
  BY MsgIsNew DEF Took
<1> QED BY <1>1, <1>2, TookIs

(* The count never falls, whichever step is taken.                         *)
LEMMA BudgetKept ==
  ASSUME CursorInv, OnceInv, KeptInv, EffectType, EffectType', [Next]_vars, NEW u \in Updates,
         NEW S \in {Made, Resolved}
  PROVE  Budget(u, S)' >= Budget(u, S)
<1>0. /\ failed[u] \in Nat /\ crashes \in Nat /\ again[u] \in Nat
      /\ failed'[u] \in Nat /\ crashes' \in Nat /\ again'[u] \in Nat
      /\ Took(u, S) \in {0, 1} /\ Took(u, S)' \in {0, 1}
  BY DEF EffectType, Took
<1>1. CASE \/ failed'[u] >= failed[u] /\ crashes' >= crashes /\ again'[u] >= again[u]
              /\ Took(u, S)' >= Took(u, S)
           \/ failed'[u] = failed[u] + 1 /\ crashes' = crashes /\ again'[u] = again[u]
           \/ failed'[u] = failed[u] /\ crashes' = crashes /\ again'[u] = again[u] + 1
           \/ /\ failed'[u] = failed[u] /\ crashes' = crashes + 1 /\ again'[u] = 0
              /\ Took(u, S)' = 0 /\ again[u] + Took(u, S) <= 1
  <2>1. failed'[u] + crashes' + again'[u] + Took(u, S)' >= failed[u] + crashes + again[u] + Took(u, S)
    BY <1>0, <1>1, MoreOfOne
  <2> QED BY <2>1 DEF Budget
<1>2. CASE UNCHANGED <<run, failed, crashes, again, batch>> /\ (run = "handle" /\ At \in S => At' \in S)
  <2>1. Took(u, S)' >= Took(u, S)
    BY <1>2 DEF Took, Msg
  <2>2. failed'[u] >= failed[u] /\ crashes' >= crashes /\ again'[u] >= again[u]
    BY <1>0, <1>2
  <2> QED BY <1>1, <2>1, <2>2
<1>3. CASE Abort /\ run = "handle"
  <2>1. failed' = [failed EXCEPT ![Msg] = @ + 1] /\ again' = again /\ crashes' = crashes
    BY <1>3 DEF Abort, BreakBatch
  <2>2. CASE u = Msg
    BY <1>1, <2>1, <2>2 DEF EffectType
  <2>3. CASE u # Msg
    <3>1. Took(u, S) = 0
      BY <2>3 DEF Took
    <3>2. failed'[u] >= failed[u] /\ crashes' >= crashes /\ again'[u] >= again[u]
      BY <1>0, <2>1, <2>3 DEF EffectType
    <3> QED BY <1>0, <1>1, <3>1, <3>2
  <2> QED BY <2>2, <2>3
<1>4. CASE Reply
  <2>1. UNCHANGED <<failed, crashes, again, batch>> /\ run' = "done" /\ run = "handle"
    BY <1>4 DEF Reply, AtStep
  <2>2. Took(u, S)' >= Took(u, S)
    BY <2>1 DEF Took, Msg
  <2>3. failed'[u] >= failed[u] /\ crashes' >= crashes /\ again'[u] >= again[u]
    BY <1>0, <2>1
  <2> QED BY <1>1, <2>2, <2>3
<1>5. CASE CaptureStep /\ ~Abort /\ ~Reply
  <2>1. UNCHANGED <<run, failed, crashes, again, batch>>
    BY <1>5 DEF CaptureStep, BeginCapture, Classify, CancelTimer, CorrectReferent, ResolveAnswers,
       ForkByKind, Record, CreateUnit, EmbedAndStore, JudgeRelation, NameUnit, Arm, Quiet, chVars
  <2>2. At \in S => At' \in S
    <3>1. CASE BeginCapture \/ Classify \/ ResolveAnswers
      BY <3>1 DEF BeginCapture, Classify, ResolveAnswers, AtStep, At, Made, Resolved
    <3>2. CASE Record
      BY <1>5, <3>2 DEF Record, AtStep, At, KeptInv, CaptureShape, Made, Resolved
    <3>3. CASE CancelTimer \/ CorrectReferent
      BY <1>5, <3>3 DEF CancelTimer, CorrectReferent, AtStep, At, Owe, Made, Resolved
    <3>4. CASE ForkByKind
      BY <1>5, <3>4 DEF ForkByKind, AtStep, At, Owe, Made, Resolved
    <3>5. CASE CreateUnit \/ EmbedAndStore \/ JudgeRelation \/ NameUnit
      BY <1>5, <3>5 DEF CreateUnit, EmbedAndStore, JudgeRelation, NameUnit, AtStep, At, Owe, Made, Resolved
    <3>6. CASE Arm
      BY <1>5, <3>6 DEF Arm, SetTimer, ArmEvent, ArmNothing, AtStep, At, Owe, Made, Resolved
    <3> QED BY <1>5, <3>1, <3>2, <3>3, <3>4, <3>5, <3>6 DEF CaptureStep
  <2> QED BY <1>2, <2>1, <2>2
<1>6. CASE Restart
  <2>1. /\ failed' = failed /\ crashes' = crashes + 1 /\ again' = [v \in Updates |-> 0]
        /\ run' = "poll"
    BY <1>6 DEF Restart, ChannelRestart
  <2>2. Took(u, S)' = 0
    BY <2>1 DEF Took
  <2> QED BY <1>1, <2>1, <2>2, MarkedOrInHand
<1>7. CASE (UserSends \/ Poll \/ Admit \/ Sorted) /\ UNCHANGED capVars
  <2>1. UNCHANGED <<failed, crashes, again>>
    BY <1>7 DEF UserSends, Poll, Admit, Sorted
  <2>2. Took(u, S)' >= Took(u, S)
    <3>1. CASE UserSends
      BY <1>0, <1>7, <3>1 DEF UserSends, Took, Msg, At, capVars
    <3>2. CASE Poll \/ Admit \/ Sorted
      <4>1. Took(u, S) = 0
        BY <3>2 DEF Poll, Admit, Sorted, Took
      <4> QED BY <1>0, <4>1
    <3> QED BY <1>7, <3>1, <3>2
  <2>3. failed'[u] >= failed[u] /\ crashes' >= crashes /\ again'[u] >= again[u]
    BY <1>0, <2>1
  <2> QED BY <1>1, <2>2, <2>3
<1>8. CASE TakeMessage
  <2>1. UNCHANGED <<failed, crashes, again>> /\ Took(u, S) = 0
    BY <1>8 DEF TakeMessage, Took
  <2>2. failed'[u] >= failed[u] /\ crashes' >= crashes /\ again'[u] >= again[u]
    BY <1>0, <2>1
  <2> QED BY <1>0, <1>1, <2>1, <2>2
<1>9. CASE Confirm
  <2>1. failed' = failed /\ crashes' = crashes /\ again' = [again EXCEPT ![Msg] = @ + 1]
    BY <1>9 DEF Confirm
  <2>2. CASE u = Msg
    BY <1>1, <2>1, <2>2 DEF EffectType
  <2>3. CASE u # Msg
    <3>1. Took(u, S) = 0
      BY <2>3 DEF Took
    <3>2. failed'[u] >= failed[u] /\ crashes' >= crashes /\ again'[u] >= again[u]
      BY <1>0, <2>1, <2>3 DEF EffectType
    <3> QED BY <1>0, <1>1, <3>1, <3>2
  <2> QED BY <2>2, <2>3
<1>10. CASE TimersAlone /\ UNCHANGED <<chVars, capVars, effects>>
  BY <1>2, <1>10 DEF chVars, capVars, At
<1>11. CASE UNCHANGED vars
  BY <1>2, <1>11 DEF vars, chVars, capVars, At
<1>12. CaptureStep => run = "handle"
  BY DEF CaptureStep, BeginCapture, Classify, CancelTimer, CorrectReferent, ResolveAnswers,
       ForkByKind, Record, CreateUnit, EmbedAndStore, JudgeRelation, NameUnit, Arm, Reply, AtStep
<1> QED
  BY <1>3, <1>4, <1>5, <1>6, <1>7, <1>8, <1>9, <1>10, <1>11, <1>12 DEF Next, RunnerStep

(* The units and the answers only the handling of a message makes.         *)
LEMMA EffectsAre ==
  ASSUME KeptInv, [Next]_vars
  PROVE  /\ \/ units' = units
            \/ /\ AtStep("create") /\ units' = [units EXCEPT ![Msg] = @ + 1] /\ At' = "embed"
               /\ UNCHANGED <<run, failed, crashes, again, batch>>
         /\ \/ answer' = answer
            \/ /\ AtStep("answers") /\ At' = "fork"
               /\ \E c : answer' = [answer EXCEPT ![c] = Msg]
               /\ UNCHANGED <<run, failed, crashes, again, batch>>
<1>1. CASE CreateUnit
  BY <1>1 DEF CreateUnit, Quiet, chVars, Owe, At, AtStep
<1>2. CASE ResolveAnswers
  <2>1. CASE answer' = answer
    BY <1>2, <2>1 DEF ResolveAnswers
  <2>2. CASE answer' # answer
    <3>1. /\ AtStep("answers") /\ Quiet /\ units' = units
          /\ AnswerGoal \/ AnswerCheckIn
      BY <1>2, <2>2 DEF ResolveAnswers
    <3>2. \E c : Resolve(c)
      <4>1. CASE AnswerGoal
        BY <2>2, <4>1 DEF AnswerGoal
      <4>2. CASE AnswerCheckIn
        BY <2>2, <4>2 DEF AnswerCheckIn
      <4> QED BY <3>1, <4>1, <4>2
    <3>3. PICK c : Resolve(c)
      BY <3>2
    <3>4. answer' = [answer EXCEPT ![c] = Msg] /\ At' = "fork"
      BY <3>3 DEF Resolve, Owe, At
    <3>5. UNCHANGED <<run, failed, crashes, again, batch>>
      BY <3>1 DEF Quiet, chVars
    <3> QED BY <3>1, <3>4, <3>5
  <2>3. units' = units
    BY <1>2 DEF ResolveAnswers
  <2> QED BY <2>1, <2>2, <2>3
<1>3. CASE CaptureStep /\ ~CreateUnit /\ ~ResolveAnswers
  BY <1>3 DEF CaptureStep, BeginCapture, Classify, CancelTimer, CorrectReferent, ForkByKind, Record,
              EmbedAndStore, JudgeRelation, NameUnit, Arm, Reply, effects
<1>4. CASE Restart
  BY <1>4 DEF Restart, effects
<1> QED BY <1>1, <1>2, <1>3, <1>4 DEF Next, vars, effects

LEMMA EffectStart == Init => EffectInv
<1> SUFFICES ASSUME Init PROVE EffectInv
  OBVIOUS
<1>1. EffectType /\ \A u \in Updates : units[u] = 0
  BY DEF Init, ChannelInit, EffectType
<1>2. ASSUME NEW u \in Updates PROVE Cardinality(AnsweredBy(u)) = 0
  <2>1. AnsweredBy(u) = {}
    BY UpdatesAreNat DEF Init, AnsweredBy
  <2> QED BY <2>1, FS_EmptySet
<1>3. ASSUME NEW u \in Updates, NEW S PROVE Budget(u, S) >= 0
  BY <1>1, BudgetIsNat
<1> QED BY <1>1, <1>2, <1>3 DEF EffectInv

(* An effect is made where the handling had not counted, and counts there. *)
LEMMA EffectCounts ==
  ASSUME CursorInv, OnceInv, EffectType, AtStep("create") \/ AtStep("answers"),
         UNCHANGED <<run, failed, crashes, again, batch>>, NEW S \in {Made, Resolved},
         At \notin S, At' \in S
  PROVE  /\ Msg \in Updates
         /\ Budget(Msg, S) = failed[Msg] + crashes + again[Msg] + 0
         /\ \A u \in Updates : u = Msg =>
               Budget(u, S)' = failed[u] + crashes + again[u] + 1
<1>1. run = "handle" /\ run' = "handle"
  BY DEF AtStep
<1>2. Took(Msg, S) = 0 /\ \A u \in Updates : u = Msg => Took(u, S)' = 1
  BY <1>1 DEF Took, Msg
<1>3. Msg \in Updates
  BY <1>1, MsgIsNew
<1> QED BY <1>2, <1>3 DEF Budget

LEMMA EffectStep ==
  ASSUME CursorInv, OnceInv, KeptInv, EffectInv, again' \in [Updates -> Nat], [Next]_vars
  PROVE  EffectInv'
<1>0. EffectType
  BY DEF EffectInv
<1>1. EffectType'
  <2>1. failed' \in [Updates -> Nat] /\ crashes' \in Nat
    <3>1. [ChannelNext]_chVars
      BY ChatStepIsChannelStep
    <3>2. failed' = failed \/ failed' = [failed EXCEPT ![Msg] = @ + 1]
      BY <3>1 DEF ChannelNext, RunnerStep, UserSends, Poll, Admit, Sorted, TakeMessage, Confirm,
                  Handled, HandleFails, HandleGoesOn, BreakBatch, ChannelRestart, chVars
    <3>3. crashes' = crashes \/ crashes' = crashes + 1
      BY <3>1 DEF ChannelNext, RunnerStep, UserSends, Poll, Admit, Sorted, TakeMessage, Confirm,
                  Handled, HandleFails, HandleGoesOn, BreakBatch, ChannelRestart, chVars
    <3> QED BY <1>0, <3>2, <3>3 DEF EffectType
  <2>2. units' \in [Updates -> Nat]
    BY <1>0, EffectsAre DEF EffectType
  <2>3. answer' \in [CheckIns -> {0} \union Updates]
    <3>1. CASE answer' = answer
      BY <1>0, <3>1 DEF EffectType
    <3>2. CASE answer' # answer
      <4>1. PICK c : answer' = [answer EXCEPT ![c] = Msg]
        BY <3>2, EffectsAre
      <4>2. Msg \in Updates
        BY <3>2, EffectsAre, MsgIsNew DEF AtStep
      <4> QED BY <1>0, <4>1, <4>2 DEF EffectType
    <3> QED BY <3>1, <3>2
  <2> QED BY <2>1, <2>2, <2>3 DEF EffectType
<1>2. ASSUME NEW u \in Updates PROVE units'[u] <= Budget(u, Made)'
  <2>1. /\ units[u] \in Nat /\ units'[u] \in Nat /\ units[u] <= Budget(u, Made)
        /\ Budget(u, Made) \in Nat
    BY <1>0, <1>1, BudgetIsNat DEF EffectInv, EffectType
  <2>2. CASE units'[u] = units[u]
    <3>1. Budget(u, Made)' >= Budget(u, Made)
      BY <1>0, <1>1, BudgetKept
    <3>2. Budget(u, Made)' \in Int
      BY <1>1 DEF Budget, Took, EffectType
    <3>3. Budget(u, Made)' \in Nat
      BY <2>1, <3>1, <3>2
    <3> QED BY <2>1, <2>2, <3>1, <3>3, StillWithin
  <2>3. CASE units'[u] # units[u]
    <3>1. /\ AtStep("create") /\ At' = "embed" /\ u = Msg /\ units'[u] = units[u] + 1
          /\ UNCHANGED <<run, failed, crashes, again, batch>>
      BY <1>0, <2>3, EffectsAre DEF EffectType
    <3>2. At = "create"
      BY <3>1 DEF AtStep, At
    <3>3. /\ Budget(u, Made) = failed[u] + crashes + again[u] + 0
          /\ Budget(u, Made)' = failed[u] + crashes + again[u] + 1
      BY <1>0, <3>1, <3>2, EffectCounts DEF Made
    <3>4. failed[u] \in Nat /\ crashes \in Nat /\ again[u] \in Nat
      BY <1>0, BudgetIsNat
    <3> QED BY <2>1, <3>1, <3>3, <3>4, OneMore
  <2> QED BY <2>2, <2>3
<1>3. ASSUME NEW u \in Updates PROVE Cardinality(AnsweredBy(u)') <= Budget(u, Resolved)'
  <2> DEFINE n == Cardinality(AnsweredBy(u))
             n1 == Cardinality(AnsweredBy(u)')
  <2>1. n \in Nat /\ n <= Budget(u, Resolved) /\ Budget(u, Resolved) \in Nat
    BY <1>0, BudgetIsNat, AnswersAreFinite DEF EffectInv
  <2>2. n1 \in Nat
    <3>1. AnsweredBy(u)' \in SUBSET CheckIns
      BY DEF AnsweredBy
    <3> QED BY <3>1, ChatAssumption, FS_Subset, FS_CardinalityType
  <2>3. CASE AnsweredBy(u)' \subseteq AnsweredBy(u)
    <3>1. n1 <= n
      BY <2>3, AnswersAreFinite, FS_Subset
    <3>2. Budget(u, Resolved)' >= Budget(u, Resolved)
      BY <1>0, <1>1, BudgetKept
    <3>3. Budget(u, Resolved)' \in Int
      BY <1>1 DEF Budget, Took, EffectType
    <3>4. Budget(u, Resolved)' \in Nat
      BY <2>1, <3>2, <3>3
    <3> HIDE DEF n, n1
    <3>5. n1 <= Budget(u, Resolved)'
      BY <2>1, <2>2, <3>1, <3>2, <3>4, StillWithin
    <3> QED BY <3>5 DEF n1
  <2>4. CASE ~(AnsweredBy(u)' \subseteq AnsweredBy(u))
    <3>1. /\ AtStep("answers") /\ At' = "fork"
          /\ UNCHANGED <<run, failed, crashes, again, batch>>
          /\ \E c : answer' = [answer EXCEPT ![c] = Msg]
      BY <2>4, EffectsAre DEF AnsweredBy
    <3>2. PICK c : answer' = [answer EXCEPT ![c] = Msg]
      BY <3>1
    <3>3. u = Msg /\ AnsweredBy(u)' \subseteq AnsweredBy(u) \union {c}
      BY <1>0, <2>4, <3>2 DEF AnsweredBy, EffectType
    <3>4. At = "answers"
      BY <3>1 DEF AtStep, At
    <3>5. /\ Budget(u, Resolved) = failed[u] + crashes + again[u] + 0
          /\ Budget(u, Resolved)' = failed[u] + crashes + again[u] + 1
      BY <1>0, <3>1, <3>3, <3>4, EffectCounts DEF Resolved, Made
    <3>6. failed[u] \in Nat /\ crashes \in Nat /\ again[u] \in Nat
      BY <1>0, BudgetIsNat
    <3>7. n1 <= n + 1
      BY <3>3, AnswersAreFinite, CardGrows
    <3> HIDE DEF n, n1
    <3>8. n1 <= Budget(u, Resolved)'
      BY <2>1, <2>2, <3>5, <3>6, <3>7, OneMore
    <3> QED BY <3>8 DEF n1
  <2> QED BY <2>3, <2>4
<1> QED BY <1>1, <1>2, <1>3 DEF EffectInv

LEMMA EffectsWithin ==
  ASSUME CursorInv, OnceInv, EffectInv
  PROVE  NoEffectTwice
<1> SUFFICES ASSUME NEW u \in Updates
             PROVE  /\ units[u] <= Deliveries(u)
                    /\ Cardinality({c \in CheckIns : answer[c] = u}) <= Deliveries(u)
  BY DEF NoEffectTwice
<1>1. ASSUME NEW S, NEW n \in Nat, n <= Budget(u, S) PROVE n <= Deliveries(u)
  <2>1. failed[u] \in Nat /\ crashes \in Nat /\ again[u] \in Nat
    BY BudgetIsNat DEF EffectInv
  <2>2. again[u] + Took(u, S) <= 1 /\ Took(u, S) \in {0, 1}
    BY MarkedOrInHand, TookIs
  <2>3. Budget(u, S) <= Deliveries(u) /\ Budget(u, S) \in Nat /\ Deliveries(u) \in Nat
    BY <2>1, <2>2 DEF Budget, Deliveries
  <2> QED BY <1>1, <2>3
<1>2. units[u] <= Deliveries(u)
  BY <1>1 DEF EffectInv, EffectType
<1>3. Cardinality(AnsweredBy(u)) <= Deliveries(u)
  BY <1>1, AnswersAreFinite DEF EffectInv
<1> QED BY <1>2, <1>3 DEF AnsweredBy

(* A confirmation of the chat's runner that fails.                         *)
LEMMA ChatOnceStep ==
  ASSUME CursorInv, OnceInv, KeptInv, EffectInv, [Next]_vars, MaxFaults <= Window \/ ~ConfirmFails
  PROVE  CursorInv' /\ OnceInv' /\ KeptInv' /\ EffectInv'
<1>1. CursorInv' /\ OnceInv'
  BY ChatStepIsChannelStep, CursorStep, OnceStep
<1>2. again' \in [Updates -> Nat]
  BY <1>1 DEF OnceInv, RingShape
<1> QED BY <1>1, <1>2, KeptStep, EffectStep

LEMMA ChatOnceStart == Init => CursorInv /\ OnceInv /\ KeptInv /\ EffectInv
BY CursorInit, OnceInit, KeptStart, EffectStart DEF Init

(* No unit and no answer comes of a message already handled, when the      *)
(* runner remembers at least as many messages as confirmations fail.       *)
THEOREM ChatTakesEffectOnce ==
    MaxFaults <= Window => (Spec => []NoEffectTwice)
<1> SUFFICES ASSUME MaxFaults <= Window PROVE Spec => []NoEffectTwice
  OBVIOUS
<1>1. CursorInv /\ OnceInv /\ KeptInv /\ EffectInv /\ [Next]_vars
         => CursorInv' /\ OnceInv' /\ KeptInv' /\ EffectInv'
  BY ChatOnceStep
<1> QED BY <1>1, ChatOnceStart, EffectsWithin, PTL DEF Spec

(* And with any window at all when none fails, as Telegram's never does.   *)
THEOREM ChatTakesEffectOnceConfirmed ==
    Spec /\ [][~ConfirmFails]_vars => []NoEffectTwice
<1>1. CursorInv /\ OnceInv /\ KeptInv /\ EffectInv /\ [Next]_vars /\ [~ConfirmFails]_vars
         => CursorInv' /\ OnceInv' /\ KeptInv' /\ EffectInv'
  <2>1. ~ConfirmFails \/ UNCHANGED vars => ~ConfirmFails
    BY DEF ConfirmFails, vars, chVars
  <2> QED BY <2>1, ChatOnceStep
<1> QED BY <1>1, ChatOnceStart, EffectsWithin, PTL DEF Spec

=============================================================================
