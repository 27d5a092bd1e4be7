---------------------------- MODULE NightProofs ----------------------------
(***************************************************************************)
(* What the nightly pass may do to what the user said and to what the user *)
(* is shown.  Beliefs: what the user said of one stands, for any keys,     *)
(* texts, pages and passes: the pass writes only where its write's         *)
(* condition still holds, creates only what its shield let through, and    *)
(* the page writes only over what it recorded.  Attention: a weight rises  *)
(* only by what a relation of the pass gains, and the focus changes hands  *)
(* only by the margin, for any weights, dates, relations and fading.       *)
(***************************************************************************)
EXTENDS Beliefs, Attention, FiniteSetTheorems, WellFoundedInduction, TLAPS

-----------------------------------------------------------------------------
(* Beliefs: what a state of it is.                                          *)
Belief == [status : {"none", "active", "retired"}, user : BOOLEAN, text : Nat, conf : Nat]
Known == [key : Keys, row : Belief]

Proposal == [key : Keys, text : Nat]
Night == [pc : {"idle", "retired", "judge", "persist"}, active : SUBSET Known, retired : SUBSET Known,
          todo : SUBSET Proposal, blind : SUBSET Proposal, missed : SUBSET Known, unsaid : SUBSET Known]
Page == [pc : {"idle", "journal", "edit", "retire", "retired", "signal"},
         key : Keys \cup {"none"}, text : Nat, to : Nat]
BeliefShape == /\ belief \in [Keys -> Belief]
               /\ \A k \in Keys : belief[k].status = "none" => ~belief[k].user
NightShape == night \in Night
PageShape == /\ page \in [Tabs -> Page]
             /\ \A t \in Tabs : page[t].pc # "idle" => page[t].key \in Keys
Shapes == BeliefShape /\ NightShape /\ PageShape

(* A missed belief is waiting to be recorded, or is.                        *)
MissedAreHeard == \A r \in night.missed \ night.unsaid : r.key \in unheard
(* An edit about to be written has its row.                                 *)
EditsAreNoted == \A t \in Tabs : page[t].pc = "edit" => <<page[t].key, page[t].text>> \in journal
Inv == Shapes /\ MissedAreHeard /\ EditsAreNoted /\ ShieldHolds /\ EditsKeepThePreImage

LEMMA InitInv == Init => Inv
<1> SUFFICES ASSUME Init PROVE Inv OBVIOUS
<1>1. BeliefShape
  <2>1. PICK kept \in [Keys -> {"none", "active", "retired"}], says \in [Keys -> Texts] :
           belief = [k \in Keys |-> IF kept[k] = "none" THEN NoBelief
                                   ELSE [NoBelief EXCEPT !.status = kept[k], !.text = says[k]]]
    BY DEF Init
  <2>2. NoBelief \in Belief /\ NoBelief.status = "none" /\ ~NoBelief.user BY DEF NoBelief, Belief
  <2>3. ASSUME NEW k \in Keys PROVE belief[k] \in Belief /\ (belief[k].status = "none" => ~belief[k].user)
    <3>1. kept[k] \in {"none", "active", "retired"} /\ says[k] \in Nat BY BeliefsAssumption
    <3>2. CASE kept[k] = "none" BY <2>1, <2>2, <3>2
    <3>3. CASE kept[k] # "none"
      <4>1. belief[k] = [NoBelief EXCEPT !.status = kept[k], !.text = says[k]] BY <2>1, <3>3
      <4>2. belief[k] = [status |-> kept[k], user |-> FALSE, text |-> says[k], conf |-> 0] BY <4>1 DEF NoBelief
      <4>3. FALSE \in BOOLEAN /\ 0 \in Nat OBVIOUS
      <4>4. belief[k] \in Belief BY <3>1, <4>2, <4>3 DEF Belief
      <4>5. belief[k].status = kept[k] BY <4>2
      <4>6. QED BY <3>3, <4>4, <4>5
    <3>4. QED BY <3>2, <3>3
  <2>4. QED BY <2>1, <2>3 DEF BeliefShape
<1>2. NightShape BY DEF Init, NightShape, Night, NightIdle
<1>3. PageShape BY DEF Init, PageShape, Page, TabIdle
<1>4. MissedAreHeard BY DEF Init, MissedAreHeard, NightIdle
<1>5. EditsAreNoted BY DEF Init, EditsAreNoted, TabIdle
<1>6. ShieldHolds /\ EditsKeepThePreImage BY DEF Init, ShieldHolds, EditsKeepThePreImage
<1>7. QED BY <1>1, <1>2, <1>3, <1>4, <1>5, <1>6 DEF Inv, Shapes

-----------------------------------------------------------------------------
(* The pass.                                                                *)
LEMMA ReadIsKnown == ASSUME BeliefShape, NEW st PROVE Read(st) \subseteq Known
BY DEF BeliefShape, Read, Known, Belief

(* A step of the pass that writes no belief and misses none anew.           *)
LEMMA NightKeeps ==
  ASSUME Inv, NEW n, NightStep(n), BeliefShape', n \in Night, MissedAreHeard', ShieldHolds'
  PROVE Inv'
<1>1. UNCHANGED <<page, journal, replaced>> /\ night' = n BY DEF NightStep
<1>2. PageShape' /\ EditsAreNoted' /\ EditsKeepThePreImage'
  BY <1>1 DEF Inv, Shapes, PageShape, EditsAreNoted, EditsKeepThePreImage
<1>3. QED BY <1>1, <1>2 DEF Inv, Shapes, NightShape

LEMMA IdleNight == NightIdle \in Night BY DEF NightIdle, Night

LEMMA DeriveBegins == ASSUME Inv, DeriveReads \/ RetiredRead \/ Judged PROVE Inv'
<1>1. UNCHANGED <<belief, unheard, made>> BY DEF DeriveReads, RetiredRead, Judged
<1>2. BeliefShape' /\ ShieldHolds' BY <1>1 DEF Inv, Shapes, BeliefShape, ShieldHolds
<1>3. CASE DeriveReads
  <2> DEFINE n == [NightIdle EXCEPT !.pc = "retired", !.active = Read("active")]
  <2>1. NightStep(n) /\ n \in Night
    BY <1>3, IdleNight, ReadIsKnown DEF DeriveReads, Night, Inv, Shapes
  <2>2. MissedAreHeard' BY <2>1 DEF NightStep, MissedAreHeard, NightIdle
  <2>3. QED BY <1>2, <2>1, <2>2, NightKeeps
<1>4. CASE RetiredRead
  <2> DEFINE n == [night EXCEPT !.pc = "judge", !.retired = Read("retired")]
  <2>1. NightStep(n) /\ n \in Night
    BY <1>4, ReadIsKnown DEF RetiredRead, Night, Inv, Shapes, NightShape
  <2>2. MissedAreHeard' BY <1>1, <2>1 DEF NightStep, MissedAreHeard, Inv, Shapes, NightShape, Night
  <2>3. QED BY <1>2, <2>1, <2>2, NightKeeps
<1>5. CASE Judged
  <2>1. PICK ps \in Proposals : \E blind \in SUBSET ps, missed \in SUBSET night.retired :
           NightStep([night EXCEPT !.pc = "persist", !.todo = ps, !.blind = blind,
                                   !.missed = missed, !.unsaid = missed])
    BY <1>5 DEF Judged
  <2>2. PICK blind \in SUBSET ps, missed \in SUBSET night.retired :
           NightStep([night EXCEPT !.pc = "persist", !.todo = ps, !.blind = blind,
                                   !.missed = missed, !.unsaid = missed])
    BY <2>1
  <2> DEFINE n == [night EXCEPT !.pc = "persist", !.todo = ps, !.blind = blind,
                                !.missed = missed, !.unsaid = missed]
  <2>3. ps \subseteq Proposal BY BeliefsAssumption DEF Proposals, Proposal
  <2>4. n \in Night BY <2>3 DEF Night, Inv, Shapes, NightShape
  <2>5. MissedAreHeard' BY <2>2 DEF NightStep, MissedAreHeard, Inv, Shapes, NightShape, Night
  <2>6. QED BY <1>2, <2>2, <2>4, <2>5, NightKeeps
<1>6. QED BY <1>3, <1>4, <1>5

LEMMA DeriveLogs == ASSUME Inv, MissedIsLogged PROVE Inv'
<1>1. PICK r \in night.unsaid : /\ unheard' = unheard \cup {r.key}
                                /\ NightStep([night EXCEPT !.unsaid = @ \ {r}])
  BY DEF MissedIsLogged
<1> DEFINE n == [night EXCEPT !.unsaid = @ \ {r}]
<1>2. UNCHANGED <<belief, made>> BY DEF MissedIsLogged
<1>3. BeliefShape' BY <1>2 DEF Inv, Shapes, BeliefShape
<1>4. ShieldHolds' BY <1>1, <1>2 DEF Inv, ShieldHolds
<1>5. n \in Night BY DEF Night, Inv, Shapes, NightShape
<1>6. MissedAreHeard'
  <2>1. night'.missed = night.missed /\ night'.unsaid = night.unsaid \ {r}
    BY <1>1 DEF NightStep, Inv, Shapes, NightShape, Night
  <2>2. QED BY <1>1, <2>1 DEF MissedAreHeard, Inv
<1>7. QED BY <1>1, <1>3, <1>4, <1>5, <1>6, NightKeeps

LEMMA DeriveStops == ASSUME Inv, DeriveEnds \/ DeriveFails PROVE Inv'
<1>1. NightStep(NightIdle) /\ UNCHANGED <<belief, unheard, made>> BY DEF DeriveEnds, DeriveFails
<1>2. BeliefShape' /\ ShieldHolds' BY <1>1 DEF Inv, Shapes, BeliefShape, ShieldHolds
<1>3. MissedAreHeard' BY <1>1 DEF NightStep, MissedAreHeard, NightIdle
<1>4. QED BY <1>1, <1>2, <1>3, IdleNight, NightKeeps

(* A proposal done with: whatever it made of the beliefs, the rest of the   *)
(* pass is as it was.                                                       *)
LEMMA DoneKeeps ==
  ASSUME Inv, NEW p, Persisting(p), Done(p), BeliefShape', ShieldHolds'
  PROVE Inv'
<1> DEFINE n == [night EXCEPT !.todo = @ \ {p}]
<1>1. NightStep(n) /\ UNCHANGED unheard BY DEF Done
<1>2. n \in Night BY DEF Night, Inv, Shapes, NightShape
<1>3. night'.missed = night.missed /\ night'.unsaid = night.unsaid
  BY <1>1 DEF NightStep, Inv, Shapes, NightShape, Night
<1>4. MissedAreHeard' BY <1>1, <1>3 DEF MissedAreHeard, Inv
<1>5. QED BY <1>1, <1>2, <1>4, NightKeeps

LEMMA SkipKeeps == ASSUME Inv, NEW p, Skips(p) PROVE Inv'
<1>1. Persisting(p) /\ Done(p) /\ UNCHANGED <<belief, made, unheard>> BY DEF Skips, Done
<1>2. BeliefShape' /\ ShieldHolds' BY <1>1 DEF Inv, Shapes, BeliefShape, ShieldHolds
<1>3. QED BY <1>1, <1>2, DoneKeeps

(* What a reinforcement writes is a confidence.                             *)
LEMMA ReinforceWrites ==
  ASSUME Inv, NEW p, Reinforces(p)
  PROVE /\ BeliefShape'
        /\ \A k \in Keys : Word(k)' = Word(k)
<1>1. PICK a \in Into(p) :
         belief' = IF a.row.conf < MaxConf /\ belief[a.key].status = "active"
                   THEN [belief EXCEPT ![a.key].conf = a.row.conf + 1] ELSE belief
  BY DEF Reinforces
<1>2. a \in Known BY DEF Into, Own, Resembling, Inv, Shapes, NightShape, Night
<1>3. a.key \in Keys /\ a.row.conf + 1 \in Nat BY <1>2 DEF Known, Belief
<1>4. CASE belief' = belief BY <1>4 DEF Inv, Shapes, BeliefShape, Word
<1>5. CASE belief' = [belief EXCEPT ![a.key].conf = a.row.conf + 1]
  <2>1. BeliefShape' BY <1>3, <1>5 DEF Inv, Shapes, BeliefShape, Belief
  <2>2. ASSUME NEW k \in Keys PROVE Word(k)' = Word(k)
    <3>1. belief[k] \in Belief BY DEF Inv, Shapes, BeliefShape
    <3>2. CASE k # a.key BY <3>2, <1>5 DEF Inv, Shapes, BeliefShape, Word
    <3>3. CASE k = a.key
      <4>1. belief'[k] = [belief[k] EXCEPT !.conf = a.row.conf + 1]
        BY <3>3, <1>5 DEF Inv, Shapes, BeliefShape
      <4>2. QED BY <3>1, <4>1 DEF Word, Belief
    <3>4. QED BY <3>2, <3>3
  <2>3. QED BY <2>1, <2>2
<1>6. QED BY <1>1, <1>4, <1>5

LEMMA ReinforceKeeps == ASSUME Inv, NEW p, Reinforces(p) PROVE Inv'
<1>1. Persisting(p) /\ Done(p) /\ UNCHANGED <<made, unheard>> BY DEF Reinforces, Done
<1>2. ShieldHolds' BY <1>1 DEF Inv, ShieldHolds
<1>3. BeliefShape' BY ReinforceWrites
<1>4. QED BY <1>1, <1>2, <1>3, DoneKeeps

(* What the shield lets through is like no belief that was compared.        *)
LEMMA CreateIsFresh ==
  ASSUME Inv, NEW p, Creates(p), NEW r \in night.retired
  PROVE r.key # p.key /\ (Alike(r.row.text, p.text) => r.key \in unheard)
<1>1. Persisting(p) /\ ~Shielded(p) /\ Resembling(p) = {} BY DEF Creates
<1>2. r.key # p.key BY <1>1 DEF Shielded, RetiredKeyHits
<1>3. ASSUME Alike(r.row.text, p.text) PROVE r.key \in unheard
  <2>1. p \notin night.blind BY <1>1 DEF Shielded
  <2>2. \A a \in night.active : ~Alike(a.row.text, p.text) BY <1>1, <2>1 DEF Resembling
  <2>3. r \in night.missed BY <1>1, <1>3, <2>1, <2>2 DEF Shielded, RetiredWins
  <2>4. QED BY <1>1, <2>3 DEF Persisting, MissedAreHeard, Inv
<1>4. QED BY <1>2, <1>3

LEMMA CreateKeeps == ASSUME Inv, NEW p, Creates(p) PROVE Inv'
<1>1. Persisting(p) /\ Done(p) /\ UNCHANGED unheard BY DEF Creates, Done
<1>2. p \in Proposal BY <1>1 DEF Persisting, Inv, Shapes, NightShape, Night
<1>3. CASE Upsertable(p.key)
  <2>1. /\ belief' = [belief EXCEPT ![p.key] = [status |-> "active", user |-> FALSE, text |-> p.text, conf |-> 0]]
        /\ made' = made \cup {[key |-> p.key, text |-> p.text, retired |-> night.retired]}
    BY <1>3 DEF Creates
  <2>2. BeliefShape' BY <1>2, <2>1 DEF Inv, Shapes, BeliefShape, Belief, Proposal
  <2>3. ASSUME NEW m \in made' PROVE \A r \in m.retired :
                  r.key # m.key /\ (Alike(r.row.text, m.text) => r.key \in unheard)
    <3>1. CASE m \in made BY <3>1 DEF Inv, ShieldHolds
    <3>2. CASE m = [key |-> p.key, text |-> p.text, retired |-> night.retired]
      BY <3>2, CreateIsFresh
    <3>3. QED BY <2>1, <3>1, <3>2
  <2>4. ShieldHolds' BY <1>1, <2>3 DEF ShieldHolds
  <2>5. QED BY <1>1, <2>2, <2>4, DoneKeeps
<1>4. CASE ~Upsertable(p.key)
  <2>1. UNCHANGED <<belief, made>> BY <1>4 DEF Creates
  <2>2. BeliefShape' /\ ShieldHolds' BY <1>1, <2>1 DEF Inv, Shapes, BeliefShape, ShieldHolds
  <2>3. QED BY <1>1, <2>2, DoneKeeps
<1>5. QED BY <1>3, <1>4

-----------------------------------------------------------------------------
(* The page: one tab goes on with the record rec, the pass as it was.       *)
LEMMA TabKeeps ==
  ASSUME Inv, NEW t \in Tabs, NEW rec \in Page, Tab(t, rec), TabOnly, BeliefShape',
         rec.pc # "idle" => rec.key \in Keys, journal \subseteq journal',
         rec.pc = "edit" => <<rec.key, rec.text>> \in journal', EditsKeepThePreImage'
  PROVE Inv'
<1>1. page' = [page EXCEPT ![t] = rec] BY DEF Tab
<1>2. NightShape' /\ MissedAreHeard' /\ ShieldHolds'
  BY DEF TabOnly, Inv, Shapes, NightShape, MissedAreHeard, ShieldHolds
<1>3. \A o \in Tabs : page'[o] = IF o = t THEN rec ELSE page[o] BY <1>1 DEF Inv, Shapes, PageShape
<1>4. PageShape' BY <1>1, <1>3 DEF Inv, Shapes, PageShape
<1>5. EditsAreNoted' BY <1>3 DEF Inv, EditsAreNoted
<1>6. QED BY <1>2, <1>4, <1>5 DEF Inv, Shapes

LEMMA IdleTab == TabIdle \in Page /\ TabIdle.pc = "idle" BY DEF TabIdle, Page

(* A step of a tab that touches neither a belief nor what was replaced, and *)
(* does not come to an edit.                                                *)
LEMMA TabGoesOn ==
  ASSUME Inv, NEW t \in Tabs, NEW rec \in Page, Tab(t, rec), TabOnly, UNCHANGED <<belief, replaced>>,
         journal \subseteq journal', rec.pc # "edit", rec.pc # "idle" => rec.key \in Keys
  PROVE Inv'
<1>1. BeliefShape' BY DEF Inv, Shapes, BeliefShape
<1>2. EditsKeepThePreImage' BY DEF Inv, EditsKeepThePreImage
<1>3. QED BY <1>1, <1>2, TabKeeps

LEMMA PageKeeps == ASSUME Inv, NEW t \in Tabs, Curates(t) PROVE Inv'
<1>0. page[t] \in Page BY DEF Inv, Shapes, PageShape
<1>1. ASSUME NEW k \in Keys, RetireReads(t, k) PROVE Inv'
  <2> DEFINE rec == [pc |-> "retire", key |-> k, text |-> belief[k].text, to |-> 0]
  <2>1. belief[k].text \in Nat BY DEF Inv, Shapes, BeliefShape, Belief
  <2>2. rec \in Page BY <2>1 DEF Page
  <2>3. QED BY <1>1, <2>2, TabGoesOn DEF RetireReads
<1>2. ASSUME NEW k \in Keys, NEW to \in Texts, EditReads(t, k, to) PROVE Inv'
  <2> DEFINE rec == [pc |-> "journal", key |-> k, text |-> belief[k].text, to |-> to]
  <2>1. belief[k].text \in Nat BY DEF Inv, Shapes, BeliefShape, Belief
  <2>2. rec \in Page BY <2>1, BeliefsAssumption DEF Page
  <2>3. QED BY <1>2, <2>2, TabGoesOn DEF EditReads
<1>3. CASE NotesPreImage(t)
  <2> DEFINE rec == [page[t] EXCEPT !.pc = "edit"]
  <2>1. Tab(t, rec) /\ TabOnly /\ UNCHANGED <<belief, replaced>> /\ page[t].pc = "journal"
        /\ journal' = journal \cup {<<page[t].key, page[t].text>>}
    BY <1>3 DEF NotesPreImage
  <2>2. rec \in Page /\ rec.key = page[t].key /\ rec.text = page[t].text BY <1>0 DEF Page
  <2>6. journal \subseteq journal' /\ <<rec.key, rec.text>> \in journal' BY <2>1, <2>2
  <2>3. page[t].key \in Keys BY <2>1 DEF Inv, Shapes, PageShape
  <2>4. BeliefShape' /\ EditsKeepThePreImage' BY <2>1 DEF Inv, Shapes, BeliefShape, EditsKeepThePreImage
  <2> HIDE DEF rec
  <2>5. QED BY <2>1, <2>2, <2>3, <2>4, <2>6, TabKeeps
<1>4. CASE Edits(t)
  <2>1. page[t].pc = "edit" /\ page[t].key \in Keys BY <1>4 DEF Edits, Inv, Shapes, PageShape
  <2>2. CASE EditLands(t)
    <3> DEFINE rec == [page[t] EXCEPT !.pc = "signal"]
    <3>1. /\ belief' = [belief EXCEPT ![page[t].key].text = page[t].to, ![page[t].key].user = TRUE]
          /\ replaced' = replaced \cup {<<page[t].key, belief[page[t].key].text>>}
          /\ Tab(t, rec) /\ TabOnly /\ UNCHANGED journal
      BY <1>4, <2>2 DEF Edits
    <3>2. rec \in Page /\ rec.key = page[t].key /\ rec.pc = "signal" BY <1>0 DEF Page
    <3>3. BeliefShape'
      <4>1. page[t].to \in Nat BY <1>0 DEF Page
      <4>2. QED BY <2>1, <3>1, <4>1 DEF Inv, Shapes, BeliefShape, Belief
    <3>4. <<page[t].key, belief[page[t].key].text>> \in journal
      BY <2>1, <2>2 DEF Inv, EditsAreNoted, EditLands
    <3>5. EditsKeepThePreImage' BY <3>1, <3>4 DEF Inv, EditsKeepThePreImage
    <3>6. QED BY <2>1, <3>1, <3>2, <3>3, <3>5, TabKeeps
  <2>3. CASE ~EditLands(t)
    <3>1. Tab(t, TabIdle) /\ TabOnly /\ UNCHANGED <<belief, replaced, journal>> BY <1>4, <2>3 DEF Edits
    <3>2. QED BY <3>1, IdleTab, TabGoesOn
  <2>4. QED BY <2>2, <2>3
<1>5. CASE Retires(t)
  <2>1. page[t].pc = "retire" /\ page[t].key \in Keys BY <1>5 DEF Retires, Inv, Shapes, PageShape
  <2>2. TabOnly /\ UNCHANGED <<journal, replaced>> BY <1>5 DEF Retires
  <2>3. EditsKeepThePreImage' BY <2>2 DEF Inv, EditsKeepThePreImage
  <2>4. CASE belief[page[t].key].status = "active"
    <3> DEFINE rec == [page[t] EXCEPT !.pc = "retired"]
    <3>1. belief' = [belief EXCEPT ![page[t].key].status = "retired"] /\ Tab(t, rec)
      BY <1>5, <2>4 DEF Retires
    <3>2. rec \in Page /\ rec.key = page[t].key /\ rec.pc = "retired" BY <1>0 DEF Page
    <3>3. BeliefShape' BY <2>1, <3>1 DEF Inv, Shapes, BeliefShape, Belief
    <3>4. QED BY <2>1, <2>2, <2>3, <3>1, <3>2, <3>3, TabKeeps
  <2>5. CASE belief[page[t].key].status # "active"
    <3>1. Tab(t, TabIdle) /\ UNCHANGED belief BY <1>5, <2>5 DEF Retires
    <3>2. QED BY <2>2, <3>1, IdleTab, TabGoesOn
  <2>6. QED BY <2>4, <2>5
<1>6. CASE RetirementIsLogged(t)
  <2> DEFINE rec == [page[t] EXCEPT !.pc = "signal"]
  <2>1. rec \in Page /\ rec.key = page[t].key /\ rec.pc = "signal" BY <1>0 DEF Page
  <2>2. page[t].key \in Keys BY <1>6 DEF RetirementIsLogged, Inv, Shapes, PageShape
  <2>3. Tab(t, rec) /\ TabOnly /\ UNCHANGED <<belief, replaced>> /\ journal \subseteq journal'
    BY <1>6 DEF RetirementIsLogged
  <2>4. QED BY <2>1, <2>2, <2>3, TabGoesOn
<1>7. CASE Teaches(t) \/ PageFails(t)
  <2>1. Tab(t, TabIdle) /\ TabOnly /\ UNCHANGED <<belief, journal, replaced>>
    BY <1>7 DEF Teaches, PageFails
  <2>2. QED BY <2>1, IdleTab, TabGoesOn
<1>8. QED BY <1>1, <1>2, <1>3, <1>4, <1>5, <1>6, <1>7 DEF Curates

-----------------------------------------------------------------------------
LEMMA NextInv == Inv /\ [Next]_vars => Inv'
<1> SUFFICES ASSUME Inv, [Next]_vars PROVE Inv' OBVIOUS
<1>1. CASE Derives
  BY <1>1, DeriveBegins, DeriveLogs, DeriveStops, SkipKeeps, ReinforceKeeps, CreateKeeps DEF Derives
<1>2. ASSUME NEW t \in Tabs, Curates(t) PROVE Inv' BY <1>2, PageKeeps
<1>3. CASE UNCHANGED vars
  <2>1. BeliefShape' /\ NightShape' /\ PageShape'
    BY <1>3 DEF vars, Inv, Shapes, BeliefShape, NightShape, PageShape
  <2>2. MissedAreHeard' /\ EditsAreNoted' /\ ShieldHolds' /\ EditsKeepThePreImage'
    BY <1>3 DEF vars, rows, Inv, MissedAreHeard, EditsAreNoted, ShieldHolds, EditsKeepThePreImage
  <2>3. QED BY <2>1, <2>2 DEF Inv, Shapes
<1>4. QED BY <1>1, <1>2, <1>3 DEF Next

LEMMA InvHolds == Spec => []Inv
BY InitInv, NextInv, PTL DEF Spec

(* Whatever a model proposes and whatever cannot be compared, what the user *)
(* retired does not come back under its key or in other words, unless the   *)
(* log says it could not be compared (consolidate.go: derive, shield.go).   *)
THEOREM RetiredStaysRetired == Spec => []ShieldHolds
<1>1. Inv => ShieldHolds BY DEF Inv
<1>2. QED BY <1>1, InvHolds, PTL

(* No edit replaces a text the log does not hold (belief_edit.go).          *)
THEOREM EditsAreRecorded == Spec => []EditsKeepThePreImage
<1>1. Inv => EditsKeepThePreImage BY DEF Inv
<1>2. QED BY <1>1, InvHolds, PTL

(* A step of the pass leaves what the user said (selfmodelrepo.go).         *)
LEMMA DeriveLeavesWords ==
  ASSUME Inv, Derives, NEW k \in Keys, belief[k].user \/ belief[k].status = "retired"
  PROVE Word(k)' = Word(k)
<1>1. ASSUME NEW p, Creates(p) PROVE Word(k)' = Word(k)
  <2>1. CASE Upsertable(p.key)
    <3>1. p.key # k
      <4>1. belief[k].status # "none" BY DEF Inv, Shapes, BeliefShape
      <4>2. ~Upsertable(k)
        <5>1. CASE belief[k].status = "retired" BY <5>1 DEF Upsertable
        <5>2. CASE belief[k].user BY <4>1, <5>2 DEF Upsertable
        <5>3. QED BY <5>1, <5>2
      <4>3. QED BY <2>1, <4>2
    <3>2. belief'[k] = belief[k] BY <1>1, <2>1, <3>1 DEF Creates, Inv, Shapes, BeliefShape
    <3>3. QED BY <3>2 DEF Word
  <2>2. CASE ~Upsertable(p.key) BY <1>1, <2>2 DEF Creates, Word
  <2>3. QED BY <2>1, <2>2
<1>2. ASSUME NEW p, Reinforces(p) PROVE Word(k)' = Word(k) BY <1>2, ReinforceWrites
<1>3. CASE DeriveReads \/ RetiredRead \/ Judged \/ MissedIsLogged \/ DeriveEnds \/ DeriveFails
  BY <1>3 DEF DeriveReads, RetiredRead, Judged, MissedIsLogged, DeriveEnds, DeriveFails, Word
<1>4. ASSUME NEW p, Skips(p) PROVE Word(k)' = Word(k) BY <1>4 DEF Skips, Word
<1>5. QED BY <1>1, <1>2, <1>3, <1>4 DEF Derives

(* Only the page changes what the user wrote, claimed or retired.           *)
THEOREM WordsStand == Spec => UserWordStands
<1>1. Inv /\ [Next]_vars => [\A k \in Keys : (belief[k].user \/ belief[k].status = "retired") /\ Word(k)' # Word(k)
                                              => night' = night]_vars
  <2>1. ASSUME Inv, Next, NEW k \in Keys, belief[k].user \/ belief[k].status = "retired", Word(k)' # Word(k)
        PROVE night' = night
    <3>1. ~Derives BY <2>1, DeriveLeavesWords
    <3>2. PICK t \in Tabs : Curates(t) BY <2>1, <3>1 DEF Next
    <3>3. QED BY <3>2 DEF Curates, RetireReads, EditReads, NotesPreImage, Edits, Retires, RetirementIsLogged,
                         Teaches, PageFails, TabOnly
  <2>2. QED BY <2>1
<1>2. QED BY <1>1, InvHolds, PTL DEF Spec, UserWordStands

-----------------------------------------------------------------------------
(* Numbers.                                                                 *)

Below(x, T) == {y \in T : y <= x}

(* A set of numbers that is not empty has a least one.                      *)
LEMMA SmallestExists ==
  ASSUME NEW T, T \subseteq Nat, T # {}
  PROVE  \E x \in T : \A y \in T : x <= y
<1> DEFINE F == {Below(x, T) : x \in T}
<1>1. F \subseteq FiniteSubsetsOf(Nat)
  <2>1. ASSUME NEW x \in T PROVE Below(x, T) \in SUBSET Nat /\ IsFiniteSet(Below(x, T))
    <3>1. Below(x, T) \in SUBSET Nat /\ \A s \in Below(x, T) : s <= x BY DEF Below
    <3>2. QED BY <3>1, FS_BoundedSetOfNaturals
  <2>2. QED BY <2>1 DEF FiniteSubsetsOf
<1>2. F # {} OBVIOUS
<1>3. PICK G \in F : \A H \in F : ~ (<<H, G>> \in StrictSubsetOrdering(Nat))
  <2> HIDE DEF F
  <2> QED BY <1>1, <1>2, FS_StrictSubsetOrderingWellFounded, WFMin
<1>4. PICK x \in T : G = Below(x, T) OBVIOUS
<1>5. ASSUME NEW y \in T, y < x PROVE FALSE
  <2>1. Below(y, T) \in F OBVIOUS
  <2>2. Below(y, T) \subseteq G
    <3>1. y \in Nat /\ x \in Nat /\ \A z \in T : z \in Nat OBVIOUS
    <3>2. \A z \in T : z <= y => z <= x BY <3>1, <1>5
    <3>3. QED BY <1>4, <3>2 DEF Below
  <2>3. x \in G /\ x \notin Below(y, T) BY <1>4, <1>5 DEF Below
  <2>4. Below(y, T) \subseteq Nat /\ G \subseteq Nat BY <1>4 DEF Below
  <2>5. <<Below(y, T), G>> \in StrictSubsetOrdering(Nat)
    BY <2>2, <2>3, <2>4 DEF StrictSubsetOrdering
  <2>6. QED BY <2>1, <2>5, <1>3
<1>6. \A y \in T : x \in Nat /\ y \in Nat /\ ~(y < x) BY <1>5
<1>7. QED BY <1>6

(* A bounded set of numbers has a greatest one, and Greatest gives it.      *)
LEMMA GreatestBelow ==
  ASSUME NEW b \in Nat, NEW S, S \subseteq 0 .. b, S # {}
  PROVE  Greatest(S) \in S /\ \A y \in S : y <= Greatest(S)
<1> DEFINE T == {b - x : x \in S}
<1>1. T \subseteq Nat /\ T # {}
  <2>1. \A x \in S : x \in 0 .. b OBVIOUS
  <2>2. \A x \in S : b - x \in Nat BY <2>1
  <2>3. QED BY <2>2
<1>2. PICK t \in T : \A y \in T : t <= y
  <2> HIDE DEF T
  <2> QED BY <1>1, SmallestExists
<1>3. PICK x \in S : t = b - x OBVIOUS
<1>4. ASSUME NEW y \in S PROVE y <= x
  <2>1. t <= b - y BY <1>2
  <2>2. x \in 0 .. b /\ y \in 0 .. b OBVIOUS
  <2>3. QED BY <1>3, <2>1, <2>2
<1>5. QED BY <1>3, <1>4 DEF Greatest

LEMMA QuotientOfNat == ASSUME NEW x \in Nat, NEW d \in Nat \ {0} PROVE x \div d \in Nat
OBVIOUS

LEMMA ProductOfNats == ASSUME NEW x \in Nat, NEW y \in Nat PROVE x * y \in Nat
OBVIOUS

LEMMA ProductGrows ==
  ASSUME NEW x \in Nat, NEW y \in Nat, NEW z \in Nat, x <= y
  PROVE  x * z <= y * z /\ z * x <= z * y
OBVIOUS

LEMMA ClampIsBounded ==
  ASSUME NEW x \in Int, NEW hi \in Nat PROVE Clamp(x, hi) \in 0 .. hi
BY DEF Clamp, Least

-----------------------------------------------------------------------------
(* The focus: what a state of it is.                                        *)

Tended == [st : {"none", "pool", "archived"}, weight : Nat, touched : Int, created : Int, due : Int]
Gains == UNION {[S -> Nat] : S \in SUBSET Units}
Pass == [pc : {"idle", "archive", "reweight"}, at : Int, todo : SUBSET Units, new : SUBSET Pairs,
         boosts : Gains]
Focus == [Kinds -> SUBSET Units]
Round == [pc : {"idle", "task", "load", "computed", "sent"}, at : Int, prev : Focus,
          todo : SUBSET Units, edges : SUBSET Pairs, next : Focus]

UnitsShape == unit \in [Units -> Tended] /\ strength \in [Pairs -> 0 .. 100]
KeeperShape == held \in Focus /\ round \in [Writers -> Round]
(* What is about to be written was gained by a relation of this pass.       *)
BoostsAreEarned ==
    \A u \in DOMAIN pass.boosts : u \in Ends(pass.new) /\ 2 * pass.boosts[u] <= WeightCeiling
FocusInv == UnitsShape /\ KeeperShape /\ pass \in Pass /\ now \in Nat /\ BoostsAreEarned

(* What a unit is once a field of it is written.                            *)
LEMMA BoostLands ==
  ASSUME unit \in [Units -> Tended], NEW v \in Units, NEW b, v \in DOMAIN b, b[v] \in Nat, NEW at \in Int
  PROVE  Boosted(b, at)[v] \in Tended /\ Boosted(b, at)[v].weight = b[v]
<1>1. PICK u, w : u = unit[v] /\ w = b[v] OBVIOUS
<1>2. u \in Tended /\ w \in Nat BY <1>1
<1>3. Boosted(b, at)[v] = [u EXCEPT !.weight = w, !.touched = at] BY <1>1 DEF Boosted
<1>4. PICK n : n = Boosted(b, at)[v] OBVIOUS
<1>5. n \in Tended /\ n.weight = w BY <1>2, <1>3, <1>4 DEF Tended
<1>6. QED BY <1>1, <1>4, <1>5

LEMMA UnitArchived ==
  ASSUME NEW u \in Tended, NEW n, n = [u EXCEPT !.st = "archived"]
  PROVE  n \in Tended /\ n.weight = u.weight /\ n.touched = u.touched
  BY DEF Tended

LEMMA AsleepIsAPass == Asleep \in Pass
<1>1. << >> \in [{} -> Nat] OBVIOUS
<1>2. << >> \in Gains BY <1>1 DEF Gains
<1>3. QED BY <1>2 DEF Asleep, Pass

LEMMA IdleIsARound == Nothing \in Focus /\ Idle \in Round
BY DEF Nothing, Focus, Idle, Round

LEMMA EffectiveIsNat == ASSUME NEW u \in Tended, NEW at \in Int PROVE Effective(u, at) \in Nat
<1>1. Clamp(at - u.touched, Horizon) \in 0 .. Horizon
  <2>1. at - u.touched \in Int BY DEF Tended
  <2>2. Horizon \in Nat BY AttentionAssumption
  <2>3. QED BY <2>1, <2>2, ClampIsBounded
<1>2. Fade[Clamp(at - u.touched, Horizon)] \in Nat \ {0} BY <1>1, AttentionAssumption
<1>3. u.weight \in Nat BY DEF Tended
<1>4. u.weight \div Fade[Clamp(at - u.touched, Horizon)] \in Nat BY <1>2, <1>3, QuotientOfNat
<1>5. QED BY <1>4 DEF Effective

LEMMA StrengthInRange ==
  ASSUME UnitsShape, NEW E \in SUBSET Pairs, NEW a, NEW b
  PROVE  /\ StrengthIn(E, a, b) \in 0 .. 100
         /\ StrengthIn(E, a, b) # 0 => a \in Ends(E) /\ b \in Ends(E)
<1>1. CASE {a, b} \in E
  <2>1. strength[{a, b}] \in 0 .. 100 BY <1>1 DEF UnitsShape
  <2>2. QED BY <1>1, <2>1 DEF StrengthIn, Ends
<1>2. CASE {a, b} \notin E BY <1>2 DEF StrengthIn
<1>3. QED BY <1>1, <1>2

-----------------------------------------------------------------------------
(* The pass: what it is about to write.                                     *)

(* What v gains from o by their own relation, and by a walk through a.      *)
StepGain(E, o, v) == StrengthIn(E, o, v) \div 2
WalkGain(E, o, a, v) == (StrengthIn(E, o, a) * StrengthIn(E, a, v)) \div 400

(* A walk's gain is at most half, and nothing reaches where no relation of  *)
(* the pass ends.                                                           *)
LEMMA WalksAreBounded ==
  ASSUME UnitsShape, NEW E \in SUBSET Pairs, NEW o, NEW a, NEW v
  PROVE  /\ StepGain(E, o, v) \in 0 .. 50
         /\ WalkGain(E, o, a, v) \in 0 .. 50
         /\ v \notin Ends(E) => StepGain(E, o, v) = 0 /\ WalkGain(E, o, a, v) = 0
<1> DEFINE s == StrengthIn(E, o, v)  x == StrengthIn(E, o, a)  y == StrengthIn(E, a, v)
<1>1. s \in 0 .. 100 /\ x \in 0 .. 100 /\ y \in 0 .. 100 BY StrengthInRange
<1>2. v \notin Ends(E) => s = 0 /\ y = 0 BY <1>1, StrengthInRange
<1> HIDE DEF s, x, y
<1>3. s \div 2 \in 0 .. 50 BY <1>1
<1>4. (x * y) \div 400 \in 0 .. 50
  <2>1. x \in Nat /\ y \in Nat /\ x <= 100 /\ y <= 100 BY <1>1
  <2>2. x * y \in Nat BY <2>1, ProductOfNats
  <2>3. x * y <= 100 * y BY <2>1, ProductGrows
  <2>4. x * y <= 10000 BY <2>1, <2>2, <2>3
  <2> DEFINE p == x * y
  <2>5. p \in Nat /\ p <= 10000 BY <2>2, <2>4
  <2> HIDE DEF p
  <2>6. p \div 400 \in 0 .. 50 BY <2>5
  <2>7. QED BY <2>6 DEF p
<1>5. ASSUME v \notin Ends(E) PROVE s \div 2 = 0 /\ (x * y) \div 400 = 0
  <2>1. s = 0 /\ y = 0 BY <1>2, <1>5
  <2>2. x * y = 0 BY <1>1, <2>1
  <2>3. QED BY <2>1, <2>2
<1>6. QED BY <1>3, <1>4, <1>5 DEF s, x, y, StepGain, WalkGain

LEMMA SpreadIsBounded ==
  ASSUME UnitsShape, NEW E \in SUBSET Pairs, NEW o, NEW v
  PROVE  /\ SpreadGain(E, o, v) \in 0 .. 50
         /\ v \notin Ends(E) => SpreadGain(E, o, v) = 0
<1> DEFINE S == {StepGain(E, o, v)} \cup {WalkGain(E, o, a, v) : a \in Units}
<1>1. S \subseteq 0 .. 50 BY WalksAreBounded
<1>2. v \notin Ends(E) => S \subseteq {0} BY WalksAreBounded
<1>3. SpreadGain(E, o, v) = Greatest(S) BY DEF SpreadGain, StepGain, WalkGain
<1>4. S # {} OBVIOUS
<1> HIDE DEF S
<1>5. Greatest(S) \in S BY <1>1, <1>4, GreatestBelow
<1>6. QED BY <1>1, <1>2, <1>3, <1>5

LEMMA TargetIsBounded ==
  ASSUME UnitsShape, NEW E \in SUBSET Pairs, NEW v
  PROVE  /\ Target(E, v) \in Nat
         /\ 2 * Target(E, v) <= WeightCeiling
         /\ v \notin Ends(E) => Target(E, v) = 0
<1> DEFINE S == {0} \cup {SpreadGain(E, o, v) : o \in Ends(E) \ {v}}
           g == Greatest(S)
<1>1. S \subseteq 0 .. 50 BY SpreadIsBounded
<1>2. v \notin Ends(E) => S \subseteq {0} BY SpreadIsBounded
<1>3. Target(E, v) = (g * WeightCeiling) \div 100 BY DEF Target
<1>4. S # {} OBVIOUS
<1> HIDE DEF S
<1>5. g \in S BY <1>1, <1>4, GreatestBelow
<1>6. g \in 0 .. 50 /\ (v \notin Ends(E) => g = 0) BY <1>1, <1>2, <1>5
<1> HIDE DEF g
<1>7. WeightCeiling \in Nat BY AttentionAssumption
<1> DEFINE p == g * WeightCeiling
<1>8. p \in Nat /\ p <= 50 * WeightCeiling
  <2>1. g \in Nat /\ g <= 50 BY <1>6
  <2>2. QED BY <1>7, <2>1, ProductOfNats, ProductGrows
<1>9. g = 0 => p = 0 BY <1>7
<1> HIDE DEF p
<1>10. p \div 100 \in Nat /\ 2 * (p \div 100) <= WeightCeiling /\ (p = 0 => p \div 100 = 0) BY <1>7, <1>8
<1>11. Target(E, v) = p \div 100 BY <1>3 DEF p
<1>12. QED BY <1>6, <1>9, <1>10, <1>11

(* A step towards the target stays at or below it.                          *)
LEMMA StepsTowards ==
  ASSUME NEW e \in Nat, NEW t \in Nat, e < t, NEW r \in 0 .. 100
  PROVE  e + (r * (t - e)) \div 100 \in Nat /\ e + (r * (t - e)) \div 100 <= t
<1> DEFINE d == t - e  p == r * d
<1>1. d \in Nat /\ r \in Nat /\ r <= 100 OBVIOUS
<1> HIDE DEF d
<1>2. p \in Nat /\ p <= 100 * d BY <1>1, ProductOfNats, ProductGrows
<1> HIDE DEF p
<1>3. p \div 100 \in Nat /\ p \div 100 <= d BY <1>1, <1>2
<1>4. e + (p \div 100) \in Nat /\ e + (p \div 100) <= t BY <1>3 DEF d
<1>5. QED BY <1>4 DEF p, d

LEMMA ReweightIsEarned ==
  ASSUME UnitsShape, NEW E \in SUBSET Pairs, NEW at \in Int
  PROVE  /\ Reweight(E, at) \in Gains
         /\ \A u \in DOMAIN Reweight(E, at) : u \in Ends(E) /\ 2 * Reweight(E, at)[u] <= WeightCeiling
<1>1. Lifts(E, at) \subseteq Units BY DEF Lifts, Pool
<1>2. ASSUME NEW v \in Lifts(E, at)
      PROVE  /\ v \in Ends(E)
             /\ Reweight(E, at)[v] \in Nat /\ 2 * Reweight(E, at)[v] <= WeightCeiling
  <2> DEFINE e == Effective(unit[v], at)  t == Target(E, v)
  <2>1. unit[v] \in Tended BY <1>1 DEF UnitsShape
  <2>2. e \in Nat BY <2>1, EffectiveIsNat
  <2>3. t \in Nat /\ 2 * t <= WeightCeiling /\ (v \notin Ends(E) => t = 0) BY TargetIsBounded
  <2>4. e < t BY DEF Lifts
  <2>5. Reweight(E, at)[v] = e + (ReviveGain * (t - e)) \div 100 BY DEF Reweight
  <2> HIDE DEF e, t
  <2>6. ReviveGain \in 0 .. 100 /\ WeightCeiling \in Nat BY AttentionAssumption
  <2>7. e + (ReviveGain * (t - e)) \div 100 \in Nat /\ e + (ReviveGain * (t - e)) \div 100 <= t
    BY <2>2, <2>3, <2>4, <2>6, StepsTowards
  <2>8. v \in Ends(E) BY <2>2, <2>3, <2>4
  <2> DEFINE n == Reweight(E, at)[v]
  <2>9. n \in Nat /\ n <= t BY <2>5, <2>7
  <2> HIDE DEF n
  <2>10. 2 * n <= WeightCeiling BY <2>3, <2>6, <2>9
  <2>11. QED BY <2>8, <2>9, <2>10 DEF n
<1>3. DOMAIN Reweight(E, at) = Lifts(E, at) BY DEF Reweight
<1>4. Reweight(E, at) \in [Lifts(E, at) -> Nat] BY <1>2, <1>3 DEF Reweight
<1>5. QED BY <1>1, <1>2, <1>3, <1>4 DEF Gains

-----------------------------------------------------------------------------
(* Every step keeps the focus's invariant.                                  *)

LEMMA FocusStarts == FocusInit => FocusInv
<1> SUFFICES ASSUME FocusInit PROVE FocusInv OBVIOUS
<1>1. UnitsShape
  <2>1. PICK w \in [Early -> Weights] :
          unit = [u \in Units |->
                    IF u \in Early
                    THEN [st |-> "pool", weight |-> w[u], touched |-> 0, created |-> 0, due |-> NoDue]
                    ELSE [st |-> "none", weight |-> 0, touched |-> 0, created |-> 0, due |-> NoDue]]
    BY DEF FocusInit
  <2>2. ASSUME NEW u \in Units PROVE unit[u] \in Tended
    <3>1. u \in Early => w[u] \in Nat BY AttentionAssumption
    <3>2. NoDue \in Int BY DEF NoDue
    <3>3. CASE u \in Early BY <2>1, <3>1, <3>2, <3>3 DEF Tended
    <3>4. CASE u \notin Early BY <2>1, <3>2, <3>4 DEF Tended
    <3>5. QED BY <3>3, <3>4
  <2>3. unit \in [Units -> Tended] BY <2>1, <2>2
  <2>4. strength \in [Pairs -> 0 .. 100] BY DEF FocusInit
  <2>5. QED BY <2>3, <2>4 DEF UnitsShape
<1>2. KeeperShape BY IdleIsARound DEF FocusInit, KeeperShape
<1>3. pass \in Pass /\ BoostsAreEarned BY AsleepIsAPass DEF FocusInit, BoostsAreEarned, Asleep
<1>4. now \in Nat BY DEF FocusInit
<1>5. QED BY <1>1, <1>2, <1>3, <1>4 DEF FocusInv

LEMMA TurnsOfTheUser ==
  ASSUME FocusInv, NEW u \in Units, Capture(u) \/ Redate(u) \/ Close(u)
  PROVE  FocusInv' /\ \A v \in Units : unit[v].st # "none" => unit'[v].weight = unit[v].weight /\ unit'[v].touched = unit[v].touched
<1>1. unit' \in [Units -> Tended]
  <2>1. unit \in [Units -> Tended] /\ now \in Nat BY DEF FocusInv, UnitsShape
  <2>2. \A d \in Dues : (IF d = NoDue THEN NoDue ELSE now + d) \in Int
    BY <2>1, AttentionAssumption DEF NoDue
  <2>3. CASE Capture(u)
    <3>1. PICK w \in Weights, d \in Dues :
             unit' = [unit EXCEPT ![u] = [st |-> "pool", weight |-> w, touched |-> now, created |-> now,
                                          due |-> IF d = NoDue THEN NoDue ELSE now + d]]
      BY <2>3 DEF Capture
    <3> DEFINE q == IF d = NoDue THEN NoDue ELSE now + d
    <3>2. w \in Nat /\ q \in Int BY <2>2, AttentionAssumption
    <3> HIDE DEF q
    <3>3. [st |-> "pool", weight |-> w, touched |-> now, created |-> now, due |-> q] \in Tended
      BY <2>1, <3>2 DEF Tended
    <3>4. QED BY <2>1, <3>1, <3>3 DEF q
  <2>4. CASE Redate(u)
    <3>1. PICK d \in Dues : unit' = [unit EXCEPT ![u].due = IF d = NoDue THEN NoDue ELSE now + d]
      BY <2>4 DEF Redate
    <3> DEFINE q == IF d = NoDue THEN NoDue ELSE now + d
    <3>2. q \in Int BY <2>2
    <3>3. unit' = [unit EXCEPT ![u].due = q] BY <3>1
    <3> HIDE DEF q
    <3>4. QED BY <2>1, <3>2, <3>3 DEF Tended
  <2>5. CASE Close(u) BY <2>1, <2>5 DEF Close, Tended
  <2>6. QED BY <2>3, <2>4, <2>5
<1>2. UNCHANGED << strength, held, round, pass, now >> BY DEF Capture, Redate, Close
<1>3. FocusInv' BY <1>1, <1>2 DEF FocusInv, UnitsShape, KeeperShape, BoostsAreEarned
<1>4. ASSUME NEW v \in Units, unit[v].st # "none"
      PROVE  unit'[v].weight = unit[v].weight /\ unit'[v].touched = unit[v].touched
  <2>1. unit \in [Units -> Tended] BY DEF FocusInv, UnitsShape
  <2>2. CASE Capture(u)
    <3>1. v # u BY <1>4, <2>2 DEF Capture
    <3>2. unit'[v] = unit[v] BY <2>1, <2>2, <3>1 DEF Capture
    <3>3. QED BY <3>2
  <2>3. CASE Redate(u)
    <3>1. PICK d \in Dues : unit' = [unit EXCEPT ![u].due = IF d = NoDue THEN NoDue ELSE now + d]
      BY <2>3 DEF Redate
    <3>2. QED BY <2>1, <3>1 DEF Tended
  <2>4. CASE Close(u) BY <2>1, <2>4 DEF Close, Tended
  <2>5. QED BY <2>2, <2>3, <2>4
<1>5. QED BY <1>3, <1>4

LEMMA SelectIsOfUnits == ASSUME NEW k, NEW r PROVE Select(k, r) \in SUBSET Units
<1>1. DOMAIN Scores(k, r) = Candidates(k) BY DEF Scores
<1>2. QED BY <1>1 DEF Select, Candidates, Pool

Computes(w) == Begin(w) \/ ReadsRelations(w) \/ \E k \in Kinds : Chooses(w, k)
KeeperSteps == \/ \E w \in Writers : Computes(w)
               \/ Show \/ ShowFails \/ Send \/ SendFails \/ Publish

(* What a round is once a step of its computation is done.                  *)
LEMMA RoundBegins ==
  ASSUME NEW at \in Int, NEW prev \in Focus, NEW todo \in SUBSET Units
  PROVE  [Idle EXCEPT !.pc = "task", !.at = at, !.prev = prev, !.todo = todo] \in Round
  BY IdleIsARound DEF Round

LEMMA RoundReads ==
  ASSUME NEW r \in Round, NEW m, NEW E \in SUBSET Pairs
  PROVE  [r EXCEPT !.todo = @ \ {m}, !.edges = @ \cup E] \in Round
  BY DEF Round

LEMMA RoundChooses ==
  ASSUME NEW r \in Round, NEW k \in Kinds, NEW S \in SUBSET Units, NEW next, next = [r.next EXCEPT ![k] = S]
  PROVE  /\ [r EXCEPT !.pc = "load", !.next = next] \in Round
         /\ [Idle EXCEPT !.pc = "computed", !.next = next] \in Round
<1>1. next \in Focus BY DEF Round, Focus
<1>2. QED BY <1>1, IdleIsARound DEF Round

LEMMA TurnsOfTheKeeper == ASSUME FocusInv, KeeperSteps PROVE FocusInv' /\ UNCHANGED units
<1>1. UNCHANGED << units, pass, now >>
  BY DEF KeeperSteps, Computes, Begin, ReadsRelations, Chooses, Show, ShowFails, Send, SendFails, Publish
<1>2. held \in Focus /\ round \in [Writers -> Round] /\ now \in Int BY DEF FocusInv, KeeperShape
<1>3. KeeperShape'
  <2>1. ASSUME NEW w \in Writers, Computes(w) PROVE KeeperShape'
    <3>0. held' \in Focus BY <1>2, <2>1 DEF Computes, Begin, ReadsRelations, Chooses
    <3>1. SUFFICES \E r \in Round : round' = [round EXCEPT ![w] = r]
      <4>1. ASSUME NEW r \in Round, round' = [round EXCEPT ![w] = r] PROVE round' \in [Writers -> Round]
        BY <1>2, <4>1
      <4>2. QED BY <3>0, <4>1 DEF KeeperShape
    <3>2. CASE Begin(w)
      <4>1. held["task"] \cup held["load"] \in SUBSET Units BY <1>2 DEF Focus, Kinds
      <4>2. QED BY <1>2, <3>2, <4>1, RoundBegins DEF Begin
    <3>3. CASE ReadsRelations(w)
      <4>1. PICK m \in round[w].todo :
              round' = [round EXCEPT ![w].todo = @ \ {m},
                                     ![w].edges = @ \cup {p \in Pairs : m \in p /\ strength[p] > 0}]
        BY <3>3 DEF ReadsRelations
      <4>2. PICK r, E : r = round[w] /\ E = {p \in Pairs : m \in p /\ strength[p] > 0} OBVIOUS
      <4>3. PICK n : n = [r EXCEPT !.todo = @ \ {m}, !.edges = @ \cup E] OBVIOUS
      <4>4. round' = [round EXCEPT ![w] = n] BY <1>2, <4>1, <4>2, <4>3
      <4>5. n \in Round BY <1>2, <4>2, <4>3, RoundReads
      <4>6. QED BY <4>4, <4>5
    <3>4. ASSUME NEW k \in Kinds, Chooses(w, k) PROVE \E r \in Round : round' = [round EXCEPT ![w] = r]
      <4>1. PICK r, S : r = round[w] /\ S = Select(k, r) OBVIOUS
      <4>2. PICK next : next = [r.next EXCEPT ![k] = S] OBVIOUS
      <4>3. PICK n : n = IF k = "task" THEN [r EXCEPT !.pc = "load", !.next = next]
                         ELSE [Idle EXCEPT !.pc = "computed", !.next = next]
        OBVIOUS
      <4>4. round' = [round EXCEPT ![w] = n] BY <1>2, <3>4, <4>1, <4>2, <4>3 DEF Chooses
      <4>5. r \in Round BY <1>2, <4>1
      <4>6. S \in SUBSET Units
        <5>1. Select(k, r) \in SUBSET Units BY SelectIsOfUnits
        <5>2. QED BY <4>1, <5>1
      <4>7. n \in Round BY <4>2, <4>3, <4>5, <4>6, RoundChooses
      <4>8. QED BY <4>4, <4>7
    <3>5. QED BY Zenon, <2>1, <3>2, <3>3, <3>4 DEF Computes
  <2>2. CASE Show \/ ShowFails \/ Send \/ SendFails \/ Publish
    <3>1. "page" \in Writers /\ "digest" \in Writers BY DEF Writers
    <3>2. \A w \in Writers : round[w].next \in Focus BY <1>2 DEF Round
    <3>3. [round["digest"] EXCEPT !.pc = "sent"] \in Round BY <1>2, <3>1 DEF Round
    <3>4. held' \in Focus BY <1>2, <2>2, <3>1, <3>2 DEF Show, ShowFails, Send, SendFails, Publish
    <3>5. round' \in [Writers -> Round]
      BY <1>2, <2>2, <3>1, <3>3, IdleIsARound DEF Show, ShowFails, Send, SendFails, Publish
    <3>6. QED BY <3>4, <3>5 DEF KeeperShape
  <2>3. QED BY <2>1, <2>2 DEF KeeperSteps
<1>4. QED BY <1>1, <1>3 DEF FocusInv, UnitsShape, units, BoostsAreEarned

PassSteps == NightBegins \/ Archives \/ Connects \/ ReadsWeights \/ Boosts \/ NightFails

(* Only its last write touches a weight, with what was earned.              *)
LEMMA TurnsOfThePass ==
  ASSUME FocusInv, PassSteps
  PROVE  /\ FocusInv'
         /\ \A v \in Units :
               \/ unit'[v].weight = unit[v].weight /\ unit'[v].touched = unit[v].touched
               \/ v \in Ends(pass.new) /\ 2 * unit'[v].weight <= WeightCeiling
<1> USE DEF FocusInv
<1> DEFINE Untouched == \A v \in Units : unit'[v].weight = unit[v].weight /\ unit'[v].touched = unit[v].touched
<1>1. KeeperShape' /\ now' \in Nat
  BY DEF KeeperShape, PassSteps, NightBegins, Archives, Connects, ReadsWeights, Boosts, NightFails
<1>2. unit \in [Units -> Tended] /\ strength \in [Pairs -> 0 .. 100] /\ now \in Int BY DEF UnitsShape
<1>3. CASE NightBegins
  <2>1. UNCHANGED units BY <1>3 DEF NightBegins
  <2>2. Sunk(now) \subseteq Units BY DEF Sunk, Pool
  <2>3. pass' = [pc |-> "archive", at |-> now, todo |-> Sunk(now), new |-> {}, boosts |-> << >>]
    BY <1>3 DEF NightBegins, Asleep
  <2>4. << >> \in Gains BY AsleepIsAPass DEF Pass, Asleep
  <2>5. pass' \in Pass BY <1>2, <2>2, <2>3, <2>4 DEF Pass
  <2>6. BoostsAreEarned' BY <2>3 DEF BoostsAreEarned
  <2>7. QED BY <1>1, <1>2, <2>1, <2>5, <2>6 DEF UnitsShape, units
<1>4. CASE Archives
  <2>1. PICK u \in pass.todo :
          /\ unit' = IF u \in Pool THEN [unit EXCEPT ![u].st = "archived"] ELSE unit
          /\ pass' = [pass EXCEPT !.todo = @ \ {u}]
    BY <1>4 DEF Archives
  <2>2. strength' = strength BY <1>4 DEF Archives
  <2>3. unit' \in [Units -> Tended] /\ Untouched
    <3>1. DOMAIN unit' = Units /\ unit' = [v \in Units |-> unit'[v]] BY <1>2, <2>1
    <3>2. ASSUME NEW v \in Units
          PROVE  unit'[v] \in Tended /\ unit'[v].weight = unit[v].weight /\ unit'[v].touched = unit[v].touched
      <4>1. unit[v] \in Tended BY <1>2
      <4>2. unit'[v] = unit[v] \/ unit'[v] = [unit[v] EXCEPT !.st = "archived"] BY <1>2, <2>1
      <4>3. PICK x, n : x = unit[v] /\ n = unit'[v] OBVIOUS
      <4>4. n = x \/ n = [x EXCEPT !.st = "archived"] BY <4>2, <4>3
      <4>5. n \in Tended /\ n.weight = x.weight /\ n.touched = x.touched BY <4>1, <4>3, <4>4, UnitArchived
      <4>6. QED BY <4>3, <4>5
    <3>3. QED BY <3>1, <3>2
  <2>4. pass' \in Pass /\ pass'.new = pass.new /\ pass'.boosts = pass.boosts BY <2>1 DEF Pass
  <2>5. BoostsAreEarned' BY <2>4 DEF BoostsAreEarned
  <2>6. QED BY <1>1, <1>2, <2>2, <2>3, <2>4, <2>5 DEF UnitsShape
<1>5. CASE Connects
  <2>1. PICK p \in Pairs, s \in Strengths :
          /\ strength' = [strength EXCEPT ![p] = s]
          /\ pass' = [pass EXCEPT !.new = @ \cup {p}]
    BY <1>5 DEF Connects
  <2>2. unit' = unit BY <1>5 DEF Connects
  <2>3. s \in 0 .. 100 BY AttentionAssumption
  <2>4. pass' \in Pass /\ pass.new \subseteq pass'.new /\ pass'.boosts = pass.boosts BY <2>1 DEF Pass
  <2>5. BoostsAreEarned' BY <2>4 DEF BoostsAreEarned, Ends
  <2>6. QED BY <1>1, <1>2, <2>1, <2>2, <2>3, <2>4, <2>5 DEF UnitsShape
<1>6. CASE ReadsWeights
  <2>1. pass' = [pass EXCEPT !.pc = "reweight", !.boosts = Reweight(pass.new, pass.at)] BY <1>6 DEF ReadsWeights
  <2>2. UNCHANGED units BY <1>6 DEF ReadsWeights
  <2>3. pass.new \in SUBSET Pairs /\ pass.at \in Int BY DEF Pass
  <2>4. /\ Reweight(pass.new, pass.at) \in Gains
        /\ \A u \in DOMAIN Reweight(pass.new, pass.at) :
              u \in Ends(pass.new) /\ 2 * Reweight(pass.new, pass.at)[u] <= WeightCeiling
    BY <2>3, ReweightIsEarned
  <2>5. pass' \in Pass /\ pass'.new = pass.new /\ pass'.boosts = Reweight(pass.new, pass.at)
    BY <2>1, <2>4 DEF Pass
  <2>6. BoostsAreEarned' BY <2>4, <2>5 DEF BoostsAreEarned
  <2>7. QED BY <1>1, <1>2, <2>2, <2>5, <2>6 DEF UnitsShape, units
<1>7. CASE Boosts
  <2>1. pass' = Asleep /\ unit' = Boosted(pass.boosts, pass.at) /\ strength' = strength BY <1>7 DEF Boosts
  <2>2. pass' \in Pass /\ BoostsAreEarned' BY <2>1, AsleepIsAPass DEF BoostsAreEarned, Asleep
  <2>3. ASSUME NEW v \in Units
        PROVE  /\ unit'[v] \in Tended
               /\ \/ unit'[v].weight = unit[v].weight /\ unit'[v].touched = unit[v].touched
                  \/ v \in Ends(pass.new) /\ 2 * unit'[v].weight <= WeightCeiling
    <3>1. CASE v \in DOMAIN pass.boosts
      <4>1. pass.boosts[v] \in Nat /\ pass.at \in Int BY <3>1 DEF Pass, Gains
      <4>2. PICK b, at : b = pass.boosts /\ at = pass.at OBVIOUS
      <4>3. unit'[v] \in Tended /\ unit'[v].weight = pass.boosts[v]
        <5>1. unit' = Boosted(b, at) BY <2>1, <4>2
        <5>2. v \in DOMAIN b /\ b[v] \in Nat /\ at \in Int BY <3>1, <4>1, <4>2
        <5>3. Boosted(b, at)[v] \in Tended /\ Boosted(b, at)[v].weight = b[v] BY <1>2, <5>2, BoostLands
        <5>4. QED BY <4>2, <5>1, <5>3
      <4>4. v \in Ends(pass.new) /\ 2 * pass.boosts[v] <= WeightCeiling BY <3>1 DEF BoostsAreEarned
      <4>5. QED BY <4>3, <4>4
    <3>2. CASE v \notin DOMAIN pass.boosts
      <4>1. unit'[v] = unit[v] BY <2>1, <3>2 DEF Boosted
      <4>2. QED BY <1>2, <4>1
    <3>3. QED BY <3>1, <3>2
  <2>4. unit' \in [Units -> Tended] BY <2>1, <2>3 DEF Boosted
  <2>5. QED BY <1>1, <1>2, <2>1, <2>2, <2>3, <2>4 DEF UnitsShape
<1>8. CASE NightFails
  <2>1. pass' = Asleep /\ UNCHANGED units BY <1>8 DEF NightFails
  <2>2. pass' \in Pass /\ BoostsAreEarned' BY <2>1, AsleepIsAPass DEF BoostsAreEarned, Asleep
  <2>3. QED BY <1>1, <1>2, <2>1, <2>2 DEF UnitsShape, units
<1>9. QED BY <1>3, <1>4, <1>5, <1>6, <1>7, <1>8 DEF PassSteps

LEMMA FocusSplits ==
  FocusNext => \/ Tick \/ Restart \/ KeeperSteps \/ PassSteps
               \/ \E u \in Units : Capture(u) \/ Redate(u) \/ Close(u)
BY Zenon DEF FocusNext, KeeperSteps, PassSteps, Computes

LEMMA FocusGoesOn == FocusInv /\ [FocusNext]_focusVars => FocusInv'
<1>1. ASSUME FocusInv, FocusNext PROVE FocusInv'
  <2>1. CASE Tick BY <1>1, <2>1 DEF Tick, FocusInv, UnitsShape, KeeperShape, BoostsAreEarned, units
  <2>2. CASE Restart
    <3>1. KeeperShape' BY <2>2, IdleIsARound DEF Restart, KeeperShape
    <3>2. pass' \in Pass /\ BoostsAreEarned' BY <2>2, AsleepIsAPass DEF Restart, BoostsAreEarned, Asleep
    <3>3. UNCHANGED << units, now >> BY <2>2 DEF Restart
    <3>4. QED BY <1>1, <3>1, <3>2, <3>3 DEF FocusInv, UnitsShape, units
  <2>3. CASE \E u \in Units : Capture(u) \/ Redate(u) \/ Close(u) BY <1>1, <2>3, TurnsOfTheUser
  <2>4. CASE KeeperSteps BY <1>1, <2>4, TurnsOfTheKeeper
  <2>5. CASE PassSteps BY <1>1, <2>5, TurnsOfThePass
  <2>6. QED BY <1>1, <2>1, <2>2, <2>3, <2>4, <2>5, FocusSplits
<1>2. ASSUME FocusInv, UNCHANGED focusVars PROVE FocusInv'
  BY <1>2 DEF focusVars, units, FocusInv, UnitsShape, KeeperShape, BoostsAreEarned
<1>3. QED BY <1>1, <1>2

LEMMA FocusInvHolds == FocusSpec => []FocusInv
BY FocusStarts, FocusGoesOn, PTL DEF FocusSpec

(* A unit rises only by a pass that related it, or one it related to it, and *)
(* to half the ceiling at most.                                              *)
THEOREM RisesAreGained == FocusSpec => RisesAreEarned
<1> DEFINE Earned == \A u \in Units :
        (unit[u].st # "none" /\ Effective(unit'[u], now) > Effective(unit[u], now)) =>
            /\ u \in Ends(pass.new)
            /\ 2 * unit'[u].weight <= WeightCeiling
<1>1. FocusInv /\ [FocusNext]_focusVars => [Earned]_focusVars
  <2>0. SUFFICES ASSUME FocusInv, [FocusNext]_focusVars PROVE Earned OBVIOUS
  <2>1. SUFFICES ASSUME NEW u \in Units, unit[u].st # "none",
                        Effective(unit'[u], now) > Effective(unit[u], now)
                 PROVE  u \in Ends(pass.new) /\ 2 * unit'[u].weight <= WeightCeiling
    OBVIOUS
  <2>2. ~(unit'[u].weight = unit[u].weight /\ unit'[u].touched = unit[u].touched)
    <3>1. unit[u] \in Tended /\ now \in Int BY <2>0 DEF FocusInv, UnitsShape
    <3>2. Effective(unit[u], now) \in Nat BY <3>1, EffectiveIsNat
    <3>3. SUFFICES ASSUME unit'[u].weight = unit[u].weight, unit'[u].touched = unit[u].touched PROVE FALSE
      OBVIOUS
    <3>4. Effective(unit'[u], now) = Effective(unit[u], now) BY <3>3 DEF Effective
    <3>5. QED BY <2>1, <3>2, <3>4
  <2>3. ~(\E v \in Units : Capture(v) \/ Redate(v) \/ Close(v)) BY <2>0, <2>1, <2>2, TurnsOfTheUser
  <2>4. unit' # unit BY <2>2
  <2>5. ~KeeperSteps BY <2>0, <2>4, TurnsOfTheKeeper DEF units
  <2>6. ~Tick /\ ~Restart /\ ~UNCHANGED focusVars BY <2>4 DEF Tick, Restart, focusVars, units
  <2>7. PassSteps BY <2>0, <2>3, <2>5, <2>6, FocusSplits
  <2>8. QED BY <2>0, <2>2, <2>7, TurnsOfThePass
<1>2. QED BY <1>1, FocusInvHolds, PTL DEF FocusSpec, RisesAreEarned

-----------------------------------------------------------------------------
(* The focus holds still.                                                   *)

LEMMA SumOfNats == ASSUME NEW x \in Nat, NEW y \in Nat PROVE x + y \in Nat OBVIOUS

LEMMA ScoresAreNat ==
  ASSUME FocusInv, NEW k \in Kinds, NEW r \in Round, NEW v \in Candidates(k)
  PROVE  Scores(k, r)[v] \in Nat
<1>1. v \in Units /\ unit[v] \in Tended /\ r.at \in Int
  BY DEF FocusInv, UnitsShape, Candidates, Pool, Round
<1>2. /\ UrgencyLeadDays \in Nat /\ AgeHorizonDays \in Nat BY AttentionAssumption
<1>3. Adjacency(r.edges, r.prev[k], v) \in Nat
  <2> DEFINE E == r.edges
             S == {0} \cup {StrengthIn(E, v, m) : m \in r.prev[k] \ {v}}
  <2>1. E \in SUBSET Pairs BY DEF Round
  <2>2. S \subseteq 0 .. 100
    <3> HIDE DEF E
    <3>1. \A m : StrengthIn(E, v, m) \in 0 .. 100 BY <2>1, StrengthInRange DEF FocusInv
    <3>2. QED BY <3>1
  <2>3. Adjacency(r.edges, r.prev[k], v) = Greatest(S) BY DEF Adjacency
  <2>4. S # {} OBVIOUS
  <2> HIDE DEF S
  <2>5. Greatest(S) \in S BY <2>2, <2>4, GreatestBelow
  <2>6. Adjacency(r.edges, r.prev[k], v) \in 0 .. 100 BY <2>2, <2>3, <2>5
  <2>7. QED BY <2>6
<1>4. Effective(unit[v], r.at) \in Nat BY <1>1, EffectiveIsNat
<1>5. UrgencyRamp(unit[v], r.at) \in Nat
  <2>1. UrgencyLeadDays - (unit[v].due - r.at) \in Int BY <1>1, <1>2 DEF Tended
  <2>2. Clamp(UrgencyLeadDays - (unit[v].due - r.at), UrgencyLeadDays) \in 0 .. UrgencyLeadDays
    BY <1>2, <2>1, ClampIsBounded
  <2>3. UrgencyRamp(unit[v], r.at) \in 0 .. UrgencyLeadDays BY <1>2, <2>2 DEF UrgencyRamp
  <2>4. QED BY <1>2, <2>3
<1>6. AgeRamp(unit[v], r.at) \in Nat
  <2>1. r.at - unit[v].created \in Int BY <1>1 DEF Tended
  <2>2. AgeRamp(unit[v], r.at) \in 0 .. AgeHorizonDays BY <1>2, <2>1, ClampIsBounded DEF AgeRamp
  <2>3. QED BY <1>2, <2>2
<1>7. UrgencyLeadDays + 2 * UrgencyRamp(unit[v], r.at) \in Nat BY <1>2, <1>5
<1>8. AgeHorizonDays * (400 + Adjacency(r.edges, r.prev[k], v)) + 80 * AgeRamp(unit[v], r.at) \in Nat
  BY <1>2, <1>3, <1>6, ProductOfNats, SumOfNats
<1>9. Priority(v, Adjacency(r.edges, r.prev[k], v), r.at) \in Nat
  BY <1>4, <1>7, <1>8, ProductOfNats DEF Priority
<1>10. QED BY <1>9 DEF Scores

(* Who is brought in is not below who is dropped, the incumbent's score     *)
(* raised by the margin: else as many would be ahead of the one as of the   *)
(* other.                                                                   *)
LEMMA SelectHolds ==
  ASSUME FocusInv, NEW k \in Kinds, NEW r \in Round,
         NEW out \in (r.prev[k] \cap DOMAIN Scores(k, r)) \ Select(k, r),
         NEW new \in Select(k, r) \ r.prev[k]
  PROVE  \/ Displaces(Scores(k, r)[new], Scores(k, r)[out])
         \/ Scores(k, r)[new] * 100 = Scores(k, r)[out] * (100 + HysteresisMargin)
<1> DEFINE score == Scores(k, r)
           key == [v \in DOMAIN score |-> score[v] * (IF v \in r.prev[k] THEN 100 + HysteresisMargin ELSE 100)]
           Ahead(a, b) == key[a] > key[b] \/ (key[a] = key[b] /\ RankedBefore(score, a, b))
           A(v) == {w \in DOMAIN score : Ahead(w, v)}
<1>1. Select(k, r) = {v \in DOMAIN score : Cardinality(A(v)) < FocusSize} BY DEF Select
<1>2. DOMAIN score = Candidates(k) BY DEF Scores
<1>3. \A v \in DOMAIN score : score[v] \in Nat BY <1>2, ScoresAreNat
<1>4. HysteresisMargin \in Nat /\ FocusSize \in Nat BY AttentionAssumption
<1>5. \A v \in DOMAIN score : key[v] \in Nat
  <2>1. \A v \in DOMAIN score : (IF v \in r.prev[k] THEN 100 + HysteresisMargin ELSE 100) \in Nat BY <1>4
  <2>2. QED BY <1>3, <2>1, ProductOfNats
<1>6. out \in DOMAIN score /\ new \in DOMAIN score BY <1>1
<1>7. ~(key[out] > key[new])
  <2> SUFFICES ASSUME key[out] > key[new] PROVE FALSE OBVIOUS
  <2>1. A(out) \subseteq A(new)
    <3>1. ASSUME NEW w \in A(out) PROVE w \in A(new)
      <4>1. w \in DOMAIN score /\ key[w] >= key[out] BY <1>5, <1>6
      <4>2. key[w] > key[new] BY <1>5, <1>6, <4>1
      <4>3. QED BY <4>1, <4>2
    <3>2. QED BY <3>1
  <2>2. IsFiniteSet(A(new))
    <3>1. A(new) \subseteq Units BY <1>2 DEF Candidates, Pool
    <3>2. QED BY <3>1, AttentionAssumption, FS_Subset
  <2>3. Cardinality(A(out)) <= Cardinality(A(new)) BY <2>1, <2>2, FS_Subset
  <2>4. Cardinality(A(new)) \in Nat /\ Cardinality(A(out)) \in Nat BY <2>1, <2>2, FS_Subset, FS_CardinalityType
  <2>5. Cardinality(A(new)) < FocusSize BY <1>1
  <2>6. ~(Cardinality(A(out)) < FocusSize) BY <1>1, <1>6
  <2>7. QED BY <1>4, <2>3, <2>4, <2>5, <2>6
<1>8. key[out] = score[out] * (100 + HysteresisMargin) /\ key[new] = score[new] * 100 BY <1>6
<1>9. key[out] \in Nat /\ key[new] \in Nat BY <1>5, <1>6
<1>10. key[new] > key[out] \/ key[new] = key[out]
  <2> HIDE DEF key
  <2> QED BY <1>7, <1>9
<1>11. QED BY <1>8, <1>10 DEF Displaces

(* Only a choice moves a round on from where it chooses.                    *)
LEMMA OnlyChoosingChooses ==
  ASSUME FocusInv, [FocusNext]_focusVars, NEW w \in Writers, NEW k \in Kinds, Chose(w, k)
  PROVE  Chooses(w, k)
<1>1. round \in [Writers -> Round] BY DEF FocusInv, KeeperShape
<1>2. round[w].pc = k /\ round'[w].pc \notin {k, "idle"} /\ k \in {"task", "load"} BY DEF Chose, Kinds
<1>3. round' # round BY <1>2
<1>4. ASSUME NEW x \in Writers, Computes(x) PROVE Chooses(w, k)
  <2>1. x = w BY <1>1, <1>2, <1>4 DEF Computes, Begin, ReadsRelations, Chooses
  <2>2. ~Begin(w) BY <1>2 DEF Begin
  <2>3. ~ReadsRelations(w)
    <3>1. SUFFICES ASSUME ReadsRelations(w) PROVE round'[w].pc = round[w].pc BY <1>2
    <3>2. PICK m \in round[w].todo :
            round' = [round EXCEPT ![w].todo = @ \ {m},
                                   ![w].edges = @ \cup {p \in Pairs : m \in p /\ strength[p] > 0}]
      BY <3>1 DEF ReadsRelations
    <3>3. PICK r, E : r = round[w] /\ E = {p \in Pairs : m \in p /\ strength[p] > 0} OBVIOUS
    <3>4. PICK n : n = [r EXCEPT !.todo = @ \ {m}, !.edges = @ \cup E] OBVIOUS
    <3>5. round' = [round EXCEPT ![w] = n] BY <1>1, <3>2, <3>3, <3>4
    <3>6. r \in Round /\ n.pc = r.pc BY <1>1, <3>3, <3>4 DEF Round
    <3>7. QED BY <1>1, <3>3, <3>5, <3>6
  <2>4. ASSUME NEW j \in Kinds, Chooses(w, j) PROVE Chooses(w, k)
    <3>1. round[w].pc = j BY <2>4 DEF Chooses
    <3>2. j = k BY <1>2, <3>1
    <3>3. QED BY Zenon, <2>4, <3>2
  <2>5. QED BY Zenon, <1>4, <2>1, <2>2, <2>3, <2>4 DEF Computes
<1>5. ~(Show \/ ShowFails \/ Send \/ SendFails \/ Publish \/ Restart)
  <2>1. Idle.pc = "idle" /\ w \in {"page", "digest"} BY DEF Idle, Writers
  <2>2. ~(Show \/ ShowFails \/ SendFails) BY <1>1, <1>2, <2>1 DEF Show, ShowFails, SendFails, Writers
  <2>3. ~(Publish \/ Restart) BY <1>1, <1>2, <2>1 DEF Publish, Restart, Writers
  <2>4. ~Send
    <3>1. SUFFICES ASSUME Send PROVE round'[w].pc \in {round[w].pc, "sent"} /\ round["digest"].pc = "computed"
      BY <1>1, <1>2, <2>1 DEF Send, Writers
    <3>2. QED BY <1>1, <2>1, <3>1 DEF Send, Round, Writers
  <2>5. QED BY <2>2, <2>3, <2>4
<1>6. ~(Tick \/ PassSteps \/ UNCHANGED focusVars)
  BY <1>3 DEF Tick, PassSteps, NightBegins, Archives, Connects, ReadsWeights, Boosts, NightFails, focusVars
<1>7. ~(\E u \in Units : Capture(u) \/ Redate(u) \/ Close(u)) BY <1>3 DEF Capture, Redate, Close
<1>8. ~KeeperSteps \/ Chooses(w, k) BY <1>4, <1>5 DEF KeeperSteps
<1>9. QED BY <1>5, <1>6, <1>7, <1>8, FocusSplits

(* A computation drops an incumbent for a newcomer only where the newcomer  *)
(* beats it by the margin, or the ranking decides a tie.                    *)
THEOREM FocusHoldsStill == FocusSpec => FocusIsSteady
<1> DEFINE Steady == \A w \in Writers, k \in Kinds :
        Chose(w, k) =>
            LET score == Scores(k, round[w])
            IN  \A out \in Dropped(w, k), new \in BroughtIn(w, k) :
                    \/ Displaces(score[new], score[out])
                    \/ score[new] * 100 = score[out] * (100 + HysteresisMargin)
<1>1. FocusInv /\ [FocusNext]_focusVars => [Steady]_focusVars
  <2>0. SUFFICES ASSUME FocusInv, [FocusNext]_focusVars PROVE Steady OBVIOUS
  <2>1. SUFFICES ASSUME NEW w \in Writers, NEW k \in Kinds, Chose(w, k),
                        NEW out \in Dropped(w, k), NEW new \in BroughtIn(w, k)
                 PROVE  \/ Displaces(Scores(k, round[w])[new], Scores(k, round[w])[out])
                        \/ Scores(k, round[w])[new] * 100
                              = Scores(k, round[w])[out] * (100 + HysteresisMargin)
    BY Zenon
  <2>2. round \in [Writers -> Round] BY <2>0 DEF FocusInv, KeeperShape
  <2>3. Chooses(w, k) BY <2>0, <2>1, <2>2, OnlyChoosingChooses
  <2>4. round'[w].next[k] = Select(k, round[w])
    <3>1. PICK r, S : r = round[w] /\ S = Select(k, r) OBVIOUS
    <3>2. PICK next : next = [r.next EXCEPT ![k] = S] OBVIOUS
    <3>3. PICK n : n = IF k = "task" THEN [r EXCEPT !.pc = "load", !.next = next]
                       ELSE [Idle EXCEPT !.pc = "computed", !.next = next]
      OBVIOUS
    <3>4. round' = [round EXCEPT ![w] = n] BY <2>2, <2>3, <3>1, <3>2, <3>3 DEF Chooses
    <3>5. round'[w] = n BY <2>2, <3>4
    <3>6. r \in Round /\ r.next \in Focus BY <2>2, <3>1 DEF Round
    <3>7. n.next = next BY <3>3, <3>6, IdleIsARound DEF Round
    <3>8. next[k] = S BY <3>2, <3>6 DEF Focus
    <3>9. QED BY <3>1, <3>5, <3>7, <3>8
  <2>5. DOMAIN Scores(k, round[w]) = Candidates(k) BY DEF Scores
  <2>6. /\ out \in (round[w].prev[k] \cap DOMAIN Scores(k, round[w])) \ Select(k, round[w])
        /\ new \in Select(k, round[w]) \ round[w].prev[k]
    BY <2>1, <2>4, <2>5 DEF Dropped, BroughtIn
  <2>7. QED BY <2>0, <2>2, <2>6, SelectHolds
<1>2. QED BY <1>1, FocusInvHolds, PTL DEF FocusSpec, FocusIsSteady
=============================================================================
