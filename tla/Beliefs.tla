-------------------------------- MODULE Beliefs --------------------------------
(***************************************************************************)
(* What Nooma believes about its user: the nightly pass's derive phase, and *)
(* the page where the user edits, claims and retires beliefs meanwhile.     *)
(* The pass reads the active beliefs, then the retired ones, asks a model   *)
(* for proposals, compares them, and writes; the page reads, records and    *)
(* writes.  Only the conditions of the single writes are between them.      *)
(*                                                                         *)
(* A belief is kept by its topic key.  A text is a point on a line: two     *)
(* are alike when they are near, and most alike when they are one.          *)
(***************************************************************************)
EXTENDS Integers, FiniteSets

CONSTANTS Keys,      \* the topic keys a model may derive
          Texts,     \* what a belief may say
          Near,      \* how far apart two texts are still one belief
          MaxConf,   \* the confidence no reinforcement raises
          Tabs,      \* the pages open on the beliefs
          MaxPasses, \* passes that read the beliefs
          MaxActs,   \* edits, claims and retirements
          MaxMishaps \* calls that fail

ASSUME BeliefsAssumption ==
    /\ Texts \subseteq Nat /\ {Near, MaxConf, MaxPasses, MaxActs, MaxMishaps} \subseteq Nat

VARIABLES belief,   \* self_beliefs, by topic key
          night,    \* the derive phase under way
          page,     \* [Tabs -> what each is doing]
          journal,  \* decision_log: the pre-images of edits
          unheard,  \* decision_log: retired beliefs the pass could not compare
          taught,   \* learning_signals about beliefs
          passes, acts, mishaps,
          made,     \* ghost: what the pass created, and what it had read as retired
          replaced  \* ghost: the values edits replaced

rows == <<journal, unheard, taught>>
counts == <<passes, acts, mishaps>>
vars == <<belief, night, page, rows, counts, made, replaced>>

Apart(a, b) == IF a >= b THEN a - b ELSE b - a
Alike(a, b) == Apart(a, b) <= Near
NoBelief == [status |-> "none", user |-> FALSE, text |-> 0, conf |-> 0]
Read(status) == {[key |-> k, row |-> belief[k]] : k \in {j \in Keys : belief[j].status = status}}

NightIdle == [pc |-> "idle", active |-> {}, retired |-> {}, todo |-> {}, blind |-> {},
              missed |-> {}, unsaid |-> {}]
TabIdle == [pc |-> "idle", key |-> "none", text |-> 0, to |-> 0]

Init ==
    /\ \E held \in [Keys -> {"none", "active", "retired"}], says \in [Keys -> Texts] :
          belief = [k \in Keys |-> IF held[k] = "none" THEN NoBelief
                                  ELSE [NoBelief EXCEPT !.status = held[k], !.text = says[k]]]
    /\ night = NightIdle /\ page = [t \in Tabs |-> TabIdle]
    /\ journal = {} /\ unheard = {} /\ taught = {} /\ passes = 0 /\ acts = 0 /\ mishaps = 0
    /\ made = {} /\ replaced = {}

-----------------------------------------------------------------------------
NightStep(rec) == night' = rec /\ UNCHANGED <<page, journal, taught, acts, replaced>>

DeriveReads ==
    /\ night.pc = "idle" /\ passes < MaxPasses /\ passes' = passes + 1
    /\ NightStep([NightIdle EXCEPT !.pc = "retired", !.active = Read("active")])
    /\ UNCHANGED <<belief, unheard, mishaps, made>>

RetiredRead ==
    /\ night.pc = "retired"
    /\ NightStep([night EXCEPT !.pc = "judge", !.retired = Read("retired")])
    /\ UNCHANGED <<belief, unheard, passes, mishaps, made>>

(* What a model proposes: each key once, whatever it repeats or garbles.    *)
Proposals == {ps \in SUBSET [key : Keys, text : Texts] : \A p, q \in ps : p.key = q.key => p = q}
RetiredKeyHits(p) == \E r \in night.retired : r.key = p.key

(* A vector nothing can be compared with leaves a proposal blind, a retired *)
(* belief missed, and that is recorded; an active one's ends the phase.     *)
(* Nothing is embedded when every proposal is decided by its key.           *)
Judged ==
    /\ night.pc = "judge"
    /\ \E ps \in Proposals :
          LET pending == {p \in ps : ~RetiredKeyHits(p)}
          IN  \E blind \in SUBSET pending, missed \in SUBSET night.retired :
                 /\ pending = {} => missed = {}
                 /\ NightStep([night EXCEPT !.pc = "persist", !.todo = ps, !.blind = blind,
                                            !.missed = missed, !.unsaid = missed])
    /\ UNCHANGED <<belief, unheard, passes, mishaps, made>>

MissedIsLogged ==
    /\ night.pc = "persist"
    /\ \E r \in night.unsaid : /\ unheard' = unheard \cup {r.key}
                               /\ NightStep([night EXCEPT !.unsaid = @ \ {r}])
    /\ UNCHANGED <<belief, passes, mishaps, made>>

(* Where a proposal goes.  A retired belief's key, or a retired belief at   *)
(* least as near as any active one, drops it; so does a vector nothing      *)
(* could be compared with, while anything is retired.                       *)
RetiredWins(p) ==
    \E r \in night.retired \ night.missed :
        /\ p \notin night.blind /\ Alike(r.row.text, p.text)
        /\ \A a \in night.active : Alike(a.row.text, p.text) => Apart(r.row.text, p.text) <= Apart(a.row.text, p.text)
(* Mutant: a blind proposal goes on as if nothing were retired. *)
BugShielded(p) == RetiredKeyHits(p) \/ RetiredWins(p)
Shielded(p) == RetiredKeyHits(p) \/ RetiredWins(p) \/ (p \in night.blind /\ night.retired # {})

(* Else what the user said under that key is reinforced, or the nearest     *)
(* active belief; with neither, the belief is new.                          *)
Own(p) == {a \in night.active : a.key = p.key /\ a.row.user}
Resembling(p) == IF p \in night.blind THEN {} ELSE {a \in night.active : Alike(a.row.text, p.text)}
Nearest(p, a) == \A o \in Resembling(p) : Apart(a.row.text, p.text) <= Apart(o.row.text, p.text)
Into(p) == IF Own(p) # {} THEN Own(p) ELSE {a \in Resembling(p) : Nearest(p, a)}

Persisting(p) == night.pc = "persist" /\ night.unsaid = {} /\ p \in night.todo
Done(p) == NightStep([night EXCEPT !.todo = @ \ {p}]) /\ UNCHANGED <<unheard, passes, mishaps>>

Skips(p) == Persisting(p) /\ Shielded(p) /\ Done(p) /\ UNCHANGED <<belief, made>>

(* The confidence written is the one read, raised; a belief no longer       *)
(* active is left, and the proposal dropped.                                *)
Reinforces(p) ==
    /\ Persisting(p) /\ ~Shielded(p) /\ Done(p) /\ UNCHANGED made
    /\ \E a \in Into(p) :
          belief' = IF a.row.conf < MaxConf /\ belief[a.key].status = "active"
                    THEN [belief EXCEPT ![a.key].conf = a.row.conf + 1] ELSE belief

(* The store takes a new belief where its key is free, or held by an active *)
(* belief the user never touched; else the proposal is dropped.             *)
(* Mutant: the upsert asks nothing of the row it replaces. *)
BugUpsertable(k) == TRUE
Upsertable(k) == belief[k].status = "none" \/ (belief[k].status = "active" /\ ~belief[k].user)
Creates(p) ==
    /\ Persisting(p) /\ ~Shielded(p) /\ Own(p) = {} /\ Resembling(p) = {} /\ Done(p)
    /\ IF Upsertable(p.key)
       THEN /\ belief' = [belief EXCEPT ![p.key] = [status |-> "active", user |-> FALSE,
                                                    text |-> p.text, conf |-> 0]]
            /\ made' = made \cup {[key |-> p.key, text |-> p.text, retired |-> night.retired]}
       ELSE UNCHANGED <<belief, made>>

DeriveEnds ==
    /\ night.pc = "persist" /\ night.unsaid = {} /\ night.todo = {} /\ NightStep(NightIdle)
    /\ UNCHANGED <<belief, unheard, passes, mishaps, made>>

(* A call that fails ends the phase; what it wrote stands.                  *)
DeriveFails ==
    /\ night.pc # "idle" /\ mishaps < MaxMishaps /\ mishaps' = mishaps + 1 /\ NightStep(NightIdle)
    /\ UNCHANGED <<belief, unheard, passes, made>>

-----------------------------------------------------------------------------
(* The page.  An edit to the text there is a claim of it; claiming what is  *)
(* the user's already does nothing.                                         *)
Tab(t, rec) == page' = [page EXCEPT ![t] = rec]
TabOnly == UNCHANGED <<night, unheard, passes, made>>

EditReads(t, k, to) ==
    /\ page[t].pc = "idle" /\ acts < MaxActs /\ acts' = acts + 1
    /\ belief[k].status = "active" /\ ~(belief[k].user /\ belief[k].text = to)
    /\ Tab(t, [pc |-> "journal", key |-> k, text |-> belief[k].text, to |-> to])
    /\ TabOnly /\ UNCHANGED <<belief, journal, taught, mishaps, replaced>>

NotesPreImage(t) ==
    /\ page[t].pc = "journal" /\ Tab(t, [page[t] EXCEPT !.pc = "edit"])
    /\ journal' = journal \cup {<<page[t].key, page[t].text>>}
    /\ TabOnly /\ UNCHANGED <<belief, taught, acts, mishaps, replaced>>

(* Mutant: the write does not ask for the text that was read. *)
BugEditLands(t) == belief[page[t].key].status = "active"
EditLands(t) == belief[page[t].key].status = "active" /\ belief[page[t].key].text = page[t].text
Edits(t) ==
    /\ page[t].pc = "edit"
    /\ IF EditLands(t)
       THEN /\ belief' = [belief EXCEPT ![page[t].key].text = page[t].to, ![page[t].key].user = TRUE]
            /\ replaced' = replaced \cup {<<page[t].key, belief[page[t].key].text>>}
            /\ Tab(t, [page[t] EXCEPT !.pc = "signal"])
       ELSE Tab(t, TabIdle) /\ UNCHANGED <<belief, replaced>>
    /\ TabOnly /\ UNCHANGED <<journal, taught, acts, mishaps>>

RetireReads(t, k) ==
    /\ page[t].pc = "idle" /\ acts < MaxActs /\ acts' = acts + 1 /\ belief[k].status = "active"
    /\ Tab(t, [pc |-> "retire", key |-> k, text |-> belief[k].text, to |-> 0])
    /\ TabOnly /\ UNCHANGED <<belief, journal, taught, mishaps, replaced>>

(* The row about a retirement, and its signal, come after and may fail      *)
(* each on its own.                                                         *)
Retires(t) ==
    /\ page[t].pc = "retire"
    /\ IF belief[page[t].key].status = "active"
       THEN /\ belief' = [belief EXCEPT ![page[t].key].status = "retired"]
            /\ Tab(t, [page[t] EXCEPT !.pc = "retired"])
       ELSE Tab(t, TabIdle) /\ UNCHANGED belief
    /\ TabOnly /\ UNCHANGED <<journal, taught, acts, mishaps, replaced>>

RetirementIsLogged(t) ==
    /\ page[t].pc = "retired" /\ Tab(t, [page[t] EXCEPT !.pc = "signal"])
    /\ \/ journal' = journal \cup {<<page[t].key, page[t].text>>} /\ UNCHANGED mishaps
       \/ mishaps < MaxMishaps /\ mishaps' = mishaps + 1 /\ UNCHANGED journal
    /\ TabOnly /\ UNCHANGED <<belief, taught, acts, replaced>>

Teaches(t) ==
    /\ page[t].pc = "signal" /\ Tab(t, TabIdle) /\ taught' = taught \cup {page[t].key}
    /\ TabOnly /\ UNCHANGED <<belief, journal, acts, mishaps, replaced>>

PageFails(t) ==
    /\ page[t].pc # "idle" /\ mishaps < MaxMishaps /\ mishaps' = mishaps + 1 /\ Tab(t, TabIdle)
    /\ TabOnly /\ UNCHANGED <<belief, journal, taught, acts, replaced>>

Derives ==
    \/ DeriveReads \/ RetiredRead \/ Judged \/ MissedIsLogged \/ DeriveEnds \/ DeriveFails
    \/ \E p \in night.todo : Skips(p) \/ Reinforces(p) \/ Creates(p)
Curates(t) ==
    \/ \E k \in Keys : RetireReads(t, k) \/ \E to \in Texts : EditReads(t, k, to)
    \/ NotesPreImage(t) \/ Edits(t) \/ Retires(t) \/ RetirementIsLogged(t) \/ Teaches(t) \/ PageFails(t)
Next == Derives \/ \E t \in Tabs : Curates(t)
Spec == Init /\ [][Next]_vars

-----------------------------------------------------------------------------
(* What the user wrote or claimed, and what the user retired, only the page *)
(* changes, whenever the pass read it (selfmodelrepo.go: the conditions of  *)
(* its writes).  A pass may raise the confidence of an active one.          *)
Word(k) == [belief[k] EXCEPT !.conf = 0]
UserWordStands ==
    [][\A k \in Keys : (belief[k].user \/ belief[k].status = "retired") /\ Word(k)' # Word(k)
                       => night' = night]_vars

(* A belief the pass creates is not one the user had retired when it read:  *)
(* neither by its key nor by what it says, unless the retired one could not *)
(* be compared, and that was recorded (consolidate.go: derive, shield.go).  *)
ShieldHolds ==
    \A m \in made : \A r \in m.retired :
        r.key # m.key /\ (Alike(r.row.text, m.text) => r.key \in unheard)

(* Whatever an edit replaces is in the log as it was, though the pass may   *)
(* have rewritten the belief since the page read it (belief_edit.go).       *)
EditsKeepThePreImage == replaced \subseteq journal
=============================================================================
