------------------------------ MODULE Attention ------------------------------
(***************************************************************************)
(* What the user is shown first, and what fades (core/weight, core/focus,  *)
(* brain/focuskeeper.go and the archive and reweight phases of the nightly *)
(* pass). A unit's weight is stored at its last touch and decays as it is  *)
(* read; the pass archives what has sunk and lifts what a new relation     *)
(* reaches; the focus of each kind is computed at every reading from the   *)
(* weights, the dates and the relations, held against the focus shown      *)
(* last. That incumbent lives in one process's memory and has two writers  *)
(* with no lock between: the Today page and the morning digest.            *)
(*                                                                         *)
(* An instant is a day; a weight and a strength are in hundredths, and     *)
(* every unit has one decay rate.  Only relations above their type's bar   *)
(* are here, and no number is corrupt: Relations has the bars, and the     *)
(* refusals of NaN are left out.  Its names are its own, so that one       *)
(* module of proofs may speak of it and of Beliefs.                        *)
(***************************************************************************)
EXTENDS Integers, FiniteSets

CONSTANTS
    Units,              \* unit ids
    Loads,              \* those of type mental_load; the others are tasks
    Early,              \* those captured on day 0
    Weights, Dues,      \* what a capture may give: a weight, and days until it is due
    Strengths,          \* what the judge may answer of two units
    Fade,               \* by how much a weight is divided after so many days
    WeightCeiling, ReviveGain, WeightThreshold,
    UrgencyLeadDays, AgeHorizonDays,
    HysteresisMargin,   \* in hundredths of the incumbent's score
    FocusSize,
    MaxRelations,       \* relations the pass ever stores
    Horizon,            \* the last day
    MaxTurns            \* closings, new dates, failures and crashes

NoDue == -1

ASSUME AttentionAssumption ==
    /\ Units \subseteq Nat /\ IsFiniteSet(Units)
    /\ Loads \subseteq Units /\ Early \subseteq Units
    /\ Weights \subseteq Nat /\ Dues \subseteq Nat \cup {NoDue} /\ Strengths \subseteq 1 .. 100
    /\ {WeightCeiling, WeightThreshold, HysteresisMargin, FocusSize} \subseteq Nat
    /\ Fade \in [0 .. Horizon -> Nat \ {0}]
    /\ ReviveGain \in 0 .. 100
    /\ UrgencyLeadDays \in Nat \ {0} /\ AgeHorizonDays \in Nat \ {0}
    /\ {MaxRelations, Horizon, MaxTurns} \subseteq Nat

VARIABLES
    unit,       \* [Units -> [st, weight, touched, created, due]]
    strength,   \* [Pairs -> 0 .. 100], the relation between two units, 0 for none
    held,       \* FocusKeeper.held
    round,      \* each writer's computation: when it began, the focus it loaded,
                \* whose relations it has yet to read, those it has, and what it
                \* will publish
    pass,       \* the pass under way
    now, turns

units == << unit, strength >>
focusVars == << units, held, round, pass, now, turns >>

Pairs == {p \in SUBSET Units : Cardinality(p) = 2}
Kinds == {"task", "load"}
Writers == {"page", "digest"}
Nothing == [k \in Kinds |-> {}]     \* a fresh process holds no incumbent
Idle == [pc |-> "idle", at |-> 0, prev |-> Nothing, todo |-> {}, edges |-> {}, next |-> Nothing]
Asleep == [pc |-> "idle", at |-> 0, todo |-> {}, new |-> {}, boosts |-> << >>]

OfKind(k) == IF k = "load" THEN Loads ELSE Units \ Loads
Pool == {u \in Units : unit[u].st = "pool"}
Least(a, b) == IF a <= b THEN a ELSE b
Greatest(S) == CHOOSE x \in S : \A y \in S : y <= x
Clamp(x, hi) == IF x < 0 THEN 0 ELSE Least(x, hi)

----------------------------------------------------------------------------
(* Weights.                                                                *)

(* weight.Effective.                                                       *)
Effective(u, at) ==
    LET days == Clamp(at - u.touched, Horizon) IN u.weight \div Fade[days]

(***************************************************************************)
(* The gain that reaches v from origin over the edges of E: the strongest  *)
(* walk of at most ResurfaceMaxHops (2), halved by each hop.               *)
(***************************************************************************)
StrengthIn(E, a, b) == IF {a, b} \in E THEN strength[{a, b}] ELSE 0
SpreadGain(E, origin, v) ==
    Greatest({StrengthIn(E, origin, v) \div 2}
             \cup {(StrengthIn(E, origin, a) * StrengthIn(E, a, v)) \div 400 : a \in Units})

(***************************************************************************)
(* consolidation.Reweight: each end of a new edge resurfaces what its      *)
(* gains reach, towards its own share of the ceiling; the highest wins.    *)
(***************************************************************************)
Ends(E) == UNION E
Target(E, v) ==
    (Greatest({0} \cup {SpreadGain(E, o, v) : o \in Ends(E) \ {v}}) * WeightCeiling) \div 100
Lifts(E, at) == {v \in Pool : Effective(unit[v], at) < Target(E, v)}

(* Mutant: a lift spreads along every relation, old ones included.         *)
BugReweight(E, at) ==
    LET all == {p \in Pairs : strength[p] > 0 /\ E # {}}
    IN  [v \in Lifts(all, at) |->
            LET e == Effective(unit[v], at) IN e + (ReviveGain * (Target(all, v) - e)) \div 100]

Reweight(E, at) ==
    [v \in Lifts(E, at) |->
        LET e == Effective(unit[v], at) IN e + (ReviveGain * (Target(E, v) - e)) \div 100]

----------------------------------------------------------------------------
(* The focus.                                                              *)

UrgencyRamp(u, at) ==
    IF u.due = NoDue THEN 0 ELSE Clamp(UrgencyLeadDays - (u.due - at), UrgencyLeadDays)
AgeRamp(u, at) == Clamp(at - u.created, AgeHorizonDays)

(* AdjacencyStrengths: the strongest relation to a member, of those read.  *)
Adjacency(E, previous, v) ==
    Greatest({0} \cup {StrengthIn(E, v, m) : m \in previous \ {v}})

(* focus.Priority, times what makes it whole: UrgencyMax is 3, AgeWeight   *)
(* 20 and AdjacencyWeight 25 hundredths.                                   *)
Priority(v, adjacency, at) ==
    Effective(unit[v], at)
        * (UrgencyLeadDays + 2 * UrgencyRamp(unit[v], at))
        * (AgeHorizonDays * (400 + adjacency) + 80 * AgeRamp(unit[v], at))

(* focus.Rank: by score, a date before none, the earlier date, the id.     *)
RankedBefore(score, a, b) ==
    \/ score[a] > score[b]
    \/ /\ score[a] = score[b]
       /\ \/ unit[a].due # NoDue /\ unit[b].due = NoDue
          \/ unit[a].due # NoDue /\ unit[a].due < unit[b].due
          \/ unit[a].due = unit[b].due /\ a < b

Candidates(k) == Pool \cap OfKind(k)
Scores(k, r) == [v \in Candidates(k) |-> Priority(v, Adjacency(r.edges, r.prev[k], v), r.at)]

(* focus.Displaces.                                                        *)
Displaces(challenger, incumbent) ==
    challenger * 100 > incumbent * (100 + HysteresisMargin)

(* Mutant: the best of the ranking, whoever was there.                     *)
BugSelect(k, r) ==
    LET score == Scores(k, r)
    IN  {v \in DOMAIN score :
            Cardinality({w \in DOMAIN score : RankedBefore(score, w, v)}) < FocusSize}

(***************************************************************************)
(* focus.Select: the top FocusSize of a stable sort of the ranking, an     *)
(* incumbent's score raised by the margin.                                 *)
(***************************************************************************)
Select(k, r) ==
    LET score == Scores(k, r)
        key == [v \in DOMAIN score |->
                   score[v] * (IF v \in r.prev[k] THEN 100 + HysteresisMargin ELSE 100)]
        Ahead(a, b) == key[a] > key[b] \/ (key[a] = key[b] /\ RankedBefore(score, a, b))
    IN  {v \in DOMAIN score : Cardinality({w \in DOMAIN score : Ahead(w, v)}) < FocusSize}

----------------------------------------------------------------------------
FocusInit ==
    /\ \E w \in [Early -> Weights] :
          unit = [u \in Units |->
                    IF u \in Early
                    THEN [st |-> "pool", weight |-> w[u], touched |-> 0, created |-> 0, due |-> NoDue]
                    ELSE [st |-> "none", weight |-> 0, touched |-> 0, created |-> 0, due |-> NoDue]]
    /\ strength = [p \in Pairs |-> 0]
    /\ held = Nothing /\ round = [w \in Writers |-> Idle]
    /\ pass = Asleep
    /\ now = 0 /\ turns = 0

Turn == turns < MaxTurns /\ turns' = turns + 1

Tick ==
    /\ now < Horizon /\ now' = now + 1
    /\ UNCHANGED << units, held, round, pass, turns >>

----------------------------------------------------------------------------
(* The user: UnitRepo.Create, UpdateDates and SetStatus.                   *)

Capture(u) ==
    /\ unit[u].st = "none"
    /\ \E w \in Weights, d \in Dues :
          unit' = [unit EXCEPT ![u] = [st |-> "pool", weight |-> w, touched |-> now, created |-> now,
                                       due |-> IF d = NoDue THEN NoDue ELSE now + d]]
    /\ UNCHANGED << strength, held, round, pass, now, turns >>

Redate(u) ==
    /\ Turn /\ u \in Pool
    /\ \E d \in Dues : unit' = [unit EXCEPT ![u].due = IF d = NoDue THEN NoDue ELSE now + d]
    /\ UNCHANGED << strength, held, round, pass, now >>

Close(u) ==
    /\ Turn /\ u \in Pool
    /\ unit' = [unit EXCEPT ![u].st = "archived"]
    /\ UNCHANGED << strength, held, round, pass, now >>

----------------------------------------------------------------------------
(* The keeper's two writers.  Each computes, call by call, from the        *)
(* incumbent it loaded and the instant it began at, and publishes only     *)
(* what it has shown: the page at the end of its request, the digest once  *)
(* the message is sent.                                                    *)

Begin(w) ==
    /\ round[w].pc = "idle"
    /\ round' = [round EXCEPT ![w] = [Idle EXCEPT !.pc = "task", !.at = now, !.prev = held,
                                                 !.todo = held["task"] \cup held["load"]]]
    /\ UNCHANGED << units, held, pass, now, turns >>

(* edgeCache.edges: one read a member, the tasks' first.                   *)
ReadsRelations(w) ==
    /\ \E m \in round[w].todo :
          /\ m \in Loads => round[w].todo \subseteq Loads
          /\ round' = [round EXCEPT ![w].todo = @ \ {m},
                                    ![w].edges = @ \cup {p \in Pairs : m \in p /\ strength[p] > 0}]
    /\ UNCHANGED << units, held, pass, now, turns >>

(* The candidates of a kind are read and ranked, the tasks first; what the *)
(* round was computed from is let go at its end.                           *)
Chooses(w, k) ==
    /\ round[w].pc = k /\ round[w].todo = {}
    /\ LET next == [round[w].next EXCEPT ![k] = Select(k, round[w])]
       IN  round' = [round EXCEPT ![w] =
                        IF k = "task" THEN [@ EXCEPT !.pc = "load", !.next = next]
                        ELSE [Idle EXCEPT !.pc = "computed", !.next = next]]
    /\ UNCHANGED << units, held, pass, now, turns >>

(* Today answers: the user sees the focus, and it is the incumbent.        *)
Show ==
    /\ round["page"].pc = "computed"
    /\ held' = round["page"].next
    /\ round' = [round EXCEPT !["page"] = Idle]
    /\ UNCHANGED << units, pass, now, turns >>

(* A read of the request fails, one of the keeper's or a later one.        *)
ShowFails ==
    /\ round["page"].pc # "idle" /\ Turn
    /\ round' = [round EXCEPT !["page"] = Idle]
    /\ UNCHANGED << units, held, pass, now >>

Send ==
    /\ round["digest"].pc = "computed"
    /\ round' = [round EXCEPT !["digest"].pc = "sent"]
    /\ UNCHANGED << units, held, pass, now, turns >>

(* A read of the focus fails and the digest goes out without one, or its   *)
(* message fails: either way nothing is published.                         *)
SendFails ==
    /\ round["digest"].pc \notin {"idle", "sent"} /\ Turn
    /\ round' = [round EXCEPT !["digest"] = Idle]
    /\ UNCHANGED << units, held, pass, now >>

Publish ==
    /\ round["digest"].pc = "sent"
    /\ held' = round["digest"].next
    /\ round' = [round EXCEPT !["digest"] = Idle]
    /\ UNCHANGED << units, pass, now, turns >>

----------------------------------------------------------------------------
(* The pass, which keeps the instant it began at.                          *)

(* consolidation.Archive, over every live unit's decay.                    *)
Sunk(at) == {u \in Pool : Effective(unit[u], at) < WeightThreshold}

NightBegins ==
    /\ pass.pc = "idle"
    /\ pass' = [Asleep EXCEPT !.pc = "archive", !.at = now,
                               !.todo = Sunk(now)]
    /\ UNCHANGED << units, held, round, now, turns >>

(* A unit that left the pool meanwhile is skipped.                         *)
Archives ==
    /\ pass.pc = "archive" /\ pass.todo # {}
    /\ \E u \in pass.todo :
          /\ \A v \in pass.todo : u <= v
          /\ unit' = IF u \in Pool THEN [unit EXCEPT ![u].st = "archived"] ELSE unit
          /\ pass' = [pass EXCEPT !.todo = @ \ {u}]
    /\ UNCHANGED << strength, held, round, now, turns >>

(* connect stores what the judge answers of two live units, and keeps it   *)
(* for reweight.                                                           *)
Connects ==
    /\ pass.pc = "archive" /\ pass.todo = {}
    /\ Cardinality({p \in Pairs : strength[p] > 0}) < MaxRelations
    /\ \E p \in Pairs, s \in Strengths :
          /\ p \subseteq Pool /\ strength[p] = 0
          /\ strength' = [strength EXCEPT ![p] = s]
          /\ pass' = [pass EXCEPT !.new = @ \cup {p}]
    /\ UNCHANGED << unit, held, round, now, turns >>

ReadsWeights ==
    /\ pass.pc = "archive" /\ pass.todo = {}
    /\ pass' = [pass EXCEPT !.pc = "reweight", !.boosts = Reweight(pass.new, pass.at)]
    /\ UNCHANGED << units, held, round, now, turns >>

(* UnitRepo.ApplyBoosts: one transaction, by id, whatever the status.      *)
Boosted(boosts, at) ==
    [u \in Units |-> IF u \in DOMAIN boosts
                     THEN [unit[u] EXCEPT !.weight = boosts[u], !.touched = at] ELSE unit[u]]
Boosts ==
    /\ pass.pc = "reweight"
    /\ unit' = Boosted(pass.boosts, pass.at)
    /\ pass' = Asleep
    /\ UNCHANGED << strength, held, round, now, turns >>

(* A call of the pass fails, and the pass ends there.                      *)
NightFails ==
    /\ pass.pc # "idle" /\ Turn
    /\ pass' = Asleep
    /\ UNCHANGED << units, held, round, now >>

Restart ==
    /\ Turn
    /\ held' = Nothing /\ round' = [w \in Writers |-> Idle] /\ pass' = Asleep
    /\ UNCHANGED << units, now >>

----------------------------------------------------------------------------
FocusNext ==
    \/ Tick \/ Restart
    \/ \E u \in Units : Capture(u) \/ Redate(u) \/ Close(u)
    \/ \E w \in Writers : Begin(w) \/ ReadsRelations(w) \/ \E k \in Kinds : Chooses(w, k)
    \/ Show \/ ShowFails \/ Send \/ SendFails \/ Publish
    \/ NightBegins \/ Archives \/ Connects \/ ReadsWeights \/ Boosts \/ NightFails

FocusSpec == FocusInit /\ [][FocusNext]_focusVars

----------------------------------------------------------------------------
(* Properties.                                                             *)

(***************************************************************************)
(* A computation drops an incumbent only for newcomers that beat it by the *)
(* margin: of either kind, whoever it drops of the focus it loaded and     *)
(* whoever it brings in compare as Displaces has it, but at equality,      *)
(* where Select's sort leaves the newcomer ahead, although Displaces says  *)
(* it is not (hysteresis.go:100).  It is said of each computation and the  *)
(* focus that one loaded, and of no publication: what is published may     *)
(* replace a focus published since.                                        *)
(***************************************************************************)
Chose(w, k) == round[w].pc = k /\ round'[w].pc \notin {k, "idle"}
Dropped(w, k) == (round[w].prev[k] \cap Candidates(k)) \ round'[w].next[k]
BroughtIn(w, k) == round'[w].next[k] \ round[w].prev[k]
FocusIsSteady ==
    [][\A w \in Writers, k \in Kinds :
        Chose(w, k) =>
            LET score == Scores(k, round[w])
            IN  \A out \in Dropped(w, k), new \in BroughtIn(w, k) :
                    \/ Displaces(score[new], score[out])
                    \/ score[new] * 100 = score[out] * (100 + HysteresisMargin)]_focusVars

(***************************************************************************)
(* A unit rises only by a pass that related it, or a unit related in that  *)
(* pass to one that it related to it, and never above what a relation is   *)
(* worth: an old relation lifts nothing, however strong (reweight.go).     *)
(***************************************************************************)
RisesAreEarned ==
    [][\A u \in Units :
        (unit[u].st # "none" /\ Effective(unit'[u], now) > Effective(unit[u], now)) =>
            /\ u \in Ends(pass.new)
            /\ 2 * unit'[u].weight <= WeightCeiling]_focusVars

=============================================================================
