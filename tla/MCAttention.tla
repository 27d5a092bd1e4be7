----------------------------- MODULE MCAttention -----------------------------
(* Attention, for two tasks and a load and a focus of one.                 *)
EXTENDS Attention

MCDues == {NoDue, 2}

(* A weight halves each day.                                               *)
MCFade == [d \in 0 .. Horizon |-> 2^d]

(* The bounds of the run: while nobody asks for the focus, three days and  *)
(* an old relation beside a new one; with a focus, two days and one.       *)
Related == {p \in Pairs : strength[p] > 0}
FocusApart ==
    \/ held = Nothing /\ round = [w \in Writers |-> Idle]
    \/ now < Horizon /\ Cardinality(Related) < MaxRelations
=============================================================================
