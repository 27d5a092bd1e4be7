------------------------------ MODULE MCBeliefs ------------------------------
(* Beliefs with a few keys and texts, for TLC. *)
EXTENDS Beliefs, TLC
CONSTANTS k1, k2, t1, t2
TwoKeys == {k1, k2}
TwoTabs == {t1, t2}
Symmetric == Permutations(TwoKeys) \cup Permutations(TwoTabs)
=============================================================================
