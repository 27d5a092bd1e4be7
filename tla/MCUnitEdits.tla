---------------------------- MODULE MCUnitEdits ----------------------------
(* Two correctors that do the same: they are interchangeable.               *)
EXTENDS UnitEdits, TLC

CONSTANTS chat, page
Interchangeable == Permutations({chat, page})
=============================================================================
