----------------------------- MODULE MCRelations -----------------------------
(* Relations over a few units, for TLC. *)
EXTENDS Relations
CONSTANTS u1, u2
AllUnits == {u1, u2}
StoredEarly == {u1}
===============================================================================
