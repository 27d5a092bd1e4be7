-------------------------- MODULE MCMorningDigest --------------------------
(* MorningDigest on a day of two ticks: the night, and the morning, when   *)
(* the digest is due.                                                      *)
EXTENDS MorningDigest

(* The bounds of the run: in one life either the item is pushed or the     *)
(* goal is armed, and one call fails or the process stops once.            *)
OneCheckIn == \A c, d \in CheckIns : c = d \/ checkin[c].st = "none" \/ checkin[d].st = "none"
OneFailure == Failures <= 1

(* And either a check-in and a question meet, or, with nothing failing,    *)
(* three questions do, which are more than may be open at once.            *)
QuestionsApart ==
    \/ \A q \in Questions \ {1} : question[q].st = "none"
    \/ Failures = 0 /\ \A c \in CheckIns : checkin[c].st = "none"
============================================================================
