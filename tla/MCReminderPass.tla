-------------------------- MODULE MCReminderPass --------------------------
(* ReminderPass on a day of nine ticks: night 0-1, digest and day-only     *)
(* ring at 2, evening 8.  The event is told on the evening of day 0, for   *)
(* the evening of day 1 (tick 17); its leads ring at 11 and 12, so both    *)
(* may be due in one pass, and are overdue at 14: a catch-up, and a second *)
(* one at 16, still come before it.  A series rings at hour 3.             *)
EXTENDS ReminderPass

CONSTANTS u1, u2

MCTimedLeads == << 6, 5 >>
MCOneLead == << 5 >>
MCIds == 1 .. 8
MCFewIds == 1 .. 6
MCFirstAt == [k \in Kinds |-> IF k = "series" THEN 12 ELSE 17]
MCEarlyAt == [k \in Kinds |-> 21]
============================================================================
