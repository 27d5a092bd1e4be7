-------------------------- MODULE MCReminderCases --------------------------
(* ReminderCases at the code's own hours: a tick is an hour.               *)
EXTENDS ReminderCases

MCTimedLeads == << 24, 2 >>
MCTolds == {24 + h : h \in {0, 3, 6, 7, 9, 12, 20, 22, 23}}
MCEvents == 24 .. 96
============================================================================
