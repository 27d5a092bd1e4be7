------------------------------ MODULE MCChat ------------------------------
(* The chat, its channel and the timers, for TLC. *)
EXTENDS Chat
===========================================================================
