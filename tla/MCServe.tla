------------------------------ MODULE MCServe ------------------------------
(* Serve on a day of one tick, the boot delay, the check interval and the  *)
(* age at which a pass is stale one tick each, for TLC.                    *)
EXTENDS Serve
============================================================================
