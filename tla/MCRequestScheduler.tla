------------------------- MODULE MCRequestScheduler -------------------------
(* Instances of RequestScheduler for TLC. *)
EXTENDS RequestScheduler
=============================================================================
