--------------------------- MODULE MCMuninAttach ---------------------------
(***************************************************************************)
(* MuninAttach on a small instance: worker w1 attaches, any other worker   *)
(* makes the short calls.  The other constants are in the .cfg.            *)
(***************************************************************************)
EXTENDS MuninAttach

CONSTANT w1

MCAsks == [c \in Clients |-> IF c = w1 THEN {"attach"} ELSE {"unknown", "healthz"}]
=============================================================================
