------------------------ MODULE MCRequestDispatcher ------------------------
(* RequestDispatcher on a small instance; the constants are in the .cfg. *)
EXTENDS RequestDispatcher
=============================================================================
