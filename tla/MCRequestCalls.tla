--------------------------- MODULE MCRequestCalls ---------------------------
(* Small instances of RequestCalls for TLC. *)
EXTENDS RequestCalls

CONSTANTS p1, p2
=============================================================================
