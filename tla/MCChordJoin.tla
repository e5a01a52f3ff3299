----------------------------- MODULE MCChordJoin -----------------------------
(* Small instances of ChordJoin for TLC. *)
EXTENDS ChordJoin

CONSTANTS e1, e2
=============================================================================
