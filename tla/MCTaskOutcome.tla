---------------------------- MODULE MCTaskOutcome ----------------------------
(* Small instances of TaskOutcome for TLC. *)
EXTENDS TaskOutcome

Frozen  == [frozen |-> TRUE, reply_to |-> TRUE, chord |-> TRUE]
Thawed  == [frozen |-> FALSE, reply_to |-> TRUE, chord |-> FALSE]

\* Everything reported; results ignored and the next link refused.
Task(ignores, unsupported) ==
    [ignores |-> ignores, reply_to |-> TRUE, no_reply |-> FALSE, chord |-> TRUE, linked |-> TRUE,
     errors |-> TRUE, unsupported |-> unsupported, chain |-> <<Frozen, Thawed>>]
ManyTasks == {Task(FALSE, {}), Task(TRUE, {"next"})}

SomeFates ==
    {[settles |-> s, ends |-> e] : s \in {"none", "requeued"}, e \in {"return", "error"}}
        \cup {[settles |-> "acked", ends |-> "error"], Unmatched}
        \cup {[settles |-> "none", ends |-> e] : e \in {"nack", "skip"}}
=============================================================================
