-------------------------- MODULE MCConsumerBridge --------------------------
(* Small instances of ConsumerBridge for TLC. *)
EXTENDS ConsumerBridge, TLC

CONSTANTS m1, m2, r1, r2

OneMessage  == {m1}
TwoMessages == {m1, m2}
OneReader   == {r1}
TwoReaders  == {r1, r2}

MessageSymmetry == Permutations({m1, m2})
=============================================================================
