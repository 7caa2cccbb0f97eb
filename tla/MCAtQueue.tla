------------------------------- MODULE MCAtQueue -------------------------------
(* Small instances of AtQueue for TLC. *)
EXTENDS AtQueue, TLC

MCCaps == [p \in Prios |-> IF p = Critical THEN 1 ELSE 2]
MCQueueWait == [p \in Prios |-> IF p <= 1 THEN 2 ELSE 3]

Symmetry == Permutations(Callers)
=============================================================================
