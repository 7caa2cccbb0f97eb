---------------------------- MODULE MCConfigStore ----------------------------
(* Small instances of ConfigStore for TLC. *)
EXTENDS ConfigStore, TLC

CONSTANTS dial, cli

\* A dial saves apn and pdp_type, fm350d set one option.
MCPatched == [s \in Savers |-> IF s = dial THEN Keys ELSE {1}]

Symmetry == Permutations(Values)
=============================================================================
