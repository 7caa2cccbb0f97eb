------------------------------ MODULE MCNetConfig ------------------------------
(* A small instance of NetConfig for TLC. *)
EXTENDS NetConfig

\* A private address with nothing reported, and a public one.
Gateway == [s \in Sessions |-> IF s = "private" THEN None ELSE "far"]
=============================================================================
