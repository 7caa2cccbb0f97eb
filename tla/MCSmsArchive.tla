----------------------------- MODULE MCSmsArchive -----------------------------
(* A small instance of SmsArchive for TLC. *)
EXTENDS SmsArchive, TLC

Symmetry == Permutations(Texts) \cup Permutations(Requests)
=============================================================================
