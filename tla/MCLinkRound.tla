----------------------------- MODULE MCLinkRound -----------------------------
(* Small instances of LinkRound for TLC. *)
EXTENDS LinkRound

CONSTANTS a4, b4, a6

Dual(v4) == [v4 |-> v4, v6 |-> a6]
V6Only == [v4 |-> NoAddr, v6 |-> a6]

AllSessions == {Dual(a4), Dual(b4), V6Only}
V6Sessions == {V6Only}
=============================================================================
