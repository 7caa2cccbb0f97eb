------------------------------- MODULE MCModemOps -------------------------------
(* Small instances of ModemOps for TLC. *)
EXTENDS ModemOps

\* The pairs of preferred technologies of rat 20 that are not combinations, and
\* one that is; of others, one the modem takes, one it refuses for its second
\* technology, one that is not accepted for its first, and a rat there is not.
MCArgs ==
  {[rat |-> 20, p1 |-> a, p2 |-> b] : <<a, b>> \in
     {<<0, 2>>, <<0, 3>>, <<0, 6>>, <<2, 2>>, <<3, 3>>, <<6, 6>>, <<6, 3>>}}
  \cup {[rat |-> 14, p1 |-> 6, p2 |-> 0], [rat |-> 17, p1 |-> 6, p2 |-> 2],
        [rat |-> 16, p1 |-> 3, p2 |-> 0], [rat |-> 3, p1 |-> 0, p2 |-> 0]}
=============================================================================
