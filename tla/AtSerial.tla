------------------------------- MODULE AtSerial -------------------------------
(***************************************************************************)
(* What the AT scheduler promises, with the queue discipline, the clocks   *)
(* and the counters left out: requests for a half-duplex serial port are   *)
(* numbered as they are accepted and served one at a time, each at most    *)
(* once and to its end; a request that is still waiting may be dropped,    *)
(* one that has started may not.  If the daemon dies every request is      *)
(* forgotten.  AtQueue.tla implements it.                                  *)
(***************************************************************************)
EXTENDS Naturals

VARIABLES
  last,        \* the number of the latest request
  waiting,     \* requests accepted and not yet started
  serving      \* the request that has the port, or Free

vars == <<last, waiting, serving>>

Free == 0

Init ==
  /\ last = 0
  /\ waiting = {}
  /\ serving = Free

Submit ==
  /\ last' = last + 1
  /\ waiting' = waiting \cup {last + 1}
  /\ UNCHANGED serving

\* Requests whose callers gave up leave together, when the queue is swept.
Withdraw ==
  /\ waiting' \subseteq waiting
  /\ UNCHANGED <<last, serving>>

Serve ==
  /\ serving = Free
  /\ serving' \in waiting
  /\ waiting' = waiting \ {serving'}
  /\ UNCHANGED last

Complete ==
  /\ serving' = Free
  /\ UNCHANGED <<last, waiting>>

Crash ==
  /\ last' = 0
  /\ waiting' = {}
  /\ serving' = Free

Next == Submit \/ Withdraw \/ Serve \/ Complete \/ Crash

Spec == Init /\ [][Next]_vars
=============================================================================
