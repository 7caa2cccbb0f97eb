------------------------------ MODULE LinkRound ------------------------------
(***************************************************************************)
(* The daemon's round (daemon/mod.rs): DialWatch and V6Watch, then         *)
(* DataGuard and NetGuard, then sleep, over and over, while the network    *)
(* and the router around it do what they like.  The watches keep their     *)
(* counters from round to round and lose them when the daemon dies.        *)
(***************************************************************************)
EXTENDS Guards

CONSTANTS Lengths  \* how long a round may take, sleep included, in ticks

ASSUME LengthAssumption == Lengths \subseteq Nat \ {0}

VARIABLES
  pc,      \* the part of the round that comes next
  history  \* ticks since NetGuard redialled, and since DataGuard saw progress

vars == <<linkVars, dialVars, guardVars, pc, history>>

Longest == 3 * Cooldown

\* The round goes from part to part.
After == [read |-> "drive", drive |-> "data", data |-> "net", net |-> "sleep", sleep |-> "read"]
Turn == pc' = After[pc]

Init ==
  /\ LinkInit /\ DialInit /\ GuardInit
  /\ pc = "read"
  /\ history = [redial |-> Cooldown, progress |-> 0]

-----------------------------------------------------------------------------

Read ==
  /\ pc = "read" /\ Turn
  /\ ReadBearer
  /\ UNCHANGED <<linkVars, dial, v6, guardVars, history>>

DialStep ==
  /\ pc = "drive" /\ Turn
  /\ Drive(data.unbound)
  /\ UNCHANGED <<offer, faults, guardVars, history>>

DataStep ==
  /\ pc = "data" /\ Turn
  /\ DataTick
  /\ history' = [history EXCEPT !.progress = IF data'.stall = 0 /\ did' = {} THEN 0 ELSE @]
  /\ UNCHANGED <<offer, faults, dialVars>>

NetStep ==
  /\ pc = "net" /\ Turn
  /\ NetTick
  /\ history' = [history EXCEPT !.redial = IF did' \cap {"redial4", "redial6"} # {} THEN 0 ELSE @]
  /\ UNCHANGED <<offer, faults, v6, reading, data>>

Sleep(t) ==
  /\ pc = "sleep" /\ Turn
  /\ DialTime(t) /\ GuardTime(t)
  /\ history' = [redial |-> Capped(history.redial + t, Cooldown),
                 progress |-> Capped(history.progress + t, Longest)]
  /\ UNCHANGED <<linkVars, reading>>

\* procd starts the daemon again: only the link is as it was.
Restart ==
  /\ Worse
  /\ pc' = "read"
  /\ dial' = [noAddr |-> 0, fail |-> 0, retry |-> 0, ims |-> 0, lastV6 |-> NoAddr]
  /\ v6' = [poll |-> 0, sched |-> 0, modem |-> NoAddr]
  /\ reading' = Unread
  /\ data' = [base |-> FALSE, stall |-> 0, level |-> 0, cool |-> 0,
              unbRounds |-> 0, unbound |-> FALSE, unbFor |-> 0]
  /\ net' = [v4 |-> Rested, v6 |-> Rested]
  /\ did' = {}
  /\ history' = [redial |-> Cooldown, progress |-> 0]
  /\ UNCHANGED <<link, offer>>

Around ==
  /\ Surroundings
  /\ UNCHANGED <<dialVars, guardVars, pc, history>>

Round == Read \/ DialStep \/ DataStep \/ NetStep \/ \E t \in Lengths : Sleep(t)

Next == Round \/ Restart \/ Around

Spec == Init /\ [][Next]_vars

\* The round never blocks for good (every command has its timeout), and odhcp6c
\* asks every few seconds, many times a round, until it is answered.
Fairness == WF_pc(Turn) /\ SF_linkVars(LeaseGranted) /\ WF_linkVars(LeaseExpires)

FairSpec == Spec /\ Fairness

-----------------------------------------------------------------------------
(* What the daemon promises *)

LinkStates ==
  [active : BOOLEAN, ims : BOOLEAN, v4 : Addrs, v6 : Addrs \cup {ImsAddr},
   uci4 : Addrs, uci6 : Addrs \cup {ImsAddr}, main : BOOLEAN, sub : BOOLEAN,
   k6 : Addrs \cup {ImsAddr}, rx : BOOLEAN, ill : SUBSET Ailments]

DialStates == [noAddr : 0..(NoAddrRounds - 1), fail : 0..(NetRounds - 1),
               retry : 0..RetryAfter, ims : 0..ImsBackoff, lastV6 : Addrs \cup {ImsAddr}]
V6States == [poll : 0..PollEvery, sched : 0..RefreshEvery, modem : Addrs \cup {ImsAddr}]
DataStates == [base : BOOLEAN, stall : 0..DataRounds, level : 0..4, cool : 0..Cooldown,
               unbRounds : 0..UnboundRounds, unbound : BOOLEAN, unbFor : 0..Fallback]
StackStates == [fail : 0..NetRounds, level : 0..2, redials : 0..(NetRounds - 1), cool : 0..Cooldown]

\* The watches stay within their thresholds, whatever happens around them.
TypeOK ==
  /\ link \in LinkStates /\ offer \in Offers /\ faults \in 0..MaxFaults
  /\ dial \in DialStates /\ v6 \in V6States
  /\ reading \in [active : BOOLEAN, ims : BOOLEAN]
  /\ data \in DataStates
  /\ net \in [{"v4", "v6"} -> StackStates]
  /\ did \subseteq {"reset", "bounce", "redial", "reboot", "bounce4", "bounce6",
                    "redial4", "redial6", "purify"}
  /\ pc \in {"read", "drive", "data", "net", "sleep"}
  /\ history \in [redial : 0..Cooldown, progress : 0..Longest]

\* Whatever is wrong elsewhere, no part of the round leaves a session that works
\* without its IPv4: not the repair of IPv6 (guard.rs:545-546), not a dial on the
\* strength of an outdated reading, not a purge.
WorkingV4IsSpared ==
  [][ Round /\ Reachable4(link) /\ Reports(link) =>
        /\ did' \subseteq {"bounce6"}
        /\ link'.active /\ Kernel4(link') = Kernel4(link) /\ link'.v4 = link.v4 ]_vars

\* The modem is only rebooted after three gentler steps, a cooldown apart, with
\* no frame sent all that time (guard.rs:13-21).
RebootIsLastResort ==
  [][ DataStep /\ "reboot" \in did' => history.progress >= Longest ]_vars

\* NetGuard never redials for IPv4 within the cooldown of a redial, for
\* whichever stack that was (guard.rs:576-578).
NoRedialOnRedial ==
  [][ NetStep /\ "redial4" \in did' => history.redial >= Cooldown ]_vars

\* Once there is no data session any more, the router does not keep the last
\* one's address (iface.rs:99-103): purged by whichever watch notices.
DeadSessionLeavesNoAddress ==
  (<>[]~(link.active /\ ~link.ims)) => <>[](Kernel4(link) = NoAddr)

DataOffered == offer.kind = "data" /\ link.ill = {}

\* Once the network offers a session with IPv4 and nothing is wrong, the session
\* is established and the router has both its addresses, for good.
Reconnects ==
  (<>[](DataOffered /\ offer.v4 # NoAddr)) =>
     <>[](link.active /\ ~link.ims /\ Kernel4(link) = link.v4 /\ link.k6 = link.v6)

-----------------------------------------------------------------------------
(* What the comments say and the code does not do *)

\* heal.rs:313-314: a lease that is missing is seen to by the watches.
V6OnlyRecovers ==
  (<>[](DataOffered /\ offer.v4 = NoAddr)) => <>[](link.active /\ link.k6 = link.v6)
=============================================================================
