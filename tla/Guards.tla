-------------------------------- MODULE Guards --------------------------------
(***************************************************************************)
(* DataGuard and NetGuard (daemon/guard.rs): the second blocking part of   *)
(* the daemon's round.  DataGuard looks at the counters of the data        *)
(* interface and repairs what is on this side of the modem, NetGuard pings *)
(* beyond it.  Both act at most once in a cooldown, harder each time.      *)
(***************************************************************************)
EXTENDS DialWatch

CONSTANTS
  DataGuardOn,    \* data_guard
  NetGuardOn,     \* net_guard
  DataRounds,     \* data_guard_rounds
  UnboundRounds,  \* DOWNLINK_UNBOUND_ROUNDS
  Policy,         \* unbound_policy
  Fallback,       \* unbound_fallback_secs, in ticks
  Cooldown        \* RECOVER_COOLDOWN and NET_GUARD_COOLDOWN, in ticks

ASSUME GuardAssumption ==
  /\ DataGuardOn \in BOOLEAN /\ NetGuardOn \in BOOLEAN
  /\ DataRounds \in Nat \ {0} /\ UnboundRounds \in Nat \ {0}
  /\ Policy \in {"auto", "assisted", "legacy"}
  /\ Fallback \in Nat /\ Cooldown \in Nat \ {0}

VARIABLES
  data,  \* DataGuard: a baseline was taken; stall_rounds, recover_level (4: 4 and
         \* above), unbound_rounds, unbound and for how long; cool: what is left
  net,   \* NetGuard, by stack: fail_rounds, recover_level, redial_failures, cool
  did    \* history: what the guards did in their last step

guardVars == <<data, net, did>>

Healthy == [fail |-> 0, level |-> 0, redials |-> 0]
Stack(s, cool) == [fail |-> s.fail, level |-> s.level, redials |-> s.redials, cool |-> cool]
Rested == Stack(Healthy, 0)

GuardInit ==
  /\ data = [base |-> FALSE, stall |-> 0, level |-> 0, cool |-> 0,
             unbRounds |-> 0, unbound |-> FALSE, unbFor |-> 0]
  /\ net = [v4 |-> Rested, v6 |-> Rested]
  /\ did = {}

Capped(n, cap) == IF n > cap THEN cap ELSE n

-----------------------------------------------------------------------------
(* DataGuard *)

\* data_health() and data_plane_stalled(): whether a frame left since the last
\* sample.  The probe is an IPv4 ping, so it leaves for certain only if there
\* is an IPv4 address; NetGuard's own probes of IPv6 count as well.
Sends(w) ==
  IF "halted" \in w.ill \/ ~w.main THEN {FALSE}
  ELSE IF Kernel4(w) # NoAddr \/ (NetGuardOn /\ ~data.unbound /\ w.k6 # NoAddr) THEN {TRUE}
  ELSE BOOLEAN

\* What came back: the modem answers ARP for an active context.
Answered(w, sends) == [w EXCEPT !.rx = @ \/ (sends /\ w.active /\ "unbound" \notin w.ill)]

\* A frame that leaves ends the stall, but not the escalation.
FaultyObserved(d, sends, rx) ==
  IF ~d.base THEN [d EXCEPT !.base = TRUE]
  ELSE [d EXCEPT !.stall = IF sends THEN 0 ELSE Capped(@ + 1, DataRounds)]

\* observe(): stall_rounds, recover_level and the downlink_unbound() rounds.
Observed(d, sends, rx) ==
  LET rounds  == IF sends /\ ~rx THEN Capped(d.unbRounds + 1, UnboundRounds) ELSE 0
      unbound == rounds >= UnboundRounds
  IN  IF ~d.base THEN [d EXCEPT !.base = TRUE]
      ELSE [d EXCEPT !.unbRounds = rounds, !.unbound = unbound,
                     !.unbFor = IF unbound THEN @ ELSE 0,
                     !.stall = IF sends THEN 0 ELSE Capped(@ + 1, DataRounds),
                     !.level = IF sends THEN 0 ELSE @]

\* suppression_active(): leave an unbound modem to its own firmware.
Suppressed(d) ==
  d.unbound /\ (Policy = "assisted" \/ (Policy = "auto" /\ d.unbFor < Fallback))

\* escalate(), first half: the steps in the order of their number, the last one
\* for ever after.  Binding the driver anew may fail, which changes nothing.
Repairs(w, level) ==
  CASE level = 1 -> {ResetUsb(w), w}
    [] level = 2 -> {BounceDataDev(w)}
    [] level = 3 -> {Redial(w).w}
    [] level = 4 -> {Reboot(w)}

Steps == <<"reset", "bounce", "redial", "reboot">>

DataTick ==
  \E sends \in Sends(link) :
    LET w     == Answered(link, sends)
        d     == Observed(data, sends, w.rx)
        level == Capped(d.level + 1, 4)
    IN  IF \/ ~data.base \/ sends \/ Suppressed(d)
           \/ ~DataGuardOn \/ d.stall < DataRounds \/ d.cool > 0
        THEN link' = w /\ data' = d /\ did' = {} /\ UNCHANGED net
        ELSE /\ link' \in Repairs(w, level)
             /\ data' = [d EXCEPT !.level = level, !.cool = Cooldown, !.stall = 0]
             /\ did' = {Steps[level]}
             /\ UNCHANGED net

-----------------------------------------------------------------------------
(* NetGuard: each part gives the link, the stacks, what it did and whether   *)
(* the round is over (GuardAction)                                          *)

Went(w, n, what, over) == [w |-> w, n |-> n, did |-> what, over |-> over]

RedialOf == [v4 |-> "redial4", v6 |-> "redial6"]

\* note_redial_result() and purify_after_failed_redials(), after a redial that
\* left r: at the threshold nothing of the session is left, and both stacks
\* start afresh.
Redialled(r, n, stack) ==
  LET redials == IF r.ok THEN 0 ELSE n[stack].redials + 1
  IN  IF redials < NetRounds
      THEN Went(r.w, [n EXCEPT ![stack].redials = redials], {RedialOf[stack]}, TRUE)
      ELSE Went(ClearSessionAddresses(r.w),
                [v4 |-> Stack(Healthy, n.v4.cool), v6 |-> Stack(Healthy, n.v6.cool)],
                {RedialOf[stack], "purify"}, TRUE)

\* A stack that acts: its rounds start again and it is left alone for a while.
Acting(n, stack, level) ==
  [n EXCEPT ![stack] = [@ EXCEPT !.fail = 0, !.level = level, !.cool = Cooldown]]

Failing(n, stack) == [n EXCEPT ![stack].fail = Capped(@ + 1, NetRounds)]
Due(n, stack) == n[stack].fail + 1 >= NetRounds /\ n[stack].cool = 0
Calm(n, stack) == [n EXCEPT ![stack] = Stack(Healthy, @.cool)]

\* tick_v4(): the interface first, then the modem.
TickV4(w, n) ==
  IF Kernel4(w) = NoAddr \/ Reachable4(w) THEN Went(w, Calm(n, "v4"), {}, FALSE)
  ELSE IF ~Due(n, "v4") THEN Went(w, Failing(n, "v4"), {}, FALSE)
  ELSE IF n.v4.level = 0 THEN Went(BounceV4(w), Acting(n, "v4", 1), {"bounce4"}, FALSE)
  ELSE Redialled(Redial(w), Acting(n, "v4", 2), "v4")

\* The IPv4 half is not looked at before the modem is redialled.
FaultyV4Works(w) == FALSE

\* !v4_down_too
V4Works(w) == Kernel4(w) # NoAddr /\ Reachable4(w)

\* IPv4 keeps its rounds and may redial at once.
FaultyForBoth(n) == Acting(n, "v6", 1)

\* A redial on behalf of both: IPv4 starts afresh, after a cooldown.
ForBoth(n) == [Acting(n, "v6", 1) EXCEPT !.v4 = Stack(Healthy, Cooldown)]

\* tick_v6(): never the modem as long as IPv4 works.
TickV6(w, n) ==
  IF w.k6 = NoAddr \/ Reachable6(w) THEN Went(w, Calm(n, "v6"), {}, TRUE)
  ELSE IF ~Due(n, "v6") THEN Went(w, Failing(n, "v6"), {}, TRUE)
  ELSE IF n.v6.level = 0 THEN Went(BounceV6(w), Acting(n, "v6", 1), {"bounce6"}, TRUE)
  ELSE IF V4Works(w)
  THEN Went(BounceV6(w), [Acting(n, "v6", 1) EXCEPT !.v6.redials = 0], {"bounce6"}, TRUE)
  ELSE Redialled(Redial(w), ForBoth(n), "v6")

\* After a redial for IPv4 the round is over, else IPv6 is looked at.
ThenV6(first) ==
  IF first.over THEN first
  ELSE LET last == TickV6(first.w, first.n) IN [last EXCEPT !.did = @ \cup first.did]

\* What the daemon does with the answer of tick().
NetEnds(r) ==
  /\ link' = r.w
  /\ net' = r.n
  /\ did' = r.did
  /\ dial' = IF "purify" \in r.did
             THEN [dial EXCEPT !.noAddr = 0, !.fail = 0, !.retry = RetryAfter]
             ELSE dial

NetTick ==
  IF ~NetGuardOn \/ Suppressed(data)
  THEN did' = {} /\ UNCHANGED <<link, net, dial>>
  ELSE NetEnds(ThenV6(TickV4(link, net)))

\* t ticks go by.
GuardTime(t) ==
  /\ data' = [data EXCEPT !.cool = Less(@, t),
                          !.unbFor = IF data.unbound THEN Capped(@ + t, Fallback) ELSE @]
  /\ net' = [k \in {"v4", "v6"} |-> [net[k] EXCEPT !.cool = Less(@, t)]]
  /\ did' = {}
=============================================================================
