-------------------------------- MODULE NetConfig --------------------------------
(***************************************************************************)
(* How the interface is configured: which gateway it gets and what is done *)
(* if that does not answer (net/gateway.rs), which DNS servers (net/dns.rs *)
(* and enforce_forced_dns()), and how a change of the settings reaches it: *)
(* by a signature of the settings last applied (daemon/sig.rs).            *)
(*                                                                         *)
(* All of it goes through the staged changes of uci's "network", which the *)
(* daemon's round shares with a dial that a page has asked for, and a      *)
(* revert or a commit is of all that is staged.  The session is active     *)
(* with an IPv4 address all along; how it becomes so is Link.              *)
(***************************************************************************)
EXTENDS Naturals, Functions

CONSTANTS
  Gateways,   \* gateways the user may set or the modem report
  Near,       \* those in the subnet of the address
  Derived,    \* the subnet's first address, tried when none is reported
  Sessions,   \* sessions, each with an address of its own
  Reported,   \* the gateway the modem reports for each, if any
  Private,    \* those whose address is private
  Modes,      \* what gateway_mode may be
  MaxEvents,  \* bound: what users, scripts and the surroundings do
  MaxFaults   \* bound: commands that fail, and deaths of the daemon

None == "none"

ASSUME ConfigAssumption ==
  /\ MaxEvents \in Nat /\ MaxFaults \in Nat
  /\ Derived \in Near /\ Near \subseteq Gateways /\ {None, "onlink"} \cap Gateways = {}
  /\ None \notin Sessions /\ Private \subseteq Sessions
  /\ Reported \in [Sessions -> Gateways \cup {None}]
  /\ "auto" \in Modes /\ Modes \subseteq {"auto", "static", "off"}

VARIABLES
  settings,  \* gateway_mode, gateway and dns_force in /etc/config/fm350
  session,   \* the session the modem has
  arp,       \* the gateways that answer ARP
  net,       \* what is committed in /etc/config/network
  staged,    \* what is set or deleted there and not committed
  kernel,    \* the address on the interface, the default route, the DNS servers in use
  sig,       \* the settings last applied (/var/run/fm350d.applied_sig)
  app,       \* what the daemon's round, and a dial of a page, are doing
  last,      \* history: how the last application ended ("none": not yet)
  untold,    \* history: DNS servers may be set that netifd has not been told of
  events, faults

vars == <<settings, session, arp, net, staged, kernel, sig, app, last, untold, events, faults>>

Actors == {"watch", "page"}
GatewaysOrNone == Gateways \cup {None}
Settings == [mode : Modes, gw : GatewaysOrNone, force : BOOLEAN]

Nothing == [o \in {} |-> None]
Fresh == [ip |-> None, gw |-> None, host |-> None, onlink |-> "no", mask |-> None, dns |-> None,
          peer |-> "yes", auto |-> "no"]
NoSettings == [mode |-> None, gw |-> None, force |-> FALSE]
AtRest == [pc |-> "idle", cfg |-> NoSettings, ip |-> None, gw |-> None, mask |-> None,
           dns |-> None, alone |-> FALSE, back |-> "idle"]

Init ==
  /\ settings = [mode |-> "auto", gw |-> None, force |-> TRUE]
  /\ session \in Sessions /\ arp = Gateways
  /\ net = Fresh /\ staged = Nothing
  /\ kernel = [ip |-> None, route |-> None, dns |-> None]
  /\ sig = NoSettings
  /\ app = [a \in Actors |-> AtRest]
  /\ last = "none" /\ untold = FALSE /\ events = 0 /\ faults = 0

-----------------------------------------------------------------------------
(* uci and netifd *)

\* What "uci get" answers: staged changes count.
Uci(o) == IF o \in DOMAIN staged THEN staged[o] ELSE net[o]

Over(f, g) == [o \in DOMAIN f \cup DOMAIN g |-> IF o \in DOMAIN f THEN f[o] ELSE g[o]]

Stage(changes) == staged' = Over(changes, staged)
Commit(changes) ==
  /\ net' = [o \in DOMAIN net |-> IF o \in DOMAIN changes THEN changes[o] ELSE Uci(o)]
  /\ staged' = Nothing

\* in_same_subnet()
InSubnet(g, mask) == mask = "net" /\ g \in Near
Reachable(n, g) == InSubnet(g, n.mask) \/ n.host = g

\* The default routes netifd may install for n.
Routes(n) ==
  IF n.ip = None THEN {} ELSE
  {g \in Gateways : n.gw = g /\ Reachable(n, g)} \cup (IF n.onlink = "yes" THEN {"onlink"} ELSE {})

\* ifup of an interface that is configured as n.
AfterIfup(n) ==
  {[ip |-> n.ip, route |-> r, dns |-> n.dns] : r \in IF Routes(n) = {} THEN {None} ELSE Routes(n)}

-----------------------------------------------------------------------------
(* Plans *)

MaskOr(mask) == IF mask = None THEN "net" ELSE mask

\* plan_gateway(); masks the user sets are left out.
Plan(x) ==
  LET candidate == CASE x.cfg.mode = "off" -> None
                     [] x.cfg.mode = "static" -> x.cfg.gw
                     [] OTHER -> IF x.gw # None THEN x.gw
                                 ELSE IF x.ip \in Private THEN Derived ELSE None
  IN [gw |-> candidate, mask |-> IF candidate = None THEN "host" ELSE MaskOr(x.mask)]

\* dns::effective()
EffectiveDns(x) == IF x.cfg.force THEN "forced" ELSE x.dns

-----------------------------------------------------------------------------
(* An application: ensure_iface(), finalize_gateway(), apply_after_dial() *)

Applying(a) == app[a].pc \in {"delete", "stage", "commit", "probe", "onlink", "verify"}
Other(a) == IF a = "watch" THEN "page" ELSE "watch"

Goto(a, pc) == app' = [app EXCEPT ![a].pc = pc]

\* Actor a applies x, and then goes on where x says.
Begins(a, x) ==
  /\ app' = [b \in Actors |->
               IF b = a THEN [x EXCEPT !.pc = "delete", !.alone = ~Applying(Other(a))]
               ELSE [app[b] EXCEPT !.alone = @ /\ ~Applying(b)]]
  /\ last' = IF last = "badly" THEN "badly" ELSE "none"

Ends(a, how) ==
  /\ app' = [app EXCEPT ![a] = IF @.back = "idle" THEN AtRest
                               ELSE [AtRest EXCEPT !.cfg = app[a].cfg, !.pc = app[a].back]]
  /\ last' = IF app[a].alone THEN how ELSE "badly"

Fault == faults < MaxFaults /\ faults' = faults + 1

\* What is deleted, before anything is set.
Deletions(x) ==
  LET plan == Plan(x)
      options == (IF plan.gw = None THEN {"gw", "host"} ELSE {"onlink"})
                   \cup (IF InSubnet(plan.gw, plan.mask) THEN {"host"} ELSE {})
                   \cup (IF EffectiveDns(x) = None THEN {"dns"} ELSE {})
  IN [o \in options |-> IF o = "onlink" THEN "no" ELSE None]

FaultyOptions(x) ==  \* no route to a gateway outside the subnet
  {"ip", "mask", "peer", "auto"}
    \cup (IF Plan(x).gw = None THEN {"onlink"} ELSE {"gw"})
    \cup (IF EffectiveDns(x) = None THEN {} ELSE {"dns"})

\* The options of "network" that x sets.
Options(x) ==
  LET plan == Plan(x) IN
  {"ip", "mask", "peer", "auto"}
    \cup (IF plan.gw = None THEN {"onlink"} ELSE {"gw"})
    \cup (IF plan.gw = None \/ InSubnet(plan.gw, plan.mask) THEN {} ELSE {"host"})
    \cup (IF EffectiveDns(x) = None THEN {} ELSE {"dns"})

Sets(x) ==
  LET plan == Plan(x) IN
  Restrict([ip |-> x.ip, mask |-> plan.mask, gw |-> plan.gw, host |-> plan.gw, onlink |-> "yes",
            dns |-> EffectiveDns(x), peer |-> "yes", auto |-> "yes"], Options(x))

Delete(a) ==
  /\ app[a].pc = "delete"
  /\ Stage(Deletions(app[a]))
  /\ Goto(a, "stage")
  /\ UNCHANGED <<settings, session, arp, net, kernel, sig, last, events, faults, untold>>

\* If anything cannot be set, all that is staged is reverted.
StageSets(a) ==
  /\ app[a].pc = "stage"
  /\ \/ /\ \E changes \in {Sets(app[a])} : Stage(changes)
        /\ Goto(a, "commit")
        /\ UNCHANGED <<last, faults>>
     \/ /\ Fault
        /\ staged' = Nothing
        /\ Ends(a, last)
  /\ UNCHANGED <<settings, session, arp, net, kernel, sig, events, untold>>

\* commit and ifup; the default route is written directly, too, which the
\* kernel refuses for a gateway it cannot reach.  The address may not come.
CommitSets(a) ==
  LET gw == Plan(app[a]).gw IN
  /\ app[a].pc = "commit"
  /\ Commit(Nothing) /\ untold' = FALSE
  /\ \/ /\ \E k \in AfterIfup(net') :
             kernel' = IF gw = None THEN [k EXCEPT !.route = "onlink"]
                       ELSE IF Reachable(net', gw) THEN [k EXCEPT !.route = gw] ELSE k
        /\ Goto(a, IF gw = None THEN "verify" ELSE "probe")
        /\ UNCHANGED <<last, faults>>
     \/ /\ Fault
        /\ kernel' = [ip |-> None, route |-> None, dns |-> net'.dns]
        /\ Ends(a, "badly")
  /\ UNCHANGED <<settings, session, arp, sig, events>>

Onlink == [gw |-> None, host |-> None, mask |-> "host", onlink |-> "yes"]

\* The gateway is written back to the settings if it answers.  If not, the
\* changes to a route without one are staged (the commands of this are one
\* step, and their errors are ignored), and the settings' gateway deleted,
Probe(a) ==
  /\ app[a].pc = "probe"
  /\ LET gw == Plan(app[a]).gw IN
     \/ /\ gw \in arp
        /\ settings' = [settings EXCEPT !.gw = gw]
        /\ Goto(a, "verify")
        /\ UNCHANGED staged
     \/ /\ gw \notin arp
        /\ settings' = [settings EXCEPT !.gw = None]
        /\ Stage(Onlink)
        /\ Goto(a, "onlink")
  /\ UNCHANGED <<session, arp, net, kernel, sig, last, events, faults, untold>>

\* committed, and brought up.
FallBack(a) ==
  /\ app[a].pc = "onlink"
  /\ Commit(Nothing) /\ untold' = FALSE
  /\ \E k \in AfterIfup(net') : kernel' = [k EXCEPT !.route = "onlink"]
  /\ Goto(a, "verify")
  /\ UNCHANGED <<settings, session, arp, sig, last, events, faults>>

\* dns_matches(), mark_applied()
FaultyDnsMatches(x) ==  \* an error, too, after the gateway did not answer
  net.gw = Plan(x).gw /\ (x.dns = None \/ (Uci("dns") = EffectiveDns(x) /\ Uci("peer") = "yes"))

DnsMatches(x) == x.dns = None \/ (Uci("dns") = EffectiveDns(x) /\ Uci("peer") = "yes")

FaultyVerify(a) ==  \* signs the settings as they are now
  /\ app[a].pc = "verify"
  /\ Ends(a, IF DnsMatches(app[a]) THEN "well" ELSE "badly")
  /\ sig' = IF DnsMatches(app[a]) THEN settings ELSE sig
  /\ UNCHANGED <<settings, session, arp, net, staged, kernel, events, faults, untold>>

Verify(a) ==
  /\ app[a].pc = "verify"
  /\ Ends(a, IF DnsMatches(app[a]) THEN "well" ELSE "badly")
  /\ sig' = IF DnsMatches(app[a]) THEN app[a].cfg ELSE sig
  /\ UNCHANGED <<settings, session, arp, net, staged, kernel, events, faults, untold>>

Apply(a) == Delete(a) \/ StageSets(a) \/ CommitSets(a) \/ Probe(a) \/ FallBack(a) \/ Verify(a)

\* What a dial hands over: the gateway and the DNS servers of the session.
Dialled(cfg, back) ==
  [pc |-> "idle", cfg |-> cfg, ip |-> session, gw |-> Reported[session], mask |-> None,
   dns |-> "modem", alone |-> FALSE, back |-> back]

-----------------------------------------------------------------------------
(* The daemon's round *)

Watch(pc) == app["watch"].pc = pc

Round ==
  /\ Watch("idle")
  /\ app' = [app EXCEPT !["watch"] = [AtRest EXCEPT !.cfg = settings, !.pc = "dial"]]
  /\ UNCHANGED <<settings, session, arp, net, staged, kernel, sig, last, events, faults, untold>>

\* on_active_v4(): an address that is missing is applied.
DialTick ==
  /\ Watch("dial")
  /\ IF kernel.ip = session THEN Goto("watch", "auto") /\ UNCHANGED last
     ELSE Begins("watch", Dialled(app["watch"].cfg, "auto"))
  /\ UNCHANGED <<settings, session, arp, net, staged, kernel, sig, events, faults, untold>>

NoSection == Uci("ip") = None

EnsureAutostart ==
  /\ Watch("auto")
  /\ IF Uci("auto") = "yes" \/ NoSection THEN UNCHANGED <<net, staged>>
     ELSE Commit([auto |-> "yes"])
  /\ Goto("watch", "dns")
  /\ UNCHANGED <<settings, session, arp, kernel, sig, last, events, faults, untold>>

\* enforce_forced_dns(): drift is what "uci get" says; staging it in two
\* commands, of which one may fail.
EnforceForcedDns ==
  /\ Watch("dns")
  /\ IF NoSection \/ ~app["watch"].cfg.force \/ (Uci("dns") = "forced" /\ Uci("peer") = "yes")
     THEN Goto("watch", "sig") /\ UNCHANGED <<staged, untold, faults>>
     ELSE \/ /\ Stage([dns |-> "forced", peer |-> "yes"])
             /\ Goto("watch", "dnsCommit")
             /\ UNCHANGED <<untold, faults>>
          \/ /\ Fault
             /\ untold' = TRUE
             /\ staged' = staged \/ Stage([dns |-> "forced"])
             /\ Goto("watch", "sig")
  /\ UNCHANGED <<settings, session, arp, net, kernel, sig, last, events>>

FaultyDnsCommit ==  \* netifd is not told
  /\ Watch("dnsCommit")
  /\ Commit(Nothing)
  /\ Goto("watch", "sig")
  /\ UNCHANGED <<settings, session, arp, kernel, sig, last, events, faults, untold>>

DnsCommit ==
  /\ Watch("dnsCommit")
  /\ Commit(Nothing) /\ untold' = FALSE
  /\ kernel' \in AfterIfup(net')
  /\ Goto("watch", "sig")
  /\ UNCHANGED <<settings, session, arp, sig, last, events, faults>>

\* reapply_on_change(): what uci has stands in for what the modem reported.
Recorded(cfg) ==
  [pc |-> "idle", cfg |-> cfg, ip |-> kernel.ip, gw |-> Uci("gw"), mask |-> Uci("mask"),
   dns |-> Uci("dns"), alone |-> FALSE, back |-> "guard"]

ReapplyOnChange ==
  /\ Watch("sig")
  /\ LET cfg == app["watch"].cfg IN
     \/ /\ sig \in {NoSettings, cfg} \/ kernel.ip = None
        /\ sig' = IF sig = NoSettings THEN cfg ELSE sig
        /\ Goto("watch", "guard")
        /\ UNCHANGED last
     \/ /\ sig \notin {NoSettings, cfg} /\ kernel.ip # None
        /\ Begins("watch", Recorded(cfg))
        /\ UNCHANGED sig
  /\ UNCHANGED <<settings, session, arp, net, staged, kernel, events, faults, untold>>

RouteGuard ==
  /\ Watch("guard")
  /\ kernel' = IF kernel.ip = None \/ kernel.route # None THEN kernel
               ELSE IF Uci("gw") = None THEN [kernel EXCEPT !.route = "onlink"]
               ELSE IF Reachable(net, Uci("gw")) THEN [kernel EXCEPT !.route = Uci("gw")]
               ELSE kernel
  /\ app' = [app EXCEPT !["watch"] = AtRest]
  /\ UNCHANGED <<settings, session, arp, net, staged, sig, last, events, faults, untold>>

\* A page dials, with the settings it finds.
PageDials ==
  /\ app["page"].pc = "idle"
  /\ events < MaxEvents /\ events' = events + 1
  /\ Begins("page", Dialled(settings, "idle"))
  /\ UNCHANGED <<settings, session, arp, net, staged, kernel, sig, faults, untold>>

-----------------------------------------------------------------------------
(* Users, scripts and the surroundings *)

Event ==
  /\ events < MaxEvents /\ events' = events + 1
  /\ UNCHANGED <<sig, app, last, faults>>

\* The page has a field for the gateway in static mode only, and removes it
\* in the others.
ChangeSettings ==
  /\ Event
  /\ \E s \in Settings :
       /\ s # settings /\ (s.mode = "static" <=> s.gw # None)
       /\ settings' = s
  /\ UNCHANGED <<session, arp, net, staged, kernel, untold>>

\* A script writes other DNS servers, or turns autostart off, and runs ifup.
HandEdit ==
  /\ Event
  /\ \E changes \in {[dns |-> "other", peer |-> "no"], [auto |-> "no"]} :
       Commit(changes)
  /\ kernel' \in AfterIfup(net') /\ untold' = FALSE
  /\ UNCHANGED <<settings, session, arp>>

ArpChanges ==
  /\ Event
  /\ arp' = Gateways \ arp
  /\ UNCHANGED <<settings, session, net, staged, kernel, untold>>

\* A new session: the address on the interface is not its address.
NewSession ==
  /\ Event
  /\ session' \in Sessions \ {session}
  /\ UNCHANGED <<settings, arp, net, staged, kernel, untold>>

LoseRoute ==
  /\ Event
  /\ kernel' = [kernel EXCEPT !.route = None]
  /\ UNCHANGED <<settings, session, arp, net, staged, untold>>

\* The daemon dies and is started again: what is staged, or signed, stays.
Restart ==
  /\ Fault
  /\ app' = [a \in Actors |-> AtRest]
  /\ last' = IF \E a \in Actors : Applying(a) THEN "badly" ELSE last
  /\ untold' = (untold \/ staged # Nothing)
  /\ UNCHANGED <<settings, session, arp, net, staged, kernel, sig, events>>

WatchStep ==
  \/ Round \/ DialTick \/ EnsureAutostart \/ EnforceForcedDns \/ DnsCommit
  \/ ReapplyOnChange \/ RouteGuard \/ Apply("watch")

Next ==
  \/ WatchStep
  \/ PageDials \/ Apply("page")
  \/ ChangeSettings \/ HandEdit \/ ArpChanges \/ NewSession \/ LoseRoute
  \/ Restart

Spec == Init /\ [][Next]_vars

\* The round goes on for ever; the thread of a request runs.
Fairness == WF_vars(WatchStep) /\ WF_vars(Apply("page"))

FairSpec == Spec /\ Fairness

-----------------------------------------------------------------------------
(* Properties *)

Addresses == Sessions \cup {None}
Servers == {None, "forced", "modem", "other"}
Masks == {None, "net", "host"}
YesNo == {"yes", "no"}

Networks ==
  [ip : Addresses, gw : GatewaysOrNone, host : GatewaysOrNone, onlink : YesNo, mask : Masks,
   dns : Servers, peer : YesNo, auto : YesNo]

Kernels == [ip : Addresses, route : GatewaysOrNone \cup {"onlink"}, dns : Servers]

Applications ==
  [pc : {"idle", "dial", "auto", "dns", "dnsCommit", "sig", "guard",
         "delete", "stage", "commit", "probe", "onlink", "verify"},
   cfg : Settings \cup {NoSettings}, ip : Addresses, gw : GatewaysOrNone, mask : Masks,
   dns : Servers, alone : BOOLEAN, back : {"idle", "auto", "guard"}]

\* Shape of the state.
TypeOK ==
  /\ settings \in Settings /\ session \in Sessions /\ arp \subseteq Gateways
  /\ net \in Networks
  /\ DOMAIN staged \subseteq DOMAIN net /\ [o \in DOMAIN net |-> Uci(o)] \in Networks
  /\ kernel \in Kernels
  /\ sig \in Settings \cup {NoSettings}
  /\ app \in [Actors -> Applications]
  /\ last \in {"none", "well", "badly"} /\ untold \in BOOLEAN
  /\ events \in 0..MaxEvents /\ faults \in 0..MaxFaults

Whole(n) ==
  IF n.gw = None THEN n.onlink = "yes" /\ n.host = None
  ELSE n.onlink = "no" /\ Reachable(n, n.gw)

\* What an application that ended well, with no other one in between, leaves
\* behind can carry packets, whatever it found: a gateway the kernel can
\* reach, or a route without one, and never both (iface.rs:394-430,
\* gateway.rs:307-340).
AppliedIsWhole == last = "well" => Whole(net)

\* The interface is not brought down and up for ever: what an application
\* writes back to the settings does not keep the next round from finding its
\* signature (sig.rs:18-22, gateway.rs:296-301).
Settles == <>[](~Applying("watch"))

Follows ==
  /\ kernel.ip = session
  /\ settings.mode = "off" => net.gw = None
  /\ settings.mode = "static" => net.gw \in {settings.gw, None}
  /\ kernel.route = IF net.gw = None THEN "onlink" ELSE net.gw

\* A change of the gateway's settings reaches the interface and the kernel,
\* and a lost route comes back, unless the last application failed once it
\* had committed, ran into another or was cut off (sig.rs:5-14, heal.rs:50-82).
SettingsTakeEffect == []<>(last = "badly" \/ Follows)

\* Forced DNS servers come back whoever has replaced them, unless the daemon
\* has failed in the middle of putting them back: then "uci get" says they
\* are there and it does not go on (iface.rs:478-487).
ForcedDnsReturns == []<>(~settings.force \/ kernel.dns = "forced" \/ untold)
=============================================================================
