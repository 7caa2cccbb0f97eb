---------------------------- MODULE NetConfigProofs ----------------------------
(***************************************************************************)
(* NetConfig for any gateways and sessions, any number of events and       *)
(* faults: an application that no other one ran into leaves a network      *)
(* behind that can carry packets.                                          *)
(***************************************************************************)
EXTENDS NetConfig, TLAPS

\* The options that a plan of the gateway is about.
Key == {"gw", "host", "onlink", "mask"}

View == [o \in DOMAIN net |-> Uci(o)]

\* A whole network is committed, and nothing staged would change that.
Settled == Whole(net) /\ \A o \in Key : o \notin DOMAIN staged

\* What Delete leaves for StageSets: none of the options of the other kind of plan.
Cleared(plan) ==
  IF plan.gw = None THEN Uci("gw") = None /\ Uci("host") = None
  ELSE Uci("onlink") = "no"

\* How far an application has come that no other one has run into.
Lone(a) ==
  app[a].alone /\ Applying(a) =>
    /\ ~Applying(Other(a))
    /\ app[a].pc = "stage" => Cleared(Plan(app[a]))
    /\ app[a].pc \in {"commit", "onlink"} => Whole(View)
    /\ app[a].pc \in {"probe", "verify"} => Settled

EndedWell == last = "well" => Settled /\ \A a \in Actors : ~Applying(a)

IInv == TypeOK /\ (\A a \in Actors : Lone(a)) /\ EndedWell

-----------------------------------------------------------------------------
StoreType == net \in Networks /\ DOMAIN staged \subseteq DOMAIN net /\ View \in Networks

\* A committed change leaves a network with those options.
LEMMA CommitType ==
  ASSUME TypeOK, NEW c, \A n \in Networks : Over(c, n) \in Networks, Commit(c)
  PROVE  StoreType'
<1> DEFINE M == [o \in DOMAIN net |-> IF o \in DOMAIN c THEN c[o] ELSE Uci(o)]
<1>1. net' = M /\ staged' = Nothing
  BY DEF Commit
<1>2. View \in Networks /\ DOMAIN View = DOMAIN net
  BY DEF TypeOK, View
<1>3. Over(c, View) \in Networks
  BY <1>2
<1>4. DOMAIN Over(c, View) = DOMAIN net
  BY <1>2, <1>3, SMT DEF TypeOK, Networks
<1>5. Over(c, View) = M
  BY <1>2, <1>4 DEF Over, View
<1>6. net' \in Networks
  BY <1>1, <1>3, <1>5
<1>7. View' = net'
  BY <1>1, <1>6, SMT DEF View, Uci, Nothing, Networks
<1> QED
  BY <1>1, <1>6, <1>7 DEF Nothing, StoreType

\* A staged change is of options a network has.
LEMMA StageType ==
  ASSUME TypeOK, NEW c, \A n \in Networks : Over(c, n) \in Networks, Stage(c), net' = net
  PROVE  StoreType'
<1>1. View \in Networks /\ DOMAIN View = DOMAIN net
  BY DEF TypeOK, View
<1>2. Over(c, View) \in Networks
  BY <1>1
<1>3. DOMAIN Over(c, View) = DOMAIN net
  BY <1>1, <1>2, SMT DEF TypeOK, Networks
<1>4. DOMAIN c \subseteq DOMAIN net
  BY <1>3 DEF Over
<1>5. DOMAIN staged' \subseteq DOMAIN net'
  BY <1>4 DEF Stage, Over, TypeOK
<1>6. View' = Over(c, View)
  BY <1>1, <1>3 DEF View, Uci, Stage, Over
<1> QED
  BY <1>2, <1>5, <1>6 DEF TypeOK, StoreType

LEMMA StoreKept ==
  ASSUME TypeOK, UNCHANGED <<net, staged>> PROVE StoreType'
BY DEF TypeOK, StoreType, View, Uci

LEMMA PlanType ==
  ASSUME NEW x \in Applications
  PROVE  Plan(x).gw \in GatewaysOrNone /\ Plan(x).mask \in {"net", "host"}
BY ConfigAssumption, SMT
   DEF Plan, MaskOr, Applications, Settings, NoSettings, GatewaysOrNone, Masks, None

LEMMA DeletionsType ==
  ASSUME NEW x \in Applications, NEW n \in Networks
  PROVE  Over(Deletions(x), n) \in Networks
<1>1. DOMAIN Deletions(x) \subseteq {"gw", "host", "onlink", "dns"}
  BY DEF Deletions
<1>2. \A o \in DOMAIN Deletions(x) : Deletions(x)[o] = IF o = "onlink" THEN "no" ELSE None
  BY DEF Deletions
<1> QED
  BY <1>1, <1>2, SMT DEF Over, Networks, GatewaysOrNone, Servers, YesNo

LEMMA SetsType ==
  ASSUME NEW x \in Applications, NEW n \in Networks
  PROVE  Over(Sets(x), n) \in Networks
<1> DEFINE values == [ip |-> x.ip, mask |-> Plan(x).mask, gw |-> Plan(x).gw, host |-> Plan(x).gw,
                      onlink |-> "yes", dns |-> EffectiveDns(x), peer |-> "yes", auto |-> "yes"]
<1>1. Plan(x).gw \in GatewaysOrNone /\ Plan(x).mask \in Masks
  BY PlanType DEF Masks
<1>2. EffectiveDns(x) \in Servers /\ x.ip \in Addresses
  BY DEF EffectiveDns, Applications, Servers
<1>3. values \in Networks
  BY <1>1, <1>2 DEF Networks, YesNo
<1>4. DOMAIN Sets(x) = Options(x) /\ \A o \in Options(x) : Sets(x)[o] = values[o]
  BY DEF Sets, Restrict
<1>5. Options(x) \subseteq {"ip", "mask", "peer", "auto", "onlink", "gw", "host", "dns"}
  BY DEF Options
<1> HIDE DEF values
<1> QED
  BY <1>3, <1>4, <1>5, SMT DEF Over, Networks

LEMMA OnlinkType ==
  ASSUME NEW n \in Networks PROVE Over(Onlink, n) \in Networks
BY SMT DEF Over, Onlink, Networks, GatewaysOrNone, YesNo, Masks, None

LEMMA NothingType ==
  ASSUME NEW n \in Networks PROVE Over(Nothing, n) \in Networks
BY SMT DEF Over, Nothing, Networks

\* What netifd may make of a network.
LEMMA IfupType ==
  ASSUME NEW n \in Networks, NEW k \in AfterIfup(n)
  PROVE  k \in Kernels
<1>1. PICK r \in GatewaysOrNone \cup {"onlink"} : k = [ip |-> n.ip, route |-> r, dns |-> n.dns]
  BY DEF AfterIfup, Routes, GatewaysOrNone
<1> QED
  BY <1>1 DEF Networks, Kernels

\* A default route that is written directly.
LEMMA RouteType ==
  ASSUME NEW k \in Kernels, NEW r \in GatewaysOrNone \cup {"onlink"}
  PROVE  [k EXCEPT !.route = r] \in Kernels
BY DEF Kernels

LEMMA AtRestType == AtRest \in Applications
BY DEF AtRest, Applications, GatewaysOrNone, Addresses, Masks, Servers

LEMMA GotoType ==
  ASSUME TypeOK, NEW a \in Actors, NEW pc,
         pc \in {"idle", "dial", "auto", "dns", "dnsCommit", "sig", "guard",
                 "delete", "stage", "commit", "probe", "onlink", "verify"},
         Goto(a, pc)
  PROVE  app' \in [Actors -> Applications]
BY SMT DEF TypeOK, Goto, Applications

LEMMA BeginsType ==
  ASSUME TypeOK, NEW a \in Actors, NEW x \in Applications, Begins(a, x)
  PROVE  app' \in [Actors -> Applications] /\ last' \in {"none", "well", "badly"}
<1>1. Other(a) \in Actors /\ Other(a) # a
  BY DEF Actors, Other
<1>2. [x EXCEPT !.pc = "delete", !.alone = ~Applying(Other(a))] \in Applications
  BY DEF Applications, Applying
<1>3. \A b \in Actors : [app[b] EXCEPT !.alone = @ /\ ~Applying(b)] \in Applications
  BY DEF TypeOK, Applications
<1> QED
  BY <1>2, <1>3 DEF Begins, TypeOK

LEMMA EndsType ==
  ASSUME TypeOK, NEW a \in Actors, NEW how \in {"none", "well", "badly"}, Ends(a, how)
  PROVE  app' \in [Actors -> Applications] /\ last' \in {"none", "well", "badly"}
<1>1. app[a] \in Applications
  BY DEF TypeOK
<1>2. [AtRest EXCEPT !.cfg = app[a].cfg, !.pc = app[a].back] \in Applications
  BY <1>1, AtRestType DEF Applications
<1> QED
  BY <1>1, <1>2, AtRestType, SMT DEF Ends, TypeOK

LEMMA DialledType ==
  ASSUME TypeOK, NEW cfg \in Settings \cup {NoSettings}, NEW back \in {"idle", "auto"}
  PROVE  Dialled(cfg, back) \in Applications
<1>1. session \in Addresses /\ Reported[session] \in GatewaysOrNone
  BY ConfigAssumption DEF TypeOK, Addresses, GatewaysOrNone
<1>2. Dialled(cfg, back) =
        [pc |-> "idle", cfg |-> cfg, ip |-> session, gw |-> Reported[session], mask |-> None,
         dns |-> "modem", alone |-> FALSE, back |-> back]
  BY DEF Dialled
<1> QED
  BY <1>1, <1>2 DEF Applications, Servers, Masks

LEMMA RecordedType ==
  ASSUME TypeOK, NEW cfg \in Settings \cup {NoSettings}
  PROVE  Recorded(cfg) \in Applications
<1>1. Uci("gw") \in GatewaysOrNone /\ Uci("mask") \in Masks /\ Uci("dns") \in Servers
  BY SMT DEF TypeOK, Networks
<1>2. kernel.ip \in Addresses
  BY DEF TypeOK, Kernels
<1>3. Recorded(cfg) =
        [pc |-> "idle", cfg |-> cfg, ip |-> kernel.ip, gw |-> Uci("gw"), mask |-> Uci("mask"),
         dns |-> Uci("dns"), alone |-> FALSE, back |-> "guard"]
  BY DEF Recorded
<1> QED
  BY <1>1, <1>2, <1>3 DEF Applications

-----------------------------------------------------------------------------
LEMMA TypeInitial == Init => TypeOK
<1> SUFFICES ASSUME Init PROVE TypeOK
  OBVIOUS
<1>1. settings \in Settings /\ sig \in Settings \cup {NoSettings}
  BY ConfigAssumption DEF Init, Settings, GatewaysOrNone
<1>2. net \in Networks
  BY DEF Init, Fresh, Networks, Addresses, GatewaysOrNone, Masks, Servers, YesNo
<1>3. DOMAIN staged = {}
  BY DEF Init, Nothing
<1>4. [o \in DOMAIN net |-> Uci(o)] \in Networks
  BY <1>2, <1>3, SMT DEF Uci, Networks
<1>5. kernel \in Kernels
  BY DEF Init, Kernels, Addresses, GatewaysOrNone, Servers
<1>6. app \in [Actors -> Applications]
  BY AtRestType DEF Init
<1>7. 0 \in 0..MaxEvents /\ 0 \in 0..MaxFaults
  BY ConfigAssumption
<1> QED
  BY <1>1, <1>2, <1>3, <1>4, <1>5, <1>6, <1>7 DEF Init, TypeOK

LEMMA FaultType == TypeOK /\ Fault => faults' \in 0..MaxFaults
BY ConfigAssumption DEF TypeOK, Fault

\* What the steps of an application leave.
LEMMA ApplyType ==
  ASSUME TypeOK, NEW a \in Actors, Apply(a) PROVE TypeOK'
<1> DEFINE x == app[a]
<1>1. x \in Applications /\ Plan(x).gw \in GatewaysOrNone
  BY PlanType DEF TypeOK
<1>2. ASSUME Delete(a) PROVE TypeOK'
  <2>1. StoreType'
    BY <1>1, <1>2, DeletionsType, StageType DEF Delete
  <2>2. app' \in [Actors -> Applications]
    BY <1>2, GotoType DEF Delete
  <2> QED
    BY <1>2, <2>1, <2>2 DEF Delete, TypeOK, StoreType, View
<1>3. ASSUME StageSets(a) PROVE TypeOK'
  <2>1. CASE \E changes \in {Sets(x)} : /\ Stage(changes) /\ Goto(a, "commit")
                                        /\ UNCHANGED <<last, faults>>
    <3>1. StoreType'
      BY <1>1, <1>3, <2>1, SetsType, StageType DEF StageSets
    <3>2. app' \in [Actors -> Applications]
      BY <2>1, GotoType
    <3> QED
      BY <1>3, <2>1, <3>1, <3>2 DEF StageSets, TypeOK, StoreType, View
  <2>2. CASE Fault /\ staged' = Nothing /\ Ends(a, last)
    <3>1. app' \in [Actors -> Applications] /\ last' \in {"none", "well", "badly"}
      BY <2>2, EndsType DEF TypeOK
    <3>2. StoreType'
      <4>1. net' = net /\ DOMAIN staged' = {}
        BY <1>3, <2>2 DEF StageSets, Nothing
      <4>2. View' = net
        BY <4>1, SMT DEF View, Uci, TypeOK, Networks
      <4> QED
        BY <4>1, <4>2 DEF StoreType, TypeOK
    <3>3. faults' \in 0..MaxFaults
      BY <2>2, FaultType
    <3> QED
      BY <1>3, <3>1, <3>2, <3>3 DEF StageSets, TypeOK, StoreType, View
  <2> QED
    BY <1>3, <2>1, <2>2 DEF StageSets
<1>4. ASSUME CommitSets(a) PROVE TypeOK'
  <2>1. StoreType'
    BY <1>4, NothingType, CommitType DEF CommitSets
  <2>2. net' \in Networks
    BY <2>1 DEF StoreType
  <2>3. /\ app' \in [Actors -> Applications] /\ last' \in {"none", "well", "badly"}
        /\ kernel' \in Kernels /\ faults' \in 0..MaxFaults
    <3> DEFINE gw == Plan(x).gw
    <3>1. CASE /\ Goto(a, IF gw = None THEN "verify" ELSE "probe") /\ UNCHANGED <<last, faults>>
               /\ \E k \in AfterIfup(net') :
                    kernel' = IF gw = None THEN [k EXCEPT !.route = "onlink"]
                              ELSE IF Reachable(net', gw) THEN [k EXCEPT !.route = gw] ELSE k
      <4>1. app' \in [Actors -> Applications]
        BY <3>1, GotoType
      <4>2. kernel' \in Kernels
        BY <1>1, <2>2, <3>1, IfupType, RouteType
      <4> QED
        BY <3>1, <4>1, <4>2 DEF TypeOK
    <3>2. CASE /\ Fault /\ Ends(a, "badly")
               /\ kernel' = [ip |-> None, route |-> None, dns |-> net'.dns]
      <4>1. kernel' \in Kernels
        BY <2>2, <3>2 DEF Networks, Kernels, Addresses, GatewaysOrNone
      <4> QED
        BY <3>2, <4>1, EndsType, FaultType
    <3> QED
      BY <1>4, <3>1, <3>2 DEF CommitSets
  <2> QED
    BY <1>4, <2>1, <2>3 DEF CommitSets, TypeOK, StoreType, View
<1>5. ASSUME Probe(a) PROVE TypeOK'
  <2>1. app' \in [Actors -> Applications]
    BY <1>5, GotoType DEF Probe
  <2>2. CASE settings' = [settings EXCEPT !.gw = Plan(x).gw] /\ UNCHANGED staged
    <3>1. settings' \in Settings
      BY <1>1, <2>2 DEF TypeOK, Settings
    <3> QED
      BY <1>5, <2>1, <2>2, <3>1, StoreKept DEF Probe, TypeOK, StoreType, View
  <2>3. CASE settings' = [settings EXCEPT !.gw = None] /\ Stage(Onlink)
    <3>1. settings' \in Settings
      BY <2>3 DEF TypeOK, Settings, GatewaysOrNone
    <3>2. StoreType'
      BY <1>5, <2>3, OnlinkType, StageType DEF Probe
    <3> QED
      BY <1>5, <2>1, <2>3, <3>1, <3>2 DEF Probe, TypeOK, StoreType, View
  <2> QED
    BY <1>5, <2>2, <2>3 DEF Probe
<1>7. ASSUME FallBack(a) PROVE TypeOK'
  <2>1. StoreType' /\ app' \in [Actors -> Applications]
    BY <1>7, NothingType, CommitType, GotoType DEF FallBack
  <2>2. kernel' \in Kernels
    BY <1>7, <2>1, IfupType, RouteType DEF FallBack, StoreType
  <2> QED
    BY <1>7, <2>1, <2>2 DEF FallBack, TypeOK, StoreType, View
<1>6. ASSUME Verify(a) PROVE TypeOK'
  <2>1. app' \in [Actors -> Applications] /\ last' \in {"none", "well", "badly"}
    BY <1>6, EndsType DEF Verify
  <2>2. sig' \in Settings \cup {NoSettings}
    BY <1>1, <1>6 DEF Verify, TypeOK, Applications
  <2> QED
    BY <1>6, <2>1, <2>2, StoreKept DEF Verify, TypeOK, StoreType, View
<1> QED
  BY <1>2, <1>3, <1>4, <1>5, <1>6, <1>7 DEF Apply

LEMMA TypeStep == TypeOK /\ [Next]_vars => TypeOK'
<1> SUFFICES ASSUME TypeOK, [Next]_vars PROVE TypeOK'
  OBVIOUS
<1> USE DEF Watch
<1>1. "watch" \in Actors /\ "page" \in Actors
  BY DEF Actors
<1>2. app["watch"].cfg \in Settings \cup {NoSettings}
  BY <1>1 DEF TypeOK, Applications
<1>3. CASE UNCHANGED vars
  BY <1>3, StoreKept DEF vars, TypeOK, StoreType, View
<1>4. CASE Round
  <2>1. [AtRest EXCEPT !.cfg = settings, !.pc = "dial"] \in Applications
    BY AtRestType DEF TypeOK, Applications
  <2> QED
    BY <1>4, <2>1, StoreKept DEF Round, TypeOK, StoreType, View
<1>5. CASE DialTick
  <2>1. app' \in [Actors -> Applications] /\ last' \in {"none", "well", "badly"}
    <3>1. CASE Goto("watch", "auto") /\ last' = last
      BY <1>1, <3>1, GotoType DEF TypeOK
    <3>2. CASE Begins("watch", Dialled(app["watch"].cfg, "auto"))
      BY <1>1, <1>2, <3>2, DialledType, BeginsType
    <3> QED
      BY <1>5, <3>1, <3>2 DEF DialTick
  <2> QED
    BY <1>5, <2>1, StoreKept DEF DialTick, TypeOK, StoreType, View
<1>6. CASE EnsureAutostart
  <2>1. app' \in [Actors -> Applications]
    BY <1>1, <1>6, GotoType DEF EnsureAutostart
  <2>2. \A n \in Networks : Over([auto |-> "yes"], n) \in Networks
    BY SMT DEF Over, Networks, YesNo
  <2>3. StoreType'
    BY <1>6, <2>2, StoreKept, CommitType DEF EnsureAutostart
  <2> QED
    BY <1>6, <2>1, <2>3 DEF EnsureAutostart, TypeOK, StoreType, View
<1>7. CASE EnforceForcedDns
  <2>1. app' \in [Actors -> Applications]
    BY <1>1, <1>7, GotoType DEF EnforceForcedDns
  <2>2. \A n \in Networks : /\ Over([dns |-> "forced", peer |-> "yes"], n) \in Networks
                            /\ Over([dns |-> "forced"], n) \in Networks
    BY SMT DEF Over, Networks, YesNo, Servers
  <2>3. StoreType'
    BY <1>7, <2>2, StoreKept, StageType DEF EnforceForcedDns
  <2>4. untold' \in BOOLEAN /\ faults' \in 0..MaxFaults
    BY <1>7, FaultType DEF EnforceForcedDns, TypeOK
  <2> QED
    BY <1>7, <2>1, <2>3, <2>4 DEF EnforceForcedDns, TypeOK, StoreType, View
<1>8. CASE DnsCommit
  <2>1. app' \in [Actors -> Applications]
    BY <1>1, <1>8, GotoType DEF DnsCommit
  <2>2. StoreType'
    BY <1>8, NothingType, CommitType DEF DnsCommit
  <2>3. kernel' \in Kernels
    BY <1>8, <2>2, IfupType DEF DnsCommit, StoreType
  <2> QED
    BY <1>8, <2>1, <2>2, <2>3 DEF DnsCommit, TypeOK, StoreType, View
<1>9. CASE ReapplyOnChange
  <2>1. /\ app' \in [Actors -> Applications] /\ last' \in {"none", "well", "badly"}
        /\ sig' \in Settings \cup {NoSettings}
    <3>1. CASE Goto("watch", "guard") /\ last' = last
               /\ sig' = IF sig = NoSettings THEN app["watch"].cfg ELSE sig
      BY <1>1, <1>2, <3>1, GotoType DEF TypeOK
    <3>2. CASE Begins("watch", Recorded(app["watch"].cfg)) /\ sig' = sig
      BY <1>1, <1>2, <3>2, RecordedType, BeginsType DEF TypeOK
    <3> QED
      BY <1>9, <3>1, <3>2 DEF ReapplyOnChange
  <2> QED
    BY <1>9, <2>1, StoreKept DEF ReapplyOnChange, TypeOK, StoreType, View
<1>10. CASE RouteGuard
  <2>1. Uci("gw") \in GatewaysOrNone
    BY SMT DEF TypeOK, Networks
  <2>2. kernel' \in Kernels
    BY <1>10, <2>1, RouteType DEF RouteGuard, TypeOK
  <2> QED
    BY <1>10, <2>2, AtRestType, StoreKept DEF RouteGuard, TypeOK, StoreType, View
<1>11. CASE PageDials
  <2>1. app' \in [Actors -> Applications] /\ last' \in {"none", "well", "badly"}
    BY <1>1, <1>11, DialledType, BeginsType DEF PageDials, TypeOK
  <2>2. events' \in 0..MaxEvents
    BY <1>11, ConfigAssumption DEF PageDials, TypeOK
  <2> QED
    BY <1>11, <2>1, <2>2, StoreKept DEF PageDials, TypeOK, StoreType, View
<1>12. CASE \E a \in Actors : Apply(a)
  BY <1>12, ApplyType
<1>13. ASSUME Event
       PROVE  /\ events' \in 0..MaxEvents
              /\ UNCHANGED <<sig, app, last, faults>>
  BY <1>13, ConfigAssumption DEF Event, TypeOK
<1>14. CASE ChangeSettings
  BY <1>13, <1>14, StoreKept DEF ChangeSettings, TypeOK, StoreType, View
<1>15. CASE HandEdit
  <2>1. \A n \in Networks : /\ Over([dns |-> "other", peer |-> "no"], n) \in Networks
                            /\ Over([auto |-> "no"], n) \in Networks
    BY SMT DEF Over, Networks, YesNo, Servers
  <2>2. StoreType'
    BY <1>15, <2>1, CommitType DEF HandEdit
  <2>3. kernel' \in Kernels
    BY <1>15, <2>2, IfupType DEF HandEdit, StoreType
  <2> QED
    BY <1>13, <1>15, <2>2, <2>3 DEF HandEdit, TypeOK, StoreType, View
<1>16. CASE ArpChanges
  BY <1>13, <1>16, StoreKept DEF ArpChanges, TypeOK, StoreType, View
<1>17. CASE NewSession
  BY <1>13, <1>17, StoreKept DEF NewSession, TypeOK, StoreType, View
<1>18. CASE LoseRoute
  <2>1. kernel' \in Kernels
    BY <1>18, RouteType DEF LoseRoute, TypeOK, GatewaysOrNone
  <2> QED
    BY <1>13, <1>18, <2>1, StoreKept DEF LoseRoute, TypeOK, StoreType, View
<1>19. CASE Restart
  <2>1. faults' \in 0..MaxFaults
    BY <1>19, FaultType DEF Restart
  <2>2. last' \in {"none", "well", "badly"} /\ untold' \in BOOLEAN
    BY <1>19 DEF Restart, TypeOK
  <2> QED
    BY <1>19, <2>1, <2>2, AtRestType, StoreKept DEF Restart, TypeOK, StoreType, View
<1> QED
  BY <1>1, <1>3, <1>4, <1>5, <1>6, <1>7, <1>8, <1>9, <1>10, <1>11, <1>12, <1>14, <1>15, <1>16,
     <1>17, <1>18, <1>19 DEF Next, WatchStep

\* The state has its shape, in every state of every run.
THEOREM TypeCorrect == Spec => []TypeOK
BY TypeInitial, TypeStep, PTL DEF Spec

-----------------------------------------------------------------------------
(* What the steps leave of a network that is whole *)

\* Nothing that the gateway is about has changed, as "uci get" sees it or as
\* it is committed.
KeyKept ==
  /\ \A o \in Key : View'[o] = View[o]
  /\ Settled => Settled'

\* An application is where it was, or is none and was none.
Unmoved(a) == app'[a] = app[a] \/ (~Applying(a) /\ ~Applying(a)')

LEMMA WholeByKey ==
  ASSUME NEW m \in Networks, NEW n \in Networks, \A o \in Key : m[o] = n[o]
  PROVE  Whole(m) <=> Whole(n)
<1>1. m.gw = n.gw /\ m.host = n.host /\ m.onlink = n.onlink /\ m.mask = n.mask
  BY DEF Key
<1> QED
  BY <1>1 DEF Whole, Reachable, InSubnet

LEMMA ViewIsUci ==
  ASSUME TypeOK PROVE \A o \in Key : View[o] = Uci(o)
BY SMT DEF TypeOK, View, Key, Networks

LEMMA KeptIfUnchanged == TypeOK /\ UNCHANGED <<net, staged>> => KeyKept
BY DEF KeyKept, View, Uci, Settled

LEMMA KeptByCommit ==
  ASSUME TypeOK, TypeOK', NEW c, DOMAIN c \cap Key = {}, Commit(c)
  PROVE  KeyKept
<1>1. net' = [o \in DOMAIN net |-> IF o \in DOMAIN c THEN c[o] ELSE Uci(o)] /\ staged' = Nothing
  BY DEF Commit
<1>2. Key \subseteq DOMAIN net
  BY SMT DEF TypeOK, Networks, Key
<1>3. \A o \in Key : net'[o] = Uci(o)
  BY <1>1, <1>2
<1>4. \A o \in Key : View'[o] = net'[o] /\ o \notin DOMAIN staged'
  BY <1>1, <1>2 DEF View, Uci, Nothing
<1>5. \A o \in Key : View[o] = Uci(o)
  BY ViewIsUci
<1>6. ASSUME Settled PROVE Settled'
  <2>1. \A o \in Key : net'[o] = net[o]
    BY <1>3, <1>6 DEF Settled, Uci
  <2>2. Whole(net')
    BY <1>6, <2>1, WholeByKey DEF TypeOK, Settled
  <2> QED
    BY <1>4, <2>2 DEF Settled, Whole
<1> QED
  BY <1>3, <1>4, <1>5, <1>6 DEF KeyKept

LEMMA KeptByStage ==
  ASSUME TypeOK, TypeOK', NEW c, DOMAIN c \cap Key = {}, Stage(c), net' = net
  PROVE  KeyKept
<1>1. \A o \in Key : (o \in DOMAIN staged' <=> o \in DOMAIN staged) /\ Uci(o)' = Uci(o)
  BY DEF Stage, Over, Uci
<1>2. \A o \in Key : View'[o] = Uci(o)' /\ View[o] = Uci(o)
  BY ViewIsUci, SMT DEF TypeOK, View, Networks, Key
<1>3. Settled => Settled'
  BY <1>1 DEF Settled
<1> QED
  BY <1>1, <1>2, <1>3 DEF KeyKept

\* A step that leaves alone what is applied, and how far.
LEMMA Bystander ==
  ASSUME TypeOK, TypeOK', IInv, KeyKept, last' = last, \A a \in Actors : Unmoved(a)
  PROVE  IInv'
<1>1. ASSUME NEW a \in Actors PROVE Lone(a)'
  <2> SUFFICES ASSUME app'[a].alone, Applying(a)' PROVE Lone(a)'
    BY DEF Lone
  <2>1. app'[a] = app[a]
    BY DEF Unmoved
  <2>2. app[a].alone /\ Applying(a)
    BY <2>1 DEF Applying
  <2>3. Other(a) \in Actors
    BY DEF Actors, Other
  <2>4. ~Applying(Other(a))'
    BY <2>2, <2>3 DEF IInv, Lone, Unmoved, Applying
  <2>5. app[a].pc = "stage" => Cleared(Plan(app[a]))'
    <3>1. \A o \in Key : Uci(o)' = Uci(o)
      <4>1. \A o \in Key : View'[o] = Uci(o)'
        BY SMT DEF TypeOK, View, Networks, Key
      <4> QED
        BY <4>1, ViewIsUci DEF KeyKept
    <3> QED
      BY <2>1, <2>2, <3>1 DEF IInv, Lone, Cleared, Key, Plan
  <2>6. app[a].pc \in {"commit", "onlink"} => Whole(View')
    <3>1. View \in Networks /\ View' \in Networks
      BY DEF TypeOK, View
    <3> QED
      BY <2>2, <3>1, WholeByKey DEF IInv, Lone, KeyKept
  <2>7. app[a].pc \in {"probe", "verify"} => Settled'
    BY <2>2 DEF IInv, Lone, KeyKept
  <2> QED
    BY <2>1, <2>4, <2>5, <2>6, <2>7 DEF Lone, Whole
<1>2. EndedWell'
  BY DEF IInv, EndedWell, KeyKept, Unmoved, Applying
<1> QED
  BY <1>1, <1>2 DEF IInv

\* One that starts: it and what it runs into are not alone.
LEMMA Beginning ==
  ASSUME TypeOK, TypeOK', IInv, KeyKept, NEW a \in Actors, NEW x, ~Applying(a), Begins(a, x),
         x \in Applications
  PROVE  IInv'
<1>1. app'[a].pc = "delete" /\ app'[a].alone = ~Applying(Other(a))
  <2>1. app'[a] = [x EXCEPT !.pc = "delete", !.alone = ~Applying(Other(a))]
    BY DEF Begins
  <2> QED
    BY <2>1 DEF Applications
<1>2. ASSUME NEW b \in Actors, b # a
      PROVE  app'[b] = [app[b] EXCEPT !.alone = @ /\ ~Applying(b)]
  BY <1>2 DEF Begins
<1>3. ASSUME NEW b \in Actors, b # a
      PROVE  app'[b].pc = app[b].pc /\ (app'[b].alone => ~Applying(b))
  BY <1>2, <1>3 DEF TypeOK, Applications
<1>4. ASSUME NEW b \in Actors, b # a PROVE Applying(b)' <=> Applying(b)
  BY <1>3, <1>4 DEF Applying
<1>5. Other(a) \in Actors /\ Other(a) # a
  BY DEF Actors, Other
<1>6. ASSUME NEW b \in Actors PROVE Lone(b)'
  <2>1. CASE b = a
    <3>1. app'[a].alone => ~Applying(Other(a))'
      BY <1>1, <1>4, <1>5
    <3> QED
      BY <1>1, <2>1, <3>1 DEF Lone
  <2>2. CASE b # a
    BY <1>3, <1>4, <2>2 DEF Lone
  <2> QED
    BY <2>1, <2>2
<1>7. last' # "well"
  BY DEF Begins
<1> QED
  BY <1>6, <1>7 DEF IInv, EndedWell

\* One that goes on: it need not show more than its own part of the invariant.
LEMMA GoingOn ==
  ASSUME TypeOK, TypeOK', IInv, NEW a \in Actors, Applying(a), NEW pc, Goto(a, pc), last' = last,
         pc \in {"stage", "commit", "probe", "onlink", "verify"},
         app[a].alone => /\ pc = "stage" => Cleared(Plan(app[a]))'
                         /\ pc \in {"commit", "onlink"} => Whole(View')
                         /\ pc \in {"probe", "verify"} => Settled'
  PROVE  IInv'
<1>1. app'[a] = [app[a] EXCEPT !.pc = pc] /\ \A b \in Actors : b # a => app'[b] = app[b]
  BY DEF Goto, TypeOK
<1>2. app'[a].pc = pc /\ app'[a].alone = app[a].alone
  BY <1>1 DEF TypeOK, Applications
<1>4. Other(a) \in Actors /\ Other(a) # a /\ Other(Other(a)) = a
  BY DEF Actors, Other
<1>5. ASSUME NEW b \in Actors PROVE Lone(b)'
  <2>1. CASE b = a
    <3> SUFFICES ASSUME app'[a].alone PROVE Lone(a)'
      BY <2>1 DEF Lone
    <3>1. app[a].alone
      BY <1>2
    <3>2. ~Applying(Other(a))'
      BY <1>1, <1>4, <3>1 DEF IInv, Lone, Applying
    <3> QED
      BY <1>2, <3>1, <3>2 DEF Lone, Whole
  <2>2. CASE b # a
    <3>1. b = Other(a) /\ Other(b) = a
      BY <1>4, <2>2 DEF Actors, Other
    <3>2. ~(app'[b].alone /\ Applying(b)')
      BY <1>1, <2>2, <3>1 DEF IInv, Lone, Applying
    <3> QED
      BY <3>2 DEF Lone
  <2> QED
    BY <2>1, <2>2
<1>6. last' # "well"
  BY DEF IInv, EndedWell
<1> QED
  BY <1>5, <1>6 DEF IInv, EndedWell

\* One that ends: if it was alone and has ended well the network is whole.
LEMMA Ending ==
  ASSUME TypeOK, TypeOK', IInv, NEW a \in Actors, Applying(a), NEW how, Ends(a, how),
         app[a].alone /\ how = "well" => Settled'
  PROVE  IInv'
<1>1. app'[a] = (IF app[a].back = "idle" THEN AtRest
                 ELSE [AtRest EXCEPT !.cfg = app[a].cfg, !.pc = app[a].back])
      /\ \A b \in Actors : b # a => app'[b] = app[b]
  BY DEF Ends, TypeOK
<1>2. ~Applying(a)'
  <2>1. app'[a].pc = app[a].back /\ app[a].back \in {"idle", "auto", "guard"}
    BY <1>1 DEF AtRest, TypeOK, Applications
  <2> QED
    BY <2>1 DEF Applying
<1>3. ASSUME NEW b \in Actors, b # a, app[b].alone PROVE ~Applying(b)
  <2>1. Other(b) = a
    BY <1>3 DEF Actors, Other
  <2> QED
    BY <1>3, <2>1 DEF IInv, Lone
<1>4. ASSUME NEW b \in Actors PROVE Lone(b)'
  BY <1>1, <1>2, <1>3 DEF Lone, Applying
<1>5. ASSUME last' = "well" PROVE Settled' /\ \A b \in Actors : ~Applying(b)'
  <2>1. app[a].alone /\ how = "well"
    BY <1>5 DEF Ends
  <2>2. ASSUME NEW b \in Actors, b # a PROVE ~Applying(b)'
    <3>1. b = Other(a)
      BY <2>2 DEF Actors, Other
    <3> QED
      BY <1>1, <2>1, <2>2, <3>1 DEF IInv, Lone, Applying
  <2> QED
    BY <1>2, <2>1, <2>2
<1> QED
  BY <1>4, <1>5 DEF IInv, EndedWell

LEMMA PlanKept ==
  ASSUME TypeOK, NEW a \in Actors, NEW pc, Goto(a, pc)
  PROVE  Plan(app'[a]) = Plan(app[a])
<1>1. app'[a] = [app[a] EXCEPT !.pc = pc]
  BY DEF Goto, TypeOK
<1>2. /\ app'[a].cfg = app[a].cfg /\ app'[a].gw = app[a].gw
      /\ app'[a].ip = app[a].ip /\ app'[a].mask = app[a].mask
  BY <1>1 DEF TypeOK, Applications
<1> QED
  BY <1>2 DEF Plan

\* The deletions clear the way for either kind of plan.
LEMMA DeleteKeeps ==
  ASSUME TypeOK, TypeOK', IInv, NEW a \in Actors, Delete(a) PROVE IInv'
<1> DEFINE x == app[a]
           c == Deletions(x)
<1>1. Applying(a) /\ Goto(a, "stage") /\ last' = last /\ Stage(c)
  BY DEF Delete, Applying
<1>2. \A o \in DOMAIN c : Uci(o)' = c[o]
  BY <1>1 DEF Stage, Over, Uci
<1>3. Plan(x).gw = None => {"gw", "host"} \subseteq DOMAIN c /\ c["gw"] = None /\ c["host"] = None
  BY DEF Deletions
<1>4. Plan(x).gw # None => "onlink" \in DOMAIN c /\ c["onlink"] = "no"
  BY DEF Deletions
<1>5. Plan(app'[a]) = Plan(x)
  BY <1>1, PlanKept
<1> HIDE DEF c
<1>6. Cleared(Plan(app[a]))'
  BY <1>2, <1>3, <1>4, <1>5 DEF Cleared
<1> QED
  BY <1>1, <1>6, GoingOn

\* What is set on top of them makes a whole network.
LEMMA StageSetsKeeps ==
  ASSUME TypeOK, TypeOK', IInv, NEW a \in Actors, StageSets(a) PROVE IInv'
<1> DEFINE x == app[a]
           c == Sets(x)
           plan == Plan(x)
<1>1. Applying(a)
  BY DEF StageSets, Applying
<1>2. CASE Stage(c) /\ Goto(a, "commit") /\ last' = last /\ net' = net
  <2>1. ASSUME x.alone PROVE Whole(View')
    <3>1. Cleared(plan)
      BY <1>1, <2>1 DEF IInv, Lone, StageSets
    <3>2. \A o \in Key : View'[o] = IF o \in DOMAIN c THEN c[o] ELSE Uci(o)
      <4>1. \A o \in Key : View'[o] = Uci(o)'
        BY SMT DEF TypeOK, View, Networks, Key
      <4> QED
        BY <1>2, <4>1 DEF Stage, Over, Uci
    <3>3. /\ View'.gw = View'["gw"] /\ View'.host = View'["host"]
          /\ View'.onlink = View'["onlink"] /\ View'.mask = View'["mask"]
      OBVIOUS
    <3>4. DOMAIN c = Options(x)
      BY DEF Sets, Restrict
    <3>5. "mask" \in Options(x) /\ c["mask"] = plan.mask
      BY DEF Sets, Restrict, Options
    <3>6. CASE plan.gw = None
      <4>1. "onlink" \in Options(x) /\ c["onlink"] = "yes" /\ {"gw", "host"} \cap Options(x) = {}
        BY <3>6 DEF Sets, Restrict, Options
      <4> HIDE DEF c, plan
      <4>2. View'.gw = None /\ View'.onlink = "yes" /\ View'.host = None
        BY <3>1, <3>2, <3>3, <3>4, <3>6, <4>1 DEF Cleared, Key
      <4> QED
        BY <4>2 DEF Whole
    <3>7. CASE plan.gw # None
      <4>1. "gw" \in Options(x) /\ c["gw"] = plan.gw /\ "onlink" \notin Options(x)
        BY <3>7 DEF Sets, Restrict, Options
      <4>2. ~InSubnet(plan.gw, plan.mask) => "host" \in Options(x) /\ c["host"] = plan.gw
        BY <3>7 DEF Sets, Restrict, Options
      <4> HIDE DEF c, plan
      <4>3. View'.gw = plan.gw /\ View'.onlink = "no" /\ View'.mask = plan.mask
        BY <3>1, <3>2, <3>3, <3>4, <3>5, <3>7, <4>1 DEF Cleared, Key
      <4>4. ~InSubnet(plan.gw, plan.mask) => View'.host = plan.gw
        BY <3>2, <3>3, <3>4, <4>2 DEF Key
      <4> QED
        BY <3>7, <4>3, <4>4 DEF Whole, Reachable
    <3> QED
      BY <3>6, <3>7
  <2> HIDE DEF c
  <2> QED
    BY <1>1, <1>2, <2>1, GoingOn
<1>3. CASE Ends(a, last)
  <2>1. last # "well"
    BY <1>1 DEF IInv, EndedWell
  <2> QED
    BY <1>1, <1>3, <2>1, Ending
<1> QED
  BY <1>2, <1>3 DEF StageSets

LEMMA CommitSetsKeeps ==
  ASSUME TypeOK, TypeOK', IInv, NEW a \in Actors, CommitSets(a) PROVE IInv'
<1>1. Applying(a) /\ Commit(Nothing)
  BY DEF CommitSets, Applying
<1>2. ASSUME app[a].alone PROVE Settled'
  <2>1. Whole(View)
    BY <1>1, <1>2 DEF CommitSets, IInv, Lone
  <2>2. net' = View /\ staged' = Nothing
    BY <1>1 DEF Commit, Nothing, View
  <2> QED
    BY <2>1, <2>2 DEF Settled, Nothing, Whole
<1>3. CASE Goto(a, IF Plan(app[a]).gw = None THEN "verify" ELSE "probe") /\ last' = last
  BY <1>1, <1>2, <1>3, GoingOn
<1>4. CASE Ends(a, "badly")
  BY <1>1, <1>4, Ending
<1> QED
  BY <1>3, <1>4 DEF CommitSets

\* A gateway that does not answer is staged away: what there will be is whole.
LEMMA ProbeKeeps ==
  ASSUME TypeOK, TypeOK', IInv, NEW a \in Actors, Probe(a) PROVE IInv'
<1>1. Applying(a) /\ last' = last /\ net' = net
  BY DEF Probe, Applying
<1>2. CASE Goto(a, "verify") /\ UNCHANGED staged
  <2>1. ASSUME app[a].alone PROVE Settled'
    <3>1. Settled
      BY <1>1, <2>1 DEF Probe, IInv, Lone
    <3> QED
      BY <1>1, <1>2, <3>1 DEF Settled
  <2> QED
    BY <1>1, <1>2, <2>1, GoingOn
<1>3. CASE Goto(a, "onlink") /\ Stage(Onlink)
  <2>1. \A o \in Key : View'[o] = Uci(o)'
    BY SMT DEF TypeOK, View, Networks, Key
  <2>2. \A o \in DOMAIN Onlink : Uci(o)' = Onlink[o]
    BY <1>3 DEF Stage, Over, Uci
  <2>3. View'["gw"] = None /\ View'["onlink"] = "yes" /\ View'["host"] = None
    BY <2>1, <2>2 DEF Onlink, Key
  <2>4. Whole(View')
    BY <2>3 DEF Whole
  <2> QED
    BY <1>1, <1>3, <2>4, GoingOn
<1> QED
  BY <1>2, <1>3 DEF Probe

LEMMA FallBackKeeps ==
  ASSUME TypeOK, TypeOK', IInv, NEW a \in Actors, FallBack(a) PROVE IInv'
<1>1. Applying(a) /\ Commit(Nothing) /\ Goto(a, "verify") /\ last' = last
  BY DEF FallBack, Applying
<1>2. ASSUME app[a].alone PROVE Settled'
  <2>1. Whole(View)
    BY <1>1, <1>2 DEF FallBack, IInv, Lone
  <2>2. net' = View /\ staged' = Nothing
    BY <1>1 DEF Commit, Nothing, View
  <2> QED
    BY <2>1, <2>2 DEF Settled, Nothing, Whole
<1> QED
  BY <1>1, <1>2, GoingOn

LEMMA VerifyKeeps ==
  ASSUME TypeOK, TypeOK', IInv, NEW a \in Actors, Verify(a) PROVE IInv'
<1>1. /\ Applying(a) /\ Ends(a, IF DnsMatches(app[a]) THEN "well" ELSE "badly")
      /\ UNCHANGED <<net, staged>>
  BY DEF Verify, Applying
<1>2. ASSUME app[a].alone PROVE Settled'
  <2>1. Settled
    BY <1>1, <1>2 DEF Verify, IInv, Lone
  <2> QED
    BY <1>1, <2>1 DEF Settled
<1> QED
  BY <1>1, <1>2, Ending

-----------------------------------------------------------------------------
LEMMA Initial == Init => IInv
<1> SUFFICES ASSUME Init PROVE IInv
  OBVIOUS
<1>1. TypeOK
  BY TypeInitial
<1>2. \A a \in Actors : ~Applying(a)
  BY DEF Init, Applying, AtRest
<1> QED
  BY <1>1, <1>2 DEF Init, IInv, Lone, EndedWell

LEMMA Inductive == IInv /\ [Next]_vars => IInv'
<1> SUFFICES ASSUME IInv, [Next]_vars PROVE IInv'
  OBVIOUS
<1>1. TypeOK /\ TypeOK'
  BY TypeStep DEF IInv
<1>2. "watch" \in Actors /\ "page" \in Actors
  BY DEF Actors
<1>3. app \in [Actors -> Applications]
  BY <1>1 DEF TypeOK
<1>4. ASSUME NEW pc, Goto("watch", pc), ~Applying("watch"),
             pc \in {"auto", "dns", "dnsCommit", "sig", "guard"}
      PROVE  \A a \in Actors : Unmoved(a)
  <2>1. app'["watch"].pc = pc
    BY <1>2, <1>3, <1>4 DEF Goto, Applications
  <2>2. \A a \in Actors : a # "watch" => app'[a] = app[a]
    BY <1>3, <1>4 DEF Goto
  <2> QED
    BY <1>4, <2>1, <2>2 DEF Unmoved, Applying
<1>5. \A a \in Actors : app'[a] = app[a] => Unmoved(a)
  BY DEF Unmoved
<1>6. Key \cap {"auto", "dns", "peer"} = {}
  BY DEF Key
<1>7. CASE UNCHANGED vars
  BY <1>1, <1>5, <1>7, KeptIfUnchanged, Bystander DEF vars
<1>8. CASE Round
  <2>1. \A a \in Actors : Unmoved(a)
    BY <1>2, <1>3, <1>8, AtRestType DEF Round, Watch, Unmoved, Applying, Applications
  <2> QED
    BY <1>1, <1>8, <2>1, KeptIfUnchanged, Bystander DEF Round
<1>9. CASE DialTick
  <2>1. ~Applying("watch") /\ KeyKept
    BY <1>1, <1>9, KeptIfUnchanged DEF DialTick, Watch, Applying
  <2>2. CASE Goto("watch", "auto") /\ last' = last
    BY <1>1, <1>4, <2>1, <2>2, Bystander
  <2>3. CASE Begins("watch", Dialled(app["watch"].cfg, "auto"))
    <3>1. Dialled(app["watch"].cfg, "auto") \in Applications
      BY <1>1, <1>2, <1>3, DialledType DEF Applications
    <3> QED
      BY <1>1, <1>2, <2>1, <2>3, <3>1, Beginning
  <2> QED
    BY <1>9, <2>2, <2>3 DEF DialTick
<1>10. CASE EnsureAutostart
  <2>1. ~Applying("watch") /\ Goto("watch", "dns") /\ last' = last
    BY <1>10 DEF EnsureAutostart, Watch, Applying
  <2>2. KeyKept
    BY <1>1, <1>6, <1>10, KeptIfUnchanged, KeptByCommit DEF EnsureAutostart
  <2> QED
    BY <1>1, <1>4, <2>1, <2>2, Bystander
<1>11. CASE EnforceForcedDns
  <2>1. ~Applying("watch") /\ (Goto("watch", "sig") \/ Goto("watch", "dnsCommit")) /\ last' = last
    BY <1>11 DEF EnforceForcedDns, Watch, Applying
  <2>2. KeyKept
    BY <1>1, <1>6, <1>11, KeptIfUnchanged, KeptByStage DEF EnforceForcedDns
  <2> QED
    BY <1>1, <1>4, <2>1, <2>2, Bystander
<1>12. CASE DnsCommit
  <2>1. ~Applying("watch") /\ Goto("watch", "sig") /\ last' = last
    BY <1>12 DEF DnsCommit, Watch, Applying
  <2>2. KeyKept
    BY <1>1, <1>12, KeptByCommit DEF DnsCommit, Nothing
  <2> QED
    BY <1>1, <1>4, <2>1, <2>2, Bystander
<1>13. CASE ReapplyOnChange
  <2>1. ~Applying("watch") /\ KeyKept
    BY <1>1, <1>13, KeptIfUnchanged DEF ReapplyOnChange, Watch, Applying
  <2>2. CASE Goto("watch", "guard") /\ last' = last
    BY <1>1, <1>4, <2>1, <2>2, Bystander
  <2>3. CASE Begins("watch", Recorded(app["watch"].cfg))
    <3>1. Recorded(app["watch"].cfg) \in Applications
      BY <1>1, <1>2, <1>3, RecordedType DEF Applications
    <3> QED
      BY <1>1, <1>2, <2>1, <2>3, <3>1, Beginning
  <2> QED
    BY <1>13, <2>2, <2>3 DEF ReapplyOnChange
<1>14. CASE RouteGuard
  <2>1. \A a \in Actors : Unmoved(a)
    BY <1>2, <1>3, <1>14 DEF RouteGuard, Watch, Unmoved, Applying, AtRest
  <2> QED
    BY <1>1, <1>14, <2>1, KeptIfUnchanged, Bystander DEF RouteGuard
<1>15. CASE PageDials
  <2>1. ~Applying("page") /\ KeyKept
    BY <1>1, <1>15, KeptIfUnchanged DEF PageDials, Applying
  <2>2. Dialled(settings, "idle") \in Applications
    BY <1>1, DialledType DEF TypeOK
  <2> QED
    BY <1>1, <1>2, <1>15, <2>1, <2>2, Beginning DEF PageDials
<1>16. CASE \E a \in Actors : Apply(a)
  BY <1>1, <1>16, DeleteKeeps, StageSetsKeeps, CommitSetsKeeps, ProbeKeeps, FallBackKeeps,
     VerifyKeeps DEF Apply
<1>17. CASE ChangeSettings \/ ArpChanges \/ NewSession \/ LoseRoute
  <2>1. UNCHANGED <<net, staged, app, last>>
    BY <1>17 DEF ChangeSettings, ArpChanges, NewSession, LoseRoute, Event
  <2> QED
    BY <1>1, <1>5, <2>1, KeptIfUnchanged, Bystander
<1>18. CASE HandEdit
  <2>1. UNCHANGED <<app, last>>
    BY <1>18 DEF HandEdit, Event
  <2>2. KeyKept
    BY <1>1, <1>6, <1>18, KeptByCommit DEF HandEdit
  <2> QED
    BY <1>1, <1>5, <2>1, <2>2, Bystander
<1>19. CASE Restart
  <2>1. \A a \in Actors : ~Applying(a)'
    BY <1>19 DEF Restart, Applying, AtRest
  <2>2. last' = "well" => Settled'
    BY <1>1, <1>19, KeptIfUnchanged DEF Restart, IInv, EndedWell, KeyKept
  <2> QED
    BY <1>1, <2>1, <2>2 DEF IInv, Lone, EndedWell
<1> QED
  BY <1>2, <1>7, <1>8, <1>9, <1>10, <1>11, <1>12, <1>13, <1>14, <1>15, <1>16, <1>17, <1>18, <1>19
     DEF Next, WatchStep

\* What an application that no other one ran into has left behind, once it
\* ended well, can carry packets, whatever was there before and whatever
\* failed on the way (iface.rs:394-430, gateway.rs:276-340).
THEOREM AppliedWhole == Spec => []AppliedIsWhole
<1>1. IInv => AppliedIsWhole
  BY DEF IInv, EndedWell, Settled, AppliedIsWhole
<1> QED
  BY <1>1, Initial, Inductive, PTL DEF Spec

=============================================================================
