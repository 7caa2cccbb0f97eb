-------------------------------- MODULE Link --------------------------------
(***************************************************************************)
(* The cellular link the daemon looks after: the modem's data context      *)
(* (modem/pdp.rs), the two interfaces of the router that carry its         *)
(* addresses (net/iface.rs, net/v6.rs, net/heal.rs), and what the network, *)
(* netifd and the USB port may do to them.  What a call of the daemon does *)
(* to the link is an operator on its state; DialWatch.tla and Guards.tla   *)
(* say who calls what when, LinkRound.tla in which order.                  *)
(***************************************************************************)
EXTENDS Integers, FiniteSets

CONSTANTS
  NoAddr,      \* no address
  ImsAddr,     \* the address of an IMS bearer
  Sessions,    \* the addresses [v4, v6] a data session may be given
  V6Mode,      \* v6_mode: "off", "static" or "dhcpv6"
  ListsCgact,  \* whether AT+CGACT? lists contexts (the FM350 only says OK)
  Residual,    \* whether CGCONTRDP has a past session's addresses when there is none:
               \*   so pdp.rs:5-8, while pdp.rs:452-455 found the fields empty
  Ailments,    \* what may be wrong, some of:
               \*   cut4, cut6   no way through for one family
               \*   blank        the context's addresses are not reported
               \*   slow         applying addresses does not succeed in its 3 s
               \*   stiff        the modem refuses to deactivate and to reboot
               \*   flight, off  CFUN=4, CFUN=0
               \*   halted       the USB data endpoint is stuck
               \*   unbound      the modem drops the frames of its RNDIS side
  MaxFaults    \* bound: how often the surroundings change for the worse

Addrs == {s.v4 : s \in Sessions} \cup {s.v6 : s \in Sessions} \cup {NoAddr}

ASSUME LinkAssumption ==
  /\ V6Mode \in {"off", "static", "dhcpv6"}
  /\ ListsCgact \in BOOLEAN /\ Residual \in BOOLEAN
  /\ ImsAddr # NoAddr
  /\ \A s \in Sessions : s = [v4 |-> s.v4, v6 |-> s.v6]
  /\ MaxFaults \in Nat

VARIABLES
  link,   \* modem: the context is active, its bearer is IMS, the addresses (kept when
          \*   it is deactivated); uci: the addresses written; netifd: main and v6
          \*   interface up; kernel: the global v6 address; rx: a frame ever came; ill
  offer,  \* what an activation leads to: "data", "ims" or "none", and the addresses
  faults

linkVars == <<link, offer, faults>>

Managed == V6Mode # "off"
NoService == [kind |-> "none", v4 |-> NoAddr, v6 |-> NoAddr]
Ims == [kind |-> "ims", v4 |-> NoAddr, v6 |-> ImsAddr]
Data(s) == [kind |-> "data", v4 |-> s.v4, v6 |-> s.v6]
Offers == {NoService, Ims} \cup {Data(s) : s \in Sessions}

\* The v4 address the kernel has: netifd puts up what uci says.
Kernel4(w) == IF w.main THEN w.uci4 ELSE NoAddr

-----------------------------------------------------------------------------
(* The modem: modem/pdp.rs *)

Reports(w) == w.ill \cap {"blank"} = {} /\ (w.v4 # NoAddr \/ w.v6 # NoAddr)

\* The addresses of a past session are taken for an active context.
FaultyBearer(w) == [active |-> w.v4 # NoAddr \/ w.v6 # NoAddr, ims |-> w.ims]

\* pdp(), first half: CGACT? where it lists contexts, else whether CGCONTRDP
\* has an address; and the bearer CGCONTRDP names, an old one included.
Bearer(w) ==
  [active |-> IF ListsCgact THEN w.active ELSE Reports(w) /\ (w.active \/ Residual),
   ims |-> w.ims]

\* pdp(), second half: the addresses are CGPADDR's, unless the context is
\* inactive (then they are a past session's) or the bearer is IMS.
PdpState(b, w) ==
  LET taken == b.active /\ ~b.ims /\ Reports(w)
  IN  [active |-> b.active, ims |-> b.ims,
       v4 |-> IF taken THEN w.v4 ELSE NoAddr,
       v6 |-> IF taken THEN w.v6 ELSE NoAddr]

Pdp(w) == PdpState(Bearer(w), w)

HasAddress(st) == st.v4 # NoAddr \/ st.v6 # NoAddr
UsableForData(st) == st.active /\ HasAddress(st) /\ ~st.ims

InService(w) == offer.kind # "none" /\ w.ill \cap {"flight", "off"} = {}

\* AT+CGACT=0,<cid> and =1,<cid>; activating an active context is refused.
Deactivate(w) == IF "stiff" \in w.ill THEN w ELSE [w EXCEPT !.active = FALSE]

Activate(w) ==
  IF w.active \/ ~InService(w) THEN w
  ELSE [w EXCEPT !.active = TRUE, !.ims = (offer.kind = "ims"),
                 !.v4 = offer.v4, !.v6 = offer.v6]

\* An IMS bearer is moved away by activating the context anew.
MovedAway(w) == IF Pdp(w).ims THEN Activate(Deactivate(w)) ELSE w

Dialled(w) == [w |-> w, ok |-> Pdp(w).active, st |-> Pdp(w)]

\* dial(): leave flight mode, wait for the attachment, move an IMS bearer
\* away, activate unless a usable session is there.
Dial(w) ==
  LET up   == [w EXCEPT !.ill = @ \ {"flight"}]
      base == MovedAway(up)
  IN  IF ~InService(up) THEN [Dialled(up) EXCEPT !.ok = FALSE]
      ELSE IF Pdp(up).ims /\ Pdp(base).ims THEN [Dialled(base) EXCEPT !.ok = FALSE]
      ELSE Dialled(IF UsableForData(Pdp(base)) THEN base ELSE Activate(base))

-----------------------------------------------------------------------------
(* The interfaces: net/iface.rs, net/v6.rs, net/heal.rs *)

\* ifup of the v6 interface: it hangs on the main one (@fm350); a lease
\* comes later.
IfupV6(w) ==
  [w EXCEPT !.sub = Managed,
            !.k6 = IF V6Mode = "static" /\ w.main THEN w.uci6 ELSE NoAddr]

\* ensure_iface(): a missing v4 address is deleted, a missing v6 one is not.
EnsureIface(w, v4, v6) ==
  IfupV6([w EXCEPT !.uci4 = v4, !.main = TRUE,
                   !.uci6 = IF V6Mode # "static" THEN NoAddr
                            ELSE IF v6 = NoAddr THEN @ ELSE v6])

\* apply_after_dial(): written first; an error if what uci holds is not in the
\* kernel after 3 s.  A lease is not waited for.
ApplyAfterDial(w, v4, v6) ==
  IF v4 = NoAddr /\ v6 = NoAddr THEN [w |-> w, ok |-> FALSE]
  ELSE [w |-> EnsureIface(w, v4, v6),
        ok |-> "slow" \notin w.ill \/ (v4 = NoAddr /\ V6Mode # "static")]

\* The interfaces go down, but their addresses stay in uci.
FaultyClearSessionAddresses(w) == [w EXCEPT !.main = FALSE, !.sub = FALSE, !.k6 = NoAddr]

\* clear_session_addresses(): down first, then nothing is left to come up with.
ClearSessionAddresses(w) ==
  [w EXCEPT !.main = FALSE, !.sub = FALSE, !.uci4 = NoAddr, !.uci6 = NoAddr, !.k6 = NoAddr]

\* apply_ipv6_addr() and refresh_ipv6_iface(): a lease that is there is left
\* alone.
ApplyIpv6(w, v6) ==
  IF ~Managed \/ v6 = NoAddr THEN w
  ELSE IF V6Mode = "static" THEN IfupV6([w EXCEPT !.uci6 = v6])
  ELSE IF w.k6 # NoAddr THEN w ELSE IfupV6(w)

RefreshIpv6(w) == IF ~Managed \/ w.k6 # NoAddr THEN w ELSE IfupV6(w)

\* needs_refresh(): Absent, or Mismatch in static mode.
NeedsRefresh(k6, v6) ==
  Managed /\ (\/ k6 = NoAddr
              \/ V6Mode = "static" /\ v6 # NoAddr /\ k6 # v6)

BounceV4(w) == [w EXCEPT !.main = TRUE]
BounceV6(w) == IF Managed THEN IfupV6(w) ELSE w
BounceDataDev(w) == IfupV6([w EXCEPT !.main = TRUE])

\* reset_usb_data_dev(): the driver is bound anew, the counters start from 0.
ResetUsb(w) == BounceDataDev([w EXCEPT !.ill = @ \ {"halted"}, !.rx = FALSE])

\* redial(): the modem is given up and dialled again, for both families.
Redial(w) ==
  LET d == Dial(Deactivate(w))
      a == ApplyAfterDial(d.w, d.st.v4, d.st.v6)
  IN  IF d.ok THEN a ELSE [w |-> d.w, ok |-> FALSE]

\* AT+CFUN=1,1: the modem forgets the context and comes back on line.
Reboot(w) ==
  IF "stiff" \in w.ill THEN w
  ELSE [w EXCEPT !.active = FALSE, !.ims = FALSE, !.v4 = NoAddr, !.v6 = NoAddr, !.rx = FALSE,
                 !.k6 = NoAddr, !.ill = @ \ {"flight", "off", "halted"}]

\* check_connectivity4() and check_connectivity6()
Passes(w, cut) == w.active /\ ~w.ims /\ w.ill \cap {cut, "halted", "unbound"} = {}
Reachable4(w) == Kernel4(w) # NoAddr /\ Kernel4(w) = w.v4 /\ Passes(w, "cut4")
Reachable6(w) == w.k6 # NoAddr /\ w.k6 = w.v6 /\ Passes(w, "cut6")

-----------------------------------------------------------------------------
(* The surroundings *)

\* At boot netifd puts up what the last session left in uci.
LinkInit ==
  /\ offer \in Offers
  /\ \E s \in Sessions :
       link = [active |-> FALSE, ims |-> FALSE, v4 |-> NoAddr, v6 |-> NoAddr,
               uci4 |-> s.v4, uci6 |-> IF V6Mode = "static" THEN s.v6 ELSE NoAddr,
               main |-> TRUE, sub |-> Managed,
               k6 |-> IF V6Mode = "static" THEN s.v6 ELSE NoAddr, rx |-> FALSE, ill |-> {}]
  /\ faults = 0

Worse == faults < MaxFaults /\ faults' = faults + 1

\* The network ends the session.
Detach ==
  /\ Worse
  /\ link.active
  /\ link' = [link EXCEPT !.active = FALSE]
  /\ UNCHANGED offer

\* The network gives other addresses, an IMS bearer or no service: at once to
\* an active context, or to the next one.
ChangeOffer(o) ==
  /\ Worse
  /\ o # offer
  /\ offer' = o
  /\ \/ o.kind # "none" /\ UNCHANGED link
     \/ /\ link.active
        /\ link' = IF o.kind = "none" THEN [link EXCEPT !.active = FALSE]
                   ELSE [link EXCEPT !.ims = (o.kind = "ims"), !.v4 = o.v4, !.v6 = o.v6]
     \/ o.kind = "none" /\ ~link.active /\ UNCHANGED link

\* The network activates the default bearer by itself.
SelfActivate ==
  /\ Worse
  /\ ~link.active /\ InService(link)
  /\ link' = Activate(link)
  /\ UNCHANGED offer

Ail(x) ==
  /\ Worse
  /\ x \notin link.ill
  /\ link' = [link EXCEPT !.ill = @ \cup {x}, !.active = @ /\ x \notin {"flight", "off"}]
  /\ UNCHANGED offer

\* A halted endpoint stays so until it is reset, CFUN=0 until it is undone.
Heal(x) ==
  /\ x \in link.ill \ {"halted", "flight", "off"}
  /\ link' = [link EXCEPT !.ill = @ \ {x}]
  /\ UNCHANGED <<offer, faults>>

\* The answer to odhcp6c brings the address.
LeaseGranted ==
  /\ V6Mode = "dhcpv6"
  /\ link.main /\ link.sub /\ link.k6 = NoAddr
  /\ link.v6 # NoAddr /\ Passes(link, "cut6")
  /\ link' = [link EXCEPT !.k6 = link.v6, !.rx = TRUE]
  /\ UNCHANGED <<offer, faults>>

\* The address of another session runs out.
LeaseExpires ==
  /\ V6Mode = "dhcpv6"
  /\ link.k6 # NoAddr
  /\ ~(link.active /\ link.v6 = link.k6)
  /\ link' = [link EXCEPT !.k6 = NoAddr]
  /\ UNCHANGED <<offer, faults>>

Surroundings ==
  \/ Detach \/ SelfActivate \/ LeaseGranted \/ LeaseExpires
  \/ \E o \in Offers : ChangeOffer(o)
  \/ \E x \in Ailments : Ail(x) \/ Heal(x)
=============================================================================
