--------------------------- MODULE LinkRoundProofs ---------------------------
(***************************************************************************)
(* The daemon's round for any sessions, thresholds, waits and cooldowns:   *)
(* the watches keep their shape, the ladder of DataGuard is climbed a      *)
(* cooldown at a time, NetGuard does not redial on a redial, and no part   *)
(* of the round costs a session that works its IPv4.                       *)
(***************************************************************************)
EXTENDS LinkRound, TLAPS

\* A link of the right shape; an active context is in service.
Sound(w) == w \in LinkStates /\ (w.active => InService(w))

SoundLinks == {w \in LinkStates : Sound(w)}

Pdps == [active : BOOLEAN, ims : BOOLEAN, v4 : Addrs, v6 : Addrs \cup {ImsAddr}]

\* What the guards did is forgotten before the next round.
Forgotten == pc \in {"read", "drive", "data"} => did = {}

\* Each step of DataGuard's ladder took a cooldown without any progress.
Climbed ==
  /\ ~data.base => data.level = 0
  /\ data.level >= 1 => history.progress + data.cool >= Cooldown
  /\ data.level >= 2 => history.progress + data.cool >= 2 * Cooldown
  /\ data.level >= 3 => history.progress + data.cool >= 3 * Cooldown

\* Since a redial IPv4 has been left alone.
LeftAlone == history.redial + net.v4.cool >= Cooldown

IInv == TypeOK /\ Sound(link) /\ Forgotten /\ Climbed /\ LeftAlone

-----------------------------------------------------------------------------
(* The link *)

\* What the modem reports has the shape of a PdpState.
LEMMA PdpStateType ==
  ASSUME NEW w \in LinkStates, NEW b \in [active : BOOLEAN, ims : BOOLEAN]
  PROVE  PdpState(b, w) \in Pdps
BY DEF PdpState, Pdps, LinkStates, Addrs

LEMMA BearerType ==
  ASSUME NEW w \in LinkStates PROVE Bearer(w) \in [active : BOOLEAN, ims : BOOLEAN]
BY LinkAssumption DEF Bearer, LinkStates, Reports

LEMMA PdpType ==
  ASSUME NEW w \in LinkStates PROVE Pdp(w) \in Pdps
BY PdpStateType, BearerType DEF Pdp

LEMMA OfferType ==
  ASSUME offer \in Offers
  PROVE  /\ offer.kind \in {"data", "ims", "none"}
         /\ offer.v4 \in Addrs /\ offer.v6 \in Addrs \cup {ImsAddr}
BY DEF Offers, NoService, Ims, Data, Addrs

LEMMA DeactivateSound ==
  ASSUME NEW w, Sound(w) PROVE Sound(Deactivate(w))
BY DEF Sound, Deactivate, LinkStates, InService

LEMMA ActivateSound ==
  ASSUME NEW w, Sound(w), offer \in Offers PROVE Sound(Activate(w))
BY OfferType DEF Sound, Activate, LinkStates, InService

\* What dial() and redial() give: a sound link, success, and what pdp() said.
Attempts == [w : SoundLinks, ok : BOOLEAN, st : Pdps]

LEMMA DialledType ==
  ASSUME NEW w, Sound(w)
  PROVE  Dialled(w) \in Attempts /\ [Dialled(w) EXCEPT !.ok = FALSE] \in Attempts
<1>1. w \in LinkStates /\ Pdp(w) \in Pdps
  BY PdpType DEF Sound
<1>2. Pdp(w).active \in BOOLEAN
  BY <1>1 DEF Pdps
<1> QED
  BY <1>1, <1>2 DEF Dialled, Attempts, SoundLinks

LEMMA MovedAwaySound ==
  ASSUME NEW w, Sound(w), offer \in Offers PROVE Sound(MovedAway(w))
BY DeactivateSound, ActivateSound DEF MovedAway

LEMMA DialType ==
  ASSUME NEW w, Sound(w), offer \in Offers PROVE Dial(w) \in Attempts
<1> DEFINE up == [w EXCEPT !.ill = @ \ {"flight"}]
<1>1. Sound(up)
  BY DEF Sound, LinkStates, InService
<1> HIDE DEF up
<1>2. Sound(MovedAway(up))
  BY <1>1, MovedAwaySound
<1>3. Sound(IF UsableForData(Pdp(MovedAway(up))) THEN MovedAway(up) ELSE Activate(MovedAway(up)))
  BY <1>2, ActivateSound
<1> QED
  BY <1>1, <1>2, <1>3, DialledType DEF Dial, up

LEMMA NoAddrIsOne == NoAddr \in Addrs
BY DEF Addrs

\* The interfaces: what is written to uci and put up is an address.
LEMMA IfupV6Sound ==
  ASSUME NEW w, Sound(w) PROVE Sound(IfupV6(w))
<1> DEFINE a == IF V6Mode = "static" /\ w.main THEN w.uci6 ELSE NoAddr
<1>1. a \in Addrs \cup {ImsAddr} /\ Managed \in BOOLEAN
  BY NoAddrIsOne DEF Sound, LinkStates, Managed
<1>2. IfupV6(w) = [w EXCEPT !.sub = Managed, !.k6 = a]
  BY DEF IfupV6
<1> HIDE DEF a
<1> QED
  BY <1>1, <1>2 DEF Sound, LinkStates, InService

LEMMA EnsureIfaceSound ==
  ASSUME NEW w, Sound(w), NEW a4 \in Addrs, NEW a6 \in Addrs \cup {ImsAddr}
  PROVE  Sound(EnsureIface(w, a4, a6))
<1> DEFINE a == IF V6Mode # "static" THEN NoAddr
                ELSE IF a6 = NoAddr THEN w.uci6 ELSE a6
           u == [w EXCEPT !.uci4 = a4, !.main = TRUE, !.uci6 = a]
<1>1. a \in Addrs \cup {ImsAddr}
  BY NoAddrIsOne DEF Sound, LinkStates
<1> HIDE DEF a
<1>3. Sound(u)
  BY <1>1 DEF Sound, LinkStates, InService
<1> HIDE DEF u
<1>2. Sound(IfupV6(u))
  BY <1>3, IfupV6Sound
<1> QED
  BY <1>2 DEF EnsureIface, u, a

LEMMA ApplyAfterDialSound ==
  ASSUME NEW w, Sound(w), NEW a4 \in Addrs, NEW a6 \in Addrs \cup {ImsAddr}
  PROVE  Sound(ApplyAfterDial(w, a4, a6).w) /\ ApplyAfterDial(w, a4, a6).ok \in BOOLEAN
<1>1. Sound(EnsureIface(w, a4, a6))
  BY EnsureIfaceSound
<1> QED
  BY <1>1 DEF ApplyAfterDial

LEMMA ClearSessionAddressesSound ==
  ASSUME NEW w, Sound(w) PROVE Sound(ClearSessionAddresses(w))
BY DEF Sound, ClearSessionAddresses, LinkStates, InService, Addrs

LEMMA ApplyIpv6Sound ==
  ASSUME NEW w, Sound(w), NEW a6 \in Addrs \cup {ImsAddr} PROVE Sound(ApplyIpv6(w, a6))
<1> DEFINE u == [w EXCEPT !.uci6 = a6]
<1>1. Sound(u)
  BY DEF Sound, LinkStates, InService
<1> HIDE DEF u
<1>2. Sound(IfupV6(u)) /\ Sound(IfupV6(w))
  BY <1>1, IfupV6Sound
<1> QED
  BY <1>2 DEF ApplyIpv6, u

LEMMA RefreshIpv6Sound ==
  ASSUME NEW w, Sound(w) PROVE Sound(RefreshIpv6(w))
BY IfupV6Sound DEF RefreshIpv6

LEMMA BounceSound ==
  ASSUME NEW w, Sound(w)
  PROVE  Sound(BounceV4(w)) /\ Sound(BounceV6(w)) /\ Sound(BounceDataDev(w))
<1> DEFINE u == [w EXCEPT !.main = TRUE]
<1>1. Sound(u)
  BY DEF Sound, LinkStates, InService
<1> HIDE DEF u
<1>2. Sound(IfupV6(u)) /\ Sound(IfupV6(w))
  BY <1>1, IfupV6Sound
<1> QED
  BY <1>1, <1>2 DEF BounceV4, BounceV6, BounceDataDev, u

LEMMA ResetUsbSound ==
  ASSUME NEW w, Sound(w) PROVE Sound(ResetUsb(w))
<1> DEFINE u == [w EXCEPT !.ill = @ \ {"halted"}, !.rx = FALSE]
<1>1. Sound(u)
  BY DEF Sound, LinkStates, InService
<1> HIDE DEF u
<1>2. Sound(BounceDataDev(u))
  BY <1>1, BounceSound
<1> QED
  BY <1>2 DEF ResetUsb, u

LEMMA RebootSound ==
  ASSUME NEW w, Sound(w) PROVE Sound(Reboot(w))
BY NoAddrIsOne DEF Sound, Reboot, LinkStates, InService

LEMMA RedialSound ==
  ASSUME NEW w, Sound(w), offer \in Offers
  PROVE  Sound(Redial(w).w) /\ Redial(w).ok \in BOOLEAN
<1> DEFINE d == Dial(Deactivate(w))
           a == ApplyAfterDial(d.w, d.st.v4, d.st.v6)
<1>1. d \in Attempts
  BY DeactivateSound, DialType
<1> HIDE DEF d
<1>2. Sound(d.w) /\ d.ok \in BOOLEAN /\ d.st.v4 \in Addrs /\ d.st.v6 \in Addrs \cup {ImsAddr}
  BY <1>1 DEF Attempts, Pdps, SoundLinks
<1>3. Sound(a.w) /\ a.ok \in BOOLEAN
  BY <1>2, ApplyAfterDialSound
<1>4. Redial(w) = IF d.ok THEN a ELSE [w |-> d.w, ok |-> FALSE]
  BY DEF Redial, d
<1> HIDE DEF a
<1>5. CASE d.ok
  BY <1>3, <1>4, <1>5
<1>6. CASE ~d.ok
  <2>1. Redial(w) = [w |-> d.w, ok |-> FALSE]
    BY <1>4, <1>6
  <2> QED
    BY <2>1, <1>2
<1> QED
  BY <1>2, <1>5, <1>6

-----------------------------------------------------------------------------
(* DialWatch and V6Watch *)

\* What the handlers of drive() give, and what V6Watch's do.
Watched == [w : SoundLinks, d : DialStates]
Upkept == [w : SoundLinks, v : V6States]

\* The values the counters and the waits are set to are within their bounds.
LEMMA DialBounds ==
  /\ 0 \in 0..(NoAddrRounds - 1) /\ 0 \in 0..(NetRounds - 1)
  /\ 0 \in 0..RetryAfter /\ RetryAfter \in 0..RetryAfter
  /\ 0 \in 0..ImsBackoff /\ ImsBackoff \in 0..ImsBackoff
  /\ 0 \in 0..PollEvery /\ PollEvery \in 0..PollEvery
  /\ 0 \in 0..RefreshEvery /\ RefreshEvery \in 0..RefreshEvery
BY DialAssumption

LEMMA SoundIn == ASSUME NEW w, Sound(w) PROVE w \in SoundLinks
BY DEF SoundLinks, Sound

LEMMA WatchedIn ==
  ASSUME NEW w, Sound(w), NEW d \in DialStates PROVE [w |-> w, d |-> d] \in Watched
BY SoundIn DEF Watched

LEMMA ClearedType ==
  ASSUME NEW w, Sound(w), NEW d \in DialStates PROVE Cleared(w, d) \in Watched
<1>1. [d EXCEPT !.noAddr = 0, !.fail = 0, !.retry = RetryAfter] \in DialStates
  BY DialBounds DEF DialStates
<1> QED
  BY <1>1, ClearSessionAddressesSound, WatchedIn DEF Cleared

LEMMA DialFailedType ==
  ASSUME NEW w, Sound(w), NEW d \in DialStates PROVE DialFailed(w, d) \in Watched
<1>1. CASE d.fail + 1 >= NetRounds
  BY <1>1, ClearedType DEF DialFailed
<1>2. CASE ~(d.fail + 1 >= NetRounds)
  <2>1. d.fail + 1 \in 0..(NetRounds - 1)
    BY <1>2, DialAssumption DEF DialStates
  <2>2. [d EXCEPT !.fail = @ + 1] \in DialStates
    BY <2>1 DEF DialStates
  <2> QED
    BY <1>2, <2>2, WatchedIn DEF DialFailed
<1> QED
  BY <1>1, <1>2

LEMMA OnImsBearerType ==
  ASSUME NEW w, Sound(w), NEW d \in DialStates, offer \in Offers
  PROVE  OnImsBearer(w, d) \in Watched
<1> DEFINE r == Dial(ClearSessionAddresses(w))
           a == ApplyAfterDial(r.w, r.st.v4, r.st.v6)
           good == r.ok /\ UsableForData(r.st)
<1>1. r \in Attempts
  BY ClearSessionAddressesSound, DialType
<1> HIDE DEF r
<1>2. Sound(r.w) /\ r.st.v4 \in Addrs /\ r.st.v6 \in Addrs \cup {ImsAddr}
  BY <1>1 DEF Attempts, Pdps, SoundLinks
<1>3. Sound(a.w)
  BY <1>2, ApplyAfterDialSound
<1>4. Sound(IF good THEN a.w ELSE r.w)
  BY <1>2, <1>3
<1>5. /\ [d EXCEPT !.ims = 0, !.fail = 0, !.lastV6 = NoAddr] \in DialStates
      /\ [d EXCEPT !.ims = ImsBackoff] \in DialStates
  BY NoAddrIsOne, DialBounds DEF DialStates
<1>6. OnImsBearer(w, d) =
        IF d.ims > 0 THEN [w |-> w, d |-> d]
        ELSE IF r.ok /\ UsableForData(r.st) /\ a.ok
        THEN [w |-> a.w, d |-> [d EXCEPT !.ims = 0, !.fail = 0, !.lastV6 = NoAddr]]
        ELSE [w |-> IF good THEN a.w ELSE r.w, d |-> [d EXCEPT !.ims = ImsBackoff]]
  BY DEF OnImsBearer, r
<1> HIDE DEF a, good
<1> QED
  BY <1>3, <1>4, <1>5, <1>6, WatchedIn

LEMMA OnInactiveType ==
  ASSUME NEW w, Sound(w), NEW d \in DialStates, offer \in Offers
  PROVE  OnInactive(w, d) \in Watched
<1> DEFINE r == Dial(w)
           idle == [d EXCEPT !.noAddr = 0, !.lastV6 = NoAddr]
           a == ApplyAfterDial(r.w, r.st.v4, r.st.v6)
<1>1. r \in Attempts
  BY DialType
<1>2. idle \in DialStates /\ [idle EXCEPT !.fail = 0] \in DialStates
  BY NoAddrIsOne, DialBounds DEF DialStates
<1> HIDE DEF r, idle
<1>3. Sound(r.w) /\ r.st.v4 \in Addrs /\ r.st.v6 \in Addrs \cup {ImsAddr}
  BY <1>1 DEF Attempts, Pdps, SoundLinks
<1>4. Sound(a.w)
  BY <1>3, ApplyAfterDialSound
<1>5. DialFailed(r.w, idle) \in Watched
  BY <1>2, <1>3, DialFailedType
<1>6. OnInactive(w, d) = IF d.retry > 0 THEN [w |-> w, d |-> idle]
                         ELSE IF ~r.ok THEN DialFailed(r.w, idle)
                         ELSE [w |-> a.w, d |-> [idle EXCEPT !.fail = 0]]
  BY DEF OnInactive, r, idle
<1> HIDE DEF a
<1> QED
  BY <1>2, <1>4, <1>5, <1>6, WatchedIn

LEMMA OnActiveV4Type ==
  ASSUME NEW w, Sound(w), NEW st \in Pdps
  PROVE  Sound(OnActiveV4(w, st).w) /\ OnActiveV4(w, st).ok \in BOOLEAN
BY ApplyAfterDialSound DEF OnActiveV4, Pdps

LEMMA OnActiveWithoutV4Type ==
  ASSUME NEW w, Sound(w), NEW d \in DialStates, NEW st \in Pdps
  PROVE  OnActiveWithoutV4(w, d, st) \in Watched
<1> DEFINE a == ApplyAfterDial(w, NoAddr, st.v6)
           calm == [d EXCEPT !.fail = 0]
           found == [calm EXCEPT !.noAddr = 0, !.retry = 0]
<1>1. st.v6 \in Addrs \cup {ImsAddr} /\ Sound(a.w) /\ Sound(Deactivate(w))
  BY NoAddrIsOne, ApplyAfterDialSound, DeactivateSound DEF Pdps
<1>2. /\ calm \in DialStates /\ found \in DialStates
      /\ [found EXCEPT !.lastV6 = st.v6] \in DialStates
      /\ [calm EXCEPT !.noAddr = 0] \in DialStates
  BY <1>1, DialBounds DEF DialStates
<1>3. ASSUME d.noAddr + 1 < NoAddrRounds
      PROVE  [calm EXCEPT !.noAddr = @ + 1] \in DialStates
  <2>1. d.noAddr + 1 \in 0..(NoAddrRounds - 1) /\ calm.noAddr = d.noAddr
    BY <1>3, DialAssumption DEF DialStates
  <2> QED
    BY <1>2, <2>1 DEF DialStates
<1>4. Cleared(Deactivate(w), calm) \in Watched
  BY <1>1, <1>2, ClearedType
<1>5. OnActiveWithoutV4(w, d, st) =
        IF st.v6 # NoAddr
        THEN IF d.lastV6 # st.v6 /\ NeedsRefresh(w.k6, st.v6)
             THEN [w |-> a.w, d |-> IF a.ok THEN [found EXCEPT !.lastV6 = st.v6] ELSE found]
             ELSE [w |-> w, d |-> found]
        ELSE IF d.retry > 0 THEN [w |-> w, d |-> [calm EXCEPT !.noAddr = 0]]
        ELSE IF d.noAddr + 1 < NoAddrRounds THEN [w |-> w, d |-> [calm EXCEPT !.noAddr = @ + 1]]
        ELSE Cleared(Deactivate(w), calm)
  BY DEF OnActiveWithoutV4
<1> HIDE DEF a, calm, found
<1>6. (IF a.ok THEN [found EXCEPT !.lastV6 = st.v6] ELSE found) \in DialStates
  BY <1>2
<1> QED
  BY <1>1, <1>2, <1>3, <1>4, <1>5, <1>6, WatchedIn

LEMMA SyncModemType ==
  ASSUME NEW w, Sound(w), NEW u \in V6States, NEW a \in Addrs \cup {ImsAddr}
  PROVE  SyncModem(w, u, a) \in Upkept
<1>1. /\ [u EXCEPT !.poll = PollEvery, !.modem = a, !.sched = 0] \in V6States
      /\ [u EXCEPT !.poll = PollEvery, !.modem = a] \in V6States
  BY DialBounds DEF V6States
<1>2. w \in SoundLinks /\ ApplyIpv6(w, a) \in SoundLinks
  BY ApplyIpv6Sound, SoundIn
<1> QED
  BY <1>1, <1>2 DEF SyncModem, Upkept

LEMMA MaintainType ==
  ASSUME NEW w, Sound(w), NEW k6, NEW u \in V6States, NEW st \in Pdps, NEW unbound \in BOOLEAN
  PROVE  Maintain(w, k6, u, st, unbound) \in Upkept
<1>1. [u EXCEPT !.sched = 0] \in V6States
  BY DialBounds DEF V6States
<1>2. st.v6 \in Addrs \cup {ImsAddr}
  BY DEF Pdps
<1>3. w \in SoundLinks /\ RefreshIpv6(w) \in SoundLinks /\ ApplyIpv6(w, st.v6) \in SoundLinks
  BY <1>2, RefreshIpv6Sound, ApplyIpv6Sound, SoundIn
<1> QED
  BY <1>1, <1>3 DEF Maintain, Upkept

\* One tick of DialWatch and V6Watch.
LEMMA DriveType ==
  ASSUME TypeOK, Sound(link), NEW unbound \in BOOLEAN, Drive(unbound)
  PROVE  Sound(link') /\ dial' \in DialStates /\ v6' \in V6States /\ reading' = Unread
<1> DEFINE st     == PdpState(reading, link)
           synced == IF PollDue THEN SyncModem(link, v6, st.v6) ELSE [w |-> link, v |-> v6]
           put    == OnActiveV4(synced.w, st)
           k6     == IF put.ok THEN put.w.k6 ELSE synced.w.k6
           kept   == Maintain(put.w, k6, synced.v, st, unbound)
           acted  == IF st.ims THEN OnImsBearer(synced.w, dial)
                     ELSE IF ~st.active THEN OnInactive(synced.w, dial)
                     ELSE OnActiveWithoutV4(synced.w, dial, st)
           calm   == [dial EXCEPT !.noAddr = 0, !.fail = 0, !.retry = 0, !.lastV6 = NoAddr]
<1>1. dial \in DialStates /\ v6 \in V6States /\ offer \in Offers
  BY DEF TypeOK
<1>2. st \in Pdps
  BY PdpStateType DEF TypeOK
<1>3. st.v6 \in Addrs \cup {ImsAddr}
  BY <1>2 DEF Pdps
<1>4. synced \in Upkept
  <2>1. SyncModem(link, v6, st.v6) \in Upkept
    BY <1>1, <1>3, SyncModemType
  <2>2. [w |-> link, v |-> v6] \in Upkept
    BY <1>1, SoundIn DEF Upkept
  <2> QED
    BY <2>1, <2>2
<1>5. /\ reading' = Unread
      /\ \/ UNCHANGED <<dial, link, v6>>
         \/ link' = synced.w /\ v6' = synced.v /\ dial' = dial
         \/ link' = kept.w /\ v6' = kept.v /\ dial' = calm
         \/ link' = acted.w /\ v6' = synced.v /\ dial' = acted.d
  BY DEF Drive
<1> HIDE DEF st, synced
<1>6. Sound(synced.w) /\ synced.v \in V6States
  BY <1>4 DEF Upkept, SoundLinks
<1>7. Sound(put.w)
  BY <1>2, <1>6, OnActiveV4Type
<1> HIDE DEF put, k6
<1>8. kept \in Upkept
  BY <1>2, <1>6, <1>7, MaintainType
<1>9. acted \in Watched
  BY <1>1, <1>2, <1>6, OnImsBearerType, OnInactiveType, OnActiveWithoutV4Type
<1>10. calm \in DialStates
  BY <1>1, NoAddrIsOne, DialBounds DEF DialStates
<1> HIDE DEF kept, acted, calm
<1>11. Sound(kept.w) /\ kept.v \in V6States /\ Sound(acted.w) /\ acted.d \in DialStates
  BY <1>8, <1>9 DEF Upkept, Watched, SoundLinks
<1> QED
  BY <1>1, <1>5, <1>6, <1>10, <1>11

-----------------------------------------------------------------------------
(* DataGuard *)

LEMMA GuardBounds ==
  /\ 0 \in 0..DataRounds /\ 0 \in 0..UnboundRounds /\ 0 \in 0..Fallback
  /\ 0 \in 0..Cooldown /\ Cooldown \in 0..Cooldown
  /\ 0 \in 0..NetRounds /\ 0 \in 0..(NetRounds - 1)
BY GuardAssumption, DialAssumption

LEMMA CappedType ==
  ASSUME NEW n \in Nat, NEW cap \in Nat
  PROVE  /\ Capped(n, cap) \in 0..cap
         /\ n <= cap => Capped(n, cap) = n
         /\ n > cap => Capped(n, cap) = cap
BY DEF Capped

LEMMA LessType ==
  ASSUME NEW n \in Nat, NEW t \in Nat
  PROVE  Less(n, t) \in 0..n /\ Less(n, t) + t >= n
BY DEF Less

LEMMA AnsweredSound ==
  ASSUME NEW w, Sound(w), NEW sends \in BOOLEAN PROVE Sound(Answered(w, sends))
<1>1. (w.rx \/ (sends /\ w.active /\ "unbound" \notin w.ill)) \in BOOLEAN
  OBVIOUS
<1> QED
  BY <1>1 DEF Sound, Answered, LinkStates, InService

LEMMA ObservedType ==
  ASSUME NEW d \in DataStates, NEW sends \in BOOLEAN, NEW rx \in BOOLEAN
  PROVE  /\ Observed(d, sends, rx) \in DataStates
         /\ Observed(d, sends, rx).cool = d.cool
         /\ Observed(d, sends, rx).base
         /\ Observed(d, sends, rx).level = IF sends /\ d.base THEN 0 ELSE d.level
         /\ ~sends /\ d.base => Observed(d, sends, rx).stall # 0
<1> DEFINE rounds == IF sends /\ ~rx THEN Capped(d.unbRounds + 1, UnboundRounds) ELSE 0
           unbound == rounds >= UnboundRounds
           unbFor == IF unbound THEN d.unbFor ELSE 0
           stall == IF sends THEN 0 ELSE Capped(d.stall + 1, DataRounds)
           level == IF sends THEN 0 ELSE d.level
<1>1. /\ d.unbRounds + 1 \in Nat /\ d.stall + 1 \in Nat \ {0}
      /\ UnboundRounds \in Nat /\ DataRounds \in Nat \ {0}
  BY GuardAssumption DEF DataStates
<1>2. /\ Capped(d.unbRounds + 1, UnboundRounds) \in 0..UnboundRounds
      /\ Capped(d.stall + 1, DataRounds) \in 0..DataRounds
      /\ Capped(d.stall + 1, DataRounds) # 0
  BY <1>1, CappedType DEF Capped
<1>3. rounds \in 0..UnboundRounds /\ unbound \in BOOLEAN /\ stall \in 0..DataRounds
  BY <1>2, GuardBounds
<1>4. unbFor \in 0..Fallback /\ level \in 0..4
  BY GuardBounds DEF DataStates
<1>5. Observed(d, sends, rx) =
        IF ~d.base THEN [d EXCEPT !.base = TRUE]
        ELSE [d EXCEPT !.unbRounds = rounds, !.unbound = unbound, !.unbFor = unbFor,
                       !.stall = stall, !.level = level]
  BY DEF Observed
<1>6. stall = 0 => sends
  BY <1>2
<1>7. level = IF sends THEN 0 ELSE d.level
  OBVIOUS
<1> HIDE DEF rounds, unbound, unbFor, stall, level
<1> QED
  BY <1>3, <1>4, <1>5, <1>6, <1>7 DEF DataStates

LEMMA RepairsSound ==
  ASSUME NEW w, Sound(w), offer \in Offers, NEW level \in 1..4, NEW u \in Repairs(w, level)
  PROVE  Sound(u)
<1>1. CASE level = 1
  BY <1>1, ResetUsbSound DEF Repairs
<1>2. CASE level = 2
  BY <1>2, BounceSound DEF Repairs
<1>3. CASE level = 3
  BY <1>3, RedialSound DEF Repairs
<1>4. CASE level = 4
  BY <1>4, RebootSound DEF Repairs
<1> QED
  BY <1>1, <1>2, <1>3, <1>4

\* A tick of DataGuard: it acts a cooldown after it last did, and one step higher.
LEMMA DataTickType ==
  ASSUME TypeOK, Sound(link), ~data.base => data.level = 0, DataTick
  PROVE  /\ Sound(link') /\ data' \in DataStates /\ data'.base
         /\ UNCHANGED net
         /\ \/ /\ did' = {} /\ data'.cool = data.cool
               /\ data'.level = 0 \/ (data'.level = data.level /\ data'.stall # 0)
            \/ /\ data.cool = 0 /\ data'.cool = Cooldown
               /\ data'.level = Capped(data.level + 1, 4) /\ did' = {Steps[data'.level]}
<1>1. PICK sends \in Sends(link) :
        LET w     == Answered(link, sends)
            d     == Observed(data, sends, w.rx)
            level == Capped(d.level + 1, 4)
        IN  IF \/ ~data.base \/ sends \/ Suppressed(d)
               \/ ~DataGuardOn \/ d.stall < DataRounds \/ d.cool > 0
            THEN link' = w /\ data' = d /\ did' = {} /\ UNCHANGED net
            ELSE /\ link' \in Repairs(w, level)
                 /\ data' = [d EXCEPT !.level = level, !.cool = Cooldown, !.stall = 0]
                 /\ did' = {Steps[level]}
                 /\ UNCHANGED net
  BY DEF DataTick
<1> DEFINE w     == Answered(link, sends)
           d     == Observed(data, sends, w.rx)
           level == Capped(d.level + 1, 4)
           over  == \/ ~data.base \/ sends \/ Suppressed(d)
                    \/ ~DataGuardOn \/ d.stall < DataRounds \/ d.cool > 0
<1>2. sends \in BOOLEAN
  BY DEF Sends
<1>3. Sound(w) /\ w.rx \in BOOLEAN
  BY <1>2, AnsweredSound DEF Sound, LinkStates
<1>4. data \in DataStates
  BY DEF TypeOK
<1>5. /\ d \in DataStates /\ d.cool = data.cool /\ d.base
      /\ d.level = IF sends /\ data.base THEN 0 ELSE data.level
      /\ ~sends /\ data.base => d.stall # 0
  BY <1>2, <1>3, <1>4, ObservedType
<1>6. \/ over /\ link' = w /\ data' = d /\ did' = {} /\ UNCHANGED net
      \/ /\ ~over /\ link' \in Repairs(w, level)
         /\ data' = [d EXCEPT !.level = level, !.cool = Cooldown, !.stall = 0]
         /\ did' = {Steps[level]}
         /\ UNCHANGED net
  BY <1>1
<1> HIDE DEF w, d
<1>7. level \in 1..4 /\ d.level \in 0..4
  BY <1>5 DEF DataStates, Capped
<1>8. CASE over /\ link' = w /\ data' = d /\ did' = {} /\ UNCHANGED net
  BY <1>3, <1>5, <1>8
<1>9. CASE /\ ~over /\ link' \in Repairs(w, level)
           /\ data' = [d EXCEPT !.level = level, !.cool = Cooldown, !.stall = 0]
           /\ did' = {Steps[level]}
           /\ UNCHANGED net
  <2>1. Sound(link')
    BY <1>3, <1>7, <1>9, RepairsSound DEF TypeOK
  <2>2. data' \in DataStates /\ data'.base /\ data'.cool = Cooldown /\ data'.level = level
    <3> HIDE DEF level, over
    <3>1. level \in 0..4
      BY <1>7
    <3>2. data' = [d EXCEPT !.level = level, !.cool = Cooldown, !.stall = 0]
      BY <1>9
    <3>3. d \in DataStates /\ d.base
      BY <1>5
    <3> QED
      BY <3>1, <3>2, <3>3, GuardBounds DEF DataStates
  <2>3. data.cool = 0 /\ d.level = data.level
    BY <1>4, <1>5, <1>9 DEF DataStates
  <2> QED
    BY <1>9, <2>1, <2>2, <2>3
<1> QED
  BY <1>6, <1>8, <1>9

-----------------------------------------------------------------------------
(* NetGuard *)

Stacks == [{"v4", "v6"} -> StackStates]
Deeds == {"reset", "bounce", "redial", "reboot", "bounce4", "bounce6", "redial4", "redial6",
          "purify"}

\* What a part of NetGuard's tick gives.
Parts == [w : SoundLinks, n : Stacks, did : SUBSET Deeds, over : BOOLEAN]

\* What it does to the pause after a redial: a redial leaves IPv4 alone for a
\* cooldown, and IPv4 is redialled for only after its own.
Pauses(r, n) ==
  /\ r.n["v4"].cool \in {n["v4"].cool, Cooldown}
  /\ r.did \cap {"redial4", "redial6"} # {} => r.n["v4"].cool = Cooldown

LEMMA StackType ==
  ASSUME NEW c \in 0..Cooldown PROVE Stack(Healthy, c) \in StackStates /\ Stack(Healthy, c).cool = c
BY GuardBounds DEF Stack, Healthy, StackStates

LEMMA ActingType ==
  ASSUME NEW n \in Stacks, NEW stack \in {"v4", "v6"}, NEW level \in 0..2
  PROVE  /\ Acting(n, stack, level) \in Stacks
         /\ Acting(n, stack, level)[stack].cool = Cooldown
         /\ \A k \in {"v4", "v6"} \ {stack} : Acting(n, stack, level)[k] = n[k]
BY GuardBounds DEF Acting, Stacks, StackStates

LEMMA CalmType ==
  ASSUME NEW n \in Stacks, NEW stack \in {"v4", "v6"}
  PROVE  /\ Calm(n, stack) \in Stacks
         /\ \A k \in {"v4", "v6"} : Calm(n, stack)[k].cool = n[k].cool
<1>1. n[stack] \in StackStates /\ n[stack].cool \in 0..Cooldown
  BY DEF Stacks, StackStates
<1> QED
  BY <1>1, StackType DEF Calm, Stacks

LEMMA FailingType ==
  ASSUME NEW n \in Stacks, NEW stack \in {"v4", "v6"}
  PROVE  /\ Failing(n, stack) \in Stacks
         /\ \A k \in {"v4", "v6"} : Failing(n, stack)[k].cool = n[k].cool
<1>1. n[stack].fail + 1 \in Nat /\ NetRounds \in Nat
  BY DialAssumption DEF Stacks, StackStates
<1>2. Capped(n[stack].fail + 1, NetRounds) \in 0..NetRounds
  BY <1>1, CappedType
<1> QED
  BY <1>2 DEF Failing, Stacks, StackStates

LEMMA ForBothType ==
  ASSUME NEW n \in Stacks PROVE ForBoth(n) \in Stacks /\ ForBoth(n)["v4"].cool = Cooldown
<1>1. Acting(n, "v6", 1) \in Stacks
  BY ActingType
<1>2. Stack(Healthy, Cooldown) \in StackStates /\ Stack(Healthy, Cooldown).cool = Cooldown
  BY GuardBounds, StackType
<1> QED
  BY <1>1, <1>2 DEF ForBoth, Stacks

LEMMA RedialledType ==
  ASSUME NEW r, Sound(r.w), r.ok \in BOOLEAN, NEW n \in Stacks, NEW stack \in {"v4", "v6"},
         n["v4"].cool = Cooldown
  PROVE  Redialled(r, n, stack) \in Parts /\ Pauses(Redialled(r, n, stack), n)
<1> DEFINE redials == IF r.ok THEN 0 ELSE n[stack].redials + 1
           both == [v4 |-> Stack(Healthy, n.v4.cool), v6 |-> Stack(Healthy, n.v6.cool)]
<1>1. redials \in Nat
  BY DEF Stacks, StackStates
<1>2. Sound(ClearSessionAddresses(r.w))
  BY ClearSessionAddressesSound
<1>3. both \in Stacks /\ both["v4"].cool = Cooldown
  BY StackType, GuardBounds DEF Stacks, StackStates
<1>4. {RedialOf[stack]} \in SUBSET Deeds /\ {RedialOf[stack], "purify"} \in SUBSET Deeds
  BY DEF RedialOf, Deeds
<1>5. Redialled(r, n, stack) =
        IF redials < NetRounds
        THEN Went(r.w, [n EXCEPT ![stack].redials = redials], {RedialOf[stack]}, TRUE)
        ELSE Went(ClearSessionAddresses(r.w), both, {RedialOf[stack], "purify"}, TRUE)
  BY DEF Redialled
<1> HIDE DEF redials, both
<1>6. CASE redials < NetRounds
  <2>1. redials \in 0..(NetRounds - 1)
    BY <1>1, <1>6, DialAssumption
  <2>2. /\ [n EXCEPT ![stack].redials = redials] \in Stacks
        /\ [n EXCEPT ![stack].redials = redials]["v4"].cool = Cooldown
    BY <2>1 DEF Stacks, StackStates
  <2> QED
    BY <1>4, <1>5, <1>6, <2>2, SoundIn DEF Went, Parts, Pauses
<1>7. CASE ~(redials < NetRounds)
  BY <1>2, <1>3, <1>4, <1>5, <1>7, SoundIn DEF Went, Parts, Pauses
<1> QED
  BY <1>6, <1>7

\* A part that does not redial.
LEMMA PartIn ==
  ASSUME NEW w, Sound(w), NEW n \in Stacks, NEW m \in Stacks,
         m["v4"].cool \in {n["v4"].cool, Cooldown},
         NEW what \in SUBSET {"bounce4", "bounce6"}
  PROVE  /\ Went(w, m, what, FALSE) \in Parts /\ Went(w, m, what, TRUE) \in Parts
         /\ Pauses(Went(w, m, what, FALSE), n) /\ Pauses(Went(w, m, what, TRUE), n)
BY SoundIn DEF Went, Parts, Pauses, Deeds

LEMMA TickV4Type ==
  ASSUME NEW w, Sound(w), NEW n \in Stacks, offer \in Offers
  PROVE  /\ TickV4(w, n) \in Parts
         /\ Pauses(TickV4(w, n), n)
         /\ "redial4" \in TickV4(w, n).did => n["v4"].cool = 0
<1>1. CASE Kernel4(w) = NoAddr \/ Reachable4(w)
  <2>1. TickV4(w, n) = Went(w, Calm(n, "v4"), {}, FALSE)
    BY <1>1 DEF TickV4
  <2>2. /\ Calm(n, "v4") \in Stacks
        /\ Calm(n, "v4")["v4"].cool = n["v4"].cool
    BY CalmType
  <2>8. TickV4(w, n) \in Parts /\ Pauses(TickV4(w, n), n)
    BY <2>1, <2>2, PartIn
  <2>9. "redial4" \notin TickV4(w, n).did
    BY <2>1 DEF Went
  <2> QED
    BY <2>8, <2>9
<1>2. CASE ~(Kernel4(w) = NoAddr \/ Reachable4(w)) /\ ~Due(n, "v4")
  <2>1. TickV4(w, n) = Went(w, Failing(n, "v4"), {}, FALSE)
    BY <1>2 DEF TickV4
  <2>2. /\ Failing(n, "v4") \in Stacks
        /\ Failing(n, "v4")["v4"].cool = n["v4"].cool
    BY FailingType
  <2>8. TickV4(w, n) \in Parts /\ Pauses(TickV4(w, n), n)
    BY <2>1, <2>2, PartIn
  <2>9. "redial4" \notin TickV4(w, n).did
    BY <2>1 DEF Went
  <2> QED
    BY <2>8, <2>9
<1>3. CASE ~(Kernel4(w) = NoAddr \/ Reachable4(w)) /\ Due(n, "v4") /\ n.v4.level = 0
  <2>1. TickV4(w, n) = Went(BounceV4(w), Acting(n, "v4", 1), {"bounce4"}, FALSE)
    BY <1>3 DEF TickV4
  <2>2. Sound(BounceV4(w)) /\ Acting(n, "v4", 1) \in Stacks 
    BY BounceSound, ActingType
  <2>3. Acting(n, "v4", 1)["v4"].cool = Cooldown
    BY ActingType
  <2>8. TickV4(w, n) \in Parts /\ Pauses(TickV4(w, n), n)
    BY <2>1, <2>2, <2>3, PartIn
  <2>9. "redial4" \notin TickV4(w, n).did
    BY <2>1 DEF Went
  <2> QED
    BY <2>8, <2>9
<1>4. CASE ~(Kernel4(w) = NoAddr \/ Reachable4(w)) /\ Due(n, "v4") /\ n.v4.level # 0
  <2>1. TickV4(w, n) = Redialled(Redial(w), Acting(n, "v4", 2), "v4")
    BY <1>4 DEF TickV4
  <2>2. Acting(n, "v4", 2) \in Stacks /\ Acting(n, "v4", 2)["v4"].cool = Cooldown
    BY ActingType
  <2>3. Sound(Redial(w).w) /\ Redial(w).ok \in BOOLEAN
    BY RedialSound
  <2>4. TickV4(w, n) \in Parts /\ Pauses(TickV4(w, n), Acting(n, "v4", 2))
    BY <2>1, <2>2, <2>3, RedialledType
  <2>5. n["v4"].cool = 0
    BY <1>4 DEF Due
  <2> QED
    BY <2>2, <2>4, <2>5 DEF Pauses
<1> QED
  BY <1>1, <1>2, <1>3, <1>4

LEMMA TickV6Type ==
  ASSUME NEW w, Sound(w), NEW n \in Stacks, offer \in Offers
  PROVE  /\ TickV6(w, n) \in Parts
         /\ Pauses(TickV6(w, n), n)
         /\ TickV6(w, n).did \subseteq {"bounce6", "redial6", "purify"}
<1>1. CASE w.k6 = NoAddr \/ Reachable6(w)
  <2>1. TickV6(w, n) = Went(w, Calm(n, "v6"), {}, TRUE)
    BY <1>1 DEF TickV6
  <2>2. /\ Calm(n, "v6") \in Stacks
        /\ Calm(n, "v6")["v4"].cool = n["v4"].cool
    BY CalmType
  <2>8. TickV6(w, n) \in Parts /\ Pauses(TickV6(w, n), n)
    BY <2>1, <2>2, PartIn
  <2>9. TickV6(w, n).did \subseteq {"bounce6"}
    BY <2>1 DEF Went
  <2> QED
    BY <2>8, <2>9
<1>2. CASE ~(w.k6 = NoAddr \/ Reachable6(w)) /\ ~Due(n, "v6")
  <2>1. TickV6(w, n) = Went(w, Failing(n, "v6"), {}, TRUE)
    BY <1>2 DEF TickV6
  <2>2. /\ Failing(n, "v6") \in Stacks
        /\ Failing(n, "v6")["v4"].cool = n["v4"].cool
    BY FailingType
  <2>8. TickV6(w, n) \in Parts /\ Pauses(TickV6(w, n), n)
    BY <2>1, <2>2, PartIn
  <2>9. TickV6(w, n).did \subseteq {"bounce6"}
    BY <2>1 DEF Went
  <2> QED
    BY <2>8, <2>9
<1>3. CASE ~(w.k6 = NoAddr \/ Reachable6(w)) /\ Due(n, "v6") /\ (n.v6.level = 0 \/ V4Works(w))
  <2> DEFINE m == Acting(n, "v6", 1)
             o == [m EXCEPT !.v6.redials = 0]
  <2>1. TickV6(w, n) \in {Went(BounceV6(w), m, {"bounce6"}, TRUE),
                          Went(BounceV6(w), o, {"bounce6"}, TRUE)}
    BY <1>3 DEF TickV6
  <2>2. Sound(BounceV6(w)) 
    BY BounceSound
  <2>3. m \in Stacks /\ m["v4"] = n["v4"]
    BY ActingType
  <2> HIDE DEF m
  <2>4. o \in Stacks /\ o["v4"] = n["v4"]
    BY <2>3, GuardBounds DEF Stacks, StackStates
  <2> HIDE DEF o
  <2>5. CASE TickV6(w, n) = Went(BounceV6(w), m, {"bounce6"}, TRUE)
    <3>1. TickV6(w, n) \in Parts /\ Pauses(TickV6(w, n), n)
      BY <2>2, <2>3, <2>5, PartIn
    <3> QED
      BY <2>5, <3>1 DEF Went
  <2>6. CASE TickV6(w, n) = Went(BounceV6(w), o, {"bounce6"}, TRUE)
    <3>1. TickV6(w, n) \in Parts /\ Pauses(TickV6(w, n), n)
      BY <2>2, <2>4, <2>6, PartIn
    <3> QED
      BY <2>6, <3>1 DEF Went
  <2> QED
    BY <2>1, <2>5, <2>6
<1>4. CASE ~(w.k6 = NoAddr \/ Reachable6(w)) /\ Due(n, "v6") /\ ~(n.v6.level = 0 \/ V4Works(w))
  <2>1. TickV6(w, n) = Redialled(Redial(w), ForBoth(n), "v6")
    BY <1>4 DEF TickV6
  <2>2. ForBoth(n) \in Stacks /\ ForBoth(n)["v4"].cool = Cooldown
    BY ForBothType
  <2>3. Sound(Redial(w).w) /\ Redial(w).ok \in BOOLEAN
    BY RedialSound
  <2>4. TickV6(w, n) \in Parts /\ Pauses(TickV6(w, n), ForBoth(n))
    BY <2>1, <2>2, <2>3, RedialledType
  <2>5. TickV6(w, n).did \in {{"redial6"}, {"redial6", "purify"}}
    BY <2>1 DEF Redialled, Went, RedialOf
  <2> QED
    BY <2>2, <2>4, <2>5 DEF Pauses
<1> QED
  BY <1>1, <1>2, <1>3, <1>4

LEMMA ThenV6Type ==
  ASSUME NEW n \in Stacks, NEW first \in Parts, Pauses(first, n), offer \in Offers
  PROVE  /\ ThenV6(first) \in Parts
         /\ Pauses(ThenV6(first), n)
         /\ "redial4" \in ThenV6(first).did => "redial4" \in first.did
<1>1. CASE first.over
  BY <1>1 DEF ThenV6
<1>2. CASE ~first.over
  <2> DEFINE last == TickV6(first.w, first.n)
             r == [last EXCEPT !.did = @ \cup first.did]
  <2>1. Sound(first.w) /\ first.n \in Stacks /\ first.did \in SUBSET Deeds
    BY DEF Parts, SoundLinks
  <2>2. /\ last \in Parts /\ Pauses(last, first.n)
        /\ last.did \subseteq {"bounce6", "redial6", "purify"}
    BY <2>1, TickV6Type
  <2>3. ThenV6(first) = r
    BY <1>2 DEF ThenV6
  <2> HIDE DEF last
  <2>4. r \in Parts /\ r.n = last.n /\ r.did = last.did \cup first.did
    BY <2>1, <2>2 DEF Parts
  <2> HIDE DEF r
  <2>5. Pauses(r, n)
    BY <2>2, <2>4 DEF Pauses
  <2> QED
    BY <2>2, <2>3, <2>4, <2>5
<1> QED
  BY <1>1, <1>2

\* A tick of NetGuard.
LEMMA NetTickType ==
  ASSUME TypeOK, Sound(link), NetTick
  PROVE  /\ Sound(link') /\ net' \in Stacks /\ did' \in SUBSET Deeds /\ dial' \in DialStates
         /\ net'["v4"].cool \in {net["v4"].cool, Cooldown}
         /\ did' \cap {"redial4", "redial6"} # {} => net'["v4"].cool = Cooldown
         /\ "redial4" \in did' => net["v4"].cool = 0
<1>1. net \in Stacks /\ dial \in DialStates /\ offer \in Offers
  BY DEF TypeOK, Stacks
<1>2. CASE did' = {} /\ UNCHANGED <<link, net, dial>>
  BY <1>1, <1>2
<1>3. CASE NetEnds(ThenV6(TickV4(link, net)))
  <2> DEFINE first == TickV4(link, net)
             r == ThenV6(first)
  <2>1. first \in Parts /\ Pauses(first, net) /\ ("redial4" \in first.did => net["v4"].cool = 0)
    BY <1>1, TickV4Type
  <2>2. NetEnds(r)
    BY <1>3
  <2> HIDE DEF first
  <2>3. r \in Parts /\ Pauses(r, net) /\ ("redial4" \in r.did => "redial4" \in first.did)
    BY <1>1, <2>1, ThenV6Type
  <2> HIDE DEF r
  <2>4. link' = r.w /\ net' = r.n /\ did' = r.did
    BY <2>2 DEF NetEnds
  <2>5. Sound(link') /\ net' \in Stacks /\ did' \in SUBSET Deeds
    BY <2>3, <2>4 DEF Parts, SoundLinks
  <2>6. [dial EXCEPT !.noAddr = 0, !.fail = 0, !.retry = RetryAfter] \in DialStates
    BY <1>1, DialBounds DEF DialStates
  <2>7. dial' \in DialStates
    BY <1>1, <2>2, <2>6 DEF NetEnds
  <2> QED
    BY <2>1, <2>3, <2>4, <2>5, <2>7 DEF Pauses
<1> QED
  BY <1>2, <1>3 DEF NetTick

-----------------------------------------------------------------------------
(* The invariant *)

LEMMA Initial == Init => IInv
<1> SUFFICES ASSUME Init PROVE IInv
  OBVIOUS
<1> USE NoAddrIsOne
<1>1. Sound(link)
  <2>1. PICK s \in Sessions :
          link = [active |-> FALSE, ims |-> FALSE, v4 |-> NoAddr, v6 |-> NoAddr,
                  uci4 |-> s.v4, uci6 |-> IF V6Mode = "static" THEN s.v6 ELSE NoAddr,
                  main |-> TRUE, sub |-> Managed,
                  k6 |-> IF V6Mode = "static" THEN s.v6 ELSE NoAddr, rx |-> FALSE, ill |-> {}]
    BY DEF Init, LinkInit
  <2>2. s.v4 \in Addrs /\ s.v6 \in Addrs /\ Managed \in BOOLEAN
    BY DEF Addrs, Managed
  <2> QED
    BY <2>1, <2>2 DEF Sound, LinkStates
<1>2. dial \in DialStates /\ v6 \in V6States
  BY DialBounds DEF Init, DialInit, DialStates, V6States
<1>3. data \in DataStates
  BY GuardBounds DEF Init, GuardInit, DataStates
<1>4. net \in [{"v4", "v6"} -> StackStates]
  BY GuardBounds, StackType DEF Init, GuardInit, Rested
<1>5. history \in [redial : 0..Cooldown, progress : 0..Longest]
  BY GuardAssumption DEF Init, Longest
<1>6. TypeOK
  BY <1>1, <1>2, <1>3, <1>4, <1>5, LinkAssumption
  DEF Init, LinkInit, DialInit, GuardInit, Unread, TypeOK, Sound
<1>7. LeftAlone
  <2>1. net["v4"].cool \in 0..Cooldown /\ history.redial = Cooldown
    BY <1>4 DEF Init, StackStates
  <2> QED
    BY <2>1, GuardAssumption DEF LeftAlone
<1>8. Climbed /\ Forgotten
  BY DEF Init, GuardInit, Climbed, Forgotten
<1> QED
  BY <1>1, <1>6, <1>7, <1>8 DEF IInv

\* A step of the round or the surroundings that leaves offer alone keeps the
\* link sound.
LEMMA SoundPrimed ==
  ASSUME Sound(link'), offer' = offer PROVE Sound(link)'
BY DEF Sound, LinkStates, InService, Addrs

LEMMA TypePrimed ==
  ASSUME link' \in LinkStates, offer' \in Offers, faults' \in 0..MaxFaults,
         dial' \in DialStates, v6' \in V6States, reading' \in [active : BOOLEAN, ims : BOOLEAN],
         data' \in DataStates, net' \in Stacks, did' \in SUBSET Deeds,
         pc' \in {"read", "drive", "data", "net", "sleep"},
         history' \in [redial : 0..Cooldown, progress : 0..Longest]
  PROVE  TypeOK'
BY DEF TypeOK, LinkStates, Addrs, Offers, NoService, Ims, Data, DialStates, V6States,
   DataStates, Stacks, StackStates, Longest, Deeds

LEMMA ReadKeeps ==
  ASSUME IInv, Read PROVE IInv'
<1>1. reading' \in [active : BOOLEAN, ims : BOOLEAN]
  BY BearerType DEF Read, ReadBearer, IInv, Sound
<1>2. TypeOK'
  BY <1>1, TypePrimed
  DEF IInv, TypeOK, Read, Turn, After, linkVars, guardVars, Stacks, Deeds
<1>3. Sound(link)'
  BY SoundPrimed DEF IInv, Read, linkVars
<1>4. Forgotten' /\ Climbed' /\ LeftAlone'
  BY DEF IInv, TypeOK, Read, Turn, After, guardVars, Forgotten, Climbed, LeftAlone
<1> QED
  BY <1>2, <1>3, <1>4 DEF IInv

LEMMA DialKeeps ==
  ASSUME IInv, DialStep PROVE IInv'
<1>1. data.unbound \in BOOLEAN /\ reading \in [active : BOOLEAN, ims : BOOLEAN]
  BY DEF IInv, TypeOK, DataStates
<1>2. Sound(link') /\ dial' \in DialStates /\ v6' \in V6States /\ reading' = Unread
  BY <1>1, DriveType DEF IInv, DialStep
<1>3. TypeOK'
  BY <1>2, TypePrimed
  DEF IInv, TypeOK, Sound, Unread, DialStep, Turn, After, guardVars, Stacks, Deeds
<1>4. Sound(link)'
  BY <1>2, SoundPrimed DEF DialStep
<1>5. Forgotten' /\ Climbed' /\ LeftAlone'
  BY DEF IInv, TypeOK, DialStep, Turn, After, guardVars, Forgotten, Climbed, LeftAlone
<1> QED
  BY <1>3, <1>4, <1>5 DEF IInv

\* The ladder is climbed a step at a time, with the pause of the last one over.
LEMMA DataKeeps ==
  ASSUME IInv, DataStep PROVE IInv'
<1>1. /\ Sound(link') /\ data' \in DataStates /\ data'.base /\ UNCHANGED net
      /\ \/ /\ did' = {} /\ data'.cool = data.cool
            /\ data'.level = 0 \/ (data'.level = data.level /\ data'.stall # 0)
         \/ /\ data.cool = 0 /\ data'.cool = Cooldown
            /\ data'.level = Capped(data.level + 1, 4) /\ did' = {Steps[data'.level]}
  BY DataTickType DEF IInv, Climbed, DataStep
<1>2. /\ history.progress \in 0..Longest /\ history.redial \in 0..Cooldown
      /\ Longest \in Nat /\ Cooldown \in Nat
  BY GuardAssumption DEF IInv, TypeOK, Longest
<1>3. /\ history' \in [redial : 0..Cooldown, progress : 0..Longest]
      /\ history'.redial = history.redial
      /\ history'.progress = IF data'.stall = 0 /\ did' = {} THEN 0 ELSE history.progress
  <2>1. (IF data'.stall = 0 /\ did' = {} THEN 0 ELSE history.progress) \in 0..Longest
    BY <1>2
  <2> QED
    BY <2>1 DEF DataStep, IInv, TypeOK
<1>4. /\ data.level \in 0..4 /\ data.cool \in 0..Cooldown
      /\ data'.level \in 0..4 /\ data'.cool \in 0..Cooldown
  BY <1>1 DEF IInv, TypeOK, DataStates
<1>5. did' \in SUBSET Deeds
  BY <1>1, <1>4, GuardAssumption DEF Steps, Deeds, Capped
<1>6. TypeOK'
  BY <1>1, <1>3, <1>5, TypePrimed
  DEF IInv, TypeOK, Sound, DataStep, Turn, After, dialVars, Stacks
<1>7. Sound(link)'
  BY <1>1, SoundPrimed DEF DataStep
<1>8. Climbed'
  <2>1. CASE did' = {} /\ data'.level = 0
    BY <1>1, <2>1 DEF Climbed
  <2>2. CASE did' = {} /\ data'.cool = data.cool /\ data'.level = data.level /\ data'.stall # 0
    BY <1>1, <1>3, <2>2 DEF IInv, Climbed
  <2>3. CASE /\ data.cool = 0 /\ data'.cool = Cooldown
             /\ data'.level = Capped(data.level + 1, 4) /\ did' = {Steps[data'.level]}
    <3>1. history'.progress = history.progress
      BY <1>3, <2>3
    <3>2. /\ data'.level >= 2 => data.level >= 1
          /\ data'.level >= 3 => data.level >= 2
      BY <1>4, <2>3 DEF Capped
    <3>3. /\ data.level >= 1 => history.progress >= Cooldown
          /\ data.level >= 2 => history.progress >= 2 * Cooldown
      BY <1>2, <2>3 DEF IInv, Climbed
    <3> QED
      BY <1>1, <1>2, <2>3, <3>1, <3>2, <3>3 DEF Climbed
  <2> QED
    BY <1>1, <2>1, <2>2, <2>3
<1>9. Forgotten' /\ LeftAlone'
  BY <1>1, <1>3 DEF IInv, TypeOK, DataStep, Turn, After, Forgotten, LeftAlone
<1> QED
  BY <1>6, <1>7, <1>8, <1>9 DEF IInv

LEMMA NetKeeps ==
  ASSUME IInv, NetStep PROVE IInv'
<1>1. /\ Sound(link') /\ net' \in Stacks /\ did' \in SUBSET Deeds /\ dial' \in DialStates
      /\ net'["v4"].cool \in {net["v4"].cool, Cooldown}
      /\ did' \cap {"redial4", "redial6"} # {} => net'["v4"].cool = Cooldown
  BY NetTickType DEF IInv, NetStep
<1>2. /\ history.progress \in 0..Longest /\ history.redial \in 0..Cooldown
      /\ Longest \in Nat /\ Cooldown \in Nat \ {0}
      /\ net["v4"].cool \in 0..Cooldown
  BY GuardAssumption DEF IInv, TypeOK, Longest, StackStates
<1>3. /\ history' \in [redial : 0..Cooldown, progress : 0..Longest]
      /\ history'.progress = history.progress
      /\ history'.redial = IF did' \cap {"redial4", "redial6"} # {} THEN 0 ELSE history.redial
  <2>1. (IF did' \cap {"redial4", "redial6"} # {} THEN 0 ELSE history.redial) \in 0..Cooldown
    BY <1>2
  <2> QED
    BY <2>1 DEF NetStep, IInv, TypeOK
<1>4. TypeOK'
  BY <1>1, <1>3, TypePrimed DEF IInv, TypeOK, Sound, NetStep, Turn, After
<1>5. Sound(link)'
  BY <1>1, SoundPrimed DEF NetStep
<1>6. LeftAlone'
  BY <1>1, <1>2, <1>3 DEF IInv, LeftAlone
<1>7. Climbed' /\ Forgotten'
  BY <1>3 DEF IInv, TypeOK, NetStep, Turn, After, Climbed, Forgotten
<1> QED
  BY <1>4, <1>5, <1>6, <1>7 DEF IInv

\* What goes by of a wait is counted as progress lost and as time since.
LEMMA SleepKeeps ==
  ASSUME IInv, NEW t \in Lengths, Sleep(t) PROVE IInv'
<1>1. /\ t \in Nat /\ Cooldown \in Nat /\ Longest \in Nat /\ Longest = 3 * Cooldown
      /\ RetryAfter \in Nat /\ ImsBackoff \in Nat /\ PollEvery \in Nat /\ RefreshEvery \in Nat
      /\ Fallback \in Nat
  BY LengthAssumption, GuardAssumption, DialAssumption DEF Longest
<1>2. /\ dial.retry \in Nat /\ dial.retry <= RetryAfter
      /\ dial.ims \in Nat /\ dial.ims <= ImsBackoff
      /\ v6.poll \in Nat /\ v6.poll <= PollEvery /\ v6.sched \in Nat
      /\ data.cool \in Nat /\ data.cool <= Cooldown
      /\ data.unbFor \in Nat /\ data.unbFor <= Fallback
      /\ data.level \in 0..4
      /\ \A k \in {"v4", "v6"} : net[k].cool \in Nat /\ net[k].cool <= Cooldown
      /\ history.redial \in Nat /\ history.progress \in Nat
  BY <1>1 DEF IInv, TypeOK, DialStates, V6States, DataStates, StackStates
<1>3. dial' \in DialStates
  <2>1. Less(dial.retry, t) \in 0..RetryAfter /\ Less(dial.ims, t) \in 0..ImsBackoff
    BY <1>1, <1>2 DEF Less
  <2> QED
    BY <2>1 DEF Sleep, DialTime, IInv, TypeOK, DialStates
<1>4. v6' \in V6States
  <2>1. /\ Less(v6.poll, t) \in 0..PollEvery
        /\ (IF v6.sched + t > RefreshEvery THEN RefreshEvery ELSE v6.sched + t) \in 0..RefreshEvery
    BY <1>1, <1>2 DEF Less
  <2> QED
    BY <2>1 DEF Sleep, DialTime, IInv, TypeOK, V6States
<1>5. /\ data' \in DataStates /\ data'.cool = Less(data.cool, t)
      /\ data'.level = data.level /\ data'.base = data.base
  <2> DEFINE c == Less(data.cool, t)
             f == IF data.unbound THEN Capped(data.unbFor + t, Fallback) ELSE data.unbFor
  <2>1. c \in 0..Cooldown /\ f \in 0..Fallback
    BY <1>1, <1>2 DEF Less, Capped
  <2>2. data' = [data EXCEPT !.cool = c, !.unbFor = f]
    BY DEF Sleep, GuardTime
  <2>3. c = Less(data.cool, t)
    OBVIOUS
  <2> HIDE DEF c, f
  <2> QED
    BY <2>1, <2>2, <2>3 DEF IInv, TypeOK, DataStates
<1>6. net' \in Stacks /\ net'["v4"].cool = Less(net["v4"].cool, t)
  <2>1. \A k \in {"v4", "v6"} : Less(net[k].cool, t) \in 0..Cooldown
    BY <1>1, <1>2 DEF Less
  <2>2. \A k \in {"v4", "v6"} : [net[k] EXCEPT !.cool = Less(@, t)] \in StackStates
    BY <2>1 DEF IInv, TypeOK, StackStates
  <2>3. net' = [k \in {"v4", "v6"} |-> [net[k] EXCEPT !.cool = Less(@, t)]]
    BY DEF Sleep, GuardTime
  <2>4. net["v4"] \in StackStates
    BY DEF IInv, TypeOK
  <2> QED
    BY <2>2, <2>3, <2>4 DEF Stacks, StackStates
<1>7. /\ history' = [redial |-> Capped(history.redial + t, Cooldown),
                     progress |-> Capped(history.progress + t, Longest)]
      /\ did' = {} /\ did' \in SUBSET Deeds
  BY DEF Sleep, GuardTime, Deeds
<1>8. TypeOK'
  <2>1. history' \in [redial : 0..Cooldown, progress : 0..Longest]
    BY <1>1, <1>2, <1>7 DEF Capped
  <2> QED
    BY <1>3, <1>4, <1>5, <1>6, <1>7, <2>1, TypePrimed
    DEF IInv, TypeOK, Sleep, Turn, After, linkVars
<1>9. Sound(link)'
  BY SoundPrimed DEF IInv, Sleep, linkVars
<1>10. Climbed'
  <2>1. history'.progress = Capped(history.progress + t, Longest)
    BY <1>7
  <2>2. \/ history'.progress + data'.cool >= history.progress + data.cool
        \/ history'.progress = Longest
    BY <1>1, <1>2, <1>5, <2>1 DEF Less, Capped
  <2>3. /\ data'.cool \in Nat /\ history'.progress \in Nat
    BY <1>1, <1>2, <1>5, <2>1 DEF Less, Capped
  <2> QED
    BY <1>1, <1>2, <1>5, <2>2, <2>3 DEF IInv, Climbed
<1>11. LeftAlone'
  <2>1. history'.redial = Capped(history.redial + t, Cooldown)
    BY <1>7
  <2> QED
    BY <1>1, <1>2, <1>6, <2>1 DEF IInv, LeftAlone, Less, Capped
<1>12. Forgotten'
  BY <1>7 DEF Forgotten
<1> QED
  BY <1>8, <1>9, <1>10, <1>11, <1>12 DEF IInv

LEMMA RestartKeeps ==
  ASSUME IInv, Restart PROVE IInv'
<1>1. dial' \in DialStates /\ v6' \in V6States
  BY NoAddrIsOne, DialBounds DEF Restart, DialStates, V6States
<1>2. data' \in DataStates
  BY GuardBounds DEF Restart, DataStates
<1>3. net' \in Stacks /\ net'["v4"].cool = 0
  BY StackType, GuardBounds DEF Restart, Rested, Stacks
<1>4. history' \in [redial : 0..Cooldown, progress : 0..Longest] /\ history'.redial = Cooldown
  BY GuardAssumption DEF Restart, Longest
<1>5. faults' \in 0..MaxFaults
  BY LinkAssumption DEF Restart, Worse, IInv, TypeOK
<1>6. TypeOK'
  BY <1>1, <1>2, <1>3, <1>4, <1>5, TypePrimed DEF Restart, Unread, IInv, TypeOK, Deeds
<1>7. Sound(link)'
  BY SoundPrimed DEF IInv, Restart
<1>8. LeftAlone'
  BY <1>3, <1>4, GuardAssumption DEF LeftAlone
<1>9. Climbed' /\ Forgotten'
  BY DEF Restart, Climbed, Forgotten
<1> QED
  BY <1>6, <1>7, <1>8, <1>9 DEF IInv

\* The surroundings: an active context is one the network serves.
LEMMA SurroundingsType ==
  ASSUME TypeOK, Sound(link), Surroundings
  PROVE  /\ link' \in LinkStates /\ offer' \in Offers /\ faults' \in 0..MaxFaults
         /\ link'.active => offer'.kind # "none" /\ link'.ill \cap {"flight", "off"} = {}
<1>1. /\ link \in LinkStates /\ offer \in Offers /\ faults \in 0..MaxFaults
      /\ link.active => offer.kind # "none" /\ link.ill \cap {"flight", "off"} = {}
  BY DEF TypeOK, Sound, InService
<1>2. ASSUME Worse PROVE faults' \in 0..MaxFaults
  BY <1>1, <1>2, LinkAssumption DEF Worse
<1>3. CASE Detach
  BY <1>1, <1>2, <1>3 DEF Detach, LinkStates
<1>4. ASSUME NEW o \in Offers, ChangeOffer(o)
      PROVE  /\ link' \in LinkStates /\ offer' \in Offers /\ faults' \in 0..MaxFaults
             /\ link'.active => offer'.kind # "none" /\ link'.ill \cap {"flight", "off"} = {}
  <2>1. o.v4 \in Addrs /\ o.v6 \in Addrs \cup {ImsAddr}
    BY NoAddrIsOne DEF Offers, NoService, Ims, Data, Addrs
  <2>2. offer' = o /\ faults' \in 0..MaxFaults
    BY <1>2, <1>4 DEF ChangeOffer
  <2>3. CASE o.kind # "none" /\ UNCHANGED link
    BY <1>1, <2>2, <2>3
  <2>4. CASE /\ link.active
             /\ link' = IF o.kind = "none" THEN [link EXCEPT !.active = FALSE]
                        ELSE [link EXCEPT !.ims = (o.kind = "ims"), !.v4 = o.v4, !.v6 = o.v6]
    BY <1>1, <2>1, <2>2, <2>4 DEF LinkStates
  <2>5. CASE o.kind = "none" /\ ~link.active /\ UNCHANGED link
    BY <1>1, <2>2, <2>5
  <2> QED
    BY <1>4, <2>3, <2>4, <2>5 DEF ChangeOffer
<1>5. CASE SelfActivate
  <2>1. Sound(Activate(link))
    BY <1>1, ActivateSound
  <2> QED
    BY <1>1, <1>2, <1>5, <2>1 DEF SelfActivate, Sound, InService
<1>6. ASSUME NEW x \in Ailments, Ail(x)
      PROVE  /\ link' \in LinkStates /\ offer' \in Offers /\ faults' \in 0..MaxFaults
             /\ link'.active => offer'.kind # "none" /\ link'.ill \cap {"flight", "off"} = {}
  BY <1>1, <1>2, <1>6 DEF Ail, LinkStates
<1>7. ASSUME NEW x \in Ailments, Heal(x)
      PROVE  /\ link' \in LinkStates /\ offer' \in Offers /\ faults' \in 0..MaxFaults
             /\ link'.active => offer'.kind # "none" /\ link'.ill \cap {"flight", "off"} = {}
  BY <1>1, <1>7 DEF Heal, LinkStates
<1>8. CASE LeaseGranted \/ LeaseExpires
  BY <1>1, <1>8, NoAddrIsOne DEF LeaseGranted, LeaseExpires, LinkStates
<1> QED
  BY <1>3, <1>4, <1>5, <1>6, <1>7, <1>8 DEF Surroundings

LEMMA AroundKeeps ==
  ASSUME IInv, Around PROVE IInv'
<1>1. /\ link' \in LinkStates /\ offer' \in Offers /\ faults' \in 0..MaxFaults
      /\ link'.active => offer'.kind # "none" /\ link'.ill \cap {"flight", "off"} = {}
  BY SurroundingsType DEF IInv, Around
<1>2. TypeOK'
  BY <1>1, TypePrimed DEF IInv, TypeOK, Around, dialVars, guardVars, Stacks, Deeds
<1>3. Sound(link)'
  BY <1>1 DEF Sound, LinkStates, InService, Addrs
<1>4. Forgotten' /\ Climbed' /\ LeftAlone'
  BY DEF IInv, TypeOK, Around, guardVars, Forgotten, Climbed, LeftAlone
<1> QED
  BY <1>2, <1>3, <1>4 DEF IInv

LEMMA StutterKeeps ==
  ASSUME IInv, UNCHANGED vars PROVE IInv'
<1>1. TypeOK'
  BY TypePrimed DEF IInv, TypeOK, vars, linkVars, dialVars, guardVars, Stacks, Deeds
<1>2. Sound(link)'
  BY SoundPrimed DEF IInv, vars, linkVars
<1>3. Forgotten' /\ Climbed' /\ LeftAlone'
  BY DEF IInv, vars, guardVars, Forgotten, Climbed, LeftAlone
<1> QED
  BY <1>1, <1>2, <1>3 DEF IInv

LEMMA Inductive == Spec => []IInv
<1>1. IInv /\ [Next]_vars => IInv'
  BY ReadKeeps, DialKeeps, DataKeeps, NetKeeps, SleepKeeps, RestartKeeps, AroundKeeps, StutterKeeps
  DEF Next, Round
<1> QED
  BY <1>1, Initial, PTL DEF Spec

-----------------------------------------------------------------------------
(* The theorems *)

\* Every counter, wait and level of the four watches stays within its threshold,
\* and what is written to the interfaces is an address or none.
THEOREM TypeCorrect == Spec => []TypeOK
<1>1. IInv => TypeOK
  BY DEF IInv
<1> QED
  BY <1>1, Inductive, PTL

\* DataGuard only reboots the modem when three gentler steps, a cooldown apart,
\* brought no frame out.
THEOREM RebootLast == Spec => RebootIsLastResort
<1>1. ASSUME IInv, DataStep, "reboot" \in did' PROVE history.progress >= Longest
  <2>1. /\ data' \in DataStates /\ data.cool = 0
        /\ data'.level = Capped(data.level + 1, 4) /\ did' = {Steps[data'.level]}
    BY <1>1, DataTickType DEF IInv, Climbed, DataStep
  <2>2. data.level \in 0..4 /\ data'.level \in 1..4
    BY <1>1, <2>1 DEF IInv, TypeOK, DataStates, Capped
  <2>3. data'.level = 4
    BY <1>1, <2>1, <2>2 DEF Steps
  <2>4. data.level >= 3
    BY <2>1, <2>2, <2>3 DEF Capped
  <2>5. history.progress + data.cool >= 3 * Cooldown
    BY <1>1, <2>4 DEF IInv, Climbed
  <2>6. history.progress \in Nat
    BY <1>1, GuardAssumption DEF IInv, TypeOK, Longest
  <2> QED
    BY <2>1, <2>5, <2>6, GuardAssumption DEF Longest
<1>2. IInv /\ [Next]_vars => [DataStep /\ "reboot" \in did' => history.progress >= Longest]_vars
  BY <1>1
<1> QED
  BY <1>2, Inductive, PTL DEF Spec, RebootIsLastResort

\* IPv4 is not redialled for within a cooldown of a redial, whichever family
\* that redial was for.
THEOREM NoDoubleRedial == Spec => NoRedialOnRedial
<1>1. ASSUME IInv, NetStep, "redial4" \in did' PROVE history.redial >= Cooldown
  <2>1. net["v4"].cool = 0
    BY <1>1, NetTickType DEF IInv, NetStep
  <2>2. history.redial \in Nat
    BY <1>1, GuardAssumption DEF IInv, TypeOK
  <2> QED
    BY <1>1, <2>1, <2>2, GuardAssumption DEF IInv, LeftAlone
<1>2. IInv /\ [Next]_vars => [NetStep /\ "redial4" \in did' => history.redial >= Cooldown]_vars
  BY <1>1
<1> QED
  BY <1>2, Inductive, PTL DEF Spec, NoRedialOnRedial

-----------------------------------------------------------------------------
(* A session that works without the watches doing anything *)

\* The modem's half of a session that carries IPv4, as pdp() reports it.
Carrying(w) == w.active /\ ~w.ims /\ w.v4 # NoAddr /\ Reports(w)

\* The same session of the modem, and the same IPv4 on the router.
Spared(u, w) ==
  /\ u \in LinkStates
  /\ u.active = w.active /\ u.ims = w.ims /\ u.v4 = w.v4 /\ u.v6 = w.v6 /\ u.ill = w.ill
  /\ u.main = w.main /\ u.uci4 = w.uci4

LEMMA IfupV6Spares ==
  ASSUME NEW w, Sound(w) PROVE Spared(IfupV6(w), w)
<1>1. IfupV6(w) \in LinkStates
  BY IfupV6Sound DEF Sound
<1> QED
  BY <1>1 DEF Sound, LinkStates, IfupV6, Spared

LEMMA ApplyIpv6Spares ==
  ASSUME NEW w, Sound(w), NEW a6 \in Addrs \cup {ImsAddr} PROVE Spared(ApplyIpv6(w, a6), w)
<1> DEFINE u == [w EXCEPT !.uci6 = a6]
<1>1. Sound(u) /\ Spared(u, w) /\ Spared(w, w)
  BY DEF Sound, LinkStates, InService, Spared
<1> HIDE DEF u
<1>2. Spared(IfupV6(u), u) /\ Spared(IfupV6(w), w)
  BY <1>1, IfupV6Spares
<1>3. Spared(IfupV6(u), w)
  BY <1>1, <1>2 DEF Spared
<1> QED
  BY <1>1, <1>2, <1>3 DEF ApplyIpv6, u

LEMMA KeepersSpare ==
  ASSUME NEW w, Sound(w) PROVE Spared(w, w) /\ Spared(RefreshIpv6(w), w) /\ Spared(BounceV6(w), w)
<1>1. Spared(w, w)
  BY DEF Spared, Sound
<1> QED
  BY <1>1, IfupV6Spares DEF RefreshIpv6, BounceV6

LEMMA SparedSound ==
  ASSUME NEW w, Sound(w), NEW u, Spared(u, w) PROVE Sound(u)
BY DEF Sound, Spared, InService

\* What pdp() says of such a session, and of an old reading of its bearer.
LEMMA CarryingReported ==
  ASSUME NEW w \in LinkStates, Carrying(w), NEW b \in [active : BOOLEAN, ims : BOOLEAN],
         b.active, ~b.ims
  PROVE  PdpState(b, w).active /\ ~PdpState(b, w).ims /\ PdpState(b, w).v4 = w.v4
BY DEF PdpState, Carrying

\* dial() leaves it as it is.
LEMMA DialSpares ==
  ASSUME NEW w, Sound(w), offer \in Offers, Carrying(w)
  PROVE  /\ Dial(w).ok /\ UsableForData(Dial(w).st) /\ Dial(w).st.v4 = w.v4
         /\ Spared(Dial(w).w, w)
<1> DEFINE up == [w EXCEPT !.ill = @ \ {"flight"}]
<1>1. w \in LinkStates /\ w.ill \cap {"flight", "off"} = {} /\ offer.kind # "none"
  BY DEF Sound, InService, Carrying
<1>2. up \in LinkStates /\ Spared(up, w)
  BY <1>1 DEF LinkStates, Spared
<1>3. Carrying(up) /\ InService(up)
  BY <1>1, <1>2 DEF Carrying, Spared, Reports, InService
<1> HIDE DEF up
<1>4. Bearer(up) \in [active : BOOLEAN, ims : BOOLEAN] /\ Bearer(up).active /\ ~Bearer(up).ims
  BY <1>2, <1>3, BearerType DEF Bearer, Carrying
<1>5. Pdp(up).active /\ ~Pdp(up).ims /\ Pdp(up).v4 = up.v4
  BY <1>2, <1>3, <1>4, CarryingReported DEF Pdp
<1>6. MovedAway(up) = up /\ UsableForData(Pdp(up))
  BY <1>3, <1>5 DEF MovedAway, UsableForData, HasAddress, Carrying
<1>7. Dial(w) = Dialled(up)
  BY <1>3, <1>5, <1>6 DEF Dial, up
<1> QED
  BY <1>2, <1>5, <1>6, <1>7 DEF Dialled, Spared

\* What is written afterwards is the address it had.
LEMMA ApplyRestores ==
  ASSUME NEW w, Sound(w), NEW a4 \in Addrs, NEW a6 \in Addrs \cup {ImsAddr},
         a4 # NoAddr, a4 = w.v4
  PROVE  /\ ApplyAfterDial(w, a4, a6).w.active = w.active
         /\ ApplyAfterDial(w, a4, a6).w.v4 = w.v4
         /\ Kernel4(ApplyAfterDial(w, a4, a6).w) = w.v4
<1> DEFINE x == [w EXCEPT !.uci4 = a4, !.main = TRUE,
                 !.uci6 = IF V6Mode # "static" THEN NoAddr
                          ELSE IF a6 = NoAddr THEN @ ELSE a6]
<1>1. x.active = w.active /\ x.v4 = w.v4 /\ x.uci4 = a4 /\ x.main
  BY DEF Sound, LinkStates
<1> HIDE DEF x
<1>2. ApplyAfterDial(w, a4, a6).w = IfupV6(x)
  BY DEF ApplyAfterDial, EnsureIface, x
<1>3. /\ IfupV6(x).active = x.active /\ IfupV6(x).v4 = x.v4
      /\ IfupV6(x).uci4 = x.uci4 /\ IfupV6(x).main = x.main
  BY DEF IfupV6
<1> QED
  BY <1>1, <1>2, <1>3 DEF Kernel4

\* What WorkingV4IsSpared asks of the link after a step.
Served(u, w) == u.active /\ Kernel4(u) = Kernel4(w) /\ u.v4 = w.v4

LEMMA SparedServes ==
  ASSUME NEW w, w.active, NEW u, Spared(u, w) PROVE Served(u, w)
BY DEF Spared, Served, Kernel4

\* DialWatch and V6Watch, on an outdated reading or not.
LEMMA DriveSpares ==
  ASSUME TypeOK, Sound(link), Reachable4(link), Reports(link),
         NEW unbound \in BOOLEAN, Drive(unbound)
  PROVE  Served(link', link)
<1> DEFINE st     == PdpState(reading, link)
           synced == IF PollDue THEN SyncModem(link, v6, st.v6) ELSE [w |-> link, v |-> v6]
           sw     == synced.w
           put    == OnActiveV4(sw, st)
           k6     == IF put.ok THEN put.w.k6 ELSE sw.k6
           kept   == Maintain(put.w, k6, synced.v, st, unbound)
<1>1. /\ link \in LinkStates /\ offer \in Offers
      /\ reading \in [active : BOOLEAN, ims : BOOLEAN]
  BY DEF TypeOK
<1>2. Carrying(link) /\ Kernel4(link) = link.v4 /\ link.active /\ link.v4 # NoAddr
  BY DEF Reachable4, Passes, Carrying
<1>3. st \in Pdps /\ st.v6 \in Addrs \cup {ImsAddr}
  BY <1>1, PdpStateType DEF Pdps
<1>4. Spared(sw, link)
  <2>1. Spared(ApplyIpv6(link, st.v6), link) /\ Spared(link, link)
    BY <1>3, ApplyIpv6Spares, KeepersSpare
  <2>2. sw \in {link, ApplyIpv6(link, st.v6)}
    BY DEF SyncModem
  <2> QED
    BY <2>1, <2>2
<1>5. \/ UNCHANGED link
      \/ link' = sw
      \/ st.active /\ ~st.ims /\ link' = kept.w
      \/ st.ims /\ link' = OnImsBearer(sw, dial).w
      \/ ~st.ims /\ ~st.active /\ link' = OnInactive(sw, dial).w
      \/ st.active /\ ~st.ims /\ st.v4 = NoAddr
  BY DEF Drive
<1>6. /\ st.active = reading.active /\ st.ims = reading.ims
      /\ st.active /\ ~st.ims => st.v4 = link.v4
  BY <1>1, <1>2, CarryingReported DEF PdpState
<1> HIDE DEF st, synced, sw
<1>7. Sound(sw) /\ Served(sw, link) /\ Carrying(sw) /\ Kernel4(sw) = link.v4
  BY <1>2, <1>4, SparedSound, SparedServes DEF Carrying, Spared, Reports, Served
<1>8. ASSUME NEW u, Sound(u), u.active, u.v4 = link.v4, Carrying(u)
      PROVE  /\ Dial(u).ok /\ UsableForData(Dial(u).st)
             /\ Served(ApplyAfterDial(Dial(u).w, Dial(u).st.v4, Dial(u).st.v6).w, link)
  <2>1. /\ Dial(u).ok /\ UsableForData(Dial(u).st) /\ Dial(u).st.v4 = u.v4
        /\ Spared(Dial(u).w, u)
    BY <1>1, <1>8, DialSpares
  <2>2. Dial(u) \in Attempts
    BY <1>1, <1>8, DialType
  <2>3. Sound(Dial(u).w) /\ Dial(u).st.v4 \in Addrs /\ Dial(u).st.v6 \in Addrs \cup {ImsAddr}
    BY <2>2 DEF Attempts, Pdps, SoundLinks
  <2>4. Dial(u).w.v4 = u.v4 /\ Dial(u).w.active
    BY <1>8, <2>1 DEF Spared
  <2> DEFINE a == ApplyAfterDial(Dial(u).w, Dial(u).st.v4, Dial(u).st.v6).w
  <2>5. a.active = Dial(u).w.active /\ a.v4 = Dial(u).w.v4 /\ Kernel4(a) = Dial(u).w.v4
    <3>1. Dial(u).st.v4 # NoAddr /\ Dial(u).st.v4 = Dial(u).w.v4
      BY <1>2, <1>8, <2>1, <2>4
    <3> QED
      BY <2>3, <3>1, ApplyRestores
  <2> HIDE DEF a
  <2>6. Served(a, link)
    BY <1>2, <1>8, <2>4, <2>5 DEF Served
  <2> QED
    BY <2>1, <2>6 DEF a
<1>9. CASE st.active /\ ~st.ims /\ link' = kept.w
  <2>1. put.w = sw
    BY <1>6, <1>7, <1>9 DEF OnActiveV4
  <2>2. kept.w \in {sw, RefreshIpv6(sw), ApplyIpv6(sw, st.v6)}
    BY <2>1 DEF Maintain
  <2>3. Spared(sw, sw) /\ Spared(RefreshIpv6(sw), sw) /\ Spared(ApplyIpv6(sw, st.v6), sw)
    BY <1>3, <1>7, KeepersSpare, ApplyIpv6Spares
  <2> HIDE DEF kept, put, k6
  <2>4. Spared(link', sw)
    BY <1>9, <2>2, <2>3
  <2> QED
    BY <1>4, <2>4 DEF Spared, Served, Kernel4, Carrying, Reachable4, Passes
<1>10. CASE st.ims /\ link' = OnImsBearer(sw, dial).w
  <2> DEFINE c == ClearSessionAddresses(sw)
             r == Dial(c)
             a == ApplyAfterDial(r.w, r.st.v4, r.st.v6)
  <2>1. Sound(c) /\ c.active /\ c.v4 = link.v4 /\ Carrying(c)
    BY <1>4, <1>7, <1>2, ClearSessionAddressesSound
    DEF ClearSessionAddresses, Carrying, Reports, Spared, LinkStates
  <2>2. r.ok /\ UsableForData(r.st) /\ Served(a.w, link)
    BY <1>8, <2>1
  <2>3. OnImsBearer(sw, dial).w \in {sw, a.w}
    BY <2>2 DEF OnImsBearer
  <2> QED
    BY <1>7, <1>10, <2>2, <2>3
<1>11. CASE ~st.ims /\ ~st.active /\ link' = OnInactive(sw, dial).w
  <2> DEFINE a == ApplyAfterDial(Dial(sw).w, Dial(sw).st.v4, Dial(sw).st.v6)
  <2>1. sw.active /\ sw.v4 = link.v4
    BY <1>2, <1>4 DEF Spared
  <2>2. Dial(sw).ok /\ Served(a.w, link)
    BY <1>7, <1>8, <2>1
  <2>3. OnInactive(sw, dial).w \in {sw, a.w}
    BY <2>2 DEF OnInactive
  <2> QED
    BY <1>7, <1>11, <2>2, <2>3
<1>12. CASE UNCHANGED link
  BY <1>2, <1>12 DEF Served
<1>13. CASE link' = sw
  BY <1>7, <1>13
<1> QED
  BY <1>2, <1>5, <1>6, <1>9, <1>10, <1>11, <1>12, <1>13

\* DataGuard: the probe of a session that works leaves.
LEMMA DataTickSpares ==
  ASSUME TypeOK, Reachable4(link), DataTick PROVE did' = {} /\ Served(link', link)
<1>1. Sends(link) = {TRUE}
  BY DEF Reachable4, Passes, Sends, Kernel4
<1>2. did' = {} /\ link' = Answered(link, TRUE)
  BY <1>1 DEF DataTick
<1> QED
  BY <1>2 DEF TypeOK, LinkStates, Answered, Served, Kernel4, Reachable4, Passes

\* NetGuard: the modem is left alone as long as IPv4 works.
LEMMA NetTickSpares ==
  ASSUME TypeOK, Sound(link), Reachable4(link), NetTick
  PROVE  did' \subseteq {"bounce6"} /\ Served(link', link)
<1>1. link.active /\ V4Works(link)
  BY DEF Reachable4, Passes, V4Works
<1>2. Spared(link, link) /\ Spared(BounceV6(link), link)
  BY KeepersSpare
<1>3. Served(link, link) /\ Served(BounceV6(link), link)
  BY <1>1, <1>2, SparedServes
<1>4. CASE did' = {} /\ UNCHANGED <<link, net, dial>>
  BY <1>3, <1>4
<1>5. CASE NetEnds(ThenV6(TickV4(link, net)))
  <2> DEFINE n == Calm(net, "v4")
             last == TickV6(link, n)
  <2>1. TickV4(link, net) = Went(link, n, {}, FALSE)
    BY DEF TickV4
  <2>2. ThenV6(TickV4(link, net)) = [last EXCEPT !.did = @ \cup {}]
    BY <2>1 DEF ThenV6, Went
  <2>3. \E m : last \in {Went(link, m, {}, TRUE), Went(BounceV6(link), m, {"bounce6"}, TRUE)}
    BY <1>1 DEF TickV6
  <2> HIDE DEF last
  <2>4. /\ link' \in {link, BounceV6(link)}
        /\ did' \subseteq {"bounce6"}
    BY <1>5, <2>2, <2>3 DEF NetEnds, Went
  <2> QED
    BY <1>3, <2>4
<1> QED
  BY <1>4, <1>5 DEF NetTick

\* No part of the round leaves a session that works without its IPv4, even on
\* the strength of a reading of the modem that is no longer true.
THEOREM WorkingV4 == Spec => WorkingV4IsSpared
<1>1. ASSUME IInv, Round, Reachable4(link), Reports(link)
      PROVE  did' \subseteq {"bounce6"} /\ Served(link', link)
  <2>1. TypeOK /\ Sound(link) /\ Forgotten /\ data.unbound \in BOOLEAN
    BY <1>1 DEF IInv, TypeOK, DataStates
  <2>2. Served(link, link)
    BY <1>1 DEF Served, Reachable4, Passes
  <2>3. CASE Read
    BY <2>1, <2>2, <2>3 DEF Read, linkVars, guardVars, Forgotten, Served, Kernel4
  <2>4. CASE DialStep
    BY <1>1, <2>1, <2>4, DriveSpares DEF DialStep, guardVars, Forgotten
  <2>5. CASE DataStep
    BY <1>1, <2>1, <2>5, DataTickSpares DEF DataStep
  <2>6. CASE NetStep
    BY <1>1, <2>1, <2>6, NetTickSpares DEF NetStep
  <2>7. CASE \E t \in Lengths : Sleep(t)
    BY <2>2, <2>7 DEF Sleep, linkVars, GuardTime, Served, Kernel4
  <2> QED
    BY <1>1, <2>3, <2>4, <2>5, <2>6, <2>7 DEF Round
<1>2. IInv /\ [Next]_vars =>
        [ Round /\ Reachable4(link) /\ Reports(link) =>
            /\ did' \subseteq {"bounce6"}
            /\ link'.active /\ Kernel4(link') = Kernel4(link) /\ link'.v4 = link.v4 ]_vars
  BY <1>1 DEF Served
<1> QED
  BY <1>2, Inductive, PTL DEF Spec, WorkingV4IsSpared
=============================================================================
