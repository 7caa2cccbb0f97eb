------------------------------ MODULE DialWatch ------------------------------
(***************************************************************************)
(* DialWatch (daemon/dial.rs) and V6Watch (daemon/v6.rs): the first        *)
(* blocking part of the daemon's round.  Instants are kept as the ticks    *)
(* that are left of the wait they start, or as the ticks since.            *)
(***************************************************************************)
EXTENDS Link

CONSTANTS
  AutoDial,      \* auto_dial
  NetRounds,     \* net_guard_rounds
  NoAddrRounds,  \* NO_ADDR_REDIAL_ROUNDS
  RetryAfter,    \* NO_SERVICE_RETRY_INTERVAL, in ticks
  ImsBackoff,    \* IMS_REPAIR_BACKOFF, in ticks
  PollEvery,     \* v6_poll_interval, in ticks; 0 means never
  RefreshEvery   \* v6_refresh_interval, in ticks; 0 means never

ASSUME DialAssumption ==
  /\ AutoDial \in BOOLEAN
  /\ NetRounds \in Nat \ {0} /\ NoAddrRounds \in Nat \ {0}
  /\ RetryAfter \in Nat /\ ImsBackoff \in Nat
  /\ PollEvery \in Nat /\ RefreshEvery \in Nat

VARIABLES
  dial,    \* no_addr_rounds, dial_fail_rounds, what is left of retry_after and
           \* ims_repair_after, last_v6_applied
  v6,      \* ticks to the next poll, ticks since the last refresh, last_modem_ipv6
  reading  \* pdp(): what it has read so far

dialVars == <<dial, v6, reading>>

Unread == [active |-> FALSE, ims |-> FALSE]

DialInit ==
  /\ dial = [noAddr |-> 0, fail |-> 0, retry |-> 0, ims |-> 0, lastV6 |-> NoAddr]
  /\ v6 = [poll |-> 0, sched |-> 0, modem |-> NoAddr]
  /\ reading = Unread

PollDue == Managed /\ PollEvery > 0 /\ v6.poll = 0

-----------------------------------------------------------------------------
(* The handlers of drive(): each gives the watch and the link after it *)

Cleared(w, d) ==
  [w |-> ClearSessionAddresses(w),
   d |-> [d EXCEPT !.noAddr = 0, !.fail = 0, !.retry = RetryAfter]]

\* The rounds are compared before they are counted.
FaultyDialFailed(w, d) ==
  IF d.fail >= NetRounds THEN Cleared(w, d)
  ELSE [w |-> w, d |-> [d EXCEPT !.fail = @ + 1]]

\* note_dial_failure()
DialFailed(w, d) ==
  IF d.fail + 1 >= NetRounds THEN Cleared(w, d)
  ELSE [w |-> w, d |-> [d EXCEPT !.fail = @ + 1]]

OnImsBearer(w, d) ==
  LET r == Dial(ClearSessionAddresses(w))
      a == ApplyAfterDial(r.w, r.st.v4, r.st.v6)
  IN  IF d.ims > 0 THEN [w |-> w, d |-> d]
      ELSE IF r.ok /\ UsableForData(r.st) /\ a.ok
      THEN [w |-> a.w, d |-> [d EXCEPT !.ims = 0, !.fail = 0, !.lastV6 = NoAddr]]
      ELSE [w |-> IF r.ok /\ UsableForData(r.st) THEN a.w ELSE r.w,
            d |-> [d EXCEPT !.ims = ImsBackoff]]

OnInactive(w, d) ==
  LET r == Dial(w)
      idle == [d EXCEPT !.noAddr = 0, !.lastV6 = NoAddr]
  IN  IF d.retry > 0 THEN [w |-> w, d |-> idle]
      ELSE IF ~r.ok THEN DialFailed(r.w, idle)
      ELSE [w |-> ApplyAfterDial(r.w, r.st.v4, r.st.v6).w,
            d |-> [idle EXCEPT !.fail = 0]]

\* on_active_v4(): apply the addresses where the interface has another one.
OnActiveV4(w, st) ==
  IF Kernel4(w) = st.v4 THEN [w |-> w, ok |-> FALSE] ELSE ApplyAfterDial(w, st.v4, st.v6)

\* maintain(), with what status() said: it is not read again after a failure.
\* The wait of 60 s or 30 min (recovery_due) never decides anything: it is
\* asked only without an address, and then needs_refresh() wants one already.
Maintain(w, k6, u, st, unbound) ==
  LET due == RefreshEvery > 0 /\ u.sched >= RefreshEvery
  IN  IF ~Managed \/ unbound \/ ~(NeedsRefresh(k6, st.v6) \/ due) THEN [w |-> w, v |-> u]
      ELSE [w |-> IF st.v6 = NoAddr THEN RefreshIpv6(w) ELSE ApplyIpv6(w, st.v6),
            v |-> [u EXCEPT !.sched = 0]]

OnActiveWithoutV4(w, d, st) ==
  LET a == ApplyAfterDial(w, NoAddr, st.v6)
      calm == [d EXCEPT !.fail = 0]
      found == [calm EXCEPT !.noAddr = 0, !.retry = 0]
  IN  IF st.v6 # NoAddr
      THEN IF d.lastV6 # st.v6 /\ NeedsRefresh(w.k6, st.v6)
           THEN [w |-> a.w, d |-> IF a.ok THEN [found EXCEPT !.lastV6 = st.v6] ELSE found]
           ELSE [w |-> w, d |-> found]
      ELSE IF d.retry > 0 THEN [w |-> w, d |-> [calm EXCEPT !.noAddr = 0]]
      ELSE IF d.noAddr + 1 < NoAddrRounds THEN [w |-> w, d |-> [calm EXCEPT !.noAddr = @ + 1]]
      ELSE Cleared(Deactivate(w), calm)

\* sync_modem(): a new address is written at once.
SyncModem(w, u, a) ==
  IF a # NoAddr /\ a # u.modem
  THEN [w |-> ApplyIpv6(w, a),
        v |-> [u EXCEPT !.poll = PollEvery, !.modem = a, !.sched = 0]]
  ELSE [w |-> w, v |-> [u EXCEPT !.poll = PollEvery, !.modem = a]]

-----------------------------------------------------------------------------
(* tick(): read the bearer, read the addresses and act *)

ReadBearer == reading' = Bearer(link)

\* auto_dial off: the modem is only read when the poll is due.
Drive(unbound) ==
  LET st     == PdpState(reading, link)
      synced == IF PollDue THEN SyncModem(link, v6, st.v6) ELSE [w |-> link, v |-> v6]
      put    == OnActiveV4(synced.w, st)
      k6     == IF put.ok THEN put.w.k6 ELSE synced.w.k6
      kept   == Maintain(put.w, k6, synced.v, st, unbound)
      acted  == IF st.ims THEN OnImsBearer(synced.w, dial)
                ELSE IF ~st.active THEN OnInactive(synced.w, dial)
                ELSE OnActiveWithoutV4(synced.w, dial, st)
  IN  /\ reading' = Unread
      /\ IF ~AutoDial
         THEN /\ UNCHANGED dial
              /\ IF PollDue THEN link' = synced.w /\ v6' = synced.v ELSE UNCHANGED <<link, v6>>
         ELSE IF st.active /\ ~st.ims /\ st.v4 # NoAddr
         THEN /\ link' = kept.w
              /\ v6' = kept.v
              /\ dial' = [dial EXCEPT !.noAddr = 0, !.fail = 0, !.retry = 0, !.lastV6 = NoAddr]
         ELSE /\ link' = acted.w
              /\ dial' = acted.d
              /\ v6' = synced.v

Less(n, t) == IF n > t THEN n - t ELSE 0

\* t ticks go by.
DialTime(t) ==
  /\ dial' = [dial EXCEPT !.retry = Less(@, t), !.ims = Less(@, t)]
  /\ v6' = [v6 EXCEPT !.poll = Less(@, t),
                      !.sched = IF @ + t > RefreshEvery THEN RefreshEvery ELSE @ + t]
=============================================================================
