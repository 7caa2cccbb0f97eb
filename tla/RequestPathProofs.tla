--------------------------- MODULE RequestPathProofs ---------------------------
(***************************************************************************)
(* RequestPath for any methods, timeouts, lives of a cached answer, number *)
(* of requests, permits and faults: the plugin waits longer than a daemon  *)
(* that is up takes to answer, what a page reads is neither old nor from   *)
(* before its own writes, and the command line acts once.                  *)
(***************************************************************************)
EXTENDS RequestPath, TLAPS

\* A request that rpcd waits for is the only one of its kind, has worked
\* during the call, and then knows every write rpcd was told of.
Asked(i) ==
  slots[i].client = "rpcd" =>
    /\ call.pc = "wait" /\ slots[i].m = call.m /\ slots[i].st # "free"
    /\ slots[i].since <= call.age
    /\ slots[i].worked => acked <= slots[i].ver /\ slots[i].ver <= version
    /\ \A k \in Slots : slots[k].client = "rpcd" => k = i

\* The request of a call that has found the daemon well is accepted before time
\* goes on, and since then its budget has run at least as long as the wait.
Served(i) ==
  /\ slots[i].client = "rpcd"
  /\ \/ slots[i].st = "backlog" /\ call.age = 0 /\ slots[i].age = 0
     \/ /\ slots[i].st = "running" /\ slots[i].permit
        /\ call.age <= slots[i].age /\ slots[i].age <= Budget(call.m)

Asking ==
  /\ \A i \in Slots : Asked(i)
  /\ HasTimeout /\ call.pc = "wait" => call.age <= Tmo(call.m)
  /\ (call.pc = "wait" /\ call.healthy) => daemon = "up" /\ \E i \in Slots : Served(i)

\* What rpcd has heard.
Hearing ==
  call.pc = "heard" /\ call.res.ok =>
    /\ call.res.ver <= version
    /\ call.m = "status" =>
         /\ acked <= call.res.ver
         /\ HasTimeout => /\ call.res.age <= TmoRead + CacheTtl
                          /\ call.res.from = "daemon" => call.res.age <= TmoRead

\* The cached answer is as young as its entry, and there is none while the
\* settings are being written.
Caching ==
  /\ cache.kept /\ cache.res.ok =>
       /\ acked <= cache.res.ver /\ cache.res.ver <= version
       /\ HasTimeout => cache.res.age <= TmoRead + cache.age
  /\ call.pc # "free" /\ call.m = "set" => ~cache.kept

\* The command line gives the daemon one request, and does the work itself after
\* that; while the daemon keeps its port, only one of the two is possible.
Given(i) ==
  slots[i].m = "cli" =>
    /\ cli.pc # "idle"
    /\ ~slots[i].worked =>
         /\ cli.effects <= 1
         /\ cli.kept \/ cli.pc \in {"wait", "local"} => cli.effects = 0
    /\ \A k \in Slots : slots[k].m = "cli" => k = i

Commanding ==
  /\ \A i \in Slots : Given(i)
  /\ \A i \in Slots : slots[i].client = "cli" => slots[i].m = "cli" /\ cli.pc = "wait"
  /\ cli.pc = "idle" => cli.effects = 0 /\ ~cli.kept
  /\ cli.pc \in {"wait", "local"} => cli.effects <= 1
  /\ cli.kept => port = "daemon" /\ cli.pc # "holds" /\ cli.effects <= 1

IInv == TypeOK /\ Asking /\ Hearing /\ Caching /\ Commanding

-----------------------------------------------------------------------------
(* Budgets and timeouts *)

LEMMA Constants ==
  /\ ReadBudget \in Nat /\ WriteMin \in Nat /\ WriteMax \in Nat
  /\ TmoRead \in Nat /\ TmoWrite \in Nat /\ CacheTtl \in Nat /\ DownTtl \in Nat
  /\ MaxSlots \in Nat /\ MaxWrites \in Nat /\ MaxFaults \in Nat /\ MaxConns \in Nat
  /\ ReadBudget <= WriteMin /\ WriteMin <= WriteMax
  /\ ReadBudget < TmoRead /\ WriteMax < TmoWrite
  /\ LongestWait \in Nat /\ OldAnswer <= LongestWait
  /\ OldAnswer \in Nat /\ OldAnswer = TmoRead + CacheTtl + 1
  /\ "cli" \notin Calls /\ "none" \notin Calls
BY RequestAssumption DEF LongestWait, Larger, OldAnswer

\* A request that the plugin asks with its own patience is over before that is.
LEMMA Patience ==
  ASSUME atTimeout \in Timeouts, NEW m
  PROVE  /\ Budget(m) \in Nat /\ Budget(m) <= WriteMax
         /\ Tmo(m) \in Nat
         /\ m = "status" => Tmo(m) = TmoRead
         /\ m # "storage" => Budget(m) < Tmo(m)
<1>1. atTimeout \in Nat
  BY RequestAssumption
<1>2. Clamp(atTimeout, WriteMin, WriteMax) \in WriteMin..WriteMax
  BY <1>1, Constants DEF Clamp
<1> QED
  BY <1>2, Constants DEF Budget, Tmo, WritePath

-----------------------------------------------------------------------------
(* The shape of the state *)

LEMMA Literals ==
  /\ NoAnswer \in Answers /\ Refusal \in Answers /\ Failure \in Answers
  /\ NoCache \in CacheStates /\ Idle \in CallStates /\ Free \in SlotStates
  /\ NoAnswer.ok = FALSE /\ Refusal.ok = FALSE /\ Failure.ok = FALSE
  /\ NoCache.kept = FALSE
<1>1. 0 \in 0..MaxWrites /\ 0 \in 0..OldAnswer /\ 0 \in 0..LongestWait /\ 0 \in 0..CacheTtl
      /\ 0 \in 0..WriteMax
  BY Constants
<1>2. NoAnswer \in Answers /\ NoAnswer.ok = FALSE
  BY <1>1 DEF NoAnswer, Answers
<1>3. Refusal \in Answers /\ Refusal.ok = FALSE
  BY <1>2 DEF Refusal, Answers
<1>4. Failure \in Answers /\ Failure.ok = FALSE
  BY <1>2 DEF Failure, Answers
<1>5. NoCache \in CacheStates /\ NoCache.kept = FALSE
  BY <1>1, <1>2 DEF NoCache, CacheStates
<1>6. Idle \in CallStates
  BY <1>1, <1>2 DEF Idle, CallStates
<1>7. Free \in SlotStates
  BY <1>1 DEF Free, SlotStates
<1> QED
  BY <1>2, <1>3, <1>4, <1>5, <1>6, <1>7

\* What is left of a request, and what rpcd's call becomes.
LEMMA OrphanIs ==
  ASSUME NEW r \in SlotStates
  PROVE  /\ Orphan(r) \in SlotStates /\ Orphan(r).client = "gone" /\ Orphan(r).m = r.m
         /\ Orphan(r).worked = r.worked
<1>1. 0 \in 0..MaxWrites /\ 0 \in 0..OldAnswer
  BY Constants
<1>2. Orphan(r) \in SlotStates
  BY <1>1 DEF Orphan, SlotStates
<1> QED
  BY <1>2 DEF Orphan, SlotStates

LEMMA HeardIs ==
  ASSUME TypeOK, NEW res \in Answers
  PROVE  /\ Heard(res) \in CallStates /\ Heard(res).pc = "heard" /\ Heard(res).res = res
         /\ Heard(res).m = call.m
BY DEF TypeOK, Heard, CallStates

\* A connection that waits to be accepted, and nothing else, is new.
LEMMA Connected ==
  ASSUME TypeOK, NEW client \in {"rpcd", "cli"}, NEW m \in Calls \cup {"cli"},
         Connects(client, m)
  PROVE  \E i \in Slots :
           /\ slots[i] = Free /\ slots' \in [Slots -> SlotStates]
           /\ slots'[i].st = "backlog" /\ slots'[i].client = client /\ slots'[i].m = m
           /\ slots'[i].age = 0 /\ slots'[i].since = 0 /\ ~slots'[i].worked
           /\ \A k \in Slots : k # i => slots'[k] = slots[k]
<1> DEFINE r == [Free EXCEPT !.st = "backlog", !.client = client, !.m = m]
<1>1. PICK i \in Slots : slots[i] = Free /\ slots' = [slots EXCEPT ![i] = r]
  BY DEF Connects
<1>2. r \in SlotStates
  BY Literals DEF SlotStates
<1>3. /\ r.st = "backlog" /\ r.client = client /\ r.m = m
      /\ r.age = 0 /\ r.since = 0 /\ ~r.worked
  BY DEF Free
<1> HIDE DEF r
<1>4. slots' \in [Slots -> SlotStates] /\ slots'[i] = r
      /\ \A k \in Slots : k # i => slots'[k] = slots[k]
  BY <1>1, <1>2 DEF TypeOK
<1> QED
  BY <1>1, <1>3, <1>4

\* A request whose client has gone away.
LEMMA Orphaned ==
  ASSUME TypeOK, NEW c,
         slots' = [i \in Slots |-> IF slots[i].client = c THEN Orphan(slots[i]) ELSE slots[i]]
  PROVE  /\ slots' \in [Slots -> SlotStates]
         /\ \A i \in Slots :
              /\ slots'[i].m = slots[i].m /\ slots'[i].worked = slots[i].worked
              /\ slots[i].client = c => slots'[i].client = "gone"
              /\ slots[i].client # c => slots'[i] = slots[i]
<1>1. \A i \in Slots : slots[i] \in SlotStates
  BY DEF TypeOK
<1> QED
  BY <1>1, OrphanIs

-----------------------------------------------------------------------------
(* The invariant holds at the start *)

LEMMA Initial == Init => IInv
<1> SUFFICES ASSUME Init PROVE IInv
  OBVIOUS
<1>1. \A i \in Slots : slots[i] = Free
  BY DEF Init
<1>2. TypeOK
  <2>1. cli \in CliStates
    BY Constants DEF Init, CliStates
  <2>2. slots \in [Slots -> SlotStates] /\ call \in CallStates /\ cache \in CacheStates
    BY Literals DEF Init
  <2> QED
    BY <2>1, <2>2, Constants DEF Init, TypeOK
<1>3. Asking
  BY <1>1 DEF Asking, Asked, Free, Init, Idle
<1>4. Hearing /\ Caching
  BY Literals DEF Hearing, Caching, Init, Idle
<1>5. Commanding
  BY <1>1 DEF Commanding, Given, Free, Init
<1> QED
  BY <1>2, <1>3, <1>4, <1>5 DEF IInv

-----------------------------------------------------------------------------
(* The plugin keeps it *)

LEMMA NobodyAsked ==
  ASSUME IInv, call.pc # "wait"
  PROVE  \A i \in Slots : slots[i].client # "rpcd"
BY DEF IInv, Asking, Asked

LEMMA AnsweredAtOnce ==
  ASSUME IInv, NEW m \in Calls, Serve(m), UNCHANGED slots,
         NEW res \in Answers, res.ok => Hit(m) /\ res = [Found(m).res EXCEPT !.from = "cache"],
         call' = [[Idle EXCEPT !.m = m] EXCEPT !.pc = "heard", !.res = res],
         downLeft' \in 0..DownTtl
  PROVE  IInv'
<1>1. call' \in CallStates /\ call'.pc = "heard" /\ call'.m = m /\ call'.res = res
  BY Literals DEF CallStates, Idle
<1>2. cache' = Found(m) /\ UNCHANGED <<atTimeout, daemon, port, cli, version, acked, faults>>
      /\ call.pc = "free"
  BY DEF Serve
<1>3. cache' \in CacheStates /\ (cache'.kept => cache' = cache /\ m # "set")
  BY <1>2, Literals DEF Found, IInv, TypeOK
<1>4. TypeOK'
  BY <1>1, <1>2, <1>3 DEF IInv, TypeOK
<1>5. Asking'
  BY <1>1, <1>2, NobodyAsked DEF Asking, Asked
<1>6. Hearing'
  <2> SUFFICES ASSUME res.ok PROVE Hearing'
    BY <1>1 DEF Hearing
  <2>1. m = "status" /\ cache.kept /\ Found(m) = cache
    BY DEF Hit, Found
  <2>2. cache.res \in Answers /\ cache.age \in 0..CacheTtl /\ cache.res.age \in Nat
    BY DEF IInv, TypeOK, CacheStates, Answers
  <2>3. /\ res.ok = cache.res.ok /\ res.ver = cache.res.ver /\ res.age = cache.res.age
        /\ res.from = "cache"
    BY <2>1, <2>2 DEF Answers
  <2>4. /\ acked <= res.ver /\ res.ver <= version
        /\ HasTimeout => res.age <= TmoRead + cache.age
    BY <2>1, <2>3 DEF IInv, Caching
  <2>5. HasTimeout => res.age <= TmoRead + CacheTtl
    BY <2>2, <2>3, <2>4, Constants
  <2> QED
    BY <1>1, <1>2, <2>3, <2>4, <2>5 DEF Hearing
<1>7. Caching'
  BY <1>1, <1>2, <1>3 DEF IInv, Caching
<1>8. Commanding'
  BY <1>2 DEF IInv, Commanding, Given
<1> QED
  BY <1>4, <1>5, <1>6, <1>7, <1>8 DEF IInv

LEMMA Waiting ==
  ASSUME IInv, NEW m \in Calls, Serve(m), Connects("rpcd", m), UNCHANGED downLeft,
         daemon # "down",
         call' = [[Idle EXCEPT !.m = m] EXCEPT !.pc = "wait", !.healthy = (daemon = "up")]
  PROVE  IInv'
<1>1. /\ call' \in CallStates /\ call'.pc = "wait" /\ call'.m = m /\ call'.age = 0
      /\ call'.healthy => daemon = "up"
  BY Literals DEF CallStates, Idle
<1>2. cache' = Found(m) /\ UNCHANGED <<atTimeout, daemon, port, cli, version, acked, faults>>
      /\ call.pc = "free"
  BY DEF Serve
<1>3. cache' \in CacheStates /\ (cache'.kept => cache' = cache /\ m # "set")
  BY <1>2, Literals DEF Found, IInv, TypeOK
<1>4. PICK i \in Slots :
        /\ slots[i] = Free /\ slots' \in [Slots -> SlotStates]
        /\ slots'[i].st = "backlog" /\ slots'[i].client = "rpcd" /\ slots'[i].m = m
        /\ slots'[i].age = 0 /\ slots'[i].since = 0 /\ ~slots'[i].worked
        /\ \A k \in Slots : k # i => slots'[k] = slots[k]
  BY Connected DEF IInv
<1>5. TypeOK'
  BY <1>1, <1>2, <1>3, <1>4 DEF IInv, TypeOK
<1>6. Asking'
  <2>1. \A k \in Slots : slots'[k].client = "rpcd" => k = i
    BY <1>2, <1>4, NobodyAsked
  <2>2. \A k \in Slots : Asked(k)'
    BY <2>1, <1>1, <1>4 DEF Asked
  <2>3. Served(i)'
    BY <1>1, <1>4 DEF Served
  <2>4. 0 <= Tmo(m)
    BY Patience DEF IInv, TypeOK
  <2> QED
    BY <1>1, <1>2, <2>2, <2>3, <2>4 DEF Asking
<1>7. Hearing' /\ Caching'
  BY <1>1, <1>2, <1>3 DEF IInv, Hearing, Caching
<1>8. Commanding'
  <2>1. \A k \in Slots : slots'[k].m = "cli" => k # i /\ slots'[k] = slots[k]
    BY <1>4, Constants
  <2>2. \A k \in Slots : slots'[k].client = "cli" => k # i /\ slots'[k] = slots[k]
    BY <1>4
  <2> QED
    BY <1>2, <2>1, <2>2 DEF IInv, Commanding, Given
<1> QED
  BY <1>5, <1>6, <1>7, <1>8 DEF IInv

LEMMA ServeKeeps ==
  ASSUME IInv, NEW m \in Calls, Serve(m)
  PROVE  IInv'
<1>1. CASE Gated(m) /\ daemon = "down"
  BY <1>1, AnsweredAtOnce, Literals DEF Serve, IInv, TypeOK
<1>2. CASE ~(Gated(m) /\ daemon = "down") /\ Hit(m)
  <2>1. [Found(m).res EXCEPT !.from = "cache"] \in Answers
    BY Literals DEF Found, IInv, TypeOK, CacheStates, Answers
  <2> QED
    BY <1>2, <2>1, AnsweredAtOnce DEF Serve, IInv, TypeOK
<1>3. CASE ~(Gated(m) /\ daemon = "down") /\ ~Hit(m) /\ (downLeft > 0 \/ daemon = "down")
  <2>1. (IF downLeft = 0 THEN DownTtl ELSE downLeft) \in 0..DownTtl
    BY Constants DEF IInv, TypeOK
  <2>2. /\ call' = [[Idle EXCEPT !.m = m] EXCEPT !.pc = "heard", !.res = Refusal]
        /\ downLeft' = IF downLeft = 0 THEN DownTtl ELSE downLeft
        /\ UNCHANGED slots
    BY <1>3 DEF Serve, IInv, TypeOK
  <2> QED
    BY <2>1, <2>2, AnsweredAtOnce, Literals
<1>4. CASE daemon # "down" /\ ~Hit(m) /\ downLeft = 0
  <2>1. /\ call' = [[Idle EXCEPT !.m = m] EXCEPT !.pc = "wait", !.healthy = (daemon = "up")]
        /\ Connects("rpcd", m) /\ UNCHANGED downLeft
    BY <1>4 DEF Serve
  <2> QED
    BY <1>4, <2>1, Waiting
<1> QED
  BY <1>1, <1>2, <1>3, <1>4 DEF IInv, TypeOK

\* The plugin stops waiting.
LEMMA UnheardIs ==
  ASSUME TypeOK, Unheard
  PROVE  /\ call' \in CallStates /\ call'.pc = "heard" /\ call'.m = call.m
         /\ ~call'.res.ok /\ downLeft' \in 0..DownTtl
BY HeardIs, Literals, Constants DEF Unheard

LEMMA GiveUpKeeps ==
  ASSUME IInv, GiveUp
  PROVE  IInv'
<1>1. /\ call' \in CallStates /\ call'.pc = "heard" /\ call'.m = call.m
      /\ ~call'.res.ok /\ downLeft' \in 0..DownTtl /\ call.pc = "wait"
  BY UnheardIs DEF GiveUp, IInv
<1>2. UNCHANGED <<atTimeout, cache, daemon, port, cli, version, acked, faults>>
  BY DEF GiveUp
<1>3. /\ slots' \in [Slots -> SlotStates]
      /\ \A i \in Slots :
           /\ slots'[i].m = slots[i].m /\ slots'[i].worked = slots[i].worked
           /\ slots[i].client = "rpcd" => slots'[i].client = "gone"
           /\ slots[i].client # "rpcd" => slots'[i] = slots[i]
  BY Orphaned DEF GiveUp, IInv
<1>4. TypeOK'
  BY <1>1, <1>2, <1>3 DEF IInv, TypeOK
<1>5. \A i \in Slots : slots'[i].client # "rpcd"
  BY <1>3
<1>6. Asking'
  BY <1>1, <1>5 DEF Asking, Asked
<1>7. Hearing' /\ Caching'
  BY <1>1, <1>2 DEF IInv, Hearing, Caching
<1>8. Commanding'
  <2>1. \A i \in Slots : slots'[i].client = "cli" => slots[i].client = "cli"
    BY <1>3, <1>5
  <2> QED
    BY <1>2, <1>3, <2>1 DEF IInv, Commanding, Given
<1> QED
  BY <1>4, <1>6, <1>7, <1>8 DEF IInv

LEMMA ReplyKeeps ==
  ASSUME IInv, Reply
  PROVE  IInv'
<1>1. /\ call.pc = "heard" /\ call' = Idle
      /\ UNCHANGED <<atTimeout, downLeft, daemon, slots, port, cli, version, faults>>
  BY DEF Reply
<1>2. call' \in CallStates /\ call'.pc = "free"
  BY <1>1, Literals DEF Idle
<1>3. call.res \in Answers /\ call.res.ver \in Nat /\ version \in Nat /\ acked \in Nat
      /\ acked <= version
  BY DEF IInv, TypeOK, CallStates, Answers
<1>4. acked' \in 0..version
  <2>1. CASE call.m \in {"set", "dial"} /\ call.res.ok
    BY <1>1, <1>3, <2>1 DEF Reply, Larger, IInv, Hearing
  <2>2. CASE ~(call.m \in {"set", "dial"} /\ call.res.ok)
    BY <1>3, <2>2 DEF Reply
  <2> QED
    BY <2>1, <2>2
<1>5. /\ cache' \in CacheStates
      /\ cache'.kept /\ cache'.res.ok =>
           /\ acked' <= cache'.res.ver /\ cache'.res.ver <= version
           /\ HasTimeout => cache'.res.age <= TmoRead + cache'.age
  <2>1. CASE call.m = "status" /\ call.res.from = "daemon"
    <3>1. cache' = [kept |-> TRUE, age |-> 0, res |-> call.res] /\ acked' = acked
      BY <2>1 DEF Reply
    <3>2. cache' \in CacheStates
      BY <3>1, <1>3, Constants DEF CacheStates
    <3> QED
      BY <1>1, <2>1, <3>1, <3>2, Constants DEF IInv, Hearing
  <2>2. CASE call.m = "dial"
    BY <2>2, Literals DEF Reply
  <2>3. CASE call.m \notin {"dial"} /\ ~(call.m = "status" /\ call.res.from = "daemon")
    <3>1. cache' = cache
      BY <2>3 DEF Reply
    <3>2. cache.kept => acked' = acked
      BY <1>1, <2>3 DEF Reply, IInv, Caching
    <3> QED
      BY <3>1, <3>2 DEF IInv, TypeOK, Caching
  <2> QED
    BY <2>1, <2>2, <2>3
<1>6. TypeOK'
  BY <1>1, <1>2, <1>4, <1>5 DEF IInv, TypeOK
<1>7. Asking'
  BY <1>1, <1>2, NobodyAsked DEF Asking, Asked
<1>8. Hearing' /\ Caching'
  BY <1>1, <1>2, <1>5 DEF Hearing, Caching
<1>9. Commanding'
  BY <1>1 DEF IInv, Commanding, Given
<1> QED
  BY <1>6, <1>7, <1>8, <1>9 DEF IInv

-----------------------------------------------------------------------------
(* The daemon keeps it *)

\* A request whose client is told the outcome has no client any more.
LEMMA Told ==
  ASSUME IInv, NEW i \in Slots, NEW r \in SlotStates, slots' = [slots EXCEPT ![i] = r],
         r.client = "gone", r.m = "none" \/ (r.m = slots[i].m /\ r.worked = slots[i].worked),
         NEW res \in Answers, Tell(i, res),
         (slots[i].client = "rpcd" /\ res.ok) =>
            acked <= res.ver /\ res.ver <= version /\ res.age <= call.age,
         UNCHANGED <<atTimeout, cache, daemon, port, version, acked, faults>>
  PROVE  IInv'
<1>1. /\ slots' \in [Slots -> SlotStates] /\ slots'[i] = r
      /\ \A k \in Slots : k # i => slots'[k] = slots[k]
  BY DEF IInv, TypeOK
<1>2. CASE slots[i].client = "rpcd"
  <2>1. call' = Heard(res) /\ downLeft' = 0 /\ UNCHANGED cli
    BY <1>2 DEF Tell
  <2>2. call' \in CallStates /\ call'.pc = "heard" /\ call'.m = call.m /\ call'.res = res
    BY <2>1, HeardIs DEF IInv
  <2>3. TypeOK'
    BY <1>1, <2>1, <2>2, Constants DEF IInv, TypeOK
  <2>4. call.pc = "wait" /\ \A k \in Slots : slots[k].client = "rpcd" => k = i
    BY <1>2 DEF IInv, Asking, Asked
  <2>5. \A k \in Slots : slots'[k].client # "rpcd"
    BY <1>1, <2>4
  <2>6. Asking'
    BY <2>2, <2>5 DEF Asking, Asked
  <2>7. Hearing'
    <3>1. /\ HasTimeout => call.age <= Tmo(call.m)
          /\ call.age \in Nat /\ res.age \in Nat
      BY <2>4 DEF IInv, Asking, TypeOK, CallStates, Answers
    <3>2. (HasTimeout /\ call.m = "status" /\ res.ok) => res.age <= TmoRead
      BY <1>2, <3>1, Patience, Constants DEF IInv, TypeOK
    <3>3. (HasTimeout /\ call.m = "status" /\ res.ok) => res.age <= TmoRead + CacheTtl
      BY <3>1, <3>2, Constants
    <3> QED
      BY <1>2, <2>2, <3>2, <3>3 DEF Hearing
  <2>8. Caching'
    BY <2>2, <2>4 DEF IInv, Caching
  <2>9. Commanding'
    BY <1>1, <2>1, Constants DEF IInv, Commanding, Given
  <2> QED
    BY <2>3, <2>6, <2>7, <2>8, <2>9 DEF IInv
<1>3. CASE slots[i].client # "rpcd"
  <2>1. UNCHANGED <<call, downLeft>>
    BY <1>3 DEF Tell
  <2>2. Asking'
    <3>1. \A k \in Slots : slots'[k].client = "rpcd" => k # i /\ slots'[k] = slots[k]
      BY <1>1
    <3>2. \A k \in Slots : Asked(k)'
      BY <2>1, <3>1 DEF IInv, Asking, Asked
    <3>3. ASSUME NEW k \in Slots, Served(k) PROVE Served(k)'
      <4>1. k # i /\ slots'[k] = slots[k]
        BY <1>1, <1>3, <3>3 DEF Served
      <4> QED
        BY <2>1, <3>3, <4>1 DEF Served, Budget, Clamp
    <3>4. (call.pc = "wait" /\ call.healthy) => \E k \in Slots : Served(k)'
      BY <3>3 DEF IInv, Asking
    <3> QED
      BY <2>1, <3>2, <3>4 DEF IInv, Asking
  <2>3. Hearing' /\ Caching'
    BY <2>1 DEF IInv, Hearing, Caching
  <2>4. CASE slots[i].client # "cli"
    <3>1. UNCHANGED cli
      BY <1>3, <2>4 DEF Tell
    <3>2. TypeOK' /\ Commanding'
      BY <1>1, <2>1, <3>1, Constants DEF IInv, TypeOK, Commanding, Given
    <3> QED
      BY <2>2, <2>3, <3>2 DEF IInv
  <2>5. CASE slots[i].client = "cli"
    <3>1. slots[i].m = "cli" /\ cli.pc = "wait"
      BY <2>5 DEF IInv, Commanding
    <3>2. /\ cli' \in CliStates /\ cli'.pc \in {"done", "local"} /\ cli'.kept = cli.kept
          /\ cli'.effects = cli.effects
      <4>1. cli' = [cli EXCEPT !.pc = IF res.ok THEN "done" ELSE "local", !.age = 0]
        BY <2>5 DEF Tell
      <4>2. 0 \in 0..WriteMax
        BY Constants
      <4>3. cli' \in CliStates
        BY <4>1, <4>2 DEF IInv, TypeOK, CliStates
      <4> QED
        BY <4>1, <4>3 DEF IInv, TypeOK, CliStates
    <3>3. TypeOK'
      BY <1>1, <2>1, <3>2 DEF IInv, TypeOK
    <3>4. \A k \in Slots : slots[k].m = "cli" => k = i
      BY <3>1 DEF IInv, Commanding, Given
    <3>5. Commanding'
      BY <1>1, <3>1, <3>2, <3>4, Constants DEF IInv, Commanding, Given
    <3> QED
      BY <2>2, <2>3, <3>3, <3>5 DEF IInv
  <2> QED
    BY <2>4, <2>5
<1> QED
  BY <1>2, <1>3

LEMMA FreeIs ==
  Free.client = "gone" /\ Free.m = "none"
BY DEF Free

LEMMA AcceptKeeps ==
  ASSUME IInv, NEW i \in Slots, Accept(i)
  PROVE  IInv'
<1>1. CASE slots' = [slots EXCEPT ![i] = Free]
  <2>1. Tell(i, Failure)
    <3>1. slots[i].st # "free" /\ slots'[i] = Free
      BY <1>1 DEF Accept, IInv, TypeOK
    <3>2. [slots EXCEPT ![i].st = "running", ![i].permit = TRUE][i].st = "running"
      BY DEF IInv, TypeOK, SlotStates
    <3> QED
      BY <3>1, <3>2 DEF Accept, Free
  <2> QED
    BY <1>1, <2>1, Told, Literals, FreeIs DEF Accept
<1>2. CASE /\ slots' = [slots EXCEPT ![i].st = "running", ![i].permit = TRUE]
           /\ UNCHANGED <<call, downLeft, cli>>
  <2>1. UNCHANGED <<atTimeout, call, downLeft, cache, daemon, port, cli, version, acked, faults>>
        /\ slots[i].st = "backlog"
    BY <1>2 DEF Accept
  <2>2. /\ slots' \in [Slots -> SlotStates]
        /\ slots'[i].st = "running" /\ slots'[i].permit
        /\ \A k \in Slots :
             /\ slots'[k].m = slots[k].m /\ slots'[k].worked = slots[k].worked
             /\ slots'[k].client = slots[k].client /\ slots'[k].age = slots[k].age
             /\ slots'[k].since = slots[k].since /\ slots'[k].ver = slots[k].ver
             /\ k # i => slots'[k] = slots[k]
    <3> DEFINE r == [slots[i] EXCEPT !.st = "running", !.permit = TRUE]
    <3>1. slots[i] \in SlotStates /\ slots \in [Slots -> SlotStates]
      BY DEF IInv, TypeOK
    <3>2. slots' = [slots EXCEPT ![i] = r]
      BY <1>2, <3>1
    <3>3. /\ r \in SlotStates /\ r.st = "running" /\ r.permit
          /\ r.m = slots[i].m /\ r.worked = slots[i].worked /\ r.client = slots[i].client
          /\ r.age = slots[i].age /\ r.since = slots[i].since /\ r.ver = slots[i].ver
      BY <3>1 DEF SlotStates
    <3> HIDE DEF r
    <3> QED
      BY <3>1, <3>2, <3>3
  <2>3. TypeOK'
    BY <2>1, <2>2 DEF IInv, TypeOK
  <2>4. Asking'
    <3>1. \A k \in Slots : Asked(k)'
      BY <2>1, <2>2 DEF IInv, Asking, Asked
    <3>2. ASSUME NEW k \in Slots, Served(k) PROVE Served(k)'
      <4>1. CASE k = i
        <5>1. call.age = 0 /\ slots[i].age = 0 /\ slots[i].client = "rpcd"
          BY <2>1, <3>2, <4>1 DEF Served
        <5>2. 0 <= Budget(call.m)' /\ call'.age = 0 /\ slots'[i].age = 0
          BY <2>1, <2>2, <5>1, Patience DEF IInv, TypeOK, Budget, Clamp
        <5> QED
          BY <2>2, <4>1, <5>1, <5>2 DEF Served
      <4>2. CASE k # i
        BY <2>1, <2>2, <3>2, <4>2 DEF Served, Budget, Clamp
      <4> QED
        BY <4>1, <4>2
    <3>3. (call.pc = "wait" /\ call.healthy) => \E k \in Slots : Served(k)'
      BY <3>2 DEF IInv, Asking
    <3> QED
      BY <2>1, <3>1, <3>3 DEF IInv, Asking
  <2>5. Hearing' /\ Caching' /\ Commanding'
    BY <2>1, <2>2 DEF IInv, Hearing, Caching, Commanding, Given
  <2> QED
    BY <2>3, <2>4, <2>5 DEF IInv
<1> QED
  BY <1>1, <1>2 DEF Accept

LEMMA WorkKeeps ==
  ASSUME IInv, NEW i \in Slots, Work(i)
  PROVE  IInv'
<1>1. /\ slots[i].st = "running" /\ ~slots[i].worked
      /\ UNCHANGED <<atTimeout, call, downLeft, cache, daemon, port, acked, faults>>
  BY DEF Work
<1>2. version' \in 0..MaxWrites /\ version <= version' /\ acked <= version'
      /\ version \in Nat /\ acked \in Nat
  BY Constants DEF Work, IInv, TypeOK
<1>3. /\ slots' \in [Slots -> SlotStates]
      /\ slots'[i].worked
      /\ slots[i].client = "rpcd" => slots'[i].ver = version'
      /\ \A k \in Slots :
           /\ slots'[k].m = slots[k].m /\ slots'[k].st = slots[k].st
           /\ slots'[k].client = slots[k].client /\ slots'[k].age = slots[k].age
           /\ slots'[k].since = slots[k].since /\ slots'[k].permit = slots[k].permit
           /\ k # i => slots'[k] = slots[k]
  <2> DEFINE v == IF slots[i].client = "rpcd" THEN version' ELSE 0
  <2>1. v \in 0..MaxWrites /\ (slots[i].client = "rpcd" => v = version')
    BY <1>2, Constants
  <2>2. slots' = [slots EXCEPT ![i].worked = TRUE, ![i].ver = v]
    BY DEF Work
  <2> HIDE DEF v
  <2>3. slots' \in [Slots -> SlotStates] /\ slots'[i].ver = v
    <3> DEFINE r == [slots[i] EXCEPT !.worked = TRUE, !.ver = v]
    <3>1. slots[i] \in SlotStates /\ slots \in [Slots -> SlotStates]
      BY DEF IInv, TypeOK
    <3>2. slots' = [slots EXCEPT ![i] = r]
      BY <2>2, <3>1
    <3>3. r \in SlotStates /\ r.ver = v
      BY <2>1, <3>1 DEF SlotStates
    <3> HIDE DEF r
    <3> QED
      BY <3>1, <3>2, <3>3
  <2>4. /\ slots'[i].worked
        /\ \A k \in Slots :
             /\ slots'[k].m = slots[k].m /\ slots'[k].st = slots[k].st
             /\ slots'[k].client = slots[k].client /\ slots'[k].age = slots[k].age
             /\ slots'[k].since = slots[k].since /\ slots'[k].permit = slots[k].permit
             /\ k # i => slots'[k] = slots[k]
    BY <2>2 DEF IInv, TypeOK, SlotStates
  <2> QED
    BY <2>1, <2>3, <2>4
<1>4. ASSUME slots[i].m # "cli"
      PROVE  cli' \in CliStates /\ Commanding'
  <2>1. UNCHANGED cli
    BY <1>4 DEF Work
  <2> QED
    BY <1>1, <1>2, <1>3, <1>4, <2>1 DEF IInv, TypeOK, Commanding, Given
<1>5. ASSUME slots[i].m = "cli"
      PROVE  cli' \in CliStates /\ Commanding'
  <2>1. /\ \A k \in Slots : slots[k].m = "cli" => k = i
        /\ cli.effects <= 1 /\ (cli.kept \/ cli.pc \in {"wait", "local"} => cli.effects = 0)
        /\ cli.pc # "idle"
    BY <1>1, <1>5 DEF IInv, Commanding, Given
  <2>2. cli \in CliStates /\ cli.effects \in 0..2
    BY DEF IInv, TypeOK, CliStates
  <2>3. cli.effects + 1 \in 0..2
    BY <2>1, <2>2
  <2>4. cli' = [cli EXCEPT !.effects = cli.effects + 1]
    BY <1>5 DEF Work
  <2>5. cli' \in CliStates
    BY <2>2, <2>3, <2>4 DEF CliStates
  <2>6. cli'.pc = cli.pc /\ cli'.kept = cli.kept /\ cli'.effects = cli.effects + 1
    BY <2>2, <2>4 DEF CliStates
  <2>7. Commanding'
    BY <1>1, <1>3, <2>1, <2>2, <2>6 DEF IInv, Commanding, Given
  <2> QED
    BY <2>5, <2>7
<1>6. TypeOK' /\ Commanding'
  BY <1>1, <1>2, <1>3, <1>4, <1>5 DEF IInv, TypeOK
<1>7. Asking'
  <2>1. \A k \in Slots : slots[k].ver \in Nat
    BY DEF IInv, TypeOK, SlotStates
  <2>2. \A k \in Slots : Asked(k)'
    BY <1>1, <1>2, <1>3, <2>1 DEF IInv, Asking, Asked
  <2>3. ASSUME NEW k \in Slots, Served(k) PROVE Served(k)'
    BY <1>1, <1>3, <2>3 DEF Served, Budget, Clamp
  <2>4. (call.pc = "wait" /\ call.healthy) => \E k \in Slots : Served(k)'
    BY <2>3 DEF IInv, Asking
  <2> QED
    BY <1>1, <2>2, <2>4 DEF IInv, Asking
<1>8. Hearing' /\ Caching'
  <2>1. call.res.ver \in Nat /\ cache.res.ver \in Nat
    BY DEF IInv, TypeOK, CallStates, CacheStates, Answers
  <2> QED
    BY <1>1, <1>2, <2>1 DEF IInv, Hearing, Caching
<1> QED
  BY <1>6, <1>7, <1>8 DEF IInv

LEMMA FinishKeeps ==
  ASSUME IInv, NEW i \in Slots, Finish(i)
  PROVE  IInv'
<1> DEFINE res == IF slots[i].worked
                  THEN [ok |-> TRUE, ver |-> slots[i].ver, age |-> slots[i].since,
                        from |-> "daemon"]
                  ELSE Failure
<1>1. slots[i] \in SlotStates
  BY DEF IInv, TypeOK
<1>2. res \in Answers
  BY <1>1, Literals DEF SlotStates, Answers
<1>3. (slots[i].client = "rpcd" /\ res.ok) =>
        acked <= res.ver /\ res.ver <= version /\ res.age <= call.age
  <2>1. CASE slots[i].worked
    BY <2>1 DEF IInv, Asking, Asked
  <2>2. CASE ~slots[i].worked
    BY <2>2, Literals
  <2> QED
    BY <2>1, <2>2
<1>4. Tell(i, res) /\ slots' = [slots EXCEPT ![i] = Free]
      /\ UNCHANGED <<atTimeout, cache, daemon, port, version, acked, faults>>
  BY DEF Finish
<1> HIDE DEF res
<1> QED
  BY <1>2, <1>3, <1>4, Told, Literals, FreeIs

LEMMA DeadlineKeeps ==
  ASSUME IInv, NEW i \in Slots, Deadline(i)
  PROVE  IInv'
<1> DEFINE r == [Orphan(slots[i]) EXCEPT !.permit = FALSE, !.age = 0]
<1>1. Orphan(slots[i]) \in SlotStates /\ Orphan(slots[i]).client = "gone"
      /\ Orphan(slots[i]).m = slots[i].m /\ Orphan(slots[i]).worked = slots[i].worked
  BY OrphanIs DEF IInv, TypeOK
<1>2. 0 \in 0..WriteMax
  BY Constants
<1>3. r \in SlotStates
  BY <1>1, <1>2 DEF SlotStates
<1>4. r.client = "gone" /\ r.m = slots[i].m /\ r.worked = slots[i].worked
  BY <1>1 DEF SlotStates
<1>5. slots' = [slots EXCEPT ![i] = r] /\ Tell(i, Failure)
      /\ UNCHANGED <<atTimeout, cache, daemon, port, version, acked, faults>>
  BY DEF Deadline
<1> HIDE DEF r
<1> QED
  BY <1>3, <1>4, <1>5, Told, Literals

LEMMA AcquirePortKeeps ==
  ASSUME IInv, AcquirePort
  PROVE  IInv'
<1>1. /\ daemon = "up" /\ port = "none" /\ port' = "daemon"
      /\ UNCHANGED <<atTimeout, call, downLeft, cache, daemon, slots, cli, version, acked, faults>>
  BY DEF AcquirePort
<1>2. TypeOK'
  BY <1>1 DEF IInv, TypeOK
<1>3. Asking'
  BY <1>1 DEF IInv, Asking, Asked, Served, Budget, Clamp
<1>4. Hearing' /\ Caching' /\ Commanding'
  BY <1>1 DEF IInv, Hearing, Caching, Commanding, Given
<1> QED
  BY <1>2, <1>3, <1>4 DEF IInv

LEMMA Lapses ==
  ASSUME TypeOK, Lapse
  PROVE  faults' \in 0..MaxFaults
BY Constants DEF TypeOK, Lapse

LEMMA ReleasePortKeeps ==
  ASSUME IInv, ReleasePort
  PROVE  IInv'
<1>1. UNCHANGED <<atTimeout, call, downLeft, cache, daemon, slots, version, acked>>
      /\ port' = "none" /\ faults' \in 0..MaxFaults
  BY Lapses DEF ReleasePort, IInv
<1>2. /\ cli' \in CliStates /\ cli'.pc = cli.pc /\ ~cli'.kept /\ cli'.effects = cli.effects
  BY DEF ReleasePort, IInv, TypeOK, CliStates
<1>3. TypeOK'
  BY <1>1, <1>2 DEF IInv, TypeOK
<1>4. Asking'
  BY <1>1 DEF IInv, Asking, Asked, Served, Budget, Clamp
<1>5. Hearing' /\ Caching'
  BY <1>1 DEF IInv, Hearing, Caching
<1>6. Commanding'
  BY <1>1, <1>2 DEF IInv, Commanding, Given
<1> QED
  BY <1>3, <1>4, <1>5, <1>6 DEF IInv

LEMMA HangKeeps ==
  ASSUME IInv, Hang
  PROVE  IInv'
<1>1. UNCHANGED <<atTimeout, downLeft, cache, slots, port, cli, version, acked>>
      /\ daemon' = "hung" /\ faults' \in 0..MaxFaults
  BY Lapses DEF Hang, IInv
<1>2. /\ call' \in CallStates /\ ~call'.healthy
      /\ call'.pc = call.pc /\ call'.m = call.m /\ call'.age = call.age /\ call'.res = call.res
  BY DEF Hang, Sick, IInv, TypeOK, CallStates
<1>3. TypeOK'
  BY <1>1, <1>2 DEF IInv, TypeOK
<1>4. Asking'
  BY <1>1, <1>2 DEF IInv, Asking, Asked, Tmo
<1>5. Hearing' /\ Caching' /\ Commanding'
  BY <1>1, <1>2 DEF IInv, Hearing, Caching, Commanding, Given
<1> QED
  BY <1>3, <1>4, <1>5 DEF IInv

LEMMA StopKeeps ==
  ASSUME IInv, Stop
  PROVE  IInv'
<1>1. UNCHANGED <<atTimeout, cache, version, acked>>
      /\ daemon' = "down" /\ faults' \in 0..MaxFaults
      /\ port' \in {"none", "daemon", "cli"} /\ slots' = [i \in Slots |-> Free]
  BY Lapses DEF Stop, IInv, TypeOK
<1>2. slots' \in [Slots -> SlotStates] /\ \A i \in Slots : slots'[i] = Free
  BY <1>1, Literals
<1>3. /\ call' \in CallStates /\ downLeft' \in 0..DownTtl /\ call'.pc # "wait"
      /\ call'.m = call.m /\ (call'.pc # "free" <=> call.pc # "free")
      /\ call'.res.ok => UNCHANGED call
  <2>1. CASE call.pc = "wait"
    BY <2>1, UnheardIs DEF Stop, IInv
  <2>2. CASE call.pc # "wait"
    BY <2>2 DEF Stop, IInv, TypeOK
  <2> QED
    BY <2>1, <2>2
<1>4. /\ cli' \in CliStates /\ ~cli'.kept /\ cli'.effects = cli.effects
      /\ cli'.pc = IF cli.pc = "wait" THEN "local" ELSE cli.pc
  <2> DEFINE next == IF cli.pc = "wait" THEN "local" ELSE cli.pc
  <2>1. next \in {"idle", "wait", "local", "holds", "done"} /\ 0 \in 0..WriteMax
    BY Constants DEF IInv, TypeOK, CliStates
  <2>2. cli' = [cli EXCEPT !.pc = next, !.age = 0, !.kept = FALSE]
    BY DEF Stop
  <2> HIDE DEF next
  <2>3. cli' \in CliStates /\ ~cli'.kept /\ cli'.effects = cli.effects /\ cli'.pc = next
    BY <2>1, <2>2 DEF IInv, TypeOK, CliStates
  <2> QED
    BY <2>3 DEF next
<1>5. TypeOK'
  BY <1>1, <1>2, <1>3, <1>4 DEF IInv, TypeOK
<1>6. Asking'
  BY <1>2, <1>3, FreeIs DEF Asking, Asked
<1>7. Hearing' /\ Caching'
  BY <1>1, <1>3 DEF IInv, Hearing, Caching
<1>8. Commanding'
  BY <1>2, <1>4, FreeIs DEF IInv, Commanding, Given
<1> QED
  BY <1>5, <1>6, <1>7, <1>8 DEF IInv

LEMMA RecoverKeeps ==
  ASSUME IInv, Recover
  PROVE  IInv'
<1>1. UNCHANGED <<atTimeout, call, downLeft, cache, slots, port, cli, version, acked, faults>>
      /\ daemon # "up" /\ daemon' = "up"
  BY DEF Recover
<1>2. TypeOK'
  BY <1>1 DEF IInv, TypeOK
<1>3. Asking'
  BY <1>1 DEF IInv, Asking, Asked
<1>4. Hearing' /\ Caching' /\ Commanding'
  BY <1>1 DEF IInv, Hearing, Caching, Commanding, Given
<1> QED
  BY <1>2, <1>3, <1>4 DEF IInv

-----------------------------------------------------------------------------
(* The command line keeps it *)

LEMMA CliRunsKeeps ==
  ASSUME IInv, CliRuns
  PROVE  IInv'
<1>1. UNCHANGED <<atTimeout, call, downLeft, cache, daemon, port, version, acked, faults>>
      /\ cli.pc = "idle"
  BY DEF CliRuns
<1>2. cli \in CliStates /\ cli.effects = 0 /\ ~cli.kept /\ \A k \in Slots : slots[k].m # "cli"
  BY <1>1 DEF IInv, TypeOK, Commanding, Given
<1>3. Hearing' /\ Caching'
  BY <1>1 DEF IInv, Hearing, Caching
<1>4. CASE daemon = "down"
  <2>1. cli' = [cli EXCEPT !.pc = "local"] /\ UNCHANGED slots
    BY <1>4 DEF CliRuns
  <2>2. cli' \in CliStates /\ cli'.pc = "local" /\ cli'.effects = 0 /\ ~cli'.kept
    BY <1>2, <2>1 DEF CliStates
  <2>3. TypeOK'
    BY <1>1, <2>1, <2>2 DEF IInv, TypeOK
  <2>4. Asking'
    BY <1>1, <2>1 DEF IInv, Asking, Asked, Served, Budget, Clamp
  <2>5. Commanding'
    BY <1>1, <1>2, <2>1, <2>2 DEF IInv, Commanding, Given
  <2> QED
    BY <1>3, <2>3, <2>4, <2>5 DEF IInv
<1>5. CASE daemon # "down"
  <2>1. cli' = [cli EXCEPT !.pc = "wait", !.kept = (port = "daemon")] /\ Connects("cli", "cli")
    BY <1>5 DEF CliRuns
  <2>2. /\ cli' \in CliStates /\ cli'.pc = "wait" /\ cli'.effects = 0
        /\ cli'.kept => port = "daemon"
    BY <1>2, <2>1 DEF CliStates
  <2>3. PICK i \in Slots :
          /\ slots[i] = Free /\ slots' \in [Slots -> SlotStates]
          /\ slots'[i].client = "cli" /\ slots'[i].m = "cli"
          /\ \A k \in Slots : k # i => slots'[k] = slots[k]
    BY <2>1, Connected DEF IInv
  <2>4. TypeOK'
    BY <1>1, <2>2, <2>3 DEF IInv, TypeOK
  <2>5. \A k \in Slots : slots'[k].client = "rpcd" => k # i /\ slots'[k] = slots[k]
    BY <2>3
  <2>6. ASSUME NEW k \in Slots, Served(k) PROVE Served(k)'
    <3>1. k # i
      BY <2>3, <2>6, FreeIs DEF Served
    <3> QED
      BY <1>1, <2>3, <2>6, <3>1 DEF Served, Budget, Clamp
  <2>7. Asking'
    <3>1. \A k \in Slots : Asked(k)'
      BY <1>1, <2>5 DEF IInv, Asking, Asked
    <3>2. (call.pc = "wait" /\ call.healthy) => \E k \in Slots : Served(k)'
      BY <2>6 DEF IInv, Asking
    <3> QED
      BY <1>1, <3>1, <3>2 DEF IInv, Asking
  <2>8. Commanding'
    BY <1>1, <1>2, <2>2, <2>3 DEF IInv, Commanding, Given
  <2> QED
    BY <1>3, <2>4, <2>7, <2>8 DEF IInv
<1> QED
  BY <1>4, <1>5

LEMMA CliGivesUpKeeps ==
  ASSUME IInv, CliGivesUp
  PROVE  IInv'
<1>1. UNCHANGED <<atTimeout, call, downLeft, cache, daemon, port, version, acked, faults>>
      /\ cli.pc = "wait"
  BY DEF CliGivesUp
<1>2. /\ slots' \in [Slots -> SlotStates]
      /\ \A k \in Slots :
           /\ slots'[k].m = slots[k].m /\ slots'[k].worked = slots[k].worked
           /\ slots[k].client = "cli" => slots'[k].client = "gone"
           /\ slots[k].client # "cli" => slots'[k] = slots[k]
  BY Orphaned DEF CliGivesUp, IInv
<1>3. cli' \in CliStates /\ cli'.pc = "local" /\ cli'.kept = cli.kept /\ cli'.effects = cli.effects
  <2>1. 0 \in 0..WriteMax
    BY Constants
  <2> QED
    BY <2>1 DEF CliGivesUp, IInv, TypeOK, CliStates
<1>4. TypeOK'
  BY <1>1, <1>2, <1>3 DEF IInv, TypeOK
<1>5. Asking'
  <2>1. \A k \in Slots : slots'[k].client = "rpcd" => slots'[k] = slots[k]
    BY <1>2
  <2>2. \A k \in Slots : Asked(k)'
    BY <1>1, <2>1 DEF IInv, Asking, Asked
  <2>3. ASSUME NEW k \in Slots, Served(k) PROVE Served(k)'
    BY <1>1, <1>2, <2>3 DEF Served, Budget, Clamp
  <2>4. (call.pc = "wait" /\ call.healthy) => \E k \in Slots : Served(k)'
    BY <2>3 DEF IInv, Asking
  <2> QED
    BY <1>1, <2>2, <2>4 DEF IInv, Asking
<1>6. Hearing' /\ Caching'
  BY <1>1 DEF IInv, Hearing, Caching
<1>7. Commanding'
  <2>1. \A k \in Slots : slots'[k].client # "cli"
    BY <1>2
  <2> QED
    BY <1>1, <1>2, <1>3, <2>1 DEF IInv, Commanding, Given
<1> QED
  BY <1>4, <1>5, <1>6, <1>7 DEF IInv

LEMMA CliLocalKeeps ==
  ASSUME IInv, CliLocal
  PROVE  IInv'
<1>1. UNCHANGED <<atTimeout, call, downLeft, cache, daemon, slots, acked, faults>>
      /\ cli.pc = "local" /\ cli \in CliStates /\ cli.effects \in 0..2 /\ cli.effects <= 1
  BY DEF CliLocal, IInv, TypeOK, CliStates, Commanding
<1>2. version \in Nat /\ acked \in Nat /\ acked <= version
  BY DEF IInv, TypeOK
<1>3. /\ version' \in 0..MaxWrites /\ version <= version'
      /\ cli' \in CliStates /\ cli'.kept = cli.kept /\ cli'.pc \in {"holds", "done"}
      /\ \/ cli'.effects = cli.effects /\ cli'.pc = "done" /\ UNCHANGED port
         \/ cli'.effects = cli.effects + 1 /\ ~cli.kept /\ port' = "cli"
  <2>1. CASE MayOpen
    <3>1. cli.effects + 1 \in 0..2
      BY <1>1
    <3>2. /\ version' = version + 1 /\ version < MaxWrites /\ port' = "cli" /\ port = "none"
          /\ cli' = [cli EXCEPT !.pc = "holds", !.effects = cli.effects + 1]
      BY <2>1 DEF CliLocal, MayOpen
    <3>3. cli' \in CliStates /\ cli'.pc = "holds" /\ cli'.kept = cli.kept
          /\ cli'.effects = cli.effects + 1
      BY <1>1, <3>1, <3>2 DEF CliStates
    <3>4. ~cli.kept
      BY <3>2 DEF IInv, Commanding
    <3> QED
      BY <1>2, <3>2, <3>3, <3>4, Constants
  <2>2. CASE ~MayOpen
    <3>1. cli' = [cli EXCEPT !.pc = "done"] /\ UNCHANGED <<version, port>>
      BY <2>2 DEF CliLocal
    <3>2. cli' \in CliStates /\ cli'.pc = "done" /\ cli'.kept = cli.kept
          /\ cli'.effects = cli.effects
      BY <1>1, <3>1 DEF CliStates
    <3> QED
      BY <1>2, <3>1, <3>2 DEF IInv, TypeOK
  <2> QED
    BY <2>1, <2>2
<1>4. TypeOK'
  <2>1. acked \in 0..version'
    BY <1>2, <1>3
  <2> QED
    BY <1>1, <1>3, <2>1 DEF IInv, TypeOK
<1>5. Asking'
  <2>1. \A k \in Slots : slots[k].ver \in Nat
    BY DEF IInv, TypeOK, SlotStates
  <2>2. \A k \in Slots : Asked(k)'
    BY <1>1, <1>2, <1>3, <2>1 DEF IInv, Asking, Asked
  <2>3. ASSUME NEW k \in Slots, Served(k) PROVE Served(k)'
    BY <1>1, <2>3 DEF Served, Budget, Clamp
  <2>4. (call.pc = "wait" /\ call.healthy) => \E k \in Slots : Served(k)'
    BY <2>3 DEF IInv, Asking
  <2> QED
    BY <1>1, <2>2, <2>4 DEF IInv, Asking
<1>6. Hearing' /\ Caching'
  <2>1. call.res.ver \in Nat /\ cache.res.ver \in Nat
    BY DEF IInv, TypeOK, CallStates, CacheStates, Answers
  <2> QED
    BY <1>1, <1>2, <1>3, <2>1 DEF IInv, Hearing, Caching
<1>7. Commanding'
  BY <1>1, <1>3 DEF IInv, Commanding, Given
<1> QED
  BY <1>4, <1>5, <1>6, <1>7 DEF IInv

LEMMA CliExitsKeeps ==
  ASSUME IInv, CliExits
  PROVE  IInv'
<1>1. UNCHANGED <<atTimeout, call, downLeft, cache, daemon, slots, version, acked, faults>>
      /\ cli.pc = "holds" /\ port' = "none" /\ ~cli.kept
  BY DEF CliExits, IInv, Commanding
<1>2. cli' \in CliStates /\ cli'.pc = "done" /\ cli'.kept = cli.kept /\ cli'.effects = cli.effects
  BY DEF CliExits, IInv, TypeOK, CliStates
<1>3. TypeOK'
  BY <1>1, <1>2 DEF IInv, TypeOK
<1>4. Asking'
  BY <1>1 DEF IInv, Asking, Asked, Served, Budget, Clamp
<1>5. Hearing' /\ Caching' /\ Commanding'
  BY <1>1, <1>2 DEF IInv, Hearing, Caching, Commanding, Given
<1> QED
  BY <1>3, <1>4, <1>5 DEF IInv

-----------------------------------------------------------------------------
(* Time keeps it *)

LEMMA OlderIs ==
  ASSUME NEW res \in Answers
  PROVE  /\ Older(res) \in Answers /\ Older(res).ok = res.ok /\ Older(res).ver = res.ver
         /\ Older(res).age <= res.age + 1
<1>1. res.age \in 0..OldAnswer
  BY DEF Answers
<1>2. (IF res.ok THEN Upto(res.age, OldAnswer) ELSE res.age) \in 0..OldAnswer
      /\ (IF res.ok THEN Upto(res.age, OldAnswer) ELSE res.age) <= res.age + 1
  BY <1>1, Constants DEF Upto
<1> DEFINE a == IF res.ok THEN Upto(res.age, OldAnswer) ELSE res.age
<1>3. Older(res) = [res EXCEPT !.age = a]
  BY DEF Older
<1>4. a \in 0..OldAnswer /\ a <= res.age + 1
  BY <1>2
<1> HIDE DEF a
<1> QED
  BY <1>3, <1>4 DEF Answers

\* A request gets older while it has its permit, and what it has found while
\* somebody waits for it.
LEMMA SlotsOlder ==
  ASSUME TypeOK, Tick
  PROVE  /\ slots' \in [Slots -> SlotStates]
         /\ \A i \in Slots :
              /\ slots'[i].st = slots[i].st /\ slots'[i].m = slots[i].m
              /\ slots'[i].client = slots[i].client /\ slots'[i].permit = slots[i].permit
              /\ slots'[i].worked = slots[i].worked /\ slots'[i].ver = slots[i].ver
              /\ slots'[i].since <= slots[i].since + 1
              /\ slots'[i].age = IF slots[i].permit THEN Upto(slots[i].age, WriteMax)
                                                    ELSE slots[i].age
<1> DEFINE age(i) == IF slots[i].permit THEN Upto(slots[i].age, WriteMax) ELSE slots[i].age
           since(i) == IF slots[i].worked /\ slots[i].client = "rpcd"
                       THEN Upto(slots[i].since, OldAnswer) ELSE slots[i].since
<1>1. slots' = [i \in Slots |-> [slots[i] EXCEPT !.age = age(i), !.since = since(i)]]
  BY DEF Tick
<1>2. ASSUME NEW i \in Slots
      PROVE  /\ age(i) \in 0..WriteMax
             /\ since(i) \in 0..OldAnswer /\ since(i) <= slots[i].since + 1
  <2>1. slots[i].age \in 0..WriteMax /\ slots[i].since \in 0..OldAnswer
    BY DEF TypeOK, SlotStates
  <2> QED
    BY <2>1, Constants DEF Upto
<1> HIDE DEF since
<1>3. ASSUME NEW i \in Slots
      PROVE  /\ slots'[i] \in SlotStates
             /\ slots'[i].st = slots[i].st /\ slots'[i].m = slots[i].m
             /\ slots'[i].client = slots[i].client /\ slots'[i].permit = slots[i].permit
             /\ slots'[i].worked = slots[i].worked /\ slots'[i].ver = slots[i].ver
             /\ slots'[i].since = since(i) /\ slots'[i].age = age(i)
  <2> HIDE DEF age
  <2>1. slots'[i] = [slots[i] EXCEPT !.age = age(i), !.since = since(i)]
    BY <1>1
  <2>2. slots[i] \in SlotStates
    BY DEF TypeOK
  <2>3. slots'[i] \in SlotStates /\ slots'[i].since = since(i) /\ slots'[i].age = age(i)
    BY <2>1, <2>2, <1>2 DEF SlotStates
  <2>4. /\ slots'[i].st = slots[i].st /\ slots'[i].m = slots[i].m
        /\ slots'[i].client = slots[i].client /\ slots'[i].permit = slots[i].permit
        /\ slots'[i].worked = slots[i].worked /\ slots'[i].ver = slots[i].ver
    BY <2>1, <2>2 DEF SlotStates
  <2> QED
    BY <2>3, <2>4
<1>4. slots' \in [Slots -> SlotStates]
  BY <1>1, <1>3
<1> QED
  BY <1>2, <1>3, <1>4

LEMMA TickKeeps ==
  ASSUME IInv, Tick
  PROVE  IInv'
<1>1. ~Due /\ UNCHANGED <<atTimeout, daemon, port, version, acked, faults>>
  BY DEF Tick
<1>2. /\ slots' \in [Slots -> SlotStates]
      /\ \A i \in Slots :
           /\ slots'[i].st = slots[i].st /\ slots'[i].m = slots[i].m
           /\ slots'[i].client = slots[i].client /\ slots'[i].permit = slots[i].permit
           /\ slots'[i].worked = slots[i].worked /\ slots'[i].ver = slots[i].ver
           /\ slots'[i].since <= slots[i].since + 1
           /\ slots'[i].age = IF slots[i].permit THEN Upto(slots[i].age, WriteMax)
                                                 ELSE slots[i].age
  BY SlotsOlder DEF IInv
<1>3. call.pc # "heard" /\ (HasTimeout /\ call.pc = "wait" => call.age < Tmo(call.m))
  <2>1. call.age \in Nat /\ Tmo(call.m) \in Nat
    BY Patience DEF IInv, TypeOK, CallStates
  <2> QED
    BY <1>1, <2>1 DEF Due
<1>4. /\ call' \in CallStates /\ call'.pc = call.pc /\ call'.m = call.m
      /\ call'.healthy = call.healthy
      /\ call.pc = "wait" => call'.age = Upto(call.age, LongestWait)
  <2>1. CASE call.pc = "wait"
    <3> DEFINE age == Upto(call.age, LongestWait)
    <3>1. call.age \in 0..LongestWait
      BY DEF IInv, TypeOK, CallStates
    <3>2. age \in 0..LongestWait
      BY <3>1, Constants DEF Upto
    <3>3. call' = [call EXCEPT !.age = age]
      BY <2>1 DEF Tick
    <3> HIDE DEF age
    <3>4. /\ call' \in CallStates /\ call'.pc = call.pc /\ call'.m = call.m
          /\ call'.healthy = call.healthy /\ call'.age = age
      BY <3>2, <3>3 DEF IInv, TypeOK, CallStates
    <3> QED
      BY <3>4 DEF age
  <2>2. CASE call.pc # "wait"
    BY <2>2 DEF Tick, IInv, TypeOK
  <2> QED
    BY <2>1, <2>2
<1>5. /\ cli' \in CliStates /\ cli'.pc = cli.pc /\ cli'.kept = cli.kept
      /\ cli'.effects = cli.effects
  <2>1. CASE cli.pc = "wait"
    <3>1. cli.age \in Nat /\ cli.age < Budget("cli") /\ Budget("cli") <= WriteMax
          /\ Budget("cli") \in Nat
      BY <1>1, <2>1, Patience DEF Due, IInv, TypeOK, CliStates
    <3>2. cli.age + 1 \in 0..WriteMax
      BY <3>1, Constants
    <3>3. cli' = [cli EXCEPT !.age = cli.age + 1]
      BY <2>1 DEF Tick
    <3> QED
      BY <3>2, <3>3 DEF IInv, TypeOK, CliStates
  <2>2. CASE cli.pc # "wait"
    BY <2>2 DEF Tick, IInv, TypeOK
  <2> QED
    BY <2>1, <2>2
<1>6. /\ cache' \in CacheStates /\ (cache'.kept => cache.kept)
      /\ cache'.kept /\ cache'.res.ok =>
           /\ acked <= cache'.res.ver /\ cache'.res.ver <= version
           /\ HasTimeout => cache'.res.age <= TmoRead + cache'.age
  <2>1. CASE cache.kept /\ cache.age < CacheTtl
    <3>1. cache.res \in Answers /\ cache.age + 1 \in 0..CacheTtl /\ cache.age \in Nat
          /\ cache.res.age \in Nat
      BY <2>1, Constants DEF IInv, TypeOK, CacheStates, Answers
    <3>2. cache' = [cache EXCEPT !.age = cache.age + 1, !.res = Older(cache.res)]
      BY <2>1 DEF Tick
    <3>3. /\ Older(cache.res) \in Answers /\ Older(cache.res).ok = cache.res.ok
          /\ Older(cache.res).ver = cache.res.ver
          /\ Older(cache.res).age <= cache.res.age + 1
      BY <3>1, OlderIs
    <3>4. /\ cache' \in CacheStates /\ cache'.kept = cache.kept
          /\ cache'.age = cache.age + 1 /\ cache'.res = Older(cache.res)
      BY <3>1, <3>2, <3>3 DEF IInv, TypeOK, CacheStates
    <3>5. Older(cache.res).age \in Nat
      BY <3>3 DEF Answers
    <3>6. (cache.kept /\ cache.res.ok) =>
             /\ acked <= cache.res.ver /\ cache.res.ver <= version
             /\ HasTimeout => cache.res.age <= TmoRead + cache.age
      BY DEF IInv, Caching
    <3> QED
      BY <3>1, <3>3, <3>4, <3>5, <3>6, Constants
  <2>2. CASE ~(cache.kept /\ cache.age < CacheTtl)
    <3>1. cache' = NoCache
      BY <2>2 DEF Tick
    <3> QED
      BY <3>1, Literals
  <2> QED
    BY <2>1, <2>2
<1>7. downLeft' \in 0..DownTtl
  <2>1. downLeft' = Less(downLeft) /\ downLeft \in 0..DownTtl
    BY DEF Tick, IInv, TypeOK
  <2> QED
    BY <2>1, Constants DEF Less
<1>8. TypeOK'
  BY <1>1, <1>2, <1>4, <1>5, <1>6, <1>7 DEF IInv, TypeOK
<1>9. Asking'
  <2>1. /\ call.age \in 0..LongestWait /\ Tmo(call.m) \in Nat
        /\ call.pc = "wait" => call'.age \in Nat /\ call'.age <= call.age + 1
    BY <1>4, Patience, Constants DEF IInv, TypeOK, CallStates, Upto
  <2>2. \A k \in Slots : slots[k].since \in Nat /\ slots'[k].since \in Nat
    BY <1>2 DEF IInv, TypeOK, SlotStates
  <2>3. ASSUME NEW k \in Slots PROVE Asked(k)'
    <3> SUFFICES ASSUME slots[k].client = "rpcd" PROVE Asked(k)'
      BY <1>2 DEF Asked
    <3>1. Asked(k) /\ call.pc = "wait" /\ slots[k].since <= call.age
      BY DEF IInv, Asking, Asked
    <3>2. slots'[k].since <= OldAnswer
      BY <1>2 DEF SlotStates
    <3>4. slots'[k].since <= call'.age
      BY <1>2, <1>4, <2>1, <2>2, <3>1, <3>2, Constants DEF Upto
    <3> QED
      BY <1>1, <1>2, <1>4, <3>1, <3>4 DEF Asked
  <2>4. HasTimeout /\ call.pc = "wait" => call'.age <= Tmo(call.m)
    BY <1>3, <1>4, <2>1
  <2>5. ASSUME NEW k \in Slots, Served(k), daemon = "up", call.pc = "wait" PROVE Served(k)'
    <3>1. slots[k].st = "running" /\ slots[k].permit /\ call.age <= slots[k].age
      BY <1>1, <2>5 DEF Served, Due
    <3>2. slots[k].m = call.m
      BY <2>5 DEF Served, IInv, Asking, Asked
    <3>3. slots[k].age \in Nat /\ Budget(call.m) \in Nat /\ Budget(call.m) <= WriteMax
      BY Patience DEF IInv, TypeOK, SlotStates
    <3>4. slots[k].age < Budget(call.m)
      BY <1>1, <2>5, <3>1, <3>2, <3>3 DEF Due
    <3>5. slots[k].age < WriteMax
      BY <3>3, <3>4, Constants
    <3>6. slots'[k].age = slots[k].age + 1
      BY <1>2, <3>1, <3>3, <3>5 DEF Upto
    <3>7. Budget(call.m)' = Budget(call.m)
      BY <1>1, <1>4 DEF Budget, Clamp
    <3>8. call'.age <= slots'[k].age /\ slots'[k].age <= Budget(call.m)
      BY <1>4, <2>1, <2>5, <3>1, <3>3, <3>4, <3>6
    <3> QED
      BY <1>2, <2>5, <3>1, <3>7, <3>8 DEF Served
  <2>6. (call.pc = "wait" /\ call.healthy) => daemon = "up" /\ \E k \in Slots : Served(k)'
    BY <2>5 DEF IInv, Asking
  <2> QED
    BY <1>1, <1>4, <2>3, <2>4, <2>6 DEF Asking, Tmo
<1>10. Hearing' /\ Caching'
  BY <1>1, <1>3, <1>4, <1>6 DEF IInv, Hearing, Caching
<1>11. Commanding'
  BY <1>1, <1>2, <1>5 DEF IInv, Commanding, Given
<1> QED
  BY <1>8, <1>9, <1>10, <1>11 DEF IInv

LEMMA Inductive == IInv /\ [Next]_vars => IInv'
<1> SUFFICES ASSUME IInv, [Next]_vars PROVE IInv'
  OBVIOUS
<1>1. CASE UNCHANGED vars
  BY <1>1 DEF vars, IInv, TypeOK, Asking, Asked, Served, Budget, Clamp, Tmo, Hearing, Caching,
    Commanding, Given
<1>2. CASE \E m \in Calls : Serve(m)
  BY <1>2, ServeKeeps
<1>3. CASE \E i \in Slots : Accept(i) \/ Work(i) \/ Finish(i) \/ Deadline(i)
  BY <1>3, AcceptKeeps, WorkKeeps, FinishKeeps, DeadlineKeeps
<1>4. CASE GiveUp \/ Reply
  BY <1>4, GiveUpKeeps, ReplyKeeps
<1>5. CASE AcquirePort \/ ReleasePort \/ Hang \/ Stop \/ Recover
  BY <1>5, AcquirePortKeeps, ReleasePortKeeps, HangKeeps, StopKeeps, RecoverKeeps
<1>6. CASE CliRuns \/ CliGivesUp \/ CliLocal \/ CliExits
  BY <1>6, CliRunsKeeps, CliGivesUpKeeps, CliLocalKeeps, CliExitsKeeps
<1>7. CASE Tick
  BY <1>7, TickKeeps
<1> QED
  BY <1>1, <1>2, <1>3, <1>4, <1>5, <1>6, <1>7 DEF Next

LEMMA Invariant == Spec => []IInv
BY Initial, Inductive, PTL DEF Spec

-----------------------------------------------------------------------------
\* The state has its shape, in every state of every run.
THEOREM TypeCorrect == Spec => []TypeOK
<1>1. IInv => TypeOK
  BY DEF IInv
<1> QED
  BY <1>1, Invariant, PTL

\* The plugin never cuts off a daemon that has been up all along
\* (api/budget.rs:10-18), whatever at_timeout is.
THEOREM HealthyHeard == Spec => []HealthyIsHeard
<1>1. IInv => HealthyIsHeard
  <2> SUFFICES ASSUME IInv, call.pc = "wait", call.healthy, call.m # "storage"
               PROVE  call.age < Tmo(call.m)
    BY DEF HealthyIsHeard
  <2>1. PICK i \in Slots : Served(i)
    BY DEF IInv, Asking
  <2>2. call.age \in Nat /\ slots[i].age \in Nat
    BY DEF IInv, TypeOK, CallStates, SlotStates
  <2>3. /\ Budget(call.m) \in Nat /\ Tmo(call.m) \in Nat /\ Budget(call.m) < Tmo(call.m)
    BY Patience DEF IInv, TypeOK
  <2>4. call.age <= Budget(call.m)
    BY <2>1, <2>2, <2>3 DEF Served
  <2> QED
    BY <2>2, <2>3, <2>4
<1> QED
  BY <1>1, Invariant, PTL

\* What a page is told of the modem is no older than the life of a cached
\* answer and the plugin's patience (fm350.uc:290-332).
THEOREM AnswersRecent == Spec => []AnswerIsRecent
<1>1. IInv => AnswerIsRecent
  BY DEF IInv, Hearing, AnswerIsRecent
<1> QED
  BY <1>1, Invariant, PTL

\* A page that was told that its change was carried out does not read an
\* answer from before it (fm350.uc:411-428, :543-557).
THEOREM OwnWritesRead == Spec => []ReadsOwnWrites
<1>1. IInv => ReadsOwnWrites
  <2> SUFFICES ASSUME IInv, call.pc = "heard", call.m = "status", call.res.ok
               PROVE  call.res.ver >= acked
    BY DEF ReadsOwnWrites
  <2>1. acked \in Nat /\ call.res.ver \in Nat
    BY DEF IInv, TypeOK, CallStates, Answers
  <2>2. acked <= call.res.ver
    BY DEF IInv, Hearing
  <2> QED
    BY <2>1, <2>2
<1> QED
  BY <1>1, Invariant, PTL

\* A command that was given to the daemon and then tried by the command line is
\* carried out at most once as long as the daemon keeps its port (cli.rs:143-159).
THEOREM ActsOnce == Spec => []CliActsOnce
<1>1. IInv => CliActsOnce
  BY DEF IInv, Commanding, CliActsOnce
<1> QED
  BY <1>1, Invariant, PTL
=============================================================================
