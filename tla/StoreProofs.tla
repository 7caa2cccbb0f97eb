------------------------------ MODULE StoreProofs ------------------------------
(***************************************************************************)
(* What the daemon keeps on the disk.  ConfigStore for any number of       *)
(* options, values and saving threads, and any TTL: what a save reports as *)
(* done is on the disk, and what a request is given is out of date by no   *)
(* more than the TTL and one load().  SmsArchive for any number of texts   *)
(* and requests and any window: what was archived undisturbed is kept.     *)
(* The two share no state; the names of the second say which.              *)
(***************************************************************************)
EXTENDS ConfigStore, SmsArchive, TLAPS

\* What a save has set and no other has since is what uci get answers.
Staging(s) ==
  /\ \A k \in saver[s].todo \cup saver[s].mine : saver[s].patch[k] \in Values
  /\ saver[s].pc = "set" => \A k \in saver[s].mine : Visible[k] = saver[s].patch[k]
  /\ saver[s].pc = "drop" =>
       \A k \in saver[s].mine : disk[k] = saver[s].patch[k] /\ delta[k] = Unset

\* What load() has read has only changed since it began.
Reading ==
  reader.pc = "load" =>
    \A k \in Keys : k < reader.next /\ reader.cfg[k] # Visible[k] => since[k] <= reader.took

\* What the cache holds has only changed since its load() began.
Cached ==
  \A k \in Keys : cache.cfg[k] # Visible[k] => since[k] <= cache.age + MaxLoad

IInv == TypeOK /\ (\A s \in Savers : Staging(s)) /\ Reading /\ Cached

-----------------------------------------------------------------------------
\* uci get answers with values.
LEMMA VisibleType ==
  ASSUME TypeOK PROVE Visible \in [Keys -> Values]
BY DEF TypeOK, Visible, Staged, Configs

\* One uci set changes one answer.
LEMMA VisibleStaged ==
  ASSUME TypeOK, NEW k \in Keys, NEW v \in Values,
         delta' = [delta EXCEPT ![k] = v], disk' = disk
  PROVE  Visible' = [Visible EXCEPT ![k] = v]
BY ConstantsAssumption DEF TypeOK, Visible, Staged, Configs

\* uci commit changes no answer.
LEMMA VisibleCommitted ==
  ASSUME TypeOK, disk' = Visible, delta' = Blank
  PROVE  Visible' = Visible
BY DEF TypeOK, Visible, Staged, Configs, Blank

LEMMA VisibleKept ==
  ASSUME UNCHANGED store PROVE Visible' = Visible
BY DEF store, Visible, Staged

\* An answer that is out of date after a step was so before, or is new.
LEMMA AgedBehind ==
  ASSUME TypeOK, Aged, NEW k \in Keys, NEW v, v # Visible'[k]
  PROVE  since'[k] = 0 \/ (v # Visible[k] /\ since'[k] = since[k])
BY DEF Aged

LEMMA AgedType ==
  ASSUME TypeOK, Aged PROVE since' \in [Keys -> 0..Horizon]
BY ConstantsAssumption DEF Aged, TypeOK, Horizon

-----------------------------------------------------------------------------
LEMMA Initial == Init => IInv
<1> SUFFICES ASSUME Init PROVE IInv
  OBVIOUS
<1> USE ConstantsAssumption
<1>1. Blank \in Configs /\ NumKeys + 1 \in Nat /\ Horizon \in Nat
  BY DEF Blank, Configs, Horizon
<1>2. NoSave \in Saves
  BY <1>1 DEF NoSave, Saves
<1>3. AtRest \in [pc : {"idle", "load"}, next : 1..(NumKeys + 1), cfg : Configs, took : 0..MaxLoad]
  BY <1>1 DEF AtRest
<1>4. NoCache \in [cfg : Configs, age : 0..TTL]
  BY <1>1 DEF NoCache
<1>5. TypeOK
  BY <1>1, <1>2, <1>3, <1>4 DEF Init, TypeOK
<1>6. Reading /\ (\A s \in Savers : Staging(s))
  BY DEF Init, Reading, Staging, AtRest, NoSave
<1>7. Cached
  BY DEF Init, Cached, NoCache, Horizon
<1> QED
  BY <1>5, <1>6, <1>7 DEF IInv

-----------------------------------------------------------------------------
(* The event loop *)

LEMMA LoadKeeps == IInv /\ Request => IInv'
<1> SUFFICES ASSUME IInv, Request PROVE IInv'
  OBVIOUS
<1> USE ConstantsAssumption
<1>1. TypeOK /\ Visible' = Visible /\ UNCHANGED <<store, saver, since, outages>>
  BY VisibleKept DEF IInv, Request, RequestMiss, Read, Loaded
<1>2. Visible \in [Keys -> Values] /\ Blank \in Configs
  BY <1>1, VisibleType DEF Blank, Configs
<1>3. \A s \in Savers : Staging(s)'
  BY <1>1 DEF IInv, Staging, store
<1>4. CASE RequestMiss
  <2>1. TypeOK'
    BY <1>1, <1>2, <1>4 DEF TypeOK, RequestMiss, AtRest, store
  <2>2. Reading' /\ Cached'
    BY <1>1, <1>4 DEF IInv, RequestMiss, AtRest, Reading, Cached, Keys
  <2> QED
    BY <1>3, <2>1, <2>2 DEF IInv
<1>5. CASE Read
  <2> DEFINE n == reader.next
  <2>1. n \in Keys /\ reader' = [reader EXCEPT !.next = n + 1, !.cfg[n] = Visible[n]]
    BY <1>5 DEF Read
  <2>2. reader'.cfg = [reader.cfg EXCEPT ![n] = Visible[n]] /\ reader'.next = n + 1
        /\ reader'.pc = reader.pc /\ reader'.took = reader.took
    BY <1>1, <2>1 DEF TypeOK
  <2>3. reader' \in [pc : {"idle", "load"}, next : 1..(NumKeys + 1), cfg : Configs,
                      took : 0..MaxLoad]
    <3>1. n + 1 \in 1..(NumKeys + 1) /\ [reader.cfg EXCEPT ![n] = Visible[n]] \in Configs
      BY <1>1, <1>2, <2>1 DEF TypeOK, Configs, Keys
    <3> QED
      BY <1>1, <2>1, <3>1 DEF TypeOK
  <2>4. TypeOK'
    BY <1>1, <1>5, <2>3 DEF TypeOK, Read, store
  <2>5. Reading'
    <3> SUFFICES ASSUME reader.pc = "load", NEW k \in Keys, k < n + 1, reader'.cfg[k] # Visible[k]
                 PROVE  since[k] <= reader.took
      BY <1>1, <2>2 DEF Reading
    <3>1. k # n /\ reader'.cfg[k] = reader.cfg[k]
      BY <1>1, <2>2 DEF TypeOK, Configs
    <3>2. k < n
      BY <2>1, <3>1 DEF Keys
    <3> QED
      BY <3>1, <3>2 DEF IInv, Reading
  <2>6. Cached'
    BY <1>1, <1>5 DEF IInv, Read, Cached
  <2> QED
    BY <1>3, <2>4, <2>5, <2>6 DEF IInv
<1>6. CASE Loaded
  <2>1. TypeOK'
    BY <1>1, <1>2, <1>6 DEF TypeOK, Loaded, AtRest, store
  <2>2. Reading'
    BY <1>6 DEF Loaded, Reading, AtRest
  <2>3. Cached'
    <3> SUFFICES ASSUME NEW k \in Keys, reader.cfg[k] # Visible[k]
                 PROVE  since[k] <= 0 + MaxLoad
      BY <1>1, <1>6 DEF Loaded, Cached
    <3>1. since[k] <= reader.took
      BY <1>6 DEF Loaded, Complete, IInv, Reading, Keys
    <3>2. reader.took <= MaxLoad /\ since[k] \in Nat /\ reader.took \in Nat
      BY <1>1 DEF TypeOK, Horizon
    <3> QED
      BY <3>1, <3>2
  <2> QED
    BY <1>3, <2>1, <2>2, <2>3 DEF IInv
<1> QED
  BY <1>4, <1>5, <1>6 DEF Request

-----------------------------------------------------------------------------
(* The saving threads *)

\* A step of a saving thread whose answers change as Aged says leaves what has
\* been read and what is cached within their bounds.
LEMMA AgedKeeps ==
  ASSUME IInv, Aged, UNCHANGED reader, cache' = cache \/ cache' = NoCache,
         since' \in [Keys -> 0..Horizon]
  PROVE  Reading' /\ Cached'
<1> USE ConstantsAssumption
<1>1. TypeOK
  BY DEF IInv
<1>2. Reading'
  <2> SUFFICES ASSUME reader.pc = "load", NEW k \in Keys, k < reader.next,
                      reader.cfg[k] # Visible'[k]
               PROVE  since'[k] <= reader.took
    BY DEF Reading
  <2>1. reader.took \in Nat
    BY <1>1 DEF TypeOK
  <2>2. CASE since'[k] = 0
    BY <2>1, <2>2
  <2>3. CASE reader.cfg[k] # Visible[k] /\ since'[k] = since[k]
    BY <2>3 DEF IInv, Reading
  <2> QED
    BY <1>1, <2>2, <2>3, AgedBehind
<1>3. CASE cache' = cache
  <2> SUFFICES ASSUME NEW k \in Keys, cache.cfg[k] # Visible'[k]
               PROVE  since'[k] <= cache.age + MaxLoad
    BY <1>2, <1>3 DEF Cached
  <2>1. cache.age + MaxLoad \in Nat
    BY <1>1 DEF TypeOK
  <2>2. CASE since'[k] = 0
    BY <2>1, <2>2
  <2>3. CASE cache.cfg[k] # Visible[k] /\ since'[k] = since[k]
    BY <2>3 DEF IInv, Cached
  <2> QED
    BY <1>1, <2>2, <2>3, AgedBehind
<1>4. CASE cache' = NoCache
  BY <1>2, <1>4 DEF Cached, NoCache, Horizon
<1> QED
  BY <1>2, <1>3, <1>4

\* So does one that leaves the answers alone.
LEMMA UnchangedKeeps ==
  ASSUME IInv, UNCHANGED <<store, reader, since>>, cache' = cache \/ cache' = NoCache
  PROVE  Reading' /\ Cached'
<1>1. Visible' = Visible /\ TypeOK
  BY VisibleKept DEF IInv
<1>2. Aged /\ since' \in [Keys -> 0..Horizon]
  BY <1>1 DEF Aged, TypeOK
<1> QED
  BY <1>2, AgedKeeps

LEMMA CallKeeps == ASSUME IInv, NEW s \in Savers, Call(s) PROVE IInv'
<1> USE ConstantsAssumption
<1>1. PICK patch \in [Patched[s] -> Values \cup Refused] :
        /\ ~Refusable(patch)
        /\ saver' = [saver EXCEPT ![s] =
             [pc |-> "set", todo |-> Patched[s], mine |-> {},
              patch |-> [k \in Keys |-> IF k \in Patched[s] THEN patch[k] ELSE Unset]]]
  BY DEF Call
<1> DEFINE full == [k \in Keys |-> IF k \in Patched[s] THEN patch[k] ELSE Unset]
<1>2. \A k \in Patched[s] : k \in Keys /\ full[k] \in Values
  BY <1>1 DEF Refusable
<1>3. full \in Configs
  BY <1>2 DEF Configs
<1>4. TypeOK'
  BY <1>1, <1>3 DEF IInv, TypeOK, Saves, Call, store, daemon
<1>5. \A x \in Savers : Staging(x)'
  <2> SUFFICES ASSUME NEW x \in Savers PROVE Staging(x)'
    OBVIOUS
  <2>1. CASE x = s
    BY <1>1, <1>2, <2>1 DEF IInv, TypeOK, Saves, Staging
  <2>2. CASE x # s
    <3>1. saver'[x] = saver[x] /\ Visible' = Visible /\ UNCHANGED store
      BY <1>1, <2>2, VisibleKept DEF IInv, TypeOK, Call
    <3> QED
      BY <3>1 DEF IInv, Staging, store
  <2> QED
    BY <2>1, <2>2
<1> QED
  BY <1>4, <1>5, UnchangedKeeps DEF IInv, Call, daemon

LEMMA StageKeeps == ASSUME IInv, NEW s \in Savers, Stage(s) PROVE IInv'
<1> USE ConstantsAssumption
<1>1. PICK k \in saver[s].todo :
        /\ delta' = [delta EXCEPT ![k] = saver[s].patch[k]]
        /\ saver' = [x \in Savers |->
             IF x = s THEN [saver[s] EXCEPT !.todo = @ \ {k}, !.mine = @ \cup {k}]
                      ELSE [saver[x] EXCEPT !.mine = @ \ {k}]]
  BY DEF Stage
<1>2. TypeOK /\ saver[s].pc = "set" /\ UNCHANGED <<disk, daemon, outages>> /\ Aged
  BY DEF IInv, Stage
<1>3. k \in Keys /\ saver[s].patch[k] \in Values
  BY <1>1, <1>2 DEF TypeOK, Saves, IInv, Staging
<1>4. Visible' = [Visible EXCEPT ![k] = saver[s].patch[k]] /\ Visible \in [Keys -> Values]
  BY <1>1, <1>2, <1>3, VisibleStaged, VisibleType
<1>5. TypeOK'
  <2>1. delta' \in Configs
    BY <1>1, <1>2, <1>3 DEF TypeOK, Configs
  <2>2. saver' \in [Savers -> Saves]
    <3>1. \A save \in Saves : [save EXCEPT !.todo = @ \ {k}, !.mine = @ \cup {k}] \in Saves
      <4> SUFFICES ASSUME NEW save \in Saves
                   PROVE  [save EXCEPT !.todo = @ \ {k}, !.mine = @ \cup {k}] \in Saves
        OBVIOUS
      <4>1. save.todo \ {k} \in SUBSET Keys /\ save.mine \cup {k} \in SUBSET Keys
        BY <1>3 DEF Saves
      <4> QED
        BY <4>1 DEF Saves
    <3>2. \A save \in Saves : [save EXCEPT !.mine = @ \ {k}] \in Saves
      BY DEF Saves
    <3> QED
      BY <1>1, <1>2, <3>1, <3>2 DEF TypeOK
  <2> QED
    BY <1>2, <2>1, <2>2, AgedType DEF TypeOK, daemon
<1>6. \A x \in Savers : Staging(x)'
  <2> SUFFICES ASSUME NEW x \in Savers PROVE Staging(x)'
    OBVIOUS
  <2>1. CASE x = s
    <3>1. saver'[x].pc = "set" /\ saver'[x].patch = saver[x].patch
          /\ saver'[x].mine = saver[x].mine \cup {k} /\ saver'[x].todo = saver[x].todo \ {k}
      BY <1>1, <1>2, <2>1 DEF TypeOK, Saves
    <3>2. \A j \in saver[x].mine : j \in Keys /\ Visible[j] = saver[x].patch[j]
      BY <1>2, <2>1 DEF IInv, Staging, TypeOK, Saves
    <3> QED
      BY <1>3, <1>4, <2>1, <3>1, <3>2 DEF IInv, Staging
  <2>2. CASE x # s
    <3>1. saver'[x].pc = saver[x].pc /\ saver'[x].patch = saver[x].patch
          /\ saver'[x].mine = saver[x].mine \ {k} /\ saver'[x].todo = saver[x].todo
      BY <1>1, <1>2, <2>2 DEF TypeOK, Saves
    <3>2. \A j \in saver'[x].mine : j \in Keys /\ j # k /\ Visible'[j] = Visible[j]
                                   /\ delta'[j] = delta[j] /\ disk'[j] = disk[j]
      BY <1>1, <1>2, <1>3, <1>4, <3>1 DEF TypeOK, Saves, Configs
    <3> QED
      BY <3>1, <3>2 DEF IInv, Staging
  <2> QED
    BY <2>1, <2>2
<1>7. Reading' /\ Cached'
  BY <1>2, AgedType, AgedKeeps DEF daemon
<1> QED
  BY <1>5, <1>6, <1>7 DEF IInv

LEMMA CommitKeeps == ASSUME IInv, NEW s \in Savers, Commit(s) PROVE IInv'
<1> USE ConstantsAssumption
<1>1. TypeOK /\ Aged /\ UNCHANGED <<daemon, outages>>
  BY DEF IInv, Commit
<1>2. Visible' = Visible /\ Visible \in [Keys -> Values]
  BY VisibleCommitted, VisibleType DEF IInv, Commit
<1>3. TypeOK'
  <2>1. saver' \in [Savers -> Saves]
    <3>1. [saver[s] EXCEPT !.pc = "drop"] \in Saves
      BY <1>1 DEF TypeOK, Saves
    <3> QED
      BY <1>1, <3>1 DEF TypeOK, Commit
  <2>2. delta' \in Configs
    BY DEF Commit, Configs, Blank
  <2> QED
    BY <1>1, <1>2, <2>1, <2>2, AgedType DEF TypeOK, Commit, daemon
<1>4. \A x \in Savers : Staging(x)'
  <2> SUFFICES ASSUME NEW x \in Savers PROVE Staging(x)'
    OBVIOUS
  <2>1. \A k \in saver[x].mine : k \in Keys /\ disk'[k] = Visible[k] /\ delta'[k] = Unset
    BY <1>1 DEF TypeOK, Saves, Commit, Blank
  <2>2. CASE x = s
    <3>1. saver'[x] = [saver[x] EXCEPT !.pc = "drop"] /\ saver[x].pc = "set"
      BY <1>1, <2>2 DEF Commit, TypeOK, Saves
    <3> QED
      BY <1>1, <2>1, <3>1 DEF IInv, Staging, TypeOK, Saves
  <2>3. CASE x # s
    <3>1. saver'[x] = saver[x]
      BY <1>1, <2>3 DEF Commit, TypeOK, Saves
    <3>2. saver[x].pc = "drop" => \A k \in saver[x].mine : Visible[k] = saver[x].patch[k]
      BY <2>1 DEF IInv, Staging, Visible, Staged
    <3> QED
      BY <1>2, <2>1, <3>1, <3>2 DEF IInv, Staging
  <2> QED
    BY <2>2, <2>3
<1> QED
  BY <1>1, <1>3, <1>4, AgedType, AgedKeeps DEF IInv, daemon

\* A save that ends, whichever way.
LEMMA EndKeeps ==
  ASSUME IInv, NEW s \in Savers, StageFails(s) \/ CommitFails(s) \/ Drop(s)
  PROVE  IInv'
<1> USE ConstantsAssumption
<1>1. TypeOK /\ UNCHANGED <<store, reader, since, outages>> /\ (cache' = cache \/ cache' = NoCache)
      /\ saver' = [saver EXCEPT ![s] = NoSave]
  BY DEF IInv, StageFails, CommitFails, Drop, daemon
<1>2. TypeOK'
  BY <1>1 DEF TypeOK, Saves, NoSave, NoCache, Blank, Configs, store
<1>3. \A x \in Savers : Staging(x)'
  <2>1. Visible' = Visible
    BY <1>1, VisibleKept
  <2> QED
    BY <1>1, <2>1 DEF IInv, TypeOK, Saves, Staging, NoSave, store
<1> QED
  BY <1>1, <1>2, <1>3, UnchangedKeeps DEF IInv

-----------------------------------------------------------------------------
(* Time and failures *)

LEMMA TickKeeps == ASSUME IInv, Tick PROVE IInv'
<1> USE ConstantsAssumption
<1>1. TypeOK /\ Visible' = Visible /\ UNCHANGED <<store, saver, outages>>
  BY VisibleKept DEF IInv, Tick
<1>2. \A k \in Keys : since'[k] \in 0..Horizon /\ since'[k] <= since[k] + 1
  BY <1>1 DEF TypeOK, Tick, Older, Horizon
<1>3. cache'.cfg = cache.cfg /\ cache'.age \in 0..TTL
      /\ (cache'.age = cache.age + 1 \/ cache'.age = TTL)
  BY <1>1 DEF TypeOK, Tick, Older
<1>4. \/ reader.pc # "load" /\ reader' = reader
      \/ reader.pc = "load" /\ reader.took < MaxLoad /\ reader' = [reader EXCEPT !.took = @ + 1]
  BY DEF Tick
<1>5. TypeOK'
  <2>1. since' \in [Keys -> 0..Horizon]
    BY <1>2 DEF Tick
  <2>2. cache' \in [cfg : Configs, age : 0..TTL]
    BY <1>1, <1>3 DEF TypeOK, Tick
  <2>3. reader' \in [pc : {"idle", "load"}, next : 1..(NumKeys + 1), cfg : Configs,
                      took : 0..MaxLoad]
    BY <1>1, <1>4 DEF TypeOK
  <2> QED
    BY <1>1, <2>1, <2>2, <2>3 DEF TypeOK, store
<1>6. \A s \in Savers : Staging(s)'
  BY <1>1 DEF IInv, Staging, store
<1>7. Reading'
  <2> SUFFICES ASSUME reader.pc = "load", NEW k \in Keys, k < reader.next,
                      reader.cfg[k] # Visible[k]
               PROVE  since'[k] <= reader.took + 1
    BY <1>1, <1>4 DEF Reading, TypeOK
  <2>1. since[k] <= reader.took /\ since[k] \in Nat /\ reader.took \in Nat
    BY <1>1 DEF IInv, Reading, TypeOK, Horizon
  <2> QED
    BY <1>2, <2>1
<1>8. Cached'
  <2> SUFFICES ASSUME NEW k \in Keys, cache.cfg[k] # Visible[k]
               PROVE  since'[k] <= cache'.age + MaxLoad
    BY <1>1, <1>3 DEF Cached
  <2>1. since[k] <= cache.age + MaxLoad /\ since[k] \in Nat /\ cache.age \in Nat
    BY <1>1 DEF IInv, Cached, TypeOK, Horizon
  <2> QED
    BY <1>2, <1>3, <2>1 DEF Horizon
<1> QED
  BY <1>5, <1>6, <1>7, <1>8 DEF IInv

LEMMA OutageKeeps == ASSUME IInv, Crash \/ Reboot PROVE IInv'
<1> USE ConstantsAssumption
<1>1. TypeOK /\ cache' = NoCache /\ reader' = AtRest /\ outages' = outages + 1
  BY DEF IInv, Crash, Reboot, Outage
<1>2. Blank \in Configs /\ NoSave \in Saves
      /\ NoCache \in [cfg : Configs, age : 0..TTL]
      /\ AtRest \in [pc : {"idle", "load"}, next : 1..(NumKeys + 1), cfg : Configs,
                     took : 0..MaxLoad]
  BY DEF Blank, NoSave, Saves, NoCache, AtRest, Configs
<1>3. since' \in [Keys -> 0..Horizon]
  BY <1>1, AgedType DEF Crash, Reboot, TypeOK
<1>4. TypeOK'
  BY <1>1, <1>2, <1>3 DEF TypeOK, Crash, Reboot, store
<1>5. \A s \in Savers : Staging(s)'
  <2> SUFFICES ASSUME NEW s \in Savers PROVE Staging(s)'
    OBVIOUS
  <2>1. CASE saver'[s] = NoSave
    BY <2>1 DEF Staging, NoSave
  <2>2. CASE Crash /\ saver'[s] = saver[s]
    <3>1. Visible' = Visible
      BY <2>2, VisibleKept DEF Crash
    <3> QED
      BY <2>2, <3>1 DEF IInv, Staging, Crash, store
  <2> QED
    BY <2>1, <2>2 DEF Crash, Reboot
<1>6. Reading'
  BY <1>1 DEF Reading, AtRest
<1>7. Cached'
  <2> SUFFICES ASSUME NEW k \in Keys PROVE since'[k] <= TTL + MaxLoad
    BY <1>1 DEF Cached, NoCache
  <2> QED
    BY <1>3 DEF Horizon
<1> QED
  BY <1>4, <1>5, <1>6, <1>7 DEF IInv

-----------------------------------------------------------------------------
LEMMA Inductive == IInv /\ [Next]_vars => IInv'
<1> SUFFICES ASSUME IInv, [Next]_vars PROVE IInv'
  OBVIOUS
<1>1. CASE Request
  BY <1>1, LoadKeeps
<1>2. ASSUME NEW s \in Savers, Save(s) PROVE IInv'
  BY <1>2, CallKeeps, StageKeeps, CommitKeeps, EndKeeps DEF Save
<1>3. CASE Tick \/ Crash \/ Reboot
  BY <1>3, TickKeeps, OutageKeeps
<1>4. CASE UNCHANGED vars
  <2>1. Visible' = Visible
    BY <1>4, VisibleKept DEF vars
  <2> QED
    BY <1>4, <2>1 DEF vars, store, daemon, IInv, TypeOK, Staging, Reading, Cached
<1> QED
  BY <1>1, <1>2, <1>3, <1>4 DEF Next

\* IInv holds in every state the configuration store can be in.
THEOREM Invariance == Spec => []IInv
BY Initial, Inductive, PTL DEF Spec

\* Nothing that validate_value() refuses is ever staged, written or read.
THEOREM TypeCorrect == Spec => []TypeOK
<1>1. IInv => TypeOK
  BY DEF IInv
<1> QED
  BY <1>1, Invariance, PTL

\* What a save reports as done is on the disk, or another has set it since.
THEOREM SavesLast == Spec => []SavedIsCommitted
<1>1. IInv => SavedIsCommitted
  BY DEF IInv, Staging, SavedIsCommitted, Staged
<1> QED
  BY <1>1, Invariance, PTL

\* A request never works with options that went out of force longer ago than
\* the TTL and the time of one load().
THEOREM StalenessBounded == Spec => []StaleIsBounded
<1>1. IInv => StaleIsBounded
  <2> SUFFICES ASSUME IInv PROVE StaleIsBounded
    OBVIOUS
  <2> USE ConstantsAssumption
  <2>1. ASSUME Fresh, NEW k \in Behind(cache.cfg) PROVE since[k] < TTL + MaxLoad
    <3>1. k \in Keys /\ since[k] <= cache.age + MaxLoad
      BY <2>1 DEF Behind, IInv, Cached
    <3>2. since[k] \in Nat /\ cache.age \in Nat /\ cache.age < TTL
      BY <2>1, <3>1 DEF Fresh, IInv, TypeOK, Horizon
    <3> QED
      BY <3>1, <3>2
  <2>2. ASSUME Complete, NEW k \in Behind(reader.cfg) PROVE since[k] < TTL + MaxLoad
    <3>1. k \in Keys /\ since[k] <= reader.took
      BY <2>2 DEF Behind, Complete, IInv, Reading, Keys
    <3>2. since[k] \in Nat /\ reader.took \in 0..MaxLoad
      BY <3>1 DEF IInv, TypeOK, Horizon
    <3> QED
      BY <3>1, <3>2
  <2> QED
    BY <2>1, <2>2 DEF StaleIsBounded
<1> QED
  BY <1>1, Invariance, PTL

-----------------------------------------------------------------------------
(* The archive *)

TextsOf(records) == {rec.text : rec \in records}

\* What a request writes or looks for is a record.
Recorded ==
  \A r \in Requests :
    req[r].pc \in {"sending", "open", "check", "line", "end"} => req[r].rec \in Record

\* A request that is alone at the file has the file open that is there, and the
\* line it has begun is still as it wrote it.
Undisturbed ==
  \A r \in Requests : req[r].pc \in AtFile /\ req[r].alone =>
    /\ \A x \in Requests \ {r} : req[x].pc \notin AtFile
    /\ req[r].pc \in {"check", "line", "end"} => req[r].id = file.id
    /\ req[r].pc = "end" => file.tail = req[r].rec

\* A text that should be there is in a line with its end, or in the hands of one
\* who is about to write it back ...
Held ==
  \A t \in kept :
    \/ t \in TextsOf(file.lines \cap Record)
    \/ \E r \in Requests : At(r, "rewrite") /\ t \in TextsOf(req[r].keep)

\* ... as everyone who is to cut the file, or has, would do.
HeldByAll ==
  \A r \in Requests :
    /\ req[r].pc \in {"cut", "rewrite"} => kept \subseteq TextsOf(req[r].keep)
    /\ At(r, "rewrite") => req[r].id = file.id \/ kept = {}

ArchiveInv == ArchiveTypeOK /\ Recorded /\ Undisturbed /\ Held /\ HeldByAll

File == [id : Nat, lines : SUBSET Lines, torn : BOOLEAN, hidden : SUBSET Lines,
         tail : Lines \cup {Torn, Nothing}]

-----------------------------------------------------------------------------
LEMMA NoRecord ==
  /\ Junk \notin Record /\ Nothing \notin Record /\ Torn \notin Record
  /\ Junk # Nothing /\ Torn # Nothing /\ Junk # Torn
  BY DEF Junk, Nothing, Torn, Record, Stamps

LEMMA ReadAreRecords ==
  ReadRecords \subseteq Record /\ \A item : Remaining(item) \subseteq ReadRecords
  BY DEF ReadRecords, Remaining

LEMMA IdleServed == Idle \in Served
  BY DEF Idle, Served, AtFile

\* One request moves, the others do not.
LEMMA OneMoves ==
  ASSUME req \in [Requests -> Served], NEW r \in Requests, NEW new \in Served, To(r, new)
  PROVE  /\ req' \in [Requests -> Served]
         /\ req'[r] = new
         /\ \A x \in Requests \ {r} : req'[x] = req[x]
  BY DEF To

\* One request comes to the file, or passes by: of the others, those at the file
\* are no longer alone.
Came(r, new) ==
  /\ req' \in [Requests -> Served]
  /\ req'[r].pc = new.pc /\ req'[r].rec = new.rec /\ req'[r].id = new.id
  /\ req'[r].keep = new.keep
  /\ req'[r].alone <=> \A x \in Requests \ {r} : req[x].pc \notin AtFile
  /\ \A x \in Requests \ {r} :
       /\ req'[x].pc = req[x].pc /\ req'[x].rec = req[x].rec /\ req'[x].id = req[x].id
       /\ req'[x].keep = req[x].keep
       /\ req'[x].pc \in AtFile => ~req'[x].alone

LEMMA OneComes ==
  ASSUME req \in [Requests -> Served], NEW r \in Requests, NEW new \in Served, Comes(r, new)
  PROVE  Came(r, new)
<1> DEFINE lonely == \A y \in Requests \ {r} : req[y].pc \notin AtFile
<1>1. /\ [new EXCEPT !.alone = lonely] \in Served
      /\ \A x \in Requests : [req[x] EXCEPT !.alone = FALSE] \in Served
  BY DEF Served
<1>2. req' \in [Requests -> Served]
  BY <1>1 DEF Comes
<1>3. req'[r] = [new EXCEPT !.alone = lonely]
  BY DEF Comes
<1>4. \A x \in Requests \ {r} :
        req'[x] = IF req[x].pc \in AtFile THEN [req[x] EXCEPT !.alone = FALSE] ELSE req[x]
  BY DEF Comes
<1>5. ASSUME NEW x \in Requests \ {r}
      PROVE  /\ req'[x].pc = req[x].pc /\ req'[x].rec = req[x].rec /\ req'[x].id = req[x].id
             /\ req'[x].keep = req[x].keep
             /\ req'[x].pc \in AtFile => ~req'[x].alone
  <2>1. CASE req[x].pc \in AtFile
    <3>1. req'[x] = [req[x] EXCEPT !.alone = FALSE]
      BY <1>4, <2>1
    <3> QED
      BY <3>1 DEF Served
  <2>2. CASE req[x].pc \notin AtFile
    BY <1>4, <2>2
  <2> QED
    BY <2>1, <2>2
<1>6. /\ req'[r].pc = new.pc /\ req'[r].rec = new.rec /\ req'[r].id = new.id
      /\ req'[r].keep = new.keep /\ req'[r].alone = lonely
  BY <1>3 DEF Served
<1> QED
  BY <1>2, <1>5, <1>6 DEF Came

\* A request that ends is idle.
LEMMA OneEnds ==
  ASSUME req \in [Requests -> Served], NEW r \in Requests, Ends(r)
  PROVE  /\ req' \in [Requests -> Served]
         /\ req'[r].pc = "idle"
         /\ \A x \in Requests \ {r} : req'[x] = req[x]
<1>1. Idle.pc = "idle"
  BY DEF Idle
<1> QED
  BY <1>1, IdleServed, OneMoves DEF Ends

\* One goes on to another place.
LEMMA OneGoes ==
  ASSUME req \in [Requests -> Served], NEW r \in Requests,
         NEW pc \in {"sending", "open"} \cup AtFile, Goes(r, pc)
  PROVE  /\ req' \in [Requests -> Served]
         /\ req'[r] = [req[r] EXCEPT !.pc = pc]
         /\ \A x \in Requests \ {r} : req'[x] = req[x]
<1>1. [req[r] EXCEPT !.pc = pc] \in Served
  BY DEF Served
<1> QED
  BY <1>1, OneMoves DEF Goes

\* Whatever is done to the file leaves a file, and the same one; none but a
\* rewrite takes lines from it, and a whole rewrite leaves those it writes.
LEMMA FileType ==
  ASSUME file \in File
  PROVE  /\ \A rec \in Record : Appended(rec) \in File
         /\ Spoiled \subseteq File
         /\ \A f \in Spoiled : f.id = file.id /\ f.lines = file.lines
         /\ LineEnded \in File
         /\ LineEnded.id = file.id /\ file.lines \subseteq LineEnded.lines
         /\ \A keep \in SUBSET Record :
              /\ Overwritten(keep) \subseteq File /\ Botched(keep) \subseteq File
              /\ \A f \in Overwritten(keep) : f.id = file.id /\ keep \subseteq f.lines
              /\ \A f \in Botched(keep) : f.id = file.id
<1> DEFINE Tails == Lines \cup {Torn, Nothing}
<1>1. /\ file.id \in Nat /\ file.lines \in SUBSET Lines /\ file.torn \in BOOLEAN
      /\ file.hidden \in SUBSET Lines /\ file.tail \in Tails
      /\ Junk \in Lines /\ Record \subseteq Lines
  BY DEF File, Lines
<1>2. \A rec \in Record : Appended(rec) \in File
  <2> SUFFICES ASSUME NEW rec \in Record PROVE Appended(rec) \in File
    OBVIOUS
  <2> DEFINE last == CASE Ended -> rec [] file.tail = Torn -> Torn [] OTHER -> Junk
  <2>1. last \in Tails
    BY <1>1
  <2>2. Appended(rec) = [file EXCEPT !.tail = last]
    BY DEF Appended
  <2> HIDE DEF last
  <2> QED
    BY <2>1, <2>2 DEF File
<1>3. ASSUME NEW f \in Spoiled
      PROVE  f \in File /\ f.id = file.id /\ f.lines = file.lines
  <2>1. PICK last \in Tails : f = [file EXCEPT !.tail = last]
    BY <1>1 DEF Spoiled
  <2> QED
    BY <1>1, <2>1 DEF File
<1>4. LineEnded \in File /\ LineEnded.id = file.id /\ file.lines \subseteq LineEnded.lines
  <2> DEFINE line == IF Ended THEN Junk ELSE file.tail
             done == [file EXCEPT !.tail = Nothing]
  <2>1. /\ done \in File /\ done.id = file.id /\ done.lines = file.lines
        /\ done.hidden = file.hidden /\ Nothing \in Tails
    BY <1>1 DEF File
  <2>2. line # Torn => line \in Lines
    BY <1>1 DEF Ended
  <2>3. LineEnded = IF line = Torn THEN [done EXCEPT !.torn = TRUE]
                    ELSE IF file.torn THEN [done EXCEPT !.hidden = @ \cup {line}]
                    ELSE [done EXCEPT !.lines = @ \cup {line}]
    BY DEF LineEnded
  <2> HIDE DEF line, done
  <2>4. CASE line = Torn
    BY <2>1, <2>3, <2>4 DEF File
  <2>5. CASE line # Torn /\ file.torn
    <3>1. done.hidden \cup {line} \in SUBSET Lines
      BY <1>1, <2>1, <2>2, <2>5
    <3> QED
      BY <2>1, <2>3, <2>5, <3>1 DEF File
  <2>6. CASE line # Torn /\ ~file.torn
    <3>1. done.lines \cup {line} \in SUBSET Lines
      BY <1>1, <2>1, <2>2, <2>6
    <3> QED
      BY <2>1, <2>3, <2>6, <3>1 DEF File
  <2> QED
    BY <2>4, <2>5, <2>6
<1>5. ASSUME NEW keep \in SUBSET Record, NEW f \in Overwritten(keep)
      PROVE  f \in File /\ f.id = file.id /\ keep \subseteq f.lines
  <2> DEFINE rest == SUBSET (file.lines \cup file.hidden \cup {Junk})
             more == {keep \cup left : left \in rest}
             ends == {Nothing, file.tail} \cup IF Ended THEN {} ELSE {Junk, Torn}
  <2>1. /\ rest \subseteq SUBSET Lines /\ ends \subseteq Tails /\ {} \in SUBSET Lines
        /\ more \subseteq SUBSET Lines /\ \A lines \in more : keep \subseteq lines
    BY <1>1
  <2>2. \/ f = file /\ keep = {}
        \/ f = [file EXCEPT !.lines = keep]
        \/ f \in [id : {file.id}, lines : more, torn : {FALSE}, hidden : {{}}, tail : ends]
        \/ f \in [id : {file.id}, lines : more, torn : {TRUE}, hidden : rest, tail : ends]
    BY <1>5 DEF Overwritten
  <2> HIDE DEF rest, more, ends
  <2>3. CASE f = file /\ keep = {}
    BY <2>3
  <2>4. CASE f = [file EXCEPT !.lines = keep]
    BY <1>1, <2>4 DEF File
  <2>5. CASE f \in [id : {file.id}, lines : more, torn : {FALSE}, hidden : {{}}, tail : ends]
    BY <1>1, <2>1, <2>5 DEF File
  <2>6. CASE f \in [id : {file.id}, lines : more, torn : {TRUE}, hidden : rest, tail : ends]
    BY <1>1, <2>1, <2>6 DEF File
  <2> QED
    BY <2>2, <2>3, <2>4, <2>5, <2>6
<1>6. ASSUME NEW keep \in SUBSET Record, NEW f \in Botched(keep)
      PROVE  f \in File /\ f.id = file.id
  <2> DEFINE written == keep \cup file.lines \cup file.hidden \cup {Junk}
             ends == keep \cup {Nothing, Junk, Torn, file.tail}
  <2>1. SUBSET written \subseteq SUBSET Lines /\ ends \subseteq Tails
    BY <1>1
  <2>2. f \in [id : {file.id}, lines : SUBSET written, torn : BOOLEAN, hidden : SUBSET written,
               tail : ends]
    BY <1>6 DEF Botched
  <2> HIDE DEF written, ends
  <2> QED
    BY <1>1, <2>1, <2>2 DEF File
<1> QED
  BY <1>2, <1>3, <1>4, <1>5, <1>6

-----------------------------------------------------------------------------
LEMMA ArchiveInitial == ArchiveInit => ArchiveInv
<1> SUFFICES ASSUME ArchiveInit PROVE ArchiveInv
  OBVIOUS
<1>1. ArchiveTypeOK
  <2>1. Empty(0) \in File
    BY DEF Empty, File
  <2> QED
    BY <2>1, IdleServed, ArchiveAssumption DEF ArchiveInit, ArchiveTypeOK, File
<1>2. Recorded /\ Undisturbed /\ Held /\ HeldByAll
  BY DEF ArchiveInit, Recorded, Undisturbed, Held, HeldByAll, Idle, AtFile, At
<1> QED
  BY <1>1, <1>2 DEF ArchiveInv

\* A step that takes no record from a line, and leaves alone who is rewriting.
LEMMA HeldStill ==
  ASSUME ArchiveInv, kept' = kept, file'.id = file.id,
         file.lines \subseteq file'.lines,
         \A x \in Requests :
           \/ req[x].pc \notin {"cut", "rewrite"} /\ req'[x].pc \notin {"cut", "rewrite"}
           \/ req'[x].pc = req[x].pc /\ req'[x].id = req[x].id /\ req'[x].keep = req[x].keep
  PROVE  Held' /\ HeldByAll'
<1>1. TextsOf(file.lines \cap Record) \subseteq TextsOf(file'.lines \cap Record)
  BY DEF TextsOf
<1>2. \A x \in Requests : At(x, "rewrite") =>
        At(x, "rewrite")' /\ TextsOf(req[x].keep) = TextsOf(req'[x].keep)
  BY DEF At
<1>3. Held'
  BY <1>1, <1>2 DEF ArchiveInv, Held
<1>4. ASSUME NEW x \in Requests
      PROVE  /\ req'[x].pc \in {"cut", "rewrite"} => kept' \subseteq TextsOf(req'[x].keep)
             /\ req'[x].pc = "rewrite" => req'[x].id = file'.id \/ kept' = {}
  BY DEF ArchiveInv, HeldByAll, At
<1> QED
  BY <1>3, <1>4 DEF HeldByAll, At

\* A request that has nothing to do with the file, before or after.
LEMMA FarFromFile ==
  ASSUME ArchiveInv, NEW r \in Requests, req[r].pc \notin AtFile, req'[r].pc \notin AtFile,
         req' \in [Requests -> Served],
         \A x \in Requests \ {r} : req'[x] = req[x],
         UNCHANGED <<file, kept>>
  PROVE  Undisturbed' /\ Held' /\ HeldByAll'
<1>1. \A x \in Requests : req'[x].pc \in AtFile => x # r /\ req'[x] = req[x]
  OBVIOUS
<1>2. \A x \in Requests : req'[x].pc \in AtFile <=> req[x].pc \in AtFile
  BY <1>1
<1>3. Undisturbed'
  BY <1>1, <1>2 DEF ArchiveInv, Undisturbed
<1>4. Held' /\ HeldByAll'
  BY <1>1, <1>2, HeldStill DEF AtFile
<1> QED
  BY <1>3, <1>4

LEMMA SubmitStep ==
  ASSUME ArchiveInv, NEW r \in Requests, NEW t \in Texts, NEW k \in DedupKeys, Submit(r, t, k)
  PROVE  ArchiveInv'
<1> DEFINE sending(time) == [Idle EXCEPT !.pc = "sending", !.rec = [text |-> t, time |-> time]]
<1>1. /\ req \in [Requests -> Served] /\ req[r].pc = "idle" /\ UNCHANGED <<file, kept>>
      /\ life' = [life EXCEPT !.submits = @ + 1] /\ window' = [window EXCEPT ![k] = Window]
      /\ req' = req \/ \E time \in Stamps : To(r, sending(time))
  BY DEF ArchiveInv, ArchiveTypeOK, Submit, At
<1>2. \A time \in Stamps : sending(time) \in Served /\ sending(time).pc = "sending"
        /\ sending(time).rec \in Record
  BY DEF Idle, Served, AtFile, Record
<1>3. /\ req' \in [Requests -> Served] /\ \A x \in Requests \ {r} : req'[x] = req[x]
      /\ req'[r].pc \in {"idle", "sending"}
      /\ req'[r].pc = "sending" => req'[r].rec \in Record
  <2> HIDE DEF sending
  <2>1. ASSUME NEW time \in Stamps, To(r, sending(time))
        PROVE  /\ req' \in [Requests -> Served] /\ req'[r] = sending(time)
               /\ \A x \in Requests \ {r} : req'[x] = req[x]
    BY <1>1, <1>2, <2>1, OneMoves
  <2> QED
    BY <1>1, <1>2, <2>1
<1>4. ArchiveTypeOK'
  <2>1. window \in [DedupKeys -> 0..Window] /\ Window \in 0..Window
    BY ArchiveAssumption DEF ArchiveInv, ArchiveTypeOK
  <2>2. window' \in [DedupKeys -> 0..Window]
    BY <1>1, <2>1
  <2>3. life' \in [submits : Nat, drops : Nat, deaths : Nat]
    <3>1. life \in [submits : Nat, drops : Nat, deaths : Nat]
      BY DEF ArchiveInv, ArchiveTypeOK
    <3>2. life' = [life EXCEPT !.submits = @ + 1]
      BY <1>1
    <3> QED
      BY <3>1, <3>2
  <2> QED
    BY <1>1, <1>3, <2>2, <2>3 DEF ArchiveInv, ArchiveTypeOK
<1>5. Recorded'
  BY <1>3 DEF ArchiveInv, Recorded
<1>6. Undisturbed' /\ Held' /\ HeldByAll'
  BY <1>1, <1>3, FarFromFile DEF AtFile
<1> QED
  BY <1>4, <1>5, <1>6 DEF ArchiveInv

LEMMA AnswerStep ==
  ASSUME ArchiveInv, NEW r \in Requests, Answer(r)
  PROVE  ArchiveInv'
<1>1. req \in [Requests -> Served] /\ req[r].pc = "sending" /\ req[r].rec \in Record
      /\ UNCHANGED <<window, file, life, kept>>
  BY DEF ArchiveInv, ArchiveTypeOK, Answer, At, Recorded
<1>2. /\ req' \in [Requests -> Served] /\ \A x \in Requests \ {r} : req'[x] = req[x]
      /\ req'[r].pc \in {"idle", "open"}
      /\ req'[r].pc = "open" => req'[r].rec \in Record
  <2>1. CASE Goes(r, "open")
    <3>1. /\ req' \in [Requests -> Served] /\ req'[r] = [req[r] EXCEPT !.pc = "open"]
          /\ \A x \in Requests \ {r} : req'[x] = req[x]
      BY <1>1, <2>1, OneGoes
    <3> QED
      BY <1>1, <3>1 DEF Served
  <2>2. CASE Ends(r)
    BY <1>1, <2>2, OneEnds
  <2> QED
    BY <2>1, <2>2 DEF Answer
<1>3. ArchiveTypeOK' /\ Recorded'
  BY <1>1, <1>2 DEF ArchiveInv, ArchiveTypeOK, Recorded
<1>4. Undisturbed' /\ Held' /\ HeldByAll'
  BY <1>1, <1>2, FarFromFile DEF AtFile
<1> QED
  BY <1>3, <1>4 DEF ArchiveInv

LEMMA OpenStep ==
  ASSUME ArchiveInv, NEW r \in Requests, Open(r)
  PROVE  ArchiveInv'
<1> DEFINE new == [req[r] EXCEPT !.pc = "check", !.id = file.id]
<1>1. req \in [Requests -> Served] /\ req[r].pc = "open" /\ req[r].rec \in Record
      /\ UNCHANGED <<window, file, life, kept>> /\ file.id \in Nat
  BY DEF ArchiveInv, ArchiveTypeOK, Open, At, Recorded
<1>2. CASE Ends(r)
  <2>1. req' \in [Requests -> Served] /\ req'[r].pc = "idle"
        /\ \A x \in Requests \ {r} : req'[x] = req[x]
    BY <1>1, <1>2, OneEnds
  <2>2. ArchiveTypeOK'
    BY <1>1, <2>1 DEF ArchiveInv, ArchiveTypeOK
  <2>3. Recorded'
    BY <1>1, <2>1 DEF ArchiveInv, Recorded, AtFile
  <2>4. Undisturbed' /\ Held' /\ HeldByAll'
    BY <1>1, <2>1, FarFromFile DEF AtFile
  <2> QED
    BY <2>2, <2>3, <2>4 DEF ArchiveInv
<1>3. CASE Comes(r, new)
  <2>1. new \in Served /\ new.pc = "check" /\ new.rec = req[r].rec /\ new.id = file.id
    BY <1>1 DEF Served, AtFile
  <2>2. Came(r, new)
    <3> HIDE DEF new
    <3> QED
      BY <1>1, <1>3, <2>1, OneComes
  <2>3. ArchiveTypeOK'
    BY <1>1, <2>1, <2>2 DEF Came, ArchiveInv, ArchiveTypeOK
  <2>4. Recorded'
    BY <1>1, <2>1, <2>2 DEF Came, ArchiveInv, Recorded, AtFile
  <2>5. Undisturbed'
    BY <1>1, <2>1, <2>2 DEF Came, ArchiveInv, Undisturbed, AtFile
  <2>6. Held' /\ HeldByAll'
    BY <1>1, <2>1, <2>2, HeldStill DEF Came
  <2> QED
    BY <2>3, <2>4, <2>5, <2>6 DEF ArchiveInv
<1> QED
  BY <1>2, <1>3 DEF Open

\* A request at the file ends, with whatever it did to the file.
LEMMA LeavesFile ==
  ASSUME ArchiveInv, NEW r \in Requests, req[r].pc \in AtFile, Ends(r), file' \in File,
         UNCHANGED <<window, life>>, kept' \subseteq Texts,
         \A x \in Requests \ {r} : req[x].pc \in AtFile /\ req[x].alone => file' = file
  PROVE  ArchiveTypeOK' /\ Recorded' /\ Undisturbed'
<1>1. req' \in [Requests -> Served] /\ req'[r].pc = "idle"
      /\ \A x \in Requests \ {r} : req'[x] = req[x]
  BY OneEnds DEF ArchiveInv, ArchiveTypeOK
<1>2. ArchiveTypeOK'
  BY <1>1 DEF ArchiveInv, ArchiveTypeOK, File
<1>3. Recorded'
  BY <1>1 DEF ArchiveInv, Recorded, AtFile
<1>4. Undisturbed'
  BY <1>1 DEF ArchiveInv, Undisturbed, AtFile
<1> QED
  BY <1>2, <1>3, <1>4

LEMMA StoredText ==
  ASSUME NEW a \in Record, NEW b \in Record, Stored(a) = Stored(b)
  PROVE  a.text = b.text
<1>1. [a EXCEPT !.time = "none"].text = a.text /\ [b EXCEPT !.time = "none"].text = b.text
  BY DEF Record
<1> QED
  BY <1>1 DEF Stored, Fingerprint

LEMMA CheckStep ==
  ASSUME ArchiveInv, NEW r \in Requests, Check(r)
  PROVE  ArchiveInv'
<1>1. req \in [Requests -> Served] /\ req[r].pc = "check" /\ req[r].rec \in Record
      /\ req[r].rec.text \in Texts
      /\ UNCHANGED <<window, file, life>> /\ file \in File /\ kept \subseteq Texts
  BY DEF ArchiveInv, ArchiveTypeOK, Check, At, Recorded, File, Record
<1>2. ASSUME NEW rec \in ReadRecords, Stored(rec) = Stored(req[r].rec), Ends(r),
             kept' = IF req[r].alone /\ Ended THEN kept \cup {req[r].rec.text} ELSE kept
      PROVE  ArchiveInv'
  <2>1. ArchiveTypeOK' /\ Recorded' /\ Undisturbed'
    BY <1>1, <1>2, LeavesFile DEF AtFile
  <2>2. \A x \in Requests \ {r} : req'[x] = req[x]
    BY <1>1, <1>2, OneEnds
  <2>3. req'[r].pc = "idle"
    BY <1>1, <1>2, OneEnds
  <2>4. \A t \in kept : \/ t \in TextsOf(file.lines \cap Record)
                        \/ \E x \in Requests : At(x, "rewrite")' /\ t \in TextsOf(req[x].keep)'
    BY <1>1, <2>2 DEF ArchiveInv, Held, At
  <2>5. CASE ~(req[r].alone /\ Ended)
    <3>1. kept' = kept
      BY <1>2, <2>5
    <3>2. Held'
      BY <1>1, <2>4, <3>1 DEF Held
    <3>3. HeldByAll'
      BY <1>1, <2>2, <2>3, <3>1 DEF ArchiveInv, HeldByAll, At
    <3> QED
      BY <2>1, <3>2, <3>3 DEF ArchiveInv
  <2>6. CASE req[r].alone /\ Ended
    <3>1. kept' = kept \cup {req[r].rec.text}
      BY <1>2, <2>6
    <3>2. rec \in Record /\ rec \in file.lines
      BY <2>6, NoRecord DEF ReadRecords, Ended
    <3>3. req[r].rec.text = rec.text
      BY <1>1, <1>2, <3>2, StoredText
    <3>4. req[r].rec.text \in TextsOf(file.lines \cap Record)
      BY <3>2, <3>3 DEF TextsOf
    <3>5. Held'
      BY <1>1, <2>4, <3>1, <3>4 DEF Held
    <3>6. \A x \in Requests : req'[x].pc \notin AtFile
      BY <1>1, <2>2, <2>3, <2>6 DEF ArchiveInv, Undisturbed, AtFile
    <3>7. HeldByAll'
      BY <3>6 DEF HeldByAll, At, AtFile
    <3> QED
      BY <2>1, <3>5, <3>7 DEF ArchiveInv
  <2> QED
    BY <2>5, <2>6
<1>3. ASSUME Goes(r, "line"), kept' = kept
      PROVE  ArchiveInv'
  <2>1. req' \in [Requests -> Served] /\ req'[r] = [req[r] EXCEPT !.pc = "line"]
        /\ \A x \in Requests \ {r} : req'[x] = req[x]
    BY <1>1, <1>3, OneGoes DEF AtFile
  <2>2. req'[r].pc = "line" /\ req'[r].rec = req[r].rec /\ req'[r].id = req[r].id
        /\ (req'[r].alone <=> req[r].alone)
    BY <1>1, <2>1 DEF Served
  <2>3. req' \in [Requests -> Served] /\ \A x \in Requests \ {r} : req'[x] = req[x]
    BY <2>1
  <2>4. ArchiveTypeOK'
    BY <1>1, <1>3, <2>3 DEF ArchiveInv, ArchiveTypeOK
  <2>5. Recorded'
    BY <1>1, <2>2, <2>3 DEF ArchiveInv, Recorded, AtFile
  <2>6. Undisturbed'
    <3>1. \A x \in Requests :
            /\ req'[x].pc \in AtFile <=> req[x].pc \in AtFile
            /\ req'[x].alone <=> req[x].alone
            /\ req'[x].id = req[x].id
      BY <1>1, <2>2, <2>3 DEF AtFile
    <3> QED
      BY <1>1, <2>2, <2>3, <3>1 DEF ArchiveInv, Undisturbed, AtFile
  <2>7. Held' /\ HeldByAll'
    BY <1>1, <1>3, <2>2, <2>3, HeldStill
  <2> QED
    BY <2>4, <2>5, <2>6, <2>7 DEF ArchiveInv
<1> QED
  BY <1>2, <1>3 DEF Check

LEMMA WriteLineStep ==
  ASSUME ArchiveInv, NEW r \in Requests, WriteLine(r)
  PROVE  ArchiveInv'
<1> DEFINE new == [req[r] EXCEPT !.pc = "end", !.alone = @ /\ Ended]
<1>1. req \in [Requests -> Served] /\ req[r].pc = "line" /\ req[r].rec \in Record
      /\ UNCHANGED <<window, life, kept>> /\ file \in File /\ kept \subseteq Texts
      /\ \/ /\ file' = (IF req[r].id = file.id THEN Appended(req[r].rec) ELSE file)
            /\ To(r, new)
         \/ /\ file' = file \/ (req[r].id = file.id /\ file' \in Spoiled)
            /\ Ends(r)
  BY DEF ArchiveInv, ArchiveTypeOK, WriteLine, At, Recorded, File
<1>2. CASE (file' = file \/ (req[r].id = file.id /\ file' \in Spoiled)) /\ Ends(r)
  <2>1. file' \in File /\ file'.id = file.id /\ file'.lines = file.lines
    BY <1>1, <1>2, FileType
  <2>2. \A x \in Requests \ {r} : req[x].pc \in AtFile => ~req[x].alone
    BY <1>1 DEF ArchiveInv, Undisturbed, AtFile
  <2>3. ArchiveTypeOK' /\ Recorded' /\ Undisturbed'
    BY <1>1, <1>2, <2>1, <2>2, LeavesFile DEF AtFile
  <2>4. req'[r].pc = "idle" /\ \A x \in Requests \ {r} : req'[x] = req[x]
    BY <1>1, <1>2, OneEnds
  <2>5. Held' /\ HeldByAll'
    BY <1>1, <2>1, <2>4, HeldStill
  <2> QED
    BY <2>3, <2>5 DEF ArchiveInv
<1>3. CASE To(r, new) /\ file' = (IF req[r].id = file.id THEN Appended(req[r].rec) ELSE file)
  <2>1. new \in Served /\ new.pc = "end" /\ new.rec = req[r].rec /\ new.id = req[r].id
        /\ new.alone = (req[r].alone /\ Ended)
    BY <1>1 DEF Served, AtFile
  <2>2. req' \in [Requests -> Served] /\ req'[r] = new
        /\ \A x \in Requests \ {r} : req'[x] = req[x]
    <3> HIDE DEF new
    <3> QED
      BY <1>1, <1>3, <2>1, OneMoves
  <2> HIDE DEF new
  <2>3. file' \in File /\ file'.id = file.id /\ file'.lines = file.lines
        /\ (req[r].id = file.id /\ Ended => file'.tail = req[r].rec)
    <3>1. Appended(req[r].rec) \in File
      BY <1>1, FileType
    <3>2. /\ Appended(req[r].rec).id = file.id /\ Appended(req[r].rec).lines = file.lines
          /\ Ended => Appended(req[r].rec).tail = req[r].rec
      <4> DEFINE rec == req[r].rec
                 last == CASE Ended -> rec [] file.tail = Torn -> Torn [] OTHER -> Junk
      <4>1. Ended => last = rec
        BY NoRecord DEF Ended
      <4>2. Appended(rec) = [file EXCEPT !.tail = last]
        BY DEF Appended
      <4> HIDE DEF rec, last
      <4>3. Appended(rec).id = file.id /\ Appended(rec).lines = file.lines
            /\ Appended(rec).tail = last
        BY <1>1, <4>2 DEF File
      <4> QED
        BY <4>1, <4>3 DEF rec
    <3> QED
      BY <1>1, <1>3, <3>1, <3>2
  <2>4. ArchiveTypeOK'
    BY <1>1, <2>2, <2>3 DEF ArchiveInv, ArchiveTypeOK, File
  <2>5. Recorded'
    BY <1>1, <2>1, <2>2 DEF ArchiveInv, Recorded, AtFile
  <2>6. Undisturbed'
    <3> SUFFICES ASSUME NEW x \in Requests, req'[x].pc \in AtFile, req'[x].alone
                 PROVE  /\ \A y \in Requests \ {x} : req'[y].pc \notin AtFile
                        /\ req'[x].pc \in {"check", "line", "end"} => req'[x].id = file'.id
                        /\ req'[x].pc = "end" => file'.tail = req'[x].rec
      BY DEF Undisturbed
    <3>1. CASE x = r
      BY <1>1, <2>1, <2>2, <2>3, <3>1 DEF ArchiveInv, Undisturbed, AtFile
    <3>2. CASE x # r
      <4>1. req[x].pc \in AtFile /\ req[x].alone /\ req[r].pc \in AtFile
        BY <1>1, <2>2, <3>2 DEF AtFile
      <4> QED
        BY <3>2, <4>1 DEF ArchiveInv, Undisturbed
    <3> QED
      BY <3>1, <3>2
  <2>7. Held' /\ HeldByAll'
    BY <1>1, <2>1, <2>2, <2>3, HeldStill
  <2> QED
    BY <2>4, <2>5, <2>6, <2>7 DEF ArchiveInv
<1> QED
  BY <1>1, <1>2, <1>3

LEMMA WriteEndStep ==
  ASSUME ArchiveInv, NEW r \in Requests, WriteEnd(r)
  PROVE  ArchiveInv'
<1>1. req \in [Requests -> Served] /\ req[r].pc = "end" /\ req[r].rec \in Record
      /\ req[r].rec.text \in Texts
      /\ UNCHANGED <<window, life>> /\ file \in File /\ kept \subseteq Texts /\ Ends(r)
      /\ \/ /\ file' = (IF req[r].id = file.id THEN LineEnded ELSE file)
            /\ kept' = (IF req[r].alone /\ ~file.torn THEN kept \cup {req[r].rec.text} ELSE kept)
         \/ file' = file /\ kept' = kept
  BY DEF ArchiveInv, ArchiveTypeOK, WriteEnd, At, Recorded, File, Record
<1>2. file' \in File /\ file'.id = file.id /\ file.lines \subseteq file'.lines
  BY <1>1, FileType
<1>3. \A x \in Requests \ {r} : req[x].pc \in AtFile => ~req[x].alone
  BY <1>1 DEF ArchiveInv, Undisturbed, AtFile
<1>4. ArchiveTypeOK' /\ Recorded' /\ Undisturbed'
  BY <1>1, <1>2, <1>3, LeavesFile DEF AtFile
<1>5. req'[r].pc = "idle" /\ \A x \in Requests \ {r} : req'[x] = req[x]
  BY <1>1, OneEnds
<1>6. TextsOf(file.lines \cap Record) \subseteq TextsOf(file'.lines \cap Record)
  BY <1>2 DEF TextsOf
<1>7. \A t \in kept : \/ t \in TextsOf(file'.lines \cap Record)
                      \/ \E x \in Requests : At(x, "rewrite")' /\ t \in TextsOf(req[x].keep)'
  BY <1>1, <1>5, <1>6 DEF ArchiveInv, Held, At
<1>8. CASE kept' = kept
  <2>2. Held'
    BY <1>7, <1>8 DEF Held
  <2>3. HeldByAll'
    BY <1>2, <1>5, <1>8 DEF ArchiveInv, HeldByAll, At
  <2> QED
    BY <1>4, <2>2, <2>3 DEF ArchiveInv
<1>9. CASE kept' # kept
  <2>1. /\ kept' = kept \cup {req[r].rec.text} /\ req[r].alone /\ ~file.torn
        /\ file' = (IF req[r].id = file.id THEN LineEnded ELSE file)
    BY <1>1, <1>9
  <2>2. req[r].id = file.id /\ file.tail = req[r].rec
    BY <1>1, <2>1 DEF ArchiveInv, Undisturbed, AtFile
  <2>3. req[r].rec \in file'.lines
    <3>1. ~Ended /\ file.tail # Torn
      BY <1>1, <2>2, NoRecord DEF Ended
    <3>2. file' = [[file EXCEPT !.tail = Nothing] EXCEPT !.lines = @ \cup {file.tail}]
      BY <2>1, <2>2, <3>1 DEF LineEnded
    <3>3. file'.lines = file.lines \cup {file.tail}
      BY <1>1, <3>2 DEF File
    <3> QED
      BY <2>2, <3>3
  <2>4. req[r].rec.text \in TextsOf(file'.lines \cap Record)
    BY <1>1, <2>3 DEF TextsOf
  <2>5. Held'
    BY <1>7, <2>1, <2>4 DEF Held
  <2>6. \A x \in Requests : req'[x].pc \notin AtFile
    BY <1>1, <1>5, <2>1 DEF ArchiveInv, Undisturbed, AtFile
  <2>7. HeldByAll'
    BY <2>6 DEF HeldByAll, At, AtFile
  <2> QED
    BY <1>4, <2>5, <2>7 DEF ArchiveInv
<1> QED
  BY <1>8, <1>9

\* Whoever passes the file leaves no other alone at it.
LEMMA PassesFile ==
  ASSUME ArchiveInv, NEW r \in Requests, NEW new \in Served, Comes(r, new),
         req[r].pc = "idle", new.pc \in {"idle", "cut"},
         window' = window, file' \in File, kept' \subseteq Texts,
         life' \in [submits : Nat, drops : Nat, deaths : Nat]
  PROVE  ArchiveTypeOK' /\ Recorded' /\ Undisturbed'
<1>1. Came(r, new)
  <2>1. req \in [Requests -> Served]
    BY DEF ArchiveInv, ArchiveTypeOK
  <2> QED
    BY <2>1, OneComes
<1>2. ArchiveTypeOK'
  BY <1>1 DEF Came, ArchiveInv, ArchiveTypeOK, File
<1>3. Recorded'
  <2>1. req'[r].pc \in {"idle", "cut"}
    BY <1>1 DEF Came
  <2>2. \A x \in Requests \ {r} :
          req'[x].pc = req[x].pc /\ req'[x].rec = req[x].rec
    BY <1>1 DEF Came
  <2> QED
    BY <2>1, <2>2 DEF ArchiveInv, Recorded
<1>4. Undisturbed'
  BY <1>1 DEF Came, ArchiveInv, Undisturbed, AtFile
<1> QED
  BY <1>2, <1>3, <1>4

LEMMA DropAllStep ==
  ASSUME ArchiveInv, NEW r \in Requests, DropAll(r)
  PROVE  ArchiveInv'
<1>1. /\ req \in [Requests -> Served] /\ req[r].pc = "idle" /\ file \in File
      /\ kept \subseteq Texts /\ window' = window /\ Comes(r, Idle)
      /\ \/ file' = Empty(file.id + 1) /\ kept' = {}
         \/ file' = file /\ kept' = kept
      /\ life' \in [submits : Nat, drops : Nat, deaths : Nat]
  BY DEF ArchiveInv, ArchiveTypeOK, DropAll, At, File
<1>2. file' \in File
  <2>1. Empty(file.id + 1) \in File
    BY <1>1 DEF Empty, File
  <2> QED
    BY <1>1, <2>1
<1>3. ArchiveTypeOK' /\ Recorded' /\ Undisturbed'
  <2>1. Idle.pc = "idle"
    BY DEF Idle
  <2> QED
    BY <1>1, <1>2, <2>1, IdleServed, PassesFile
<1>4. Held' /\ HeldByAll'
  <2>1. CASE kept' = {}
    BY <2>1 DEF Held, HeldByAll
  <2>2. CASE file' = file /\ kept' = kept
    <3>1. Came(r, Idle)
      BY <1>1, IdleServed, OneComes
    <3>2. req'[r].pc = "idle" /\ \A x \in Requests \ {r} :
            req'[x].pc = req[x].pc /\ req'[x].id = req[x].id /\ req'[x].keep = req[x].keep
      BY <3>1 DEF Came, Idle
    <3> QED
      BY <1>1, <2>2, <3>2, HeldStill
  <2> QED
    BY <1>1, <2>1, <2>2
<1> QED
  BY <1>3, <1>4 DEF ArchiveInv

LEMMA DropOneStep ==
  ASSUME ArchiveInv, NEW r \in Requests, NEW item \in Record, DropOne(r, item)
  PROVE  ArchiveInv'
<1> DEFINE none == [Idle EXCEPT !.rec = item]
           some == [Idle EXCEPT !.pc = "cut", !.rec = item, !.keep = Remaining(item)]
<1>1. req \in [Requests -> Served] /\ req[r].pc = "idle" /\ UNCHANGED <<window, file>>
      /\ file \in File /\ kept \subseteq Texts
      /\ life' \in [submits : Nat, drops : Nat, deaths : Nat]
  BY DEF ArchiveInv, ArchiveTypeOK, DropOne, At, File
<1>2. none \in Served /\ none.pc = "idle"
  BY DEF Idle, Served
<1>3. some \in Served /\ some.pc = "cut" /\ some.keep = Remaining(item)
  <2>1. Remaining(item) \in SUBSET Record
    BY ReadAreRecords
  <2> QED
    BY <2>1 DEF Idle, Served, AtFile
<1>4. \/ Comes(r, none) /\ kept' = kept
      \/ /\ Comes(r, some)
         /\ kept' = IF \E x \in Requests : At(x, "rewrite") THEN {} ELSE kept \ {item.text}
  BY DEF DropOne
<1> HIDE DEF none, some
<1>5. CASE Comes(r, none) /\ kept' = kept
  <2>1. ArchiveTypeOK' /\ Recorded' /\ Undisturbed'
    BY <1>1, <1>2, <1>5, PassesFile
  <2>2. req'[r].pc = "idle" /\ \A x \in Requests \ {r} :
          req'[x].pc = req[x].pc /\ req'[x].id = req[x].id /\ req'[x].keep = req[x].keep
    <3>1. Came(r, none)
      BY <1>1, <1>2, <1>5, OneComes
    <3> QED
      BY <1>2, <3>1 DEF Came
  <2>3. Held' /\ HeldByAll'
    BY <1>1, <1>5, <2>2, HeldStill
  <2> QED
    BY <2>1, <2>3 DEF ArchiveInv
<1>6. CASE /\ Comes(r, some)
           /\ kept' = IF \E x \in Requests : At(x, "rewrite") THEN {} ELSE kept \ {item.text}
  <2>1. ArchiveTypeOK' /\ Recorded' /\ Undisturbed'
    BY <1>1, <1>3, <1>6, PassesFile
  <2>2. req'[r].pc = "cut" /\ req'[r].keep = Remaining(item) /\ \A x \in Requests \ {r} :
          req'[x].pc = req[x].pc /\ req'[x].id = req[x].id /\ req'[x].keep = req[x].keep
    <3>1. Came(r, some)
      BY <1>1, <1>3, <1>6, OneComes
    <3> QED
      BY <1>3, <3>1 DEF Came
  <2>3. CASE \E x \in Requests : At(x, "rewrite")
    <3>1. kept' = {}
      BY <1>6, <2>3
    <3> QED
      BY <2>1, <3>1 DEF ArchiveInv, Held, HeldByAll
  <2>4. CASE ~ \E x \in Requests : At(x, "rewrite")
    <3>1. kept' = kept \ {item.text}
      BY <1>6, <2>4
    <3>2. \A t \in kept' : t \in TextsOf(file.lines \cap Record)
      BY <2>4, <3>1 DEF ArchiveInv, Held
    <3>3. Held'
      BY <1>1, <3>2 DEF Held
    <3>4. \A t \in kept' : t \in TextsOf(Remaining(item))
      <4> SUFFICES ASSUME NEW t \in kept' PROVE t \in TextsOf(Remaining(item))
        OBVIOUS
      <4>1. PICK rec \in file.lines \cap Record : t = rec.text
        BY <3>2 DEF TextsOf
      <4>2. rec \in Record
        OBVIOUS
      <4>3. rec \in ReadRecords
        BY <4>2 DEF ReadRecords
      <4>4. Stored(rec) # Fingerprint(item)
        <5>1. [rec EXCEPT !.time = "none"].text = rec.text
          BY <4>2 DEF Record
        <5> QED
          BY <3>1, <4>1, <5>1 DEF Stored, Fingerprint
      <4> QED
        BY <4>1, <4>3, <4>4 DEF Remaining, TextsOf
    <3>5. HeldByAll'
      <4>1. \A x \in Requests : ~At(x, "rewrite")'
        BY <2>2, <2>4 DEF At
      <4>2. \A x \in Requests \ {r} : req'[x].pc \in {"cut", "rewrite"} =>
              kept' \subseteq TextsOf(req'[x].keep)
        BY <2>2, <3>1 DEF ArchiveInv, HeldByAll
      <4>3. kept' \subseteq TextsOf(req'[r].keep)
        BY <2>2, <3>4
      <4> QED
        BY <4>1, <4>2, <4>3 DEF HeldByAll
    <3> QED
      BY <2>1, <3>3, <3>5 DEF ArchiveInv
  <2> QED
    BY <2>3, <2>4
<1> QED
  BY <1>4, <1>5, <1>6

LEMMA CutStep ==
  ASSUME ArchiveInv, NEW r \in Requests, Cut(r)
  PROVE  ArchiveInv'
<1> DEFINE new == [req[r] EXCEPT !.pc = "rewrite", !.id = file.id]
<1>1. req \in [Requests -> Served] /\ req[r].pc = "cut" /\ UNCHANGED <<window, life, kept>>
      /\ file \in File /\ kept \subseteq Texts
      /\ \/ file' = Empty(file.id) /\ To(r, new)
         \/ Ends(r) /\ file' = file
  BY DEF ArchiveInv, ArchiveTypeOK, Cut, At, File
<1>2. \A x \in Requests \ {r} : req[x].pc \in AtFile => ~req[x].alone
  BY <1>1 DEF ArchiveInv, Undisturbed, AtFile
<1>3. CASE Ends(r) /\ file' = file
  <2>1. ArchiveTypeOK' /\ Recorded' /\ Undisturbed'
    BY <1>1, <1>3, LeavesFile DEF AtFile
  <2>2. req'[r].pc = "idle" /\ \A x \in Requests \ {r} : req'[x] = req[x]
    BY <1>1, <1>3, OneEnds
  <2>3. Held' /\ HeldByAll'
    BY <1>1, <1>3, <2>2 DEF ArchiveInv, Held, HeldByAll, At
  <2> QED
    BY <2>1, <2>3 DEF ArchiveInv
<1>4. CASE file' = Empty(file.id) /\ To(r, new)
  <2>1. new \in Served /\ new.pc = "rewrite" /\ new.id = file.id /\ new.keep = req[r].keep
    BY <1>1 DEF Served, AtFile, File
  <2> HIDE DEF new
  <2>2. req' \in [Requests -> Served] /\ req'[r] = new /\ \A x \in Requests \ {r} : req'[x] = req[x]
    BY <1>1, <1>4, <2>1, OneMoves
  <2>3. file' \in File /\ file'.id = file.id
    BY <1>1, <1>4 DEF Empty, File
  <2>4. ArchiveTypeOK'
    BY <1>1, <2>2, <2>3 DEF ArchiveInv, ArchiveTypeOK, File
  <2>5. Recorded'
    BY <1>1, <2>1, <2>2 DEF ArchiveInv, Recorded, AtFile
  <2>6. Undisturbed'
    <3>1. \A x \in Requests \ {r} : req'[x].pc \in AtFile => ~req'[x].alone
      BY <1>2, <2>2
    <3>2. req'[r].pc = "rewrite"
      BY <2>1, <2>2
    <3>3. req'[r].alone => \A x \in Requests \ {r} : req'[x].pc \notin AtFile
      <4>1. (req'[r].alone <=> req[r].alone)
        BY <1>1, <2>2 DEF new, Served
      <4> QED
        BY <1>1, <2>2, <4>1 DEF ArchiveInv, Undisturbed, AtFile
    <3> QED
      BY <3>1, <3>2, <3>3 DEF Undisturbed
  <2>7. kept \subseteq TextsOf(req'[r].keep)
    BY <1>1, <2>1, <2>2 DEF ArchiveInv, HeldByAll
  <2>8. Held'
    BY <1>1, <2>1, <2>2, <2>7 DEF Held, At
  <2>9. HeldByAll'
    BY <1>1, <2>1, <2>2, <2>3, <2>7 DEF ArchiveInv, HeldByAll, At
  <2> QED
    BY <2>4, <2>5, <2>6, <2>8, <2>9 DEF ArchiveInv
<1> QED
  BY <1>1, <1>3, <1>4

LEMMA RewriteStep ==
  ASSUME ArchiveInv, NEW r \in Requests, Rewrite(r)
  PROVE  ArchiveInv'
<1>1. /\ req \in [Requests -> Served] /\ req[r].pc = "rewrite" /\ UNCHANGED <<window, life>>
      /\ file \in File /\ kept \subseteq Texts /\ Ends(r) /\ req[r].keep \in SUBSET Record
      /\ \/ /\ IF req[r].id = file.id THEN file' \in Overwritten(req[r].keep) ELSE file' = file
            /\ kept' = kept
         \/ /\ IF req[r].id = file.id THEN file' \in Botched(req[r].keep) ELSE file' = file
            /\ kept' = {}
  BY DEF ArchiveInv, ArchiveTypeOK, Rewrite, At, File, Served
<1>2. \A x \in Requests \ {r} : req[x].pc \in AtFile => ~req[x].alone
  BY <1>1 DEF ArchiveInv, Undisturbed, AtFile
<1>3. file' \in File /\ file'.id = file.id /\ kept' \subseteq Texts
      /\ (req[r].id = file.id /\ kept' = kept /\ kept # {} => req[r].keep \subseteq file'.lines)
  BY <1>1, FileType
<1>4. ArchiveTypeOK' /\ Recorded' /\ Undisturbed'
  BY <1>1, <1>2, <1>3, LeavesFile DEF AtFile
<1>5. req'[r].pc = "idle" /\ \A x \in Requests \ {r} : req'[x] = req[x]
  BY <1>1, OneEnds
<1>6. CASE kept' = {}
  BY <1>4, <1>6 DEF ArchiveInv, Held, HeldByAll
<1>7. CASE kept' = kept /\ kept # {}
  <2>1. HeldByAll'
    BY <1>3, <1>5, <1>7 DEF ArchiveInv, HeldByAll, At
  <2>2. kept \subseteq TextsOf(req[r].keep) /\ req[r].id = file.id
    BY <1>1, <1>7 DEF ArchiveInv, HeldByAll, At
  <2>3. TextsOf(req[r].keep) \subseteq TextsOf(file'.lines \cap Record)
    BY <1>1, <1>3, <1>7, <2>2 DEF TextsOf
  <2>4. Held'
    BY <1>7, <2>2, <2>3 DEF Held
  <2> QED
    BY <1>4, <2>1, <2>4 DEF ArchiveInv
<1> QED
  BY <1>1, <1>6, <1>7

LEMMA ArchiveTickStep ==
  ASSUME ArchiveInv, ArchiveTick
  PROVE  ArchiveInv'
<1>1. UNCHANGED <<req, file, life, kept>>
      /\ window' = [k \in DedupKeys |-> IF window[k] > 0 THEN window[k] - 1 ELSE 0]
  BY DEF ArchiveTick
<1>2. \A k \in DedupKeys : window[k] \in 0..Window
  BY DEF ArchiveInv, ArchiveTypeOK
<1>3. ArchiveTypeOK'
  BY <1>1, <1>2, ArchiveAssumption DEF ArchiveInv, ArchiveTypeOK
<1>4. Recorded' /\ Undisturbed' /\ Held' /\ HeldByAll'
  BY <1>1 DEF ArchiveInv, Recorded, Undisturbed, Held, HeldByAll, At
<1> QED
  BY <1>3, <1>4 DEF ArchiveInv

LEMMA DieStep ==
  ASSUME ArchiveInv, Die
  PROVE  ArchiveInv'
<1>1. /\ life' = [life EXCEPT !.deaths = @ + 1] /\ file' = file
      /\ window' = [k \in DedupKeys |-> 0]
      /\ req' = [r \in Requests |-> Idle]
      /\ kept' = IF \E r \in Requests : At(r, "rewrite") THEN {} ELSE kept
  BY DEF Die
<1>2. ArchiveTypeOK'
  BY <1>1, IdleServed, ArchiveAssumption DEF ArchiveInv, ArchiveTypeOK
<1>3. Recorded' /\ Undisturbed' /\ HeldByAll'
  BY <1>1 DEF Recorded, Undisturbed, HeldByAll, At, Idle, AtFile
<1>4. Held'
  BY <1>1 DEF ArchiveInv, Held
<1> QED
  BY <1>2, <1>3, <1>4 DEF ArchiveInv

LEMMA ArchiveStutter ==
  ASSUME ArchiveInv, UNCHANGED archiveVars
  PROVE  ArchiveInv'
  BY DEF ArchiveInv, ArchiveTypeOK, Recorded, Undisturbed, Held, HeldByAll, At,
         archiveVars

-----------------------------------------------------------------------------
\* The strengthened invariant of the archive holds in every reachable state.
THEOREM ArchiveInvariance == ArchiveSpec => []ArchiveInv
<1>1. ArchiveInv /\ [ArchiveNext]_archiveVars => ArchiveInv'
  <2> SUFFICES ASSUME ArchiveInv, [ArchiveNext]_archiveVars PROVE ArchiveInv'
    OBVIOUS
  <2>1. ASSUME NEW r \in Requests, NEW t \in Texts, NEW k \in DedupKeys, Submit(r, t, k)
        PROVE  ArchiveInv'
    BY <2>1, SubmitStep
  <2>2. ASSUME NEW r \in Requests, Answer(r) \/ RecordSent(r) PROVE ArchiveInv'
    BY <2>2, AnswerStep, OpenStep, CheckStep, WriteLineStep, WriteEndStep DEF RecordSent
  <2>3. ASSUME NEW r \in Requests, DropAll(r) \/ Cut(r) \/ Rewrite(r) PROVE ArchiveInv'
    BY <2>3, DropAllStep, CutStep, RewriteStep
  <2>4. ASSUME NEW r \in Requests, NEW item \in Record, DropOne(r, item) PROVE ArchiveInv'
    BY <2>4, DropOneStep
  <2>5. CASE ArchiveTick \/ Die \/ UNCHANGED archiveVars
    BY <2>5, ArchiveTickStep, DieStep, ArchiveStutter
  <2> QED
    BY <2>1, <2>2, <2>3, <2>4, <2>5 DEF ArchiveNext
<1> QED
  BY <1>1, ArchiveInitial, PTL DEF ArchiveSpec

\* The archive's state keeps its shape: only records are ever written back.
THEOREM ArchiveTypeCorrect == ArchiveSpec => []ArchiveTypeOK
<1>1. ArchiveInv => ArchiveTypeOK
  BY DEF ArchiveInv
<1> QED
  BY <1>1, ArchiveInvariance, PTL

\* What was archived undisturbed can be read, or is in the hands of one who is
\* about to write it back, until it is deleted.
THEOREM ArchiveIsKept == ArchiveSpec => []ArchiveKeeps
<1>1. ArchiveInv => ArchiveKeeps
  <2> SUFFICES ASSUME ArchiveInv, NEW t \in kept,
                      ~ \E r \in Requests :
                          At(r, "rewrite") /\ \E rec \in req[r].keep : rec.text = t
               PROVE  Readable(t)
    BY DEF ArchiveKeeps
  <2>1. t \in TextsOf(file.lines \cap Record)
    BY DEF ArchiveInv, Held, TextsOf
  <2> QED
    BY <2>1 DEF TextsOf, Readable, ReadRecords
<1> QED
  BY <1>1, ArchiveInvariance, PTL
=============================================================================
