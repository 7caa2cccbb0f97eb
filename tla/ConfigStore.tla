----------------------------- MODULE ConfigStore -----------------------------
(***************************************************************************)
(* The configuration of the daemon (rust/src/config.rs): the uci file with *)
(* its staged changes, the cache the RPC server reads it through, and the  *)
(* threads and processes that call save().                                 *)
(*                                                                         *)
(* Every uci command is a step of its own, as every one is a process.  A   *)
(* request that finds the cache Fresh is given cache.cfg, and changes      *)
(* nothing here; the daemon's rounds call load() past the cache.           *)
(* Options stand for themselves: what a missing or unparsable one falls    *)
(* back to is left out, and the section, which save() makes sure of, is    *)
(* there.  The definitions named Faulty... are plausible mistakes in the   *)
(* one that follows.                                                       *)
(***************************************************************************)
EXTENDS Integers, FiniteSets

CONSTANTS
  NumKeys,    \* the options, in the order load() reads them
  Values,     \* what they may be set to
  Refused,    \* what validate_value() refuses
  Unset,      \* no value
  Savers,     \* the threads that call save()
  Local,      \* those of the daemon's own process; the others are CLI processes
  Patched,    \* the options each of them changes
  TTL,        \* the cache's, in ticks
  MaxLoad,    \* a bound on what one load() takes, in ticks
  MayFail,    \* the uci commands that may fail
  MaxOutages  \* bound: times the daemon dies or the router restarts

Keys == 1..NumKeys

ASSUME ConstantsAssumption ==
  /\ NumKeys \in Nat
  /\ Unset \notin Values \cup Refused
  /\ Values \cap Refused = {}
  /\ Local \subseteq Savers
  /\ Patched \in [Savers -> SUBSET Keys]
  /\ TTL \in Nat \ {0} /\ MaxLoad \in Nat
  /\ MayFail \subseteq {"set", "commit"}
  /\ MaxOutages \in Nat

VARIABLES
  disk,     \* /etc/config/fm350
  delta,    \* what uci set has staged in /tmp/.uci
  cache,    \* CONFIG_CACHE: the configuration and its age
  reader,   \* the event loop, inside load_cached()
  saver,    \* the threads inside save(): the patch, the options still to be set,
            \* and (history) those it has set and no other has since
  since,    \* history: how long uci get has given this answer
  outages

store == <<disk, delta>>
daemon == <<cache, reader>>
vars == <<store, daemon, saver, since, outages>>

Staged == {k \in Keys : delta[k] # Unset}

\* What uci get answers: staged changes first.
Visible == [k \in Keys |-> IF k \in Staged THEN delta[k] ELSE disk[k]]

Blank == [k \in Keys |-> Unset]
AtRest == [pc |-> "idle", next |-> 1, cfg |-> Blank, took |-> 0]
NoCache == [cfg |-> Blank, age |-> TTL]
NoSave == [pc |-> "idle", patch |-> Blank, todo |-> {}, mine |-> {}]

\* Far enough in the past to tell nothing.
Horizon == TTL + MaxLoad

Init ==
  /\ disk \in [Keys -> Values]
  /\ delta = Blank
  /\ cache = NoCache
  /\ reader = AtRest
  /\ saver = [s \in Savers |-> NoSave]
  /\ since = [k \in Keys |-> Horizon]
  /\ outages = 0

\* A new answer of uci get is a new one.
Aged == since' = [k \in Keys |-> IF Visible'[k] = Visible[k] THEN since[k] ELSE 0]

-----------------------------------------------------------------------------
(* load_cached() *)

FaultyFresh == cache.cfg # Blank          \* entries never expire
Fresh == cache.age < TTL

\* A request finds nothing fresh: the configuration is loaded, on the event loop
\* itself, ...
RequestMiss ==
  /\ reader.pc = "idle" /\ ~Fresh
  /\ reader' = [AtRest EXCEPT !.pc = "load"]
  /\ UNCHANGED <<store, cache, saver, since, outages>>

\* ... option by option, ...
Read ==
  /\ reader.pc = "load" /\ reader.next \in Keys
  /\ reader' = [reader EXCEPT !.next = @ + 1, !.cfg[reader.next] = Visible[reader.next]]
  /\ UNCHANGED <<store, cache, saver, since, outages>>

Complete == reader.pc = "load" /\ reader.next = NumKeys + 1

\* ... and put into the cache once it is complete, with the time it is then.
Loaded ==
  /\ Complete
  /\ cache' = [cfg |-> reader.cfg, age |-> 0]
  /\ reader' = AtRest
  /\ UNCHANGED <<store, saver, since, outages>>

-----------------------------------------------------------------------------
(* save() *)

FaultyRefusable(patch) ==       \* only the first option is looked at
  \E k \in DOMAIN patch : (\A j \in DOMAIN patch : k <= j) /\ patch[k] \in Refused

Refusable(patch) == \E k \in DOMAIN patch : patch[k] \in Refused

\* All values are checked before the first one is set.
Call(s) ==
  /\ saver[s].pc = "idle"
  /\ \E patch \in [Patched[s] -> Values \cup Refused] :
       /\ ~Refusable(patch)
       /\ saver' = [saver EXCEPT ![s] =
            [pc |-> "set", todo |-> Patched[s], mine |-> {},
             patch |-> [k \in Keys |-> IF k \in Patched[s] THEN patch[k] ELSE Unset]]]
  /\ UNCHANGED <<store, daemon, since, outages>>

\* One uci set.
Stage(s) ==
  /\ saver[s].pc = "set"
  /\ \E k \in saver[s].todo :
       /\ delta' = [delta EXCEPT ![k] = saver[s].patch[k]]
       /\ saver' = [x \in Savers |->
            IF x = s THEN [saver[s] EXCEPT !.todo = @ \ {k}, !.mine = @ \cup {k}]
                     ELSE [saver[x] EXCEPT !.mine = @ \ {k}]]
  /\ UNCHANGED <<disk, daemon, outages>>
  /\ Aged

\* It fails: what the earlier ones staged stays behind.
StageFails(s) ==
  /\ "set" \in MayFail
  /\ saver[s].pc = "set" /\ saver[s].todo # {}
  /\ saver' = [saver EXCEPT ![s] = NoSave]
  /\ UNCHANGED <<store, daemon, since, outages>>

\* uci commit writes what anyone has staged.
Commit(s) ==
  /\ saver[s].pc = "set" /\ saver[s].todo = {}
  /\ disk' = Visible
  /\ delta' = Blank
  /\ saver' = [saver EXCEPT ![s].pc = "drop"]
  /\ UNCHANGED <<daemon, outages>>
  /\ Aged

FaultyCommitFails(s) ==         \* the exit status of uci commit is not looked at
  /\ "commit" \in MayFail
  /\ saver[s].pc = "set" /\ saver[s].todo = {}
  /\ saver' = [saver EXCEPT ![s].pc = "drop"]
  /\ UNCHANGED <<store, daemon, since, outages>>

CommitFails(s) ==
  /\ "commit" \in MayFail
  /\ saver[s].pc = "set" /\ saver[s].todo = {}
  /\ saver' = [saver EXCEPT ![s] = NoSave]
  /\ UNCHANGED <<store, daemon, since, outages>>

\* invalidate_cache() of the saver's own process, then Ok.
Drop(s) ==
  /\ saver[s].pc = "drop"
  /\ cache' = IF s \in Local THEN NoCache ELSE cache
  /\ saver' = [saver EXCEPT ![s] = NoSave]
  /\ UNCHANGED <<store, reader, since, outages>>

Save(s) == Call(s) \/ Stage(s) \/ StageFails(s) \/ Commit(s) \/ CommitFails(s) \/ Drop(s)

-----------------------------------------------------------------------------
(* Time and failures *)

Older(age, limit) == IF age < limit THEN age + 1 ELSE limit

Tick ==
  /\ reader.pc = "load" => reader.took < MaxLoad
  /\ reader' = IF reader.pc = "load" THEN [reader EXCEPT !.took = @ + 1] ELSE reader
  /\ cache' = [cache EXCEPT !.age = Older(@, TTL)]
  /\ since' = [k \in Keys |-> Older(since[k], Horizon)]
  /\ UNCHANGED <<store, saver, outages>>

Outage ==
  /\ outages < MaxOutages /\ outages' = outages + 1
  /\ cache' = NoCache /\ reader' = AtRest

\* The daemon dies and procd starts it again; what it staged stays in /tmp.
Crash ==
  /\ Outage
  /\ saver' = [s \in Savers |-> IF s \in Local THEN NoSave ELSE saver[s]]
  /\ UNCHANGED <<store, since>>

\* The router restarts; /tmp is gone.
Reboot ==
  /\ Outage
  /\ saver' = [s \in Savers |-> NoSave]
  /\ delta' = Blank
  /\ UNCHANGED disk
  /\ Aged

-----------------------------------------------------------------------------
Request == RequestMiss \/ Read \/ Loaded

Next ==
  \/ Request
  \/ \E s \in Savers : Save(s)
  \/ Tick \/ Crash \/ Reboot

Spec == Init /\ [][Next]_vars

-----------------------------------------------------------------------------
(* Properties *)

Configs == [Keys -> Values \cup {Unset}]
Saves == [pc : {"idle", "set", "drop"}, patch : Configs, todo : SUBSET Keys, mine : SUBSET Keys]

\* The state keeps its shape; in particular nothing validate_value() refuses
\* is ever staged, written or read: the values end up in shell commands
\* (config.rs:359-365).
TypeOK ==
  /\ disk \in [Keys -> Values] /\ delta \in Configs
  /\ cache \in [cfg : Configs, age : 0..TTL]
  /\ reader \in [pc : {"idle", "load"}, next : 1..(NumKeys + 1), cfg : Configs, took : 0..MaxLoad]
  /\ saver \in [Savers -> Saves]
  /\ since \in [Keys -> 0..Horizon]
  /\ outages \in Nat

\* A save that is about to return Ok is on the disk, whatever others staged and
\* committed meanwhile: every option holds its value and is not staged, or has
\* been set by another save since (config.rs:344-356).
SavedIsCommitted ==
  \A s \in Savers :
    saver[s].pc = "drop" =>
      \A k \in saver[s].mine : disk[k] = saver[s].patch[k] /\ k \notin Staged

Behind(cfg) == {k \in Keys : cfg[k] # Visible[k]}

\* A request is given options that are in force when it comes, or were less than
\* the cache's TTL and one load() before, however many requests there are and
\* whichever process changed them (config.rs:285-289).
StaleIsBounded ==
  /\ Fresh => \A k \in Behind(cache.cfg) : since[k] < TTL + MaxLoad
  /\ Complete => \A k \in Behind(reader.cfg) : since[k] < TTL + MaxLoad

Quiet == \A s \in Savers : saver[s].pc = "idle"

-----------------------------------------------------------------------------
(* What the documentation says and the code does not do *)

\* config.rs:309-310: invalidate_cache() keeps the two seconds after a save from
\* showing the old options.  So while no save is in progress a request is given
\* what uci holds.
SaveTakesEffect == Fresh /\ Quiet => Behind(cache.cfg) = {}
=============================================================================
