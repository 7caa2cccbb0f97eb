------------------------------ MODULE RequestPath ------------------------------
(***************************************************************************)
(* How a request reaches the daemon and what becomes of its answer: the    *)
(* rpcd plugin, which serves one call at a time (fm350.uc), the RPC server *)
(* with its permits (rpc/mod.rs) and time budgets (api/budget.rs), the     *)
(* requests it dispatches, and the command line, which does the work       *)
(* itself if the daemon does not (cli.rs).                                 *)
(*                                                                         *)
(* Time is counted in ticks; what is due is done before time goes on.  A   *)
(* request is "status" (a read, its answers are kept in the plugin's       *)
(* cache), "set" or "dial" (writes, which empty the cache before the call  *)
(* or after it), "storage" (a write to the daemon, asked with the patience *)
(* of a read) or "cli" (a write of the command line).                      *)
(* The state of the modem is the number of writes it has carried out.      *)
(***************************************************************************)
EXTENDS Naturals, FiniteSets

CONSTANTS
  Calls,       \* the requests the pages make
  ReadBudget,  \* budget::READ
  WriteMin,    \* WRITE_MIN, and the CLI's own 60
  WriteMax,    \* WRITE_MAX, and CLI_WRITE_TIMEOUT_MAX
  TmoRead,     \* TMO_READ
  TmoWrite,    \* TMO_WRITE
  CacheTtl,    \* CACHE_TTL
  DownTtl,     \* BACKEND_DOWN_TTL
  MaxConns,    \* MAX_CONNS
  HasTimeout,  \* whether there is a timeout binary (fm350.uc:218)
  Timeouts,    \* what at_timeout may be
  MaxSlots,    \* bound: requests in the daemon
  MaxWrites,   \* bound: writes carried out
  MaxFaults    \* bound: times the daemon stops, hangs or gives up its port

\* The order of the timeouts is the one api/budget.rs:10-33 asks for.
ASSUME RequestAssumption ==
  /\ Calls \subseteq {"status", "set", "dial", "storage"}
  /\ {ReadBudget, WriteMin, WriteMax, TmoRead, TmoWrite, CacheTtl, DownTtl, MaxConns} \subseteq Nat
  /\ ReadBudget <= WriteMin /\ WriteMin <= WriteMax
  /\ ReadBudget < TmoRead /\ WriteMax < TmoWrite
  /\ Timeouts \subseteq Nat /\ HasTimeout \in BOOLEAN
  /\ MaxSlots \in Nat /\ MaxWrites \in Nat /\ MaxFaults \in Nat

VARIABLES
  atTimeout,
  call,      \* the call that rpcd serves; the others wait in its socket
  downLeft,  \* what is left of the time in which the back end counts as down
  cache,     \* the cached answer to "status"
  daemon,    \* "up", "hung" (it has the connections, and does nothing), "down"
  slots,     \* the requests in the daemon
  port,      \* who has the AT port
  cli,       \* the command line
  version,   \* how many writes the modem has carried out
  acked,     \* the latest of them that rpcd has answered as done, to "set" or "dial"
  faults

vars == <<atTimeout, call, downLeft, cache, daemon, slots, port, cli, version, acked,
          faults>>

Slots == 1..MaxSlots

-----------------------------------------------------------------------------
(* Budgets *)

Clamp(n, low, high) == IF n < low THEN low ELSE IF n > high THEN high ELSE n

\* is_write_path(): it decides how a request is dispatched and its budget.
WritePath(m) == m # "status"

\* for_request(); the command line waits as long (run_cli()).
FaultyBudget(m) == Clamp(atTimeout, WriteMin, WriteMax)  \* for reads, too

Budget(m) == IF WritePath(m) THEN Clamp(atTimeout, WriteMin, WriteMax) ELSE ReadBudget

\* The timeouts of fm350.uc, by its methods.
Tmo(m) == IF m \in {"status", "storage"} THEN TmoRead ELSE TmoWrite

\* "status" and the others need a daemon (gate); "set" does not.
Gated(m) == m # "set"

-----------------------------------------------------------------------------
(* State *)

\* An answer: whether it says ok, the writes it knows of, its age, and
\* whether the daemon gave it.
NoAnswer == [ok |-> FALSE, ver |-> 0, age |-> 0, from |-> "none"]
Refusal == [NoAnswer EXCEPT !.from = "plugin"]
Failure == [NoAnswer EXCEPT !.from = "daemon"]

NoCache == [kept |-> FALSE, age |-> 0, res |-> NoAnswer]
Idle == [pc |-> "free", m |-> "none", age |-> 0, healthy |-> FALSE, res |-> NoAnswer]

\* A request: who asked and still waits, the permit of its connection, how
\* long it has been served, and what it has read or written.
Free == [st |-> "free", m |-> "none", client |-> "gone", permit |-> FALSE, age |-> 0,
         worked |-> FALSE, ver |-> 0, since |-> 0]

Init ==
  /\ atTimeout \in Timeouts
  /\ call = Idle /\ downLeft = 0 /\ cache = NoCache
  /\ daemon = "up" /\ slots = [i \in Slots |-> Free] /\ port = "none"
  /\ cli = [pc |-> "idle", age |-> 0, effects |-> 0, kept |-> FALSE]
  /\ version = 0 /\ acked = 0 /\ faults = 0

-----------------------------------------------------------------------------
(* The plugin, in rpcd's only thread *)

Heard(res) == [call EXCEPT !.pc = "heard", !.res = res]

\* The cache as the call finds it: "set" empties it first.
FaultyFound(m) == cache
Found(m) == IF m = "set" THEN NoCache ELSE cache

\* cache_get(): an entry is good for CACHE_TTL seconds, after which Tick
\* removes it.
Hit(m) == m = "status" /\ Found(m).kept

\* A connection waits to be accepted.
Connects(client, m) ==
  \E i \in Slots :
    /\ slots[i] = Free /\ \A k \in Slots : k < i => slots[k] # Free
    /\ slots' = [slots EXCEPT ![i] = [Free EXCEPT !.st = "backlog", !.client = client, !.m = m]]

\* What is left of a request whose client has gone away.
Orphan(r) == [r EXCEPT !.client = "gone", !.ver = 0, !.since = 0]

\* rpc_cached() and rpcCall() up to the wait for the answer.
Serve(m) ==
  /\ call.pc = "free"
  /\ LET gone == daemon = "down"
         mine == [Idle EXCEPT !.m = m] IN
     /\ cache' = Found(m)
     /\ \/ /\ Gated(m) /\ gone
           /\ call' = [mine EXCEPT !.pc = "heard", !.res = Refusal]
           /\ UNCHANGED <<downLeft, slots>>
        \/ /\ ~(Gated(m) /\ gone) /\ Hit(m)
           /\ call' = [mine EXCEPT !.pc = "heard", !.res = [Found(m).res EXCEPT !.from = "cache"]]
           /\ UNCHANGED <<downLeft, slots>>
        \/ /\ ~(Gated(m) /\ gone) /\ ~Hit(m) /\ (downLeft > 0 \/ gone)
           /\ call' = [mine EXCEPT !.pc = "heard", !.res = Refusal]
           /\ downLeft' = IF downLeft = 0 THEN DownTtl ELSE downLeft
           /\ UNCHANGED slots
        \/ /\ ~gone /\ ~Hit(m) /\ downLeft = 0
           /\ call' = [mine EXCEPT !.pc = "wait", !.healthy = (daemon = "up")]
           /\ Connects("rpcd", m)
           /\ UNCHANGED downLeft
  /\ UNCHANGED <<atTimeout, daemon, port, cli, version, acked, faults>>

\* nc is killed by the timeout binary, if there is one, or its connection is
\* reset: no line, and the back end counts as down for a while.
Unheard == call' = Heard(Refusal) /\ downLeft' = DownTtl

FaultyGiveUp == FALSE  \* nc without a timeout

GiveUp ==
  /\ HasTimeout
  /\ call.pc = "wait" /\ call.age >= Tmo(call.m)
  /\ Unheard
  /\ slots' = [i \in Slots |-> IF slots[i].client = "rpcd" THEN Orphan(slots[i]) ELSE slots[i]]
  /\ UNCHANGED <<atTimeout, cache, daemon, port, cli, version, acked, faults>>

Larger(a, b) == IF a > b THEN a ELSE b

\* The call returns: what the daemon answered to "status" is cached, be it a
\* failure; after "dial" the cache is emptied.
FaultyReply ==  \* an answer out of the cache is cached again
  /\ call.pc = "heard"
  /\ cache' = IF call.m = "status" /\ call.res.from # "plugin"
              THEN [kept |-> TRUE, age |-> 0, res |-> call.res]
              ELSE IF call.m = "dial" THEN NoCache ELSE cache
  /\ acked' = IF call.res.ok THEN Larger(acked, call.res.ver) ELSE acked
  /\ call' = Idle
  /\ UNCHANGED <<atTimeout, downLeft, daemon, slots, port, cli, version, faults>>

Reply ==
  /\ call.pc = "heard"
  /\ cache' = IF call.m = "status" /\ call.res.from = "daemon"
              THEN [kept |-> TRUE, age |-> 0, res |-> call.res]
              ELSE IF call.m = "dial" THEN NoCache ELSE cache
  /\ acked' = IF call.m \in {"set", "dial"} /\ call.res.ok
              THEN Larger(acked, call.res.ver) ELSE acked
  /\ call' = Idle
  /\ UNCHANGED <<atTimeout, downLeft, daemon, slots, port, cli, version, faults>>

-----------------------------------------------------------------------------
(* The daemon *)

Permits == {i \in Slots : slots[i].permit}

\* The client of request i, if it still waits, gets its answer.
Tell(i, res) ==
  IF slots[i].client = "rpcd"
  THEN call' = Heard(res) /\ downLeft' = 0 /\ UNCHANGED cli
  ELSE /\ cli' = IF slots[i].client = "cli"
                 THEN [cli EXCEPT !.pc = IF res.ok THEN "done" ELSE "local", !.age = 0] ELSE cli
       /\ UNCHANGED <<call, downLeft>>

\* serve(): a connection over the limit gets BUSY and is closed.
Accept(i) ==
  /\ daemon = "up" /\ slots[i].st = "backlog"
  /\ \/ /\ Cardinality(Permits) < MaxConns
        /\ slots' = [slots EXCEPT ![i].st = "running", ![i].permit = TRUE]
        /\ UNCHANGED <<call, downLeft, cli>>
     \/ /\ Cardinality(Permits) >= MaxConns
        /\ slots' = [slots EXCEPT ![i] = Free]
        /\ Tell(i, Failure)
  /\ UNCHANGED <<atTimeout, cache, daemon, port, version, acked, faults>>

\* dispatch(): the request does its work on the AT port.
Work(i) ==
  /\ daemon = "up" /\ port = "daemon"
  /\ slots[i].st = "running" /\ ~slots[i].worked
  /\ IF WritePath(slots[i].m) THEN version < MaxWrites /\ version' = version + 1
                              ELSE UNCHANGED version
  /\ slots' = [slots EXCEPT ![i].worked = TRUE, 
                         ![i].ver = IF slots[i].client = "rpcd" THEN version' ELSE 0]
  /\ cli' = IF slots[i].m = "cli" THEN [cli EXCEPT !.effects = @ + 1] ELSE cli
  /\ UNCHANGED <<atTimeout, call, downLeft, cache, daemon, port, acked, faults>>

\* It ends, with its answer or with an error; handle_conn() sends it if the
\* budget lasted.
Finish(i) ==
  /\ daemon = "up" /\ slots[i].st = "running"
  /\ slots' = [slots EXCEPT ![i] = Free]
  /\ Tell(i, IF slots[i].worked
             THEN [ok |-> TRUE, ver |-> slots[i].ver, age |-> slots[i].since, from |-> "daemon"]
             ELSE Failure)
  /\ UNCHANGED <<atTimeout, cache, daemon, port, version, acked, faults>>

\* handle(): the budget is over.  DEADLINE is answered and the permit given
\* back; the work goes on.
Deadline(i) ==
  /\ daemon = "up" /\ slots[i].permit /\ slots[i].age >= Budget(slots[i].m)
  /\ slots' = [slots EXCEPT ![i] = [Orphan(@) EXCEPT !.permit = FALSE, !.age = 0]]
  /\ Tell(i, Failure)
  /\ UNCHANGED <<atTimeout, cache, daemon, port, version, acked, faults>>

AcquirePort ==
  /\ daemon = "up" /\ port = "none"
  /\ port' = "daemon"
  /\ UNCHANGED <<atTimeout, call, downLeft, cache, daemon, slots, cli, version, acked,
                 faults>>

Lapse == faults < MaxFaults /\ faults' = faults + 1

ReleasePort ==
  /\ Lapse
  /\ daemon = "up" /\ port = "daemon"
  /\ port' = "none"
  /\ cli' = [cli EXCEPT !.kept = FALSE]
  /\ UNCHANGED <<atTimeout, call, downLeft, cache, daemon, slots, version, acked>>

Sick == [call EXCEPT !.healthy = FALSE]

Hang ==
  /\ Lapse
  /\ daemon = "up" /\ daemon' = "hung"
  /\ call' = Sick
  /\ UNCHANGED <<atTimeout, downLeft, cache, slots, port, cli, version, acked>>

\* It dies, and its connections with it.
Stop ==
  /\ Lapse
  /\ daemon # "down" /\ daemon' = "down"
  /\ port' = IF port = "daemon" THEN "none" ELSE port
  /\ slots' = [i \in Slots |-> Free]
  /\ IF call.pc = "wait" THEN Unheard ELSE UNCHANGED <<call, downLeft>>
  /\ cli' = [cli EXCEPT !.pc = IF @ = "wait" THEN "local" ELSE @, !.age = 0, !.kept = FALSE]
  /\ UNCHANGED <<atTimeout, cache, version, acked>>

\* It goes on, or procd starts it again.
Recover ==
  /\ daemon # "up" /\ daemon' = "up"
  /\ UNCHANGED <<atTimeout, call, downLeft, cache, slots, port, cli, version, acked,
                 faults>>

-----------------------------------------------------------------------------
(* The command line *)

CliRuns ==
  /\ cli.pc = "idle"
  /\ \/ /\ daemon = "down"
        /\ cli' = [cli EXCEPT !.pc = "local"]
        /\ UNCHANGED slots
     \/ /\ daemon # "down"
        /\ cli' = [cli EXCEPT !.pc = "wait", !.kept = (port = "daemon")]
        /\ Connects("cli", "cli")
  /\ UNCHANGED <<atTimeout, call, downLeft, cache, daemon, port, version, acked, faults>>

CliGivesUp ==
  /\ cli.pc = "wait" /\ cli.age >= Budget("cli")
  /\ cli' = [cli EXCEPT !.pc = "local", !.age = 0]
  /\ slots' = [i \in Slots |-> IF slots[i].client = "cli" THEN Orphan(slots[i]) ELSE slots[i]]
  /\ UNCHANGED <<atTimeout, call, downLeft, cache, daemon, port, version, acked, faults>>

\* It opens the port itself; the lock on the port refuses it while another
\* has it (AtPort::open()).
FaultyMayOpen == TRUE
MayOpen == port = "none"

CliLocal ==
  /\ cli.pc = "local"
  /\ \/ /\ MayOpen /\ version < MaxWrites
        /\ version' = version + 1
        /\ cli' = [cli EXCEPT !.pc = "holds", !.effects = @ + 1]
        /\ port' = "cli"
     \/ /\ ~MayOpen
        /\ cli' = [cli EXCEPT !.pc = "done"]
        /\ UNCHANGED <<version, port>>
  /\ UNCHANGED <<atTimeout, call, downLeft, cache, daemon, slots, acked, faults>>

CliExits ==
  /\ cli.pc = "holds"
  /\ cli' = [cli EXCEPT !.pc = "done"]
  /\ port' = "none"
  /\ UNCHANGED <<atTimeout, call, downLeft, cache, daemon, slots, version, acked, faults>>

-----------------------------------------------------------------------------
(* Time *)

Due ==
  \/ call.pc = "heard"
  \/ HasTimeout /\ call.pc = "wait" /\ call.age >= Tmo(call.m)
  \/ cli.pc = "wait" /\ cli.age >= Budget("cli")
  \/ daemon = "up" /\ \E i \in Slots :
       \/ slots[i].st = "backlog"
       \/ slots[i].permit /\ slots[i].age >= Budget(slots[i].m)

Less(n) == IF n = 0 THEN 0 ELSE n - 1
Upto(n, top) == IF n < top THEN n + 1 ELSE top

\* Ages are counted as far as something depends on them.
OldAnswer == TmoRead + CacheTtl + 1
LongestWait == Larger(TmoWrite, OldAnswer)

Older(res) == [res EXCEPT !.age = IF res.ok THEN Upto(@, OldAnswer) ELSE @]

Tick ==
  /\ ~Due
  /\ call' = IF call.pc = "wait" THEN [call EXCEPT !.age = Upto(@, LongestWait)] ELSE call
  /\ cli' = IF cli.pc = "wait" THEN [cli EXCEPT !.age = @ + 1] ELSE cli
  /\ downLeft' = Less(downLeft)
  /\ cache' = IF cache.kept /\ cache.age < CacheTtl
              THEN [cache EXCEPT !.age = @ + 1, !.res = Older(@)] ELSE NoCache
  /\ slots' = [i \in Slots |->
       [slots[i] EXCEPT !.age = IF slots[i].permit THEN Upto(@, WriteMax) ELSE @,
                        !.since = IF slots[i].worked /\ slots[i].client = "rpcd"
                                  THEN Upto(@, OldAnswer) ELSE @]]
  /\ UNCHANGED <<atTimeout, daemon, port, version, acked, faults>>

Next ==
  \/ \E m \in Calls : Serve(m)
  \/ GiveUp \/ Reply
  \/ \E i \in Slots : Accept(i) \/ Work(i) \/ Finish(i) \/ Deadline(i)
  \/ AcquirePort \/ ReleasePort
  \/ Hang \/ Stop \/ Recover
  \/ CliRuns \/ CliGivesUp \/ CliLocal \/ CliExits
  \/ Tick

Spec == Init /\ [][Next]_vars

\* Time goes on and what is due is done: timers expire, the plugin returns,
\* a daemon that is up accepts connections.
Progress ==
  \/ Tick \/ GiveUp \/ Reply \/ CliGivesUp
  \/ \E i \in Slots : Accept(i) \/ Deadline(i)

Fairness == WF_vars(Progress)

FairSpec == Spec /\ Fairness

-----------------------------------------------------------------------------
(* Properties *)

Answers == [ok : BOOLEAN, ver : 0..MaxWrites, age : 0..OldAnswer,
            from : {"none", "plugin", "daemon", "cache"}]

CallStates ==
  [pc : {"free", "wait", "heard"}, m : Calls \cup {"none"}, age : 0..LongestWait,
   healthy : BOOLEAN, res : Answers]

CacheStates == [kept : BOOLEAN, age : 0..CacheTtl, res : Answers]

SlotStates ==
  [st : {"free", "backlog", "running"}, m : Calls \cup {"none", "cli"},
   client : {"rpcd", "cli", "gone"}, permit : BOOLEAN, age : 0..WriteMax,
   worked : BOOLEAN, ver : 0..MaxWrites, since : 0..OldAnswer]

CliStates ==
  [pc : {"idle", "wait", "local", "holds", "done"}, age : 0..WriteMax, effects : 0..2,
   kept : BOOLEAN]

\* Shape of the state.
TypeOK ==
  /\ atTimeout \in Timeouts
  /\ call \in CallStates /\ downLeft \in 0..DownTtl /\ cache \in CacheStates
  /\ daemon \in {"up", "hung", "down"} /\ slots \in [Slots -> SlotStates]
  /\ port \in {"none", "daemon", "cli"} /\ cli \in CliStates
  /\ version \in 0..MaxWrites /\ acked \in 0..version
  /\ faults \in 0..MaxFaults

\* The plugin never cuts off a daemon that has been up all along: however
\* long a request takes, the daemon's answer or its explicit error comes first
\* (api/budget.rs:10-18).  The methods that ask a write with the patience of
\* a read are the exception (fm350.uc:466, :475, :605-607, :639).
HealthyIsHeard ==
  (call.pc = "wait" /\ call.healthy /\ call.m # "storage") => call.age < Tmo(call.m)

\* What a page is told of the modem was true at most the life of a cached
\* answer and the patience of the plugin ago, however the answer came
\* (fm350.uc:290-332); without a timeout binary that has no end.
AnswerIsRecent ==
  (HasTimeout /\ call.pc = "heard" /\ call.m = "status" /\ call.res.ok)
    => call.res.age <= TmoRead + CacheTtl

\* A page that has been told that its change of the settings, or its dial,
\* was carried out does not then read an answer from before it
\* (fm350.uc:411-428 and :543-557: which cached answers are dropped, when).
ReadsOwnWrites ==
  (call.pc = "heard" /\ call.m = "status" /\ call.res.ok) => call.res.ver >= acked

\* A command that the command line gave to the daemon and then tried itself
\* is carried out at most once as long as the daemon has kept its port
\* (cli.rs:143-159, at/mod.rs:203-210).
CliActsOnce ==
  (cli.kept /\ cli.pc # "idle") => cli.effects <= 1

\* rpcd, which serves all of LuCI in one thread, gets free again whatever the
\* daemon does (fm350.uc:28-36, :213-221).  Not true without a timeout binary.
RpcdIsFreed == (call.pc # "free") ~> (call.pc = "free")
=============================================================================
