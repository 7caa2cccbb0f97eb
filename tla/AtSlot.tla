------------------------------- MODULE AtSlot -------------------------------
(***************************************************************************)
(* Which serial port the AT worker holds, and when it opens, drops and     *)
(* replaces it: Slot (at/worker.rs), AtPort (at/mod.rs), the resolution    *)
(* and probing of ports (at/port.rs), and PortWatch (daemon/port.rs).      *)
(* AtQueue.tla says which job runs next; here any waiting client may be    *)
(* next.  A client carries a copy of the configuration; the AT port in it  *)
(* is a device node ("/dev/ttyUSB3", used as it is), an interface (a       *)
(* "usb-..." identifier, resolved to the node it has now), or a link of    *)
(* udev ("/dev/serial/by-id/...", used as it is, and following its         *)
(* interface).  Instants with a deadline are kept as the ticks that are    *)
(* left of it.                                                             *)
(***************************************************************************)
EXTENDS Naturals, FiniteSets

CONSTANTS
  Nodes,         \* device nodes
  Ifaces,        \* the modem's USB interfaces
  Linked,        \* those udev makes a by-id link for: none without udev
  Located,       \* those whose place on the bus can be told from sysfs
  NoNode,        \* an interface that is not enumerated
  Clients,       \* callers of AtHandle::run
  Daemon,        \* the client that also runs PortWatch
  Threshold,     \* SILENT_RESELECT_THRESHOLD
  OpenRetry,     \* OPEN_RETRY_COOLDOWN, in ticks
  Cooldown,      \* RESELECT_COOLDOWN, in ticks
  Hold,          \* RESELECT_HOLD, in ticks
  DownRounds,    \* AT_RESELECT_DOWN_ROUNDS
  CounterMod,    \* 2^64: opens and releases are u64
  SessionErrs,   \* on which ports a job may fail: "talking", "mute"
  MaxMishaps     \* bound: re-enumerations, changes of what answers AT, changes
                 \* of at_port by the user, and failed `uci commit`s

ById(i) == <<"by-id", i>>
ByIds == {ById(i) : i \in Linked}

ASSUME SlotAssumption ==
  /\ Daemon \in Clients
  /\ Linked \subseteq Ifaces /\ Located \subseteq Ifaces
  /\ NoNode \notin Nodes \cup Ifaces \cup ByIds
  /\ Nodes \cap Ifaces = {}
  /\ Threshold \in Nat \ {0}
  /\ OpenRetry \in Nat /\ Cooldown \in Nat /\ Hold \in Nat
  /\ DownRounds \in Nat \ {0, 1}
  /\ CounterMod \in Nat \ {0}

VARIABLES
  uci,         \* the committed at_port
  nodeOf,      \* the node each interface has now
  talks,       \* the interfaces that answer AT now
  mishaps,
  port,        \* Slot.port
  opens, releases,
  openFailed,  \* what is left of the cooldown after open_failed_at
  cooldown,    \* what is left of the cooldown after reselect_failed_at
  hold,        \* last_reselect, and what is left of its window
  view,        \* SlotView
  worker,      \* the job the worker executes, how far it is and how it ended
  client,      \* what each client does and the configuration it carries
  closePending,\* a CloseJob is queued
  watch        \* PortWatch: where it is in its round, down_rounds

envVars == <<nodeOf, talks>>
saveVars == <<uci, mishaps>>
slotVars == <<port, opens, releases, openFailed, cooldown, hold>>
vars == <<envVars, saveVars, slotVars, view, worker, client, closePending, watch>>

-----------------------------------------------------------------------------
Settings == Nodes \cup Located \cup ByIds
Paths == Settings

NoPort == [path |-> NoNode, iface |-> NoNode, silent |-> 0, alive |-> FALSE]
Held == port # NoPort
NoHold == [to |-> NoNode, left |-> 0]
AtRest == [pc |-> "idle", who |-> NoNode, cfg |-> NoNode, want |-> NoNode,
           found |-> NoNode, end |-> "none"]

Enumerated == {i \in Ifaces : nodeOf[i] # NoNode}
Leads(p, i) == nodeOf[i] = p \/ (i \in Linked /\ p = ById(i))
Exists(p) == \E i \in Enumerated : Leads(p, i)
IfaceAt(p) == CHOOSE i \in Enumerated : Leads(p, i)

\* resolve_stable(): a path as it is, an identifier by its current node; one
\* that matches nothing comes back unchanged.
Resolve(s) == IF s \in Enumerated THEN nodeOf[s] ELSE s

\* stable_path(): the link to a node, or else the identifier of what is behind
\* it; the node itself if there is neither, or the node goes just then.
StablePaths(i) ==
  {nodeOf[i]} \cup IF i \in Linked THEN {ById(i)} ELSE IF i \in Located THEN {i} ELSE {}

\* identify_at_port(): the interfaces that answer on a node other than the
\* configured path (the first of them in the listing is taken).  A link is no
\* node: with a link configured, its own node is probed again.
Answering(s) == {i \in Enumerated \cap talks : nodeOf[i] # Resolve(s)}

Inc(n) == IF n + 1 = CounterMod THEN 0 ELSE n + 1

Snapshot == [current |-> port.path, opens |-> opens, releases |-> releases]

NodeMaps == {m \in [Ifaces -> Nodes \cup {NoNode}] :
               \A i, k \in Ifaces : m[i] = m[k] /\ m[i] # NoNode => i = k}

Init ==
  /\ nodeOf \in NodeMaps /\ \A i \in Ifaces : nodeOf[i] # NoNode
  /\ talks \in SUBSET Ifaces
  /\ uci \in Settings
  /\ mishaps = 0
  /\ port = NoPort /\ opens = 0 /\ releases = 0
  /\ openFailed = 0 /\ cooldown = 0 /\ hold = NoHold
  /\ view = Snapshot
  /\ worker = AtRest
  /\ client = [c \in Clients |-> [pc |-> "load", cfg |-> uci]]
  /\ closePending = FALSE
  /\ watch = [pc |-> "round", down |-> 0, found |-> NoNode]

-----------------------------------------------------------------------------
(* The surroundings: USB, the modem, the user, the clients, time *)

Mishap == mishaps < MaxMishaps /\ mishaps' = mishaps + 1

\* The modem's ports re-enumerate, all of them: open handles die, and their
\* streak is not looked at again.  Some may not come back.
Reenumerate ==
  /\ Mishap
  /\ nodeOf' \in NodeMaps
  /\ port' = IF Held THEN [port EXCEPT !.alive = FALSE, !.silent = 0] ELSE port
  /\ UNCHANGED <<talks, uci, opens, releases, openFailed, cooldown, hold, view, worker, client,
                 closePending, watch>>

\* The modem goes silent, or an interface starts to answer.
SetTalks ==
  /\ Mishap
  /\ talks' \in SUBSET Ifaces
  /\ UNCHANGED <<nodeOf, uci, slotVars, view, worker, client, closePending, watch>>

UserSaves(s) ==
  /\ Mishap
  /\ uci' = s
  /\ UNCHANGED <<envVars, slotVars, view, worker, client, closePending, watch>>

\* config::save({at_port: s}) by the daemon: a failure is only logged.
Save(s) ==
  \/ uci' = s /\ UNCHANGED mishaps
  \/ Mishap /\ UNCHANGED uci

\* A round of the daemon, or a request of the API, starts by reading the
\* configuration and then runs any number of jobs with that copy.
Load(c) ==
  /\ client[c].pc = "load" \/ (client[c].pc = "ready" /\ c # Daemon)
  /\ client' = [client EXCEPT ![c] = [pc |-> "ready", cfg |-> uci]]
  /\ UNCHANGED <<envVars, saveVars, slotVars, view, worker, closePending, watch>>

Less(n) == IF n = 0 THEN 0 ELSE n - 1

Tick ==
  /\ openFailed > 0 \/ cooldown > 0 \/ hold.left > 0
  /\ openFailed' = Less(openFailed)
  /\ cooldown' = Less(cooldown)
  /\ hold' = IF hold.left <= 1 THEN NoHold ELSE [hold EXCEPT !.left = @ - 1]
  /\ UNCHANGED <<envVars, saveVars, port, opens, releases, view, worker, client, closePending,
                 watch>>

-----------------------------------------------------------------------------
(* The worker: Slot::execute *)

Release ==
  /\ port' = NoPort
  /\ releases' = Inc(releases)

\* The job ends, in an error or not, and its caller gets the reply; the view is
\* not updated yet.
Done(end) ==
  /\ worker' = [AtRest EXCEPT !.pc = "done", !.end = end]
  /\ client' = [client EXCEPT ![worker.who].pc = "ready"]

Start(c, pc) ==
  /\ worker.pc = "idle"
  /\ client[c].pc = "ready"
  /\ worker' = [AtRest EXCEPT !.pc = pc, !.who = c, !.cfg = client[c].cfg,
                             !.want = Resolve(client[c].cfg)]
  /\ client' = [client EXCEPT ![c].pc = "waiting"]

\* The job of a client fails before it touches the port.
FailFast(c) ==
  /\ worker.pc = "idle"
  /\ client[c].pc = "ready"
  /\ worker' = [AtRest EXCEPT !.pc = "done", !.end = "failed"]
  /\ UNCHANGED client

HeldOff(c) == ~Held /\ hold.left > 0 /\ client[c].cfg # hold.to

\* Within the window after a reselection, a job with another port fails fast.
Refuse(c) ==
  /\ HeldOff(c)
  /\ FailFast(c)
  /\ UNCHANGED <<envVars, saveVars, slotVars, view, closePending, watch>>

FaultyReuse(c) ==               \* the resolved path is not compared
  /\ Held
  /\ Start(c, "session")
  /\ UNCHANGED <<envVars, saveVars, slotVars, view, closePending, watch>>

\* The held port is the configured one.
Reuse(c) ==
  /\ Held /\ port.path = Resolve(client[c].cfg)
  /\ Start(c, "session")
  /\ UNCHANGED <<envVars, saveVars, slotVars, view, closePending, watch>>

\* The configured port changed: the old handle goes, and so does the breaker.
Switch(c) ==
  /\ Held /\ port.path # Resolve(client[c].cfg)
  /\ Start(c, "open")
  /\ Release
  /\ openFailed' = 0
  /\ UNCHANGED <<envVars, saveVars, opens, cooldown, hold, view, closePending, watch>>

\* A port failed to open OPEN_RETRY_COOLDOWN ago or less: its error again.
Trip(c) ==
  /\ ~Held /\ ~HeldOff(c) /\ openFailed > 0
  /\ FailFast(c)
  /\ UNCHANGED <<envVars, saveVars, slotVars, view, closePending, watch>>

Reopen(c) ==
  /\ ~Held /\ ~HeldOff(c) /\ openFailed = 0
  /\ Start(c, "open")
  /\ UNCHANGED <<envVars, saveVars, slotVars, view, closePending, watch>>

JobStart(c) == Refuse(c) \/ Reuse(c) \/ Switch(c) \/ Trip(c) \/ Reopen(c)

\* AtPort::open: its handshake already sends one command that counts, unless
\* something is heard meanwhile.
Opened ==
  /\ worker.pc = "open"
  /\ Exists(worker.want)
  /\ LET i == IfaceAt(worker.want) IN
     \E n \in IF i \in talks THEN {0} ELSE {0, 1} :
       port' = [path |-> worker.want, iface |-> i, alive |-> TRUE, silent |-> n]
  /\ opens' = Inc(opens)
  /\ worker' = [worker EXCEPT !.pc = "session"]
  /\ openFailed' = 0
  /\ UNCHANGED <<envVars, saveVars, releases, cooldown, hold, view, client, closePending, watch>>

OpenFails ==
  /\ worker.pc = "open"
  /\ ~Exists(worker.want)
  /\ openFailed' = OpenRetry
  /\ Done("failed")
  /\ UNCHANGED <<envVars, saveVars, port, opens, releases, cooldown, hold, view, closePending,
                 watch>>

Talking == port.alive /\ port.iface \in talks
FaultyMute == port.alive        \* what was answered is counted as silence
Mute == port.alive /\ port.iface \notin talks

\* The commands of the job are answered: the streak is over, and so is the
\* window of the last reselection.
Answered ==
  /\ worker.pc = "session" /\ Talking
  /\ port' = [port EXCEPT !.silent = 0]
  /\ hold' = NoHold
  /\ Done("ok")
  /\ UNCHANGED <<envVars, saveVars, opens, releases, openFailed, cooldown, view, closePending,
                 watch>>

\* The job returns an error (writing to a dead handle always does): the
\* handle goes, with the streak it had.
Failed ==
  /\ worker.pc = "session"
  /\ \/ ~port.alive
     \/ Talking /\ "talking" \in SessionErrs
     \/ Mute /\ "mute" \in SessionErrs
  /\ Release
  /\ Done("failed")
  /\ UNCHANGED <<envVars, saveVars, opens, openFailed, cooldown, hold, view, closePending, watch>>

\* n more commands without a byte in return.
Streak(n) == IF port.silent + n > Threshold THEN Threshold ELSE port.silent + n

Unanswered(n) ==
  /\ worker.pc = "session" /\ Mute
  /\ Streak(n) < Threshold
  /\ port' = [port EXCEPT !.silent = Streak(n)]
  /\ Done("ok")
  /\ UNCHANGED <<envVars, saveVars, opens, releases, openFailed, cooldown, hold, view,
                 closePending, watch>>

\* Something is received, a +GT line say, although no command is answered:
\* that is a sign of life, and only the n commands after it count.
Chatter(n) ==
  /\ worker.pc = "session" /\ Mute
  /\ n < Threshold
  /\ port' = [port EXCEPT !.silent = n]
  /\ hold' = IF n = 0 THEN NoHold ELSE hold
  /\ Done("ok")
  /\ UNCHANGED <<envVars, saveVars, opens, releases, openFailed, cooldown, view, closePending,
                 watch>>

\* reselect_on_silent() within its cooldown: the job fails, the port stays.
TooSilent(n) ==
  /\ worker.pc = "session" /\ Mute
  /\ Streak(n) = Threshold
  /\ cooldown > 0
  /\ port' = [port EXCEPT !.silent = Threshold]
  /\ Done("failed")
  /\ UNCHANGED <<envVars, saveVars, opens, releases, openFailed, cooldown, hold, view,
                 closePending, watch>>

Reselect(n) ==
  /\ worker.pc = "session" /\ Mute
  /\ Streak(n) = Threshold
  /\ cooldown = 0
  /\ Release
  /\ worker' = [worker EXCEPT !.pc = "probe"]
  /\ UNCHANGED <<envVars, saveVars, opens, openFailed, cooldown, hold, view, client,
                 closePending, watch>>

NothingAnswers ==
  /\ worker.pc = "probe"
  /\ Answering(worker.cfg) = {}
  /\ cooldown' = Cooldown
  /\ Done("failed")
  /\ UNCHANGED <<envVars, saveVars, port, opens, releases, openFailed, hold, view, closePending,
                 watch>>

Found(i) ==
  /\ worker.pc = "probe"
  /\ i \in Answering(worker.cfg)
  /\ \E s \in StablePaths(i) : worker' = [worker EXCEPT !.pc = "save", !.found = s]
  /\ UNCHANGED <<envVars, saveVars, slotVars, view, client, closePending, watch>>

Reselected ==
  /\ worker.pc = "save"
  /\ Save(worker.found)
  /\ cooldown' = 0
  /\ hold' = [to |-> worker.found, left |-> Hold]
  /\ Done("failed")
  /\ UNCHANGED <<envVars, port, opens, releases, openFailed, view, closePending, watch>>

\* CloseJob.
CloseJob ==
  /\ worker.pc = "idle"
  /\ closePending
  /\ closePending' = FALSE
  /\ IF Held THEN Release ELSE UNCHANGED <<port, releases>>
  /\ worker' = [AtRest EXCEPT !.pc = "done", !.end = "closed"]
  /\ UNCHANGED <<envVars, saveVars, opens, openFailed, cooldown, hold, view, client, watch>>

\* Only now is the state of the slot published.
Publish ==
  /\ worker.pc = "done"
  /\ view' = Snapshot
  /\ worker' = AtRest
  /\ UNCHANGED <<envVars, saveVars, slotVars, client, closePending, watch>>

-----------------------------------------------------------------------------
(* PortWatch, at the end of each round of the daemon, with the round's
   configuration.  close() waits for its CloseJob at most 10 s: the job may
   run before the next step of the watch or after it. *)

Watched == client[Daemon].cfg

EndRound == client' = [client EXCEPT ![Daemon].pc = "load"]

\* release_on_change(): by the published view.
ReleaseOnChange ==
  /\ client[Daemon].pc = "ready" /\ watch.pc = "round"
  /\ closePending' = (closePending \/ view.current \notin {NoNode, Resolve(Watched)})
  /\ watch' = [watch EXCEPT !.pc = "check"]
  /\ client' = [client EXCEPT ![Daemon].pc = "watching"]
  /\ UNCHANGED <<envVars, saveVars, slotVars, view, worker>>

\* reselect_if_down(): the configured path is there ...
Present ==
  /\ watch.pc = "check"
  /\ Exists(Resolve(Watched))
  /\ watch' = [watch EXCEPT !.pc = "round", !.down = 0]
  /\ EndRound
  /\ UNCHANGED <<envVars, saveVars, slotVars, view, worker, closePending>>

\* ... or is not, for too few rounds yet ...
Missing ==
  /\ watch.pc = "check"
  /\ ~Exists(Resolve(Watched))
  /\ watch.down + 1 < DownRounds
  /\ watch' = [watch EXCEPT !.pc = "round", !.down = @ + 1]
  /\ EndRound
  /\ UNCHANGED <<envVars, saveVars, slotVars, view, worker, closePending>>

\* ... or for DownRounds rounds: close, then probe the others.
GiveUpOnPort ==
  /\ watch.pc = "check"
  /\ ~Exists(Resolve(Watched))
  /\ watch.down + 1 >= DownRounds
  /\ watch' = [watch EXCEPT !.pc = "probe", !.down = 0]
  /\ closePending' = TRUE
  /\ UNCHANGED <<envVars, saveVars, slotVars, view, worker, client>>

WatchProbe ==
  /\ watch.pc = "probe"
  /\ \/ /\ Answering(Watched) = {}
        /\ watch' = [watch EXCEPT !.pc = "round"]
        /\ EndRound
     \/ \E i \in Answering(Watched) : \E s \in StablePaths(i) :
          /\ watch' = [watch EXCEPT !.pc = "save", !.found = s]
          /\ UNCHANGED client
  /\ UNCHANGED <<envVars, saveVars, slotVars, view, worker, closePending>>

WatchSave ==
  /\ watch.pc = "save"
  /\ Save(watch.found)
  /\ watch' = [watch EXCEPT !.pc = "round", !.found = NoNode]
  /\ EndRound
  /\ UNCHANGED <<envVars, slotVars, view, worker, closePending>>

-----------------------------------------------------------------------------
Execute ==
  \/ Opened \/ OpenFails
  \/ Answered \/ Failed
  \/ \E n \in 1..Threshold : Unanswered(n) \/ TooSilent(n) \/ Reselect(n)
  \/ \E n \in 0..Threshold : Chatter(n)
  \/ NothingAnswers \/ (\E i \in Ifaces : Found(i)) \/ Reselected
  \/ Publish

PortWatch ==
  Present \/ Missing \/ GiveUpOnPort \/ WatchProbe \/ WatchSave

Next ==
  \/ Reenumerate \/ SetTalks \/ Tick
  \/ \E s \in Settings : UserSaves(s)
  \/ \E c \in Clients : Load(c) \/ JobStart(c)
  \/ Execute \/ CloseJob
  \/ ReleaseOnChange \/ PortWatch

Spec == Init /\ [][Next]_vars

\* Threads run; the queue serves every request in the end (it ages them); a
\* client begins new rounds and a round of the daemon reaches the watch.
Fairness ==
  /\ WF_vars(Execute) /\ WF_vars(PortWatch) /\ WF_vars(Tick)
  /\ SF_vars(CloseJob) /\ SF_vars(ReleaseOnChange)
  /\ \A c \in Clients : SF_vars(Load(c)) /\ SF_vars(JobStart(c))

FairSpec == Spec /\ Fairness

-----------------------------------------------------------------------------
(* Properties *)

WorldTypeOK ==
  /\ uci \in Settings
  /\ nodeOf \in NodeMaps /\ talks \subseteq Ifaces
  /\ mishaps \in Nat

Counters == 0..(CounterMod - 1)
Handles == [path : Paths, iface : Ifaces, silent : 0..Threshold, alive : BOOLEAN]

SlotTypeOK ==
  /\ port \in Handles \cup {NoPort}
  /\ opens \in Counters /\ releases \in Counters
  /\ openFailed \in 0..OpenRetry
  /\ cooldown \in 0..Cooldown
  /\ hold \in [to : Settings \cup {NoNode}, left : 0..Hold]
  /\ view \in [current : Paths \cup {NoNode}, opens : Counters, releases : Counters]

Ends == {"none", "ok", "failed", "closed"}
Jobs == [pc : {"idle", "open", "session", "probe", "save", "done"},
         who : Clients \cup {NoNode}, cfg : Settings \cup {NoNode},
         want : Paths \cup {NoNode}, found : Settings \cup {NoNode}, end : Ends]
ClientStates == [pc : {"load", "ready", "waiting", "watching"}, cfg : Settings]
WatchStates == [pc : {"round", "check", "probe", "save"}, down : 0..(DownRounds - 1),
                found : Settings \cup {NoNode}]

ThreadTypeOK ==
  /\ worker \in Jobs
  /\ client \in [Clients -> ClientStates]
  /\ closePending \in BOOLEAN
  /\ watch \in WatchStates

\* The state keeps its shape: whichever of the three forms is saved, the
\* configuration, the clients' copies and what the worker wants, holds and has
\* found are paths of one of them, and the streak stays within the threshold.
TypeOK == WorldTypeOK /\ SlotTypeOK /\ ThreadTypeOK

\* opens and releases account for the handle: every port that was opened has
\* been released, but the one that is held (AtStats, worker.rs:60-61).
HandlesBalance == opens = IF Held THEN Inc(releases) ELSE releases

\* A job only ever talks to the port its own configuration names, whatever
\* the jobs before it left open (worker.rs:119-121, "hot switch").
TalksToConfigured == worker.pc = "session" => Held /\ port.path = worker.want

\* The breaker is only set while no port is held, so a job that finds a port
\* open is never refused by it (worker.rs:131-147).
BreakerOnlyWhileClosed == Held => openFailed = 0

\* Between two jobs the view is the state of the slot (worker.rs:23-24).
ViewIsCurrent == worker.pc = "idle" => view = Snapshot

\* Once USB and the modem settle down with an interface that answers, jobs
\* are answered again, whatever is configured (worker.rs:80-81, port.rs:66-72):
\* unless a port that answers no command is heard again and again, for then
\* it is never given up (at/mod.rs:302-308).
Recovers ==
  (/\ <>[](\E i \in Enumerated : i \in talks)
   /\ <>[][\A n \in 0..Threshold : ~Chatter(n)]_vars)
    => []<>(worker.pc = "done" /\ worker.end = "ok" /\ Talking)
=============================================================================
