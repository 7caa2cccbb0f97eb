# fm350d: a TLA+ model of the FM350 modem daemon

`fm350d` (Rust, `rust/src`) keeps a Fibocom FM350 5G module on line on an
OpenWrt router: it owns the module's AT port, dials, watches addresses and
connectivity, repairs them, and serves the LuCI pages over a local RPC.  This
directory models the parts of it in which order, time and failure decide whether
it is right, checks them with TLC on small instances, and proves with TLAPS the
safety properties that matter most for every value of the constants.

Paths below are relative to the repository; Rust files to `rust/src`.

Contents: [the system](#the-system), [the modules](#the-modules),
[the runs](#the-runs), [the proofs](#the-proofs),
[what the code does otherwise than it says](#what-the-code-does-otherwise-than-it-says),
[what is not modelled](#what-is-not-modelled), [the plan](#the-plan),
[running it](#running-it).

## The system

### How the parts work together

```
 LuCI page -> rpcd, fm350.uc -> rpc/mod.rs -> api/route.rs -> modem/, sms/, net/, config.rs
                  cli.rs -----/                  |                    |
                                       async_runtime.rs (dial)   AtHandle::run
 daemon/mod.rs: DialWatch, V6Watch, DataGuard, NetGuard, PortWatch ---'
                                                                      v
                                    PriQueue -> worker thread -> Slot -> AT port
                                                 watchdog thread -> reset, exit -> procd
```

One process, and in it: a single-threaded event loop (tokio, `rt/mod.rs`) that
accepts RPC connections and drives the futures of tasks; a pool of blocking
threads in which every request, every task body and every part of the daemon's
round runs; the AT worker thread, the only one that touches the serial port; and
its watchdog.  The command line is a second process that asks the daemon and,
without an answer, does the work itself.  The shared state is the AT queue, the
table of tasks, the cache of the configuration, the staged changes of `uci`
(shared with every process of the router), the two network interfaces, and the
modem itself.

### Inventory

| Component | State it keeps | Operations | What is hard | What makes it right |
|---|---|---|---|---|
| AT scheduler: `at/queue.rs`, `at/handle.rs`, `at/worker.rs` (threads) | queued jobs by class, cancel tickets, counters, the job that runs and since when | `run`, `close`, `push`, `pop`, finish, the watchdog's poll | callers time out while the worker picks; jobs may never return; two clocks | caps, no unfair overtaking, at most one job at a time and each at most once, the watchdog bites only what is wedged or what a step of the clock makes look so, the port is freed |
| AT port session: `Slot` in `at/worker.rs`, `at/mod.rs`, `at/port.rs`, `daemon/port.rs` | the open port, the silence counter, breaker, cooldown and hold window, the published view | execute, hot switch, reselect on silence, close, release on change, reselect when down | device nodes move, jobs carry different configurations, saves fail, replies overtake the view | a job talks to the port its configuration names; handles are accounted for; a port that answers is found again |
| AT text: `at/cmd.rs`, `at/parse.rs` | none | build, split | - | pure functions |
| The line: `at/mod.rs`, `at/urc.rs`, `daemon/gt.rs` | what of a line has been read, the event queue (bounded) and its counters, acceleration flag | command, prompt, text, drain, capture, take | reads end inside lines, answers come late, events come inside answers, a send turns the modem into a receiver of text | an answer belongs to its command, no half-open input, what is called sent or rejected is that, every event counted once |
| IMEI guard: `imei.rs` | backup file | read, back up, write, confirm | the file or the answer may be missing, other requests come in between | nothing is replaced that is not backed up |
| Task manager: `async_runtime.rs` | the table of tasks | spawn, cancel, time out, settle, evict | the table's lock is taken several times per operation; results after the timeout | final states are final and true; an open task is listed; a slot comes back |
| Configuration: `config.rs`, `/etc/config/fm350` | file, staged delta, cache | load, load_cached, save, invalidate | a save is many processes; savers share one delta; the cache is filled outside its lock | a save that says Ok is on disk; staleness is bounded; nothing refused is ever stored |
| API: `api/route.rs`, `api/budget.rs`, `api/http.rs` | 10 s window against double SMS | dispatch | budgets are one link of a chain of timeouts | budgets shorter than the caller's patience |
| RPC server and command line: `rpc/mod.rs`, `cli.rs`, `main.rs` | permits | accept, answer, abandon, fall back | a timeout abandons the answer, not the work | admission bound; one user of the port |
| rpcd plugin: `root/usr/share/rpcd/ucode/fm350.uc` | read cache (6 s), down flag (15 s) | call | one thread for all pages; caches and flags outlive what they describe | rpcd gets free again; a page reads what it has written, and nothing old |
| Dial watch and context: `daemon/dial.rs`, `modem/pdp.rs` | rounds without address, failed dials, two backoffs, the last v6 applied | tick, dial, hangup, redial | the modem is read in two steps and acted on later; it reports past sessions as present | a working session is left alone; a dead one's addresses go; the link comes back |
| Guards: `daemon/guard.rs` | baseline, stall rounds, ladder, cooldown; per stack rounds, ladder, redial failures, cooldown | tick, escalate, purify | two ladders repair what the dial watch repairs | no redial on a redial; the reboot is last |
| IPv6: `daemon/v6.rs`, `net/v6.rs` | poll, schedule, the modem's last address | sync, maintain, refresh | leases come and go by themselves | a lease that is right is left alone |
| Interfaces: `net/iface.rs`, `net/gateway.rs`, `net/dns.rs`, `net/heal.rs`, `net/probe.rs`, `net/shell.rs`, `daemon/sig.rs` | uci network with its staged delta, netifd, kernel, the signature of what was applied | ensure, clear, finalize, fall back, enforce DNS, reapply, guard the route, bounce, reset, probe | one delta for all writers, partly done sequences, a gateway written back to the settings it is chosen by | what is applied can carry packets; it comes to rest; settings take effect |
| Modem queries: `modem/info.rs`, `signal.rs`, `temp.rs`, `band.rs`, `bind.rs`, `mod.rs` | none | ask, parse | - | pure |
| Locks: `modem/lock.rs` | none | CFUN=0, write, CFUN=1; set_cfun; reboot | three commands with others in between; a failure in the middle leaves the modem off | the modem comes back on the air; an outage is worth it |
| SMS: `sms/` | archive files, mailbox of the module | send, archive, read, delete | a file without a lock, rewritten in place; a send whose end is not known | what was archived stays (what is called rejected was not sent: the line) |
| SSH forward: `daemon/sshfwd.rs` | pid file of socat | ensure, stop | a recycled pid | - |
| Instance lock, main loop: `daemon/singleton.rs`, `mod.rs`, `rt/mod.rs` | the watches between rounds | round, sleep, shutdown | a restart forgets the watches but not the link | - |
| Addresses, logging: `addr.rs`, `log.rs` | none | - | - | pure |
| AT proxy in the module: `f22-atproxy/` | one client | pump, put its own lines among the modem's | two descriptors; it ends its lines but starts none | its lines are told from answers |
| LuCI frontend, init script, packaging | - | - | - | respawn restarts the daemon |

`PROJECT.json` lists the same components with their modules, and under `hazards`
each thing that is hard to test, at its line, with the properties that would
catch it going wrong.

## The modules

A definition named `Faulty...` stands before the one it distorts: a plausible
mistake in that code (a dropped guard, a missing reset, a swapped order), used
only to see that the property aimed at it notices.

| Module | Models | Uses |
|---|---|---|
| `AtSerial` | what the scheduler promises | - |
| `AtQueue` | the scheduler | implements `AtSerial` |
| `AtSlot` | the worker's port and `PortWatch` | - |
| `TaskManager` | the background tasks | - |
| `ConfigStore` | the configuration | - |
| `Link` | modem context, interfaces, what surrounds them | - |
| `DialWatch` | `DialWatch`, `V6Watch` | `Link` |
| `Guards` | `DataGuard`, `NetGuard` | `DialWatch` |
| `LinkRound` | the daemon's round over the three | `Guards` |
| `AtDialogue` | what is said on the serial line | - |
| `RequestPath` | from a page or the command line to the daemon and back | - |
| `ModemOps` | locks, modes, IMEI and dials as sequences of commands | - |
| `SmsArchive` | the window against submitting twice, the archive | - |
| `NetConfig` | gateway, DNS servers, signature, route guard over uci and netifd | - |
| `MC...` | the instances for TLC | |
| `...Proofs` | theorems and their proofs | the module before |

### AtQueue, AtSerial

The callers of `AtHandle::run` and `close` (`Run`, `Close`), the queue under its
lock (`Push`, `Refuse`), the worker's `pop` in its two halves (`Purge` sweeps
out cancelled jobs, `Take` picks one: between them a caller may cancel), the
job's reply and the bookkeeping after it (`Reply`, `Finish`: apart, because the
caller is answered before `JOB_START_MS` is cleared), a caller that gets its
answer or gives up (`Receive`, `GiveUp`), the watchdog's decision and the death
of the process (`Bite`, `Restart`: apart, because seconds lie between), and two
clocks (`Tick`, `SetClock`: ageing is by the monotonic one, the watchdog by the wall
clock).  Time is in ticks of 5 s, the unit of ageing.
`AtSerial` leaves out everything but the promise: accepted requests are numbered,
served one at a time, each at most once and to its end, or dropped before they
start; `ServesSerially` says that `AtQueue` implements it (`last <- seq`,
`waiting <-` the numbers queued, `serving <-` the job that runs).

### AtSlot

Which port the worker holds.  A port is configured as a device node, as an
interface (`usb-...`), or as one of udev's by-id links: the forms `stable_path()` can
give (`StablePaths`).  USB may hand out the nodes anew (`Reenumerate`) and what
answers AT may change (`SetTalks`).  `Slot::execute` is split where something else may
happen in between: the start of a job (`Refuse` in the hold window, `Reuse`,
`Switch`, `Trip` of the breaker, `Reopen`), the opening (`Opened`,
`OpenFails`), the conversation (`Answered`, `Failed`, `Unanswered`,
`Chatter`, `TooSilent`, `Reselect`), the search for another port (`NothingAnswers`,
`Found`) and the saving of its identifier (`Reselected`, which may fail), and
the publication of the view after the reply (`Publish`).  `PortWatch` runs in
the daemon's client: `ReleaseOnChange`, `Present`, `Missing`, `GiveUpOnPort`,
`WatchProbe`, `WatchSave`, with the configuration its round started with.
`Chatter` is a port that answers no command but on which something is received, a
`+GT` line say: that resets the count of silence like an answer.  Here any waiting
client may be served next: `AtQueue` says which one.

### TaskManager

`spawn` takes the lock three times: `Insert`, `Evict`, `Launch`.  Called by a thread
outside the runtime (not `InRuntime`) it has nothing to launch and leaves its task
pending (`Orphans`).  The future is
driven on the event loop (`Begin`, `Settle`, `Timeout`, `SettleLate`), the body
in the blocking pool (`Return`, never or with either result), and any thread may
`Cancel` in between.  `finished_at` is the rank of the event: eviction compares
nothing else.

### ConfigStore

Every `uci` command is a process, so every command is a step: `load()` reads
option by option (`RequestMiss`, `Read`, `Loaded`), `save()` validates
(`Call`), sets option by option (`Stage`, `StageFails`), commits (`Commit`,
`CommitFails`) and drops the cache (`Drop`, only in the daemon's own process).
The staged delta is shared by all savers and survives a `Crash`, not a `Reboot`.

### Link, DialWatch, Guards, LinkRound

`Link` describes the modem's data context, what `uci` holds, what is up and what
the kernel has as one record, and every function of `modem/pdp.rs`,
`net/iface.rs`, `net/v6.rs`, `net/heal.rs` and `net/probe.rs` that changes or
reads it as an operator: `Dial`, `Redial`, `EnsureIface`, `ApplyAfterDial`,
`ClearSessionAddresses`, `ApplyIpv6`, the bounces, the USB reset, `Reboot`,
`Reachable4`.  It keeps three places for one address apart (modem, `uci`,
kernel), because most repairs exist for their disagreement.  The surroundings
end sessions, give other ones (an IMS bearer, one without IPv4, no service),
activate by themselves, grant and expire DHCPv6 leases, and bring ailments: no
way through for one family, addresses not reported, slow application, a modem
that refuses to deactivate, flight mode, CFUN=0, a halted USB endpoint, an
unbound RNDIS side.

`DialWatch` gives each handler of `drive()` as an operator from the link and the
watch's counters to both after it: `OnImsBearer`, `OnInactive`, `OnActiveV4`,
`OnActiveWithoutV4`, `DialFailed`, `Cleared`, and `SyncModem` and `Maintain` of
`V6Watch`.  `Guards` does the same for `DataGuard` (`Observed`, `Repairs`,
`DataTick`) and `NetGuard` (`TickV4`, `TickV6`, `Redialled`, `NetTick`).
`LinkRound` runs them in the daemon's order: `Read` (the first half of `pdp()`,
so that the second half and all decisions see a modem that has moved on),
`DialStep`, `DataStep`, `NetStep`, `Sleep`, with `Around` and `Restart` at any
point.  An AT conversation of one handler is one step, but for that one split.

### AtDialogue

The lines in both directions as sequences of records.  A job is a query or the
send of a message: `Open` and `Hello` (the handshake), `Begin` (which drains what
is left from before), `Read` (any part of what has arrived, possibly ending
inside a line: `Feed` is the line gate, `Capture` the bounded event queue,
`Consider` what the reading loops make of the result), `Timeout`, `Resync`,
`DropHandle` after a job that failed, `TakeEvents`.  `ModemReads` obeys, answers or
takes text, `ModemIgnores` is a busy modem, and `Cut` loses the port.  `SendUrc` and
`SendNote` are the proxy in the module (`atproxy.c`), which puts a `+GT` line, of the
five kinds that are captured or `+GTEMBIND`, anywhere between two others or behind a
prompt.  It ends its lines with a break and starts them with none, so behind a prompt
that nobody has taken its line is `> +GT...`, which is not captured: `urcs.glued`
counts those.  `AtQueue` and `AtSlot` see all of this as one step of a job.  Of what a
wait has collected (`raw`) the model keeps the set of lines and the last one, which
is all that `finished()`, the search for the prompt and `wait_result()` look at;
its specification carries the prefix `Dialogue` (`DialogueNext`, `DialogueSpec`), so that
one module can prove about it and about `AtSlot`.

### RequestPath

The plugin's one call at a time (`Serve` with the down flag and the cache,
`GiveUp`, if there is a `timeout` binary, `Reply`), the daemon's permits and
deadlines (`Accept`, `Work`, `Finish`, `Deadline`: apart, because the work goes on
after the deadline's answer), the port, which the command line may only open when the daemon has let
go of it (`AcquirePort`, `ReleasePort`), and the command line (`CliRuns`,
`CliGivesUp`, `CliLocal`, `CliExits`).  The daemon may hang, stop and come back.
The modem is the number of writes it has carried out; an answer carries that
number and its age, which is how stale answers are told from fresh ones.

### ModemOps

Each request is the sequence of commands the code sends, one step per command,
because each is a job of its own in the AT queue: `LockOff`, `LockWrite`,
`LockOn`; `CfunSet`; `Restart`; `ImeiRead`, `ImeiBackup`, `ImeiWrite`; and the
watch's dial as `DialBegin`, `DialCheck`, `DialRecover`, `DialGate`.  Every
command may fail, a repeated CFUN=0 may be refused (`CfunCommand`, `lock.rs:7`), and
the daemon may end between any two (`DaemonEnds`).  `validate_gtact()` is `Accepted`,
with the ten pairs of rat 20 in `Combinations`; what the modem itself takes, by the
manual, is `Workable`.

### SmsArchive

`Submit` checks the window of a key, which is number and text or what the page has
chosen, and enters it, whatever becomes of the send (`Answer`; how a send goes, and
what is told of it, is `AtDialogue`).  `RecordSent` is the four steps of an append
(`Open`, `Check`, `WriteLine`, `WriteEnd`), `DropAll`, `DropOne`, `Cut` and `Rewrite`
are the deletion: read, truncate, write back.  Nothing locks the file, and every
write to it may fail or write a part without anybody hearing of it (`Spoiled`,
`Botched`).  The file is the set of its lines and a last one that has no end yet
(`tail`): a record appended behind such a line spoils both, and a line that ends
inside a character (`Torn`) ends all reading, so what stands behind it is `hidden`.
`Overwritten` is a rewrite over what was appended since the file was cut.  The names
of its specification (`ArchiveInit`, `ArchiveNext`, ...) say whose they are, because
`StoreProofs` speaks of two components.

### NetConfig

`app[a]` is an application under way, of the daemon's round or of a dial a page
asked for: `Delete`, `StageSets`, `CommitSets`, `Probe`, `FallBack`, `Verify` are
`ensure_iface()` and `apply_after_dial()` cut where another writer of
`/etc/config/network` can come in between; `Plan`, `EffectiveDns`, `Deletions` and
`Sets` are the decisions.  The round is `Round` (it reads the settings),
`DialTick`, `EnsureAutostart`, `EnforceForcedDns` and `DnsCommit`,
`ReapplyOnChange`, `RouteGuard`.  `net`, `staged` and `kernel` keep apart what is
committed, what is only set, and what netifd and the kernel have; `sig` is the
signature file, which outlives the daemon.  Users change the settings, a script
edits the interface, gateways stop and start answering ARP, the session changes,
a route is lost, and the daemon may die between any two commands.  The
session has an IPv4 address throughout: how it gets there is `Link`.  Each of these
steps is one batch of `uci` commands; the fallback to an onlink route is two, what it
stages (`Probe`) and its commit (`FallBack`).

## The runs

Every cfg names its constants; the bounds are in the constants' names
(`Max...`) and in the comments of the modules.

| Run | States | What it shows |
|---|---|---|
| `at_queue` | 428 k | two callers, Low and High calls and `close()`, a wall clock that is set once: statistics (`Accounted`), ageing (`NoOvertake`), the watchdog bites only a job over its cap or one a step of the clock makes look so (`WatchdogBitesOnlyWedged`), refinement (`ServesSerially`), a job that never returns does not hold the port for ever (`PortFreed`), a `close()` that was given up still happens (`CloseHappens`) |
| `at_slot` | 479 k | two nodes, two interfaces of which one has a by-id link and the other an identifier, the daemon's jobs and `PortWatch`, any two mishaps: `TalksToConfigured`; with the real threshold of three unanswered commands, `Recovers`: once something answers for good, jobs are answered again, whatever was configured, unless a port that answers nothing is heard for ever |
| `tasks` | 66 k | three submitters, one of them outside the runtime: `OpenIsListed`, `HistoryBounded`, `FinalIsFinal`, and `SlotFreed` under fairness, for all but the orphans |
| `tasks_cancelled` | violated | `CancelledNeverRuns` |
| `config` | 1.5 M | a dial and a command line saving the same options, both kinds of failure, a crash or a reboot: `SavedIsCommitted`, `StaleIsBounded` |
| `link` | 411 k | any two mishaps of all nine ailments, lost or changed sessions and restarts: `WorkingV4IsSpared`, `RebootIsLastResort`, `NoRedialOnRedial`, `DeadSessionLeavesNoAddress`, `Reconnects` |
| `dialogue` | 1.7 M | two jobs on one line: a send that is over leaves no half-open input (`InputIsClosed`), an answer is that of its command (`AnswerIsOwn`), what is called sent was taken (`SentIsTrue`) and what is called rejected was not and will not be (`RejectedIsNotSent`), every `+GT` line is counted once and none gets into an answer (`UrcsAccounted`) |
| `request` | 1.5 M | a daemon that has been up all along is never cut off by the plugin (`HealthyIsHeard`), no page is told anything older than the cache's life and one timeout (`AnswerIsRecent`), a page that was told its write is done does not read from before it (`ReadsOwnWrites`), the command line acts once (`CliActsOnce`), rpcd gets free again (`RpcdIsFreed`) |
| `ops` | 865 k | two users' locks, modes, IMEI writes and restarts against the watch's dials, a command that fails or a daemon that ends: `PutBackOnAir`, `OutageIsJustified`, `ReplacedIsBackedUp`, `FlightModeEnds` |
| `ops_offair` | violated | `OffAirEnds` |
| `sms` | 1.1 M | two requests at a time, writes that fail, a daemon that ends: `ArchiveKeeps` |
| `net` | 453 k | the round against a page's dial: what an undisturbed application leaves can carry packets (`AppliedIsWhole`), the interface is not brought down and up for ever (`Settles`), changed settings reach it (`SettingsTakeEffect`), forced DNS servers come back (`ForcedDnsReturns`) |

The type invariants are proved (below) and none is spent a run on.  Some are more
than shapes: in `AtQueue` no age or wait becomes negative; in `AtSlot` the streak never passes
its threshold; in `ConfigStore` nothing
`validate_value()` refuses is anywhere; in `LinkRound` no counter passes its
threshold; in `AtDialogue` the queue of events never passes its cap.

### Bounds, and why they are enough

* `AtQueue`: a race needs a job that runs and one that overtakes; a cap needs one
  more than the cap (1 for Critical, 2 else): two callers, three requests and one
  refusal give all of them.  The waits are 2 and 3 ticks and the job cap 3, so
  that waits end before, while and after a job runs.  The wall clock starts 5 ticks
  ahead and is set once, to 0 or to 7: back to before the start of a young job, or
  forward by less than the job cap, which only tips a job near the cap.  The proofs
  remove every bound for the safety properties.
* `AtSlot`: a switch needs two interfaces, drift two nodes that swap; one interface
  has a by-id link, the other an identifier, and each may come out as a bare node.
  One client in the run, whose jobs take over what the user saves and whose watch
  acts on the configuration before; any number of clients in the proofs.  Two
  mishaps of any kind: a re-enumeration, a change of what answers, a save by the
  user, a save that fails; each timer one tick, so that each is seen running and
  run out.  A job that returns an error on a mute port is left out of the run
  (`SessionErrs`): if every job does, nothing counts the silence (see below).
* `TaskManager`: a cap of 1 and a history of 2 with three calls by three threads, one
  of them outside the runtime: a task too many, one that is never launched, and one
  evicted while another thread is between two locks.
* `ConfigStore`: two options are the least for a half-done save or load; two
  savers share one of them.  TTL and load of one tick each.
* `LinkRound`: all thresholds 2 (1 for stalls), cooldown 3, a round one tick, so
  that a cooldown spans rounds and a ladder of three steps is climbed in the
  run; two mishaps are enough for one to hit the repair of the other.  Three
  mishaps with a cooldown of 2 (1.7 M states, several minutes) hold as well, and
  so do the static mode and a modem that lists its contexts (`V6Mode`,
  `ListsCgact`; the FM350 does not list them).  Three sessions: two with different
  IPv4 addresses and one without IPv4.  A bearer that is down is reported without
  addresses (`Residual = FALSE`), as `pdp.rs:452-455` found it to be; the theorems are for
  both cases.

* `AtDialogue`: a late answer needs a job to be late for and one to hit; two +GT
  lines overflow a queue of one; a backlog of one unread line; one fault, which is a
  command the modem ignores, a `+GTEMBIND` line, or a cut.
* `RequestPath`: the waits keep the order of the real ones (a read's budget below
  the plugin's patience below a write's, 6 s and 15 s one tick each); two
  requests at a time with one permit; two writes; the daemon fails once.  There is a
  `timeout` binary (`HasTimeout`); the theorems are for both cases.
* `ModemOps`: a lock's three commands meet those of one other user and of the
  watch; three operations, so that what two leave behind is met by a third; one
  command fails, or the daemon ends.  Of the arguments of a lock seven pairs are for
  rat 20, the six that are not among its ten combinations and one that is; four are
  for other rats.
* `SmsArchive`: two requests are the most the plugin lets run at once (one it
  serves, one it has given up); a window of one tick; three submissions of two
  texts under one key, two deletions, one death of the daemon; writes fail as often as
  they like.
* `NetConfig`: one gateway in the subnet and one outside, because the host route is
  for the latter; a private session and a public one, because only the former
  has a derived gateway; any two of the events, which is what it takes to change
  the settings under an application and disturb it, and one fault.

`CHECK_DEADLOCK FALSE` stands where a bound on requests lets the model come to
rest (`AtQueue`, `TaskManager`, `AtDialogue`, `RequestPath`, `ModemOps`,
`SmsArchive`); the other models never do.

### Fairness, and why the code justifies it

* `AtQueue`: the worker, the watchdog and the callers are threads the kernel
  schedules, waits have timeouts, time passes: weak fairness.  None on `Reply`:
  a serial read may hang in the kernel, which is what the watchdog is for.
  `Restart` is procd's respawn.
* `AtSlot`: `Execute`, `PortWatch`, `Tick` weakly; strong fairness for a client's
  start of a job and for the close job, because the queue ages what waits until
  it wins (`AtQueue`), and for a round reaching the watch.
* `TaskManager`: threads, timers and the event loop weakly; none on `Return`.
* `RequestPath`: the clocks of the plugin, the daemon and the command line run,
  and a process whose time is up acts on it.  None on `Work` and `Finish`: a
  request may take for ever.  None on the recovery of the daemon either.
* `ModemOps`: the watch dials again and again, and the thread of a request goes
  on; commands fail, and the daemon ends, at most as often as the bound says.
* `NetConfig`: the round goes on for ever (`WatchStep`), and a page's dial is a
  thread that runs (`Apply("page")`).
* `LinkRound`: the round never blocks for good, every command having its
  timeout: `WF_pc(Turn)`.  odhcp6c asks every few seconds, many times a round,
  until it is answered: strong fairness for `LeaseGranted`, weak for the expiry
  of a lease.  Nothing heals by itself under fairness: `Heal` is free to never
  come, and the liveness properties state what must be well for good.

## The proofs

TLC checks instances; the theorems hold for all values of the constants that the
named assumptions allow (`ConstantsAssumption`, `SlotAssumption`,
`TaskAssumption`, `LinkAssumption`, `DialAssumption`, `GuardAssumption`,
`LengthAssumption`, `ConfigAssumption`, `ArchiveAssumption`, `DialogueAssumption`,
`OpsAssumption`, `RequestAssumption`: types and positivity, and in the last the order
of the timeouts that `api/budget.rs:10-33` asks for; TLC evaluates them in the runs).
Each component's proof defines an inductive invariant (`IInv`; `DInv` for
`AtDialogue`, and one of its own for `SmsArchive`), shows that it holds at the start
and is kept by every action, and derives the theorems.

`AtDialogue`'s proofs rest on lemmas about sequences, sets and their cardinality
that are stated once: how the lines of a part, of two sequences
after each other or of one cut in two relate (`RangeOf...`), and that the `+GT`
lines of such sequences add up (`UrcsOfBoth`, `UrcsOfParts`), from which `ReadFilters`
follows, the lemma on `LineGate::feed()`: whatever part of the line a read returns
and wherever it stops, what comes out, what stays in the gate and what stays on the
line are lines that had arrived, and every `+GT` line is
captured, read over behind a prompt, or still there.

| Module | Theorems | The invariant, and why it is needed |
|---|---|---|
| `AtQueueProofs` | `TypeCorrect`, `CapsHold`, `AccountsBalance`, `NoUnfairOvertaking`, `WatchdogIsSound`, `Refinement` | finite jobs with distinct numbers in order of birth (else "younger" is not "later number", which is what `pop` compares); the running job was born and started in the past; `JOB_START_MS` is the start of the running job by the wall clock of that moment, which is the present one less what it was set by since (`moved`); so `WatchdogIsSound` is for any clock |
| `AtPortProofs` (`AtSlot`) | `TypeCorrect`, `HandlesAccounted`, `TalkIsConfigured`, `BreakerNeverBlocksHeld`, `ViewCorrect` | nothing is held while the worker opens, probes or saves; the job's port is resolved before it is opened; what is about to be opened or saved is a path of one of the three forms (`Named`) |
| `AtPortProofs` (`AtDialogue`) | `DialogueTypeCorrect`, `InputClosed`, `AnswersOwn`, `SentTrue`, `RejectedNotSent`, `UrcsCounted` | the end of a divided line is only ever the next to arrive (`RestFirst`), so what a read hands to the filter is whole lines and one that is begun; unless a prompt is awaited, what is on its way to a modem in text mode ends the text, and so does what follows any line that asks for one (`Closed`); from the command on, all that is on the line in either direction, in the gate and collected is the command's (`Owns`), or, for a send, carries no `OK` before the modem has the message and no `ERROR` if it has, nor a `Ctrl-Z` once it is refused (`Confirmed`); the count holds in each state, `Counted` |
| `TaskManagerProofs` | `TypeCorrect`, `StateIsHonest`, `OpenTasksListed`, `FinalStaysFinal`, `TableBounded` | which future goes with which state and body; two submitters never have the same task; a submitter's task has no future yet. For the table, on top of it: what no eviction can drop is in flight, hence fits into the slots (a state that is not open has its instant), so an eviction that drops all it can leaves at most `Cap < History` |
| `StoreProofs` (`ConfigStore`) | `TypeCorrect`, `SavesLast`, `StalenessBounded` | what a saver has set and nobody else since is what `uci get` answers; what was read, or is cached, has only changed since that reading began |
| `StoreProofs` (`SmsArchive`) | `ArchiveTypeCorrect`, `ArchiveIsKept` | a request that is alone at the file has open the one that is there, and its begun line is as it wrote it; what should be there is in a line with its end or held by one at the rewrite, and everybody about to cut the file, or past that, holds it: who rewrites a file that was removed meanwhile has nothing to keep |
| `LinkRoundProofs` | `TypeCorrect`, `RebootLast`, `NoDoubleRedial`, `WorkingV4` | an active context is in service (else a dial of a working session could find no service and give it up); what the guards did is forgotten before the next round; the k-th step of the ladder stands for k cooldowns without progress, the present one's remainder included; since a redial IPv4 has been left alone. Whatever is still reported of a bearer that is down (`Residual`) |
| `NetConfigProofs` | `TypeCorrect`, `AppliedWhole` | an application is alone only if no other one is under way; what it has deleted clears the way for the plan it stages next, and until it commits nobody else touches the four options the plan is about; a network left whole has none of them staged |
| `ModemOpsProofs` | `TypeCorrect`, `PutBack`, `OutageJustified`, `ReplacedBackedUp` | what an IMEI write has read, then backed up, is the modem's IMEI as long as it is alone; a lock that is begun has passed the check of its arguments |
| `RequestPathProofs` | `TypeCorrect`, `HealthyHeard`, `AnswersRecent`, `OwnWritesRead`, `ActsOnce` | rpcd waits for one request at most, which was accepted before time went on and whose budget has run as long as the wait; what it has found is no older than the call and knows every write rpcd was told of; nothing is cached while settings are written; the command line gives the daemon one request, and a daemon that keeps its port keeps the command line from working itself. With or without a `timeout` binary, but for `AnswersRecent`, which needs one |

`AppliedWhole` is as strong as the code allows: two applications at once can leave a
mixture (below), so that it speaks of the ones no other ran into, and shows that
each of these repairs whatever mixture it finds.

`WorkingV4` is the theorem that says most about the interplay: whatever
addresses, modes, thresholds and ailments there are, a part of the round that
finds a session working does not cost it its IPv4, even if the dial watch acts on
a reading that was true only before: a stale "IMS" takes the interfaces down
(`ClearSessionAddresses`), but the dial that follows finds the session usable
(`DialSpares`) and `apply_after_dial` writes the address it had (`ApplyRestores`).
It speaks of the state before and after each part; the interruption in between
is inside a step.

Only model-checked: everything that must eventually happen (`PortFreed`,
`CloseHappens`, `Recovers`, `SlotFreed`, `DeadSessionLeavesNoAddress`,
`Reconnects`, `RpcdIsFreed`, `FlightModeEnds`, `Settles`, `SettingsTakeEffect`,
`ForcedDnsReturns`), because the prover does not reason about fairness and
`ENABLED`.  Every safety property the passing runs check is proved, invariants and
action properties alike.

## What the code does otherwise than it says

Two runs end in a counterexample; `findings` in `PROJECT.json` quotes the lines.

1. `tasks_cancelled`: a task cancelled while pending runs all the same, and its
   slot has been given away (`async_runtime.rs:27` and `201`).
2. `ops_offair`: a lock whose command fails in the middle leaves the modem at
   CFUN=0, and the watch's dials, which are said to bring a modem back that is
   not on the air, only undo CFUN=4 (`pdp.rs:579-585`, `lock.rs:231`).

TLC refutes five more definitions, which are in the modules but in no run, and three
that a run checks for another value of a constant; what it takes besides the cfg's
constants is given here.

* `GivenUpNeverStarts` (`AtQueue`; `MaxSeq = 4`): a request its caller was told is
  cancelled is executed: the ticket is set between `pop`'s sweep and its choice
  (`handle.rs:11-12`, `queue.rs:215-230`).
* `LockIsTaken` (`ModemOps`): a lock is refused although none of its commands failed and
  its arguments are right.  `queue.rs:24-26` and `worker.rs:21-22` call CFUN=0, the write,
  CFUN=1 one job into which nothing can come; `lock.rs:230-232` makes it three, and
  another user's CFUN=1 after the first puts the modem on the air, where it refuses the
  write.
* `SaveTakesEffect` (`ConfigStore`): a `load()` begun before a save is cached after
  the save's invalidation (`config.rs:289`, `302-310`); and a save by another process
  never drops the daemon's cache (`cli.rs:445`).
* `V6OnlyRecovers` (`LinkRound`; `Sessions <- V6Sessions`, `DataGuardOn = FALSE`): a
  session without IPv4 that an IMS bearer interrupted is taken for applied and
  never put up again (`dial.rs:145`, `349`, against `heal.rs:313-314`).  With
  DataGuard on, its reset of the USB side puts the interfaces up by accident.
* `DropsWhatItNames` (`SmsArchive`): a record is filed under the fingerprint of a
  message without a time, and deleted by one computed with the time the page was
  shown: a targeted deletion finds nothing (`archive.rs:48`, `62-69`, `112`;
  `route.rs:704-712`).
* `RpcdIsFreed` (`RequestPath`; `HasTimeout = FALSE`): without a `timeout` binary a daemon
  that hangs keeps rpcd, and with it every page, for ever (`fm350.uc:218-227`, which names
  this as what the timeout is for).
* `DeadSessionLeavesNoAddress` and `Reconnects` (`LinkRound`; `Residual = TRUE`): the head
  of `pdp.rs` (5-8) has seen CGCONTRDP report the addresses of a session that is over,
  `pdp.rs:452-455` has seen its fields empty, and the code decides by these.  If they
  are not empty, a bearer that is down is taken for a working one.

Met while modelling, and not made runs of their own; the models do what the code
does.  In the scheduler, the port, the tasks and the configuration:

* Ageing: `queue.rs:77-78` promises that a Low request reaches P0 within five
  ticks; `QUEUE_WAIT` (10 s) ends its wait after two.
* `last_wait_ms` (`queue.rs:123`) is written with the run time of the job
  included (`worker.rs:353`).
* Any step of the wall clock by more than 95 s forwards while a job runs, or one
  back to before its start, makes the watchdog reset a healthy modem (`worker.rs:375`;
  `332-334` speaks of jobs that take longer than `JOB_CAP_MS`).
  `WatchdogBitesOnlyWedged` is about everything but these.
* The breaker is for a path (`worker.rs:124-125`) but its path is not compared: a
  port configured after a failed open is refused with the old port's error.
* A reselection whose `uci commit` failed still starts the hold window
  (`worker.rs:226-229`): jobs with the committed configuration are refused.
* `PortWatch` judges, probes and saves with the configuration of the start of
  its round (`daemon/port.rs:66-97`) and can overwrite a port the user has just
  chosen.
* A job that returns an error on a mute port drops the handle and with it the
  count of unanswered commands: if every job does, the search for another port
  never starts (`worker.rs:190`).
* A port that answers no command but on which something is heard again and again is
  never given up (`at/mod.rs:302-308`).
* A port configured by its by-id link is probed again as the first of the others
  when it falls silent: the path is compared with nodes.
* The result of a body that returns after its timeout is dropped: the module comment
  (`async_runtime.rs:22-24`) and the one at the place (`235-236`) say that it is written to
  result and error.  `FinalIsFinal` is about the state and its instant only.
* `spawn` called outside the runtime returns an error but leaves its task in the table,
  pending for ever and holding a slot (`async_runtime.rs:190-195`).
* A save that fails half-way leaves its options staged: the next commit of
  anybody publishes them (`config.rs:330-331`, `347`).

In the link:

* The interval for silent recovery of IPv6 (`v6.rs:46-51`) never decides
  anything: it is asked only where `needs_refresh` already said yes.
* `pdp()` reads the bearer before the addresses; an IMS takeover in between puts
  an IMS address into the v6 state and, in static mode, into `uci`, which
  `pdp.rs:82` rules out.
* DataGuard's redial ignores the backoff a purge started (`dial.rs:39-40`), and
  an interface purged on purpose counts as stalled: without service the ladder
  ends in reboots of the modem.
* The stall probe is an IPv4 ping; on a session without IPv4 it cannot leave, and
  DataGuard sees a stall that is none (`probe.rs:143-166`).
* DataGuard and NetGuard may both redial in one round (`guard.rs:402-403`); a
  redial for IPv4 leaves IPv6's rounds and cooldown as they were, other than the
  reverse (`guard.rs:576`).
* In static mode `ensure_iface` keeps the last `ip6addr` for a session without
  IPv6.
* `auto_dial=0` stops the dial watch, not the guards' redials.
* A link counts as unbound only if no frame ever came: once one did, the
  criterion does not trigger again until the USB reset.

In what is said to the modem:

* An answer that comes after the drain is taken for the next command's
  (`at/mod.rs:29-30` says each command gets its own answer); `AnswerIsOwn` is for
  commands written when nothing is outstanding.
* For the same reason an ERROR of an earlier command ends the wait for the result of a
  text (`at/mod.rs:397-402`), and the page calls a message rejected that the modem takes
  over (`route.rs:579-587`); `RejectedIsNotSent` is for sends that began with nothing
  outstanding, as `SentIsTrue`.
* A `+GT` line that comes behind a prompt is one line with it, `> +GT...`, is not captured
  (`urc.rs:296` looks at the start of lines) and gets into what the wait collects, which
  `urc.rs:307` rules out: the proxy ends its lines with a break but starts none
  (`atproxy.c`).  `+GTEMBIND` (`atproxy.c:261`) is not one of the five kinds and let
  through; as the last line it keeps a wait from seeing the result before it, until the
  timeout: a message that was taken is then called unknown.
* `route.rs:484-485` has a whole send as one job; `sms::send` makes three
  (`sms/mod.rs:124-127`).
* `sms/mod.rs:147-148` says that an undelivered ESC is noticed; silence after it is
  not told from success.
* A port cut off during a send leaves the modem taking text until the next send.
* With two technologies the second preferred one is not checked before the outage
  (`lock.rs:109-114`).
* A daemon that ends between the commands of a lock leaves the modem at CFUN=0 as a
  failed write does.
* The second write of an IMEI overwrites the backup of the original one.
* Flight mode chosen by a user is undone by the watch's next dial.

On the way to the daemon:

* Storage, technology order, IMEI and SMS reads have the budget of a write in the
  daemon and the patience of a read in the plugin (`budget.rs:10-18` against
  `fm350.uc:466`, `475`, `605-607`, `639`): the plugin gives up first.
* A page's reads of `/api/imei`, `/api/rat` and `/api/sms/storage` are mapped by
  path, become writes and fail.
* A failed answer is kept for 6 s like any other (`fm350.uc:309`); hanging up
  empties no cache.
* The command line does the work itself after any answer that is not ok, not only
  when the daemon is not there, and its comments give rpcd's patience as 20 s
  (`cli.rs:139-142`, `162`; it is 12 s).
* The answer for lines that are too long is never given: `read_line_limited()`
  reports them as read (`rpc/mod.rs`).

In the SMS archive:

* The window of 10 s begins with the submission, before it is known whether there is
  a modem and before the wait in the AT queue: a retry after a failure is refused, a
  send that is slow outlives it, so that the same text may be handed over twice; and
  its key is what the page says it is (`route.rs:551`).  No property is stated of it.
  `/api/sms/send` and the command line know no window and archive nothing; a
  restart forgets the window.
* The same text to the same number is archived once for ever.
* A file that cannot be created in `drop`, or whose lines cannot all be written back, is
  still reported as cleaned, what was lost included (`archive.rs:194-204`); an append
  that fails, or is cut short, is not noticed (`archive.rs:121`).
* A daemon that ends between a record and its line end, or a write that stops there,
  makes that record and the next one unreadable.  If it stops inside a character,
  nothing behind that line is read again (`archive.rs:133`), and the next rewrite drops it.
* Two deletions around an append, or a death in the rewrite, can lose the whole
  conversation.
* The page asks for a number without its +86 and the daemon files what was sent
  under the number as it was given; the page's "clear all" sends an empty number,
  which is refused (`sms.js:1281`, `route.rs:694-697`).

In the configuration of the interface:

* In static mode one failed ARP test deletes the gateway the user has set
  (`gateway.rs:297` takes it for a value on display; `settings.js:934-938` asks for it).
  Entering it again changes nothing, because the signature is that of the same
  settings.
* The gateway found is written over one the user may have saved meanwhile, and the
  `uci commit fm350` beside it publishes a save that is half done (`gateway.rs:266-269`).
* Each application that changes the written-back gateway costs a second one: it
  is signed with the settings from before (`gateway.rs:266`, `heal.rs:374`).
* Reapplying takes what `uci` holds for what the modem has reported
  (`sig.rs:48-54`): forced DNS servers stay when `dns_force` is turned off, until the
  next dial (`dns.rs:14`), and a static gateway stays when going back to auto.
* An application that fails after its commit is not taken up again if the address
  then comes by itself: the gateway is never tested.  The same when the daemon dies
  in the middle.
* `enforce_forced_dns()` and `ensure_autostart()` ask `uci get`, which answers from
  staged changes: once a commit has not happened they see nothing left to do
  (`iface.rs:480-485` promises the next round).
* Two applications at once can leave the plan of one with the signature of the
  other, or a gateway beside the onlink route.  When one fails it reverts all that is
  staged for `network`, whoever's it is (`iface.rs:421`, `612`).
* `sig.rs:5-12` is about hand edits of `network.fm350`; the signature only covers the
  settings of `fm350`.
* `route_guard` looks for any default route with its metric: one through a gateway
  that is no longer configured stays (`heal.rs:70-72`).

## What is not modelled

* Data: AT text, PDU and GSM-7 codecs, JSON, addresses as numbers, log lines; the
  check digit of an IMEI; the parsing of `+GT` events.
* In the queue: the age is cut to eight bits (`queue.rs:111`), which takes 21 minutes in
  a queue that gives a request up after a minute at most (a `CloseJob`, which nobody
  gives up, is Critical at any age).  A class over its cap would fail `CapsHold`, which is proved;
  no run checks it.
* In the proxy: writes to the port that are short.
* In the port: the USB repair ladder (`reset_usb_device`), the preference among
  several ports that answer, the pacing of `exec_sequence`.
* In the link: APN, the `ra` mode of IPv6, `ConflictWatch` (it only logs).  The
  address family is IPV4V6, the data interface is always found, the wait for
  attachment is not counted, and a handler's AT conversation is one step.  That the
  child interface keeps its configuration when its parent is bounced is taken
  from `heal.rs:276`.  Gateway, DNS and the signature are in `NetConfig`, apart from the
  state of the session.
* In `NetConfig`: masks the user sets, the IPv6 child interface and its routes, the
  firewall zone, `apply_mtu` (which stages and reverts in the same way),
  `teardown_iface`, netifd's own retries, and commands of the onlink fallback that fail
  one by one (`let _`, `gateway.rs:299-307`).
* In `ModemOps`: `set_rat_order`, `set_sim_slot` and the IMEI's backup alone, one
  command each.
* In `SmsArchive`: list, delete and storage in the modem, the statistics, and the SMS
  sessions of `async_runtime.rs`, which nothing consults.
* `GtWatch`'s cooldown, which only brings a round forward.
* The components marked `not_modelled` in `PROJECT.json`, with reasons there.

## The plan

Order: what the daemon lives on first (the one port), then what users start
(tasks, configuration), then the link, then the way requests come in.

1. `AtSerial`, `AtQueue`: scheduler, refinement, proofs.  Done.
2. `AtSlot`: port session and selection, proofs.  Done.
3. `TaskManager`: tasks, proofs.  Done.
4. `ConfigStore`: configuration, proofs.  Done.
5. `Link`, `DialWatch`, `Guards`, `LinkRound`: the round, proofs.  Done.
6. `AtDialogue`, `RequestPath`, `ModemOps`, `SmsArchive`, `NetConfig`: the line, the
   way of a request, sequences of commands, the archive, the interface.  Modelled
   and checked.
7. Proofs of their safety properties.  Done.
8. `SshFwd` (pid file), the IPv6 part of `NetConfig`, and pure operators of `addr.rs`
   against reference definitions over bounded inputs.

## Running it

```
tlc -workers 2 -config LinkRound.cfg MCLinkRound      # a run: cfg and its module
tlapm LinkRoundProofs.tla                             # all proofs of a module
```

The runs and their modules are listed in `PROJECT.json`; each passes or fails as
its `expect` says in at most five minutes.
