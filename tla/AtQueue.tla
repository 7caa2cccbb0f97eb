------------------------------- MODULE AtQueue -------------------------------
(***************************************************************************)
(* The one entry to the modem's AT port: PriQueue (at/queue.rs), the       *)
(* callers of AtHandle::run and AtHandle::close (at/handle.rs), and the    *)
(* worker and watchdog threads of at/worker.rs.                            *)
(*                                                                         *)
(* Time is counted in ticks of AGING_TICK (5 s), the unit of ageing and    *)
(* the polling period of the watchdog.  `now` is the monotonic clock       *)
(* (Instant), now + skew the wall clock (SystemTime) the watchdog uses.    *)
(* A step that is due is taken before time moves on.  The operators named   *)
(* Faulty... are plausible mistakes in the definition that follows them;   *)
(* they only serve to show that the properties notice.                     *)
(***************************************************************************)
EXTENDS Integers, FiniteSets

CONSTANTS
  Callers,      \* threads that call run() and close()
  RunPrios,     \* the priorities run() is called with
  Caps,         \* PRIORITY_CAPS
  QueueWait,    \* QUEUE_WAIT, in ticks
  CloseWait,    \* how long close() waits, in ticks
  JobCap,       \* JOB_CAP_MS, in ticks
  WallMod,      \* 2^64: the watchdog subtracts u64 values
  BootSkew,     \* what the wall clock is ahead of the monotonic one at boot
  Skews,        \* what it may be set to
  MaxSeq,       \* bound: requests accepted by one process
  MaxRejected,  \* bound: requests refused in one process
  MaxClockSteps \* bound: times the wall clock is set

Critical == 4
Prios == 0..Critical

NoJob == -1

ASSUME ConstantsAssumption ==
  /\ RunPrios \subseteq Prios
  /\ Caps \in [Prios -> Nat]
  /\ QueueWait \in [Prios -> Nat]
  /\ CloseWait \in Nat /\ JobCap \in Nat
  /\ WallMod \in Nat
  /\ BootSkew \in Nat /\ Skews \subseteq Nat
  /\ MaxSeq \in Nat /\ MaxRejected \in Nat /\ MaxClockSteps \in Nat

VARIABLES
  jobs,       \* PriState.jobs: the queued jobs
  seq, executed, cancelled, rejected,     \* PriState's counters
  tickets,    \* cancel tickets that are set, by the job's seq
  replies,    \* jobs whose reply channel holds an answer
  caller,     \* what each calling thread is doing
  worker,     \* the worker thread: where it is, the job it runs, since when
  jobStart,   \* JOB_START_MS: wall time the job started, 0 when idle
  lastWait,   \* last_wait_ms
  watchdog,   \* "polling", or "resetting" once it decided to exit
  now, skew, clockSteps,
  moved       \* history: by how much that clock was set since the job started

queueVars == <<jobs, seq, executed, cancelled, rejected>>
callVars == <<tickets, replies, caller>>
workVars == <<worker, jobStart, lastWait, watchdog>>
timeVars == <<now, skew, clockSteps, moved>>
vars == <<queueVars, callVars, workVars, timeVars>>

-----------------------------------------------------------------------------
Kinds == {"exec", "close"}
Job == [seq : Nat, prio : Prios, born : Nat, kind : Kinds]

Idle == [pc |-> "idle", seq |-> 0, kind |-> "exec", prio |-> 0, since |-> 0]
Resting == [pc |-> "pop", job |-> NoJob, since |-> 0]
Choosing == [pc |-> "purged", job |-> NoJob, since |-> 0]

Cancelled(j) == j.seq \in tickets

FaultyAge(j) == j.born - now
Age(j) == now - j.born

\* effective(): the base priority plus one level per tick waited, at most P0.  The
\* cast of the age to u8 is left out: no job waits 256 ticks (QUEUE_WAIT).
Effective(j) == IF j.prio + Age(j) > Critical THEN Critical ELSE j.prio + Age(j)

Waiting(p) == {j \in jobs : j.prio = p}

Init ==
  /\ jobs = {} /\ seq = 0 /\ executed = 0 /\ cancelled = 0 /\ rejected = 0
  /\ tickets = {} /\ replies = {}
  /\ caller = [c \in Callers |-> Idle]
  /\ worker = Resting
  /\ jobStart = 0
  /\ lastWait = 0
  /\ watchdog = "polling"
  /\ now = 1 /\ skew = BootSkew /\ clockSteps = 0 /\ moved = 0

-----------------------------------------------------------------------------
(* Callers *)

\* PriQueue::push under the queue lock, which the worker holds while it is
\* between the purge and the removal of the job it takes.
Lockable == worker.pc # "purged"

FaultyPush(p, kind) ==          \* the capacity is checked with > for >=
  /\ Cardinality(Waiting(p)) <= Caps[p]
  /\ seq < MaxSeq
  /\ seq' = seq + 1
  /\ jobs' = jobs \cup {[seq |-> seq + 1, prio |-> p, born |-> now, kind |-> kind]}
  /\ UNCHANGED <<executed, cancelled, rejected>>

Push(p, kind) ==
  /\ Cardinality(Waiting(p)) < Caps[p]
  /\ seq < MaxSeq
  /\ seq' = seq + 1
  /\ jobs' = jobs \cup {[seq |-> seq + 1, prio |-> p, born |-> now, kind |-> kind]}
  /\ UNCHANGED <<executed, cancelled, rejected>>

Refuse(p) ==
  /\ Cardinality(Waiting(p)) >= Caps[p]
  /\ rejected < MaxRejected
  /\ rejected' = rejected + 1
  /\ UNCHANGED <<jobs, seq, executed, cancelled>>

\* AtHandle::run (kind "exec") or AtHandle::close (kind "close"), up to the
\* point where the caller waits on its reply channel or is refused.
Request(c, p, kind) ==
  /\ caller[c].pc = "idle"
  /\ Lockable
  /\ \/ /\ Push(p, kind)
        /\ caller' = [caller EXCEPT ![c] =
             [pc |-> "waiting", seq |-> seq', kind |-> kind, prio |-> p, since |-> now]]
     \/ /\ Refuse(p)
        /\ UNCHANGED caller
  /\ UNCHANGED <<tickets, replies, workVars, timeVars>>

Run(c) == \E p \in RunPrios : Request(c, p, "exec")
Close(c) == Request(c, Critical, "close")

Receive(c) ==
  /\ caller[c].pc = "waiting"
  /\ caller[c].seq \in replies
  /\ replies' = replies \ {caller[c].seq}
  /\ caller' = [caller EXCEPT ![c] = Idle]
  /\ UNCHANGED <<queueVars, tickets, workVars, timeVars>>

Limit(c) == IF caller[c].kind = "close" THEN CloseWait ELSE QueueWait[caller[c].prio]

Due(c) == caller[c].pc = "waiting" /\ now - caller[c].since >= Limit(c)

FaultyGiveUp(c) ==              \* close() sets a ticket as run() does
  /\ Due(c)
  /\ caller[c].seq \notin replies
  /\ tickets' = tickets \cup {n \in {caller[c].seq} : n \in {j.seq : j \in jobs}}
  /\ caller' = [caller EXCEPT ![c] = Idle]
  /\ UNCHANGED <<queueVars, replies, workVars, timeVars>>

\* recv_timeout ran out: run() sets its ticket and reports the request as
\* cancelled; close() returns and leaves its job alone.  The ticket of a job
\* already taken is read by nobody: it runs on, and its answer goes to a
\* channel that is gone.
GiveUp(c) ==
  /\ Due(c)
  /\ caller[c].seq \notin replies
  /\ tickets' = tickets \cup
       {n \in {caller[c].seq} : caller[c].kind = "exec" /\ n \in {j.seq : j \in jobs}}
  /\ caller' = [caller EXCEPT ![c] = Idle]
  /\ UNCHANGED <<queueVars, replies, workVars, timeVars>>

-----------------------------------------------------------------------------
(* The worker thread *)

FaultyPurge ==                  \* the swept-out jobs are not counted
  LET live == {j \in jobs : ~Cancelled(j)} IN
  /\ worker.pc = "pop"
  /\ jobs # {}
  /\ jobs' = live
  /\ tickets' = {}
  /\ worker' = IF live = {} THEN Resting ELSE Choosing
  /\ UNCHANGED <<seq, executed, cancelled, rejected, replies, caller, jobStart, lastWait,
                 watchdog, timeVars>>

\* The first half of pop(): with the lock held, drop the jobs whose ticket is
\* set.  With nothing left the worker goes back to waiting.
Purge ==
  LET live == {j \in jobs : ~Cancelled(j)} IN
  /\ worker.pc = "pop"
  /\ jobs # {}
  /\ jobs' = live
  /\ tickets' = {}
  /\ cancelled' = cancelled + Cardinality(jobs \ live)
  /\ worker' = IF live = {} THEN Resting ELSE Choosing
  /\ UNCHANGED <<seq, executed, rejected, replies, caller, jobStart, lastWait, watchdog, timeVars>>

FaultyBefore(j, k) ==           \* ties go to the younger job
  \/ Effective(j) > Effective(k)
  \/ Effective(j) = Effective(k) /\ j.seq > k.seq

\* The order of max_by in pop(): effective priority, then the smaller seq.
Before(j, k) ==
  \/ Effective(j) > Effective(k)
  \/ Effective(j) = Effective(k) /\ j.seq < k.seq

FaultyTake(j) ==                \* the job is not removed from the queue
  /\ worker.pc = "purged"
  /\ j \in jobs
  /\ \A k \in jobs \ {j} : Before(j, k)
  /\ executed' = executed + 1
  /\ tickets' = tickets \ {j.seq}
  /\ lastWait' = Age(j)
  /\ worker' = [pc |-> "run", job |-> j, since |-> now]
  /\ jobStart' = now + skew
  /\ moved' = 0
  /\ UNCHANGED <<jobs, seq, cancelled, rejected, replies, caller, watchdog, now, skew, clockSteps>>

\* The second half of pop(), and the worker loop up to the job's start.
Take(j) ==
  /\ worker.pc = "purged"
  /\ j \in jobs
  /\ \A k \in jobs \ {j} : Before(j, k)
  /\ jobs' = jobs \ {j}
  /\ executed' = executed + 1
  /\ tickets' = tickets \ {j.seq}
  /\ lastWait' = Age(j)
  /\ worker' = [pc |-> "run", job |-> j, since |-> now]
  /\ jobStart' = now + skew
  /\ moved' = 0
  /\ UNCHANGED <<seq, cancelled, rejected, replies, caller, watchdog, now, skew, clockSteps>>

\* Job::run returns: the reply is sent first ...
Reply ==
  /\ worker.pc = "run"
  /\ worker' = [worker EXCEPT !.pc = "replied"]
  /\ replies' = replies \cup
       {n \in {worker.job.seq} : \E c \in Callers : caller[c].pc = "waiting" /\ caller[c].seq = n}
  /\ UNCHANGED <<queueVars, tickets, caller, jobStart, lastWait, watchdog, timeVars>>

FaultyFinish ==                 \* JOB_START_MS is not cleared
  /\ worker.pc = "replied"
  /\ lastWait' = Age(worker.job)
  /\ worker' = Resting
  /\ moved' = 0
  /\ UNCHANGED <<queueVars, callVars, jobStart, watchdog, now, skew, clockSteps>>

\* ... then JOB_START_MS is cleared and finish() overwrites last_wait_ms.
Finish ==
  /\ worker.pc = "replied"
  /\ jobStart' = 0
  /\ lastWait' = Age(worker.job)
  /\ worker' = Resting
  /\ moved' = 0
  /\ UNCHANGED <<queueVars, callVars, watchdog, now, skew, clockSteps>>

-----------------------------------------------------------------------------
(* The watchdog thread, and time *)

\* now_ms() - start in u64: a clock set back behind start wraps around.
WallElapsed ==
  LET wall == now + skew IN
  IF wall >= jobStart THEN wall - jobStart ELSE WallMod + wall - jobStart

Overdue == jobStart # 0 /\ WallElapsed > JobCap

\* The watchdog reads JOB_START_MS, finds the job too long and resets the
\* modem's USB device; the worker keeps running meanwhile.
Bite ==
  /\ watchdog = "polling"
  /\ Overdue
  /\ watchdog' = "resetting"
  /\ UNCHANGED <<queueVars, callVars, worker, jobStart, lastWait, timeVars>>

FaultyRestart ==                \* the exit joins the worker thread first
  /\ watchdog = "resetting"
  /\ worker.pc = "pop"
  /\ jobs' = {} /\ seq' = 0 /\ executed' = 0 /\ cancelled' = 0 /\ rejected' = 0
  /\ tickets' = {} /\ replies' = {}
  /\ caller' = [c \in Callers |-> Idle]
  /\ worker' = Resting
  /\ jobStart' = 0 /\ lastWait' = 0 /\ watchdog' = "polling" /\ now' = 1 /\ moved' = 0
  /\ UNCHANGED <<skew, clockSteps>>

\* exit(1), and procd starts the daemon again.
Restart ==
  /\ watchdog = "resetting"
  /\ jobs' = {} /\ seq' = 0 /\ executed' = 0 /\ cancelled' = 0 /\ rejected' = 0
  /\ tickets' = {} /\ replies' = {}
  /\ caller' = [c \in Callers |-> Idle]
  /\ worker' = Resting
  /\ jobStart' = 0
  /\ lastWait' = 0
  /\ watchdog' = "polling"
  /\ now' = 1 /\ moved' = 0
  /\ UNCHANGED <<skew, clockSteps>>

Pending == jobs # {} \/ worker.pc # "pop" \/ \E c \in Callers : caller[c].pc = "waiting"

\* Time passes only while something is under way (it cannot be told apart
\* otherwise) and nothing is due.
Tick ==
  /\ Pending
  /\ \A c \in Callers : ~Due(c)
  /\ \A c \in Callers : caller[c].pc = "waiting" => caller[c].seq \notin replies
  /\ worker.pc = "run" \/ (worker.pc = "pop" /\ jobs = {})
  /\ watchdog = "polling" /\ ~Overdue
  /\ now' = now + 1
  /\ UNCHANGED <<queueVars, callVars, workVars, skew, clockSteps, moved>>

\* NTP or the user sets the wall clock.
SetClock(d) ==
  /\ clockSteps < MaxClockSteps
  /\ clockSteps' = clockSteps + 1
  /\ skew' = d
  /\ moved' = IF worker.pc \in {"run", "replied"} THEN moved + d - skew ELSE 0
  /\ UNCHANGED <<queueVars, callVars, workVars, now>>

-----------------------------------------------------------------------------
Next ==
  \/ \E c \in Callers : Run(c) \/ Close(c) \/ Receive(c) \/ GiveUp(c)
  \/ Purge
  \/ \E j \in jobs : Take(j)
  \/ Reply \/ Finish \/ Bite \/ Restart \/ Tick
  \/ \E d \in Skews : SetClock(d)

Spec == Init /\ [][Next]_vars

\* The threads are scheduled and time advances, but a job may never return:
\* there is no fairness on Reply.
Fairness ==
  /\ WF_vars(Purge) /\ WF_vars(\E j \in jobs : Take(j)) /\ WF_vars(Finish)
  /\ WF_vars(Bite) /\ WF_vars(Restart) /\ WF_vars(Tick)
  /\ \A c \in Callers : WF_vars(Receive(c)) /\ WF_vars(GiveUp(c))

FairSpec == Spec /\ Fairness

-----------------------------------------------------------------------------
(* Properties *)

\* The state keeps its shape; in particular no wait or counter ever becomes
\* negative.
TypeOK ==
  /\ jobs \subseteq Job
  /\ seq \in Nat /\ executed \in Nat /\ cancelled \in Nat /\ rejected \in Nat
  /\ tickets \subseteq Nat /\ replies \subseteq Nat
  /\ caller \in [Callers -> [pc : {"idle", "waiting"}, seq : Nat, kind : Kinds,
       prio : Prios, since : Nat]]
  /\ worker \in {Resting, Choosing} \cup [pc : {"run", "replied"}, job : Job, since : Nat]
  /\ jobStart \in Nat
  /\ lastWait \in Nat
  /\ watchdog \in {"polling", "resetting"}
  /\ now \in Nat /\ skew \in Nat /\ clockSteps \in Nat /\ moved \in Int

\* No level of the queue ever holds more jobs than PRIORITY_CAPS allows it
\* (queue.rs:73-75), the given-up ones included.
CapsRespected == \A p \in Prios : Cardinality(Waiting(p)) <= Caps[p]

\* The statistics of QueueSnapshot account for every accepted request: it is
\* queued, or was taken, or was swept out as cancelled.
Accounted == seq = Cardinality(jobs) + executed + cancelled

\* What pop() owes the jobs it passes over: a job is never overtaken by a
\* younger one unless that one is more urgent and the older has not yet aged
\* to P0 (queue.rs:13-19).
NoOvertake ==
  [][\A j, k \in jobs :
       /\ worker.pc = "purged" /\ worker'.pc = "run" /\ worker'.job = k
       /\ j.seq < k.seq
       => j.prio < k.prio /\ j.prio + Age(j) < Critical]_vars

\* How long the job has run, with what the wall clock was set meanwhile.
SeemsToHaveRun == now - worker.since + moved

\* The watchdog resets the modem and kills the daemon only over a job that is
\* running, and only if JOB_CAP_MS (worker.rs:332-334) is exceeded by the time it
\* has run and what the wall clock was set forward meanwhile, or if that clock was
\* set back to before its start: never over a job that is done, nor over the
\* start of an earlier one or a clock that was set before.
WatchdogBitesOnlyWedged ==
  [][watchdog = "polling" /\ watchdog' = "resetting"
       => /\ worker.pc \in {"run", "replied"}
          /\ (SeemsToHaveRun > JobCap \/ SeemsToHaveRun < 0)]_vars

\* A job the kernel never returns from does not hold the port for ever.
PortFreed == (worker.pc = "run") ~> (worker.pc # "run")

\* A CloseJob is never cancelled: once queued, it runs (or the process is
\* restarted) even if close() itself stopped waiting (handle.rs:116-130).
CloseHappens ==
  \A n \in 1..MaxSeq :
    (\E j \in jobs : j.seq = n /\ j.kind = "close")
      ~> \/ worker.pc = "run" /\ worker.job.seq = n
         \/ seq < n

\* AtQueue serves one request at a time, each at most once.
Serial == INSTANCE AtSerial WITH
  last <- seq,
  waiting <- {j.seq : j \in jobs},
  serving <- IF worker.pc = "run" THEN worker.job.seq ELSE 0
ServesSerially == Serial!Spec

-----------------------------------------------------------------------------
(* What the documentation says and the code does not do *)

\* handle.rs:11-12: a request whose queue wait ran out "is cleared from the
\* queue and will NOT be executed".
GivenUpNeverStarts ==
  [][worker.pc = "purged" /\ worker'.pc = "run" => worker'.job.seq \notin tickets]_vars
=============================================================================
