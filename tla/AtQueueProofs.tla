---------------------------- MODULE AtQueueProofs ----------------------------
(***************************************************************************)
(* Proofs about the AT scheduler, for any set of callers, any capacities   *)
(* and waits and any bounds: type correctness, the capacity and the        *)
(* accounting of the queue, that a job is never overtaken unfairly, that   *)
(* the scheduler implements AtSerial, and that the watchdog only acts on a *)
(* running job whose cap is exceeded, or seems so as the clock was set.    *)
(***************************************************************************)
EXTENDS AtQueue, FiniteSetTheorems, TLAPS

-----------------------------------------------------------------------------
(* The inductive invariant *)

\* Jobs are told apart by their number, and a smaller number is not younger.
QueueOrder ==
  /\ \A j \in jobs : j.seq \in 1..seq /\ j.born <= now
  /\ \A j, k \in jobs : j.seq = k.seq => j = k
  /\ \A j, k \in jobs : j.seq < k.seq => j.born <= k.born

\* The job being run was queued and started in the past.
RunOrder ==
  worker.pc \in {"run", "replied"} =>
    worker.job.seq \in 1..seq /\ worker.job.born <= now /\ worker.since <= now

\* JOB_START_MS is set only while a job runs, and is its start on the wall
\* clock as that clock was then.
StartMark ==
  jobStart # 0 =>
    worker.pc \in {"run", "replied"} /\ jobStart = worker.since + skew - moved

IInv ==
  /\ TypeOK
  /\ IsFiniteSet(jobs)
  /\ QueueOrder
  /\ RunOrder
  /\ StartMark
  /\ CapsRespected
  /\ Accounted

-----------------------------------------------------------------------------
(* Lemmas *)

LEMMA PriosFact == Prios \subseteq Nat /\ Critical \in Prios /\ 0 \in Prios
BY DEF Prios, Critical

\* Every level of a finite queue has a size.
LEMMA WaitingSize ==
  ASSUME IsFiniteSet(jobs), NEW p
  PROVE  IsFiniteSet(Waiting(p)) /\ Cardinality(Waiting(p)) \in Nat
<1>1. Waiting(p) \in SUBSET jobs
  BY DEF Waiting
<1>2. IsFiniteSet(Waiting(p))
  BY <1>1, FS_Subset
<1> QED
  BY <1>2, FS_CardinalityType

\* Taking jobs out of the queue keeps every level within its capacity.
LEMMA ShrinkKeepsCaps ==
  ASSUME TypeOK, IsFiniteSet(jobs), CapsRespected, jobs' \subseteq jobs
  PROVE  CapsRespected' /\ IsFiniteSet(jobs')
<1>1. IsFiniteSet(jobs')
  BY FS_Subset
<1>2. ASSUME NEW p \in Prios PROVE Cardinality(Waiting(p)') <= Caps[p]
  <2>1. Waiting(p)' \in SUBSET Waiting(p)
    BY DEF Waiting
  <2>2. IsFiniteSet(Waiting(p)) /\ Cardinality(Waiting(p)) \in Nat
    BY WaitingSize
  <2>3. Cardinality(Waiting(p)') <= Cardinality(Waiting(p)) /\ IsFiniteSet(Waiting(p)')
    BY <2>1, <2>2, FS_Subset
  <2>4. Cardinality(Waiting(p)') \in Nat
    BY <2>3, FS_CardinalityType
  <2> QED
    BY <2>2, <2>3, <2>4, ConstantsAssumption DEF CapsRespected
<1> QED
  BY <1>1, <1>2 DEF CapsRespected

-----------------------------------------------------------------------------
(* Each action keeps the invariant *)

LEMMA InitInv == Init => IInv
<1> SUFFICES ASSUME Init PROVE IInv
  OBVIOUS
<1>1. TypeOK
  BY ConstantsAssumption, PriosFact DEF Init, TypeOK, Idle, Resting, Kinds
<1>2. IsFiniteSet(jobs) /\ Cardinality(jobs) = 0
  BY FS_EmptySet DEF Init
<1>3. QueueOrder /\ RunOrder /\ StartMark
  BY DEF Init, QueueOrder, RunOrder, StartMark, Resting
<1>4. CapsRespected
  <2> SUFFICES ASSUME NEW p \in Prios PROVE Cardinality(Waiting(p)) <= Caps[p]
    BY DEF CapsRespected
  <2>1. Waiting(p) = {}
    BY DEF Waiting, Init
  <2> QED
    BY <2>1, FS_EmptySet, ConstantsAssumption
<1>5. Accounted
  BY <1>2 DEF Accounted, Init
<1> QED
  BY <1>1, <1>2, <1>3, <1>4, <1>5 DEF IInv

\* An accepted request.
LEMMA PushInv ==
  ASSUME IInv, NEW p \in Prios, NEW kind \in Kinds, Push(p, kind),
         UNCHANGED <<workVars, timeVars>>
  PROVE  /\ jobs' \subseteq Job /\ IsFiniteSet(jobs') /\ QueueOrder' /\ RunOrder'
         /\ CapsRespected' /\ Accounted'
         /\ seq' \in Nat
<1> DEFINE new == [seq |-> seq + 1, prio |-> p, born |-> now, kind |-> kind]
<1>1. new \in Job /\ jobs' = jobs \cup {new} /\ seq' = seq + 1 /\ seq \in Nat
  BY DEF Push, Job, IInv, TypeOK
<1>2. new \notin jobs
  BY <1>1 DEF IInv, QueueOrder
<1>3. IsFiniteSet(jobs') /\ Cardinality(jobs') = Cardinality(jobs) + 1
  BY <1>1, <1>2, FS_AddElement DEF IInv
<1>4. QueueOrder'
  BY <1>1 DEF QueueOrder, IInv, TypeOK, Job, timeVars
<1>5. RunOrder'
  BY <1>1 DEF RunOrder, IInv, TypeOK, workVars, timeVars
<1>6. ASSUME NEW q \in Prios PROVE Cardinality(Waiting(q)') <= Caps[q]
  <2>1. CASE q = p
    <3>1. Waiting(q)' = Waiting(q) \cup {new}
      BY <1>1, <2>1 DEF Waiting
    <3>2. new \notin Waiting(q)
      BY <1>2 DEF Waiting
    <3>3. Cardinality(Waiting(q)') = Cardinality(Waiting(q)) + 1
      BY <3>1, <3>2, WaitingSize, FS_AddElement DEF IInv
    <3> QED
      BY <3>3, <2>1, WaitingSize, ConstantsAssumption DEF Push, IInv
  <2>2. CASE q # p
    <3>1. Waiting(q)' = Waiting(q)
      BY <1>1, <2>2 DEF Waiting
    <3> QED
      BY <3>1 DEF IInv, CapsRespected
  <2> QED
    BY <2>1, <2>2
<1>7. Accounted'
  BY <1>1, <1>3, FS_CardinalityType DEF Accounted, Push, IInv, TypeOK
<1> QED
  BY <1>1, <1>3, <1>4, <1>5, <1>6, <1>7 DEF IInv, TypeOK, CapsRespected

LEMMA RequestInv ==
  ASSUME IInv, NEW c \in Callers, NEW p \in Prios, NEW kind \in Kinds, Request(c, p, kind)
  PROVE  IInv'
<1>1. CASE Push(p, kind) /\ caller' = [caller EXCEPT ![c] =
             [pc |-> "waiting", seq |-> seq', kind |-> kind, prio |-> p, since |-> now]]
  <2>1. UNCHANGED <<tickets, replies, workVars, timeVars>>
    BY DEF Request
  <2>2. /\ jobs' \subseteq Job /\ IsFiniteSet(jobs') /\ QueueOrder' /\ RunOrder'
        /\ CapsRespected' /\ Accounted' /\ seq' \in Nat
    BY <1>1, <2>1, PushInv
  <2>3. TypeOK'
    BY <1>1, <2>1, <2>2 DEF Push, IInv, TypeOK, workVars, timeVars
  <2>4. StartMark'
    BY <2>1 DEF IInv, StartMark, workVars, timeVars
  <2> QED
    BY <2>2, <2>3, <2>4 DEF IInv
<1>2. CASE Refuse(p) /\ UNCHANGED caller
  <2>1. TypeOK'
    BY <1>2 DEF Request, Refuse, IInv, TypeOK, workVars, timeVars
  <2>2. QueueOrder' /\ RunOrder' /\ StartMark' /\ CapsRespected' /\ Accounted'
    BY <1>2 DEF Request, Refuse, IInv, QueueOrder, RunOrder, StartMark, CapsRespected,
                Waiting, Accounted, workVars, timeVars
  <2> QED
    BY <1>2, <2>1, <2>2 DEF IInv, Refuse
<1> QED
  BY <1>1, <1>2 DEF Request

\* Receive and GiveUp only move the caller.
LEMMA CallerInv ==
  ASSUME IInv, NEW c \in Callers, Receive(c) \/ GiveUp(c)
  PROVE  IInv'
<1>1. /\ UNCHANGED <<queueVars, workVars, timeVars>>
      /\ caller' = [caller EXCEPT ![c] = Idle]
      /\ tickets' \subseteq tickets \cup {caller[c].seq}
      /\ replies' \subseteq replies
  BY DEF Receive, GiveUp
<1>2. TypeOK'
  <2>1. Idle \in [pc : {"idle", "waiting"}, seq : Nat, kind : Kinds, prio : Prios, since : Nat]
    BY PriosFact DEF Idle, Kinds
  <2>2. caller[c].seq \in Nat
    BY DEF IInv, TypeOK
  <2> QED
    BY <1>1, <2>1, <2>2 DEF IInv, TypeOK, queueVars, workVars, timeVars
<1>3. QueueOrder' /\ RunOrder' /\ StartMark' /\ CapsRespected' /\ Accounted'
  BY <1>1 DEF IInv, QueueOrder, RunOrder, StartMark, CapsRespected, Waiting, Accounted,
              queueVars, workVars, timeVars
<1> QED
  BY <1>1, <1>2, <1>3 DEF IInv, queueVars

LEMMA PurgeInv == ASSUME IInv, Purge PROVE IInv'
<1> DEFINE live == {j \in jobs : ~Cancelled(j)}
<1>1. /\ jobs' = live /\ live \subseteq jobs
      /\ cancelled' = cancelled + Cardinality(jobs \ live)
      /\ worker.pc = "pop" /\ worker' \in {Resting, Choosing}
      /\ tickets' = {}
      /\ UNCHANGED <<seq, executed, rejected, replies, caller, jobStart, lastWait,
                     watchdog, timeVars>>
  BY DEF Purge
<1> HIDE DEF live
<1>2. CapsRespected' /\ IsFiniteSet(jobs')
  BY <1>1, ShrinkKeepsCaps DEF IInv
<1>3. /\ IsFiniteSet(jobs \ live)
      /\ Cardinality(jobs \ live) \in Nat /\ Cardinality(live) \in Nat
      /\ Cardinality(jobs) = Cardinality(live) + Cardinality(jobs \ live)
  <2>1. IsFiniteSet(jobs) /\ IsFiniteSet(live)
    BY <1>1, <1>2 DEF IInv
  <2>2. jobs \cap live = live
    BY <1>1
  <2>3. IsFiniteSet(jobs \ live) /\ Cardinality(jobs \ live) = Cardinality(jobs) - Cardinality(live)
    BY <2>1, <2>2, FS_Difference
  <2>4. Cardinality(jobs) \in Nat /\ Cardinality(live) \in Nat /\ Cardinality(jobs \ live) \in Nat
    BY <2>1, <2>3, FS_CardinalityType
  <2> QED
    BY <2>3, <2>4
<1>4. Accounted'
  BY <1>1, <1>3 DEF IInv, Accounted, TypeOK
<1>5. TypeOK'
  BY <1>1, <1>3 DEF IInv, TypeOK, timeVars
<1>6. QueueOrder'
  BY <1>1 DEF IInv, QueueOrder, timeVars
<1>7. RunOrder' /\ StartMark'
  BY <1>1 DEF IInv, RunOrder, StartMark, Resting, Choosing, timeVars
<1> QED
  BY <1>2, <1>4, <1>5, <1>6, <1>7 DEF IInv

LEMMA TakeInv == ASSUME IInv, NEW j \in jobs, Take(j) PROVE IInv'
<1>1. /\ jobs' = jobs \ {j} /\ executed' = executed + 1
      /\ lastWait' = now - j.born
      /\ worker' = [pc |-> "run", job |-> j, since |-> now]
      /\ jobStart' = now + skew
      /\ tickets' \subseteq tickets /\ moved' = 0
      /\ UNCHANGED <<seq, cancelled, rejected, replies, caller, watchdog, now, skew, clockSteps>>
  BY DEF Take, Age
<1>2. /\ j \in Job /\ j.born \in Nat /\ now \in Nat /\ skew \in Nat
      /\ j.seq \in 1..seq /\ j.born <= now
  BY DEF IInv, TypeOK, QueueOrder, Job
<1>3. CapsRespected' /\ IsFiniteSet(jobs')
  BY <1>1, ShrinkKeepsCaps DEF IInv
<1>4. Cardinality(jobs') = Cardinality(jobs) - 1 /\ Cardinality(jobs) \in Nat
  BY <1>1, FS_RemoveElement, FS_CardinalityType DEF IInv
<1>5. Accounted'
  BY <1>1, <1>4 DEF IInv, Accounted, TypeOK
<1>6. TypeOK'
  BY <1>1, <1>2 DEF IInv, TypeOK, timeVars
<1>7. QueueOrder'
  BY <1>1 DEF IInv, QueueOrder, timeVars
<1>8. RunOrder' /\ StartMark'
  BY <1>1, <1>2 DEF IInv, RunOrder, StartMark, timeVars
<1> QED
  BY <1>3, <1>5, <1>6, <1>7, <1>8 DEF IInv

LEMMA ReplyInv == ASSUME IInv, Reply PROVE IInv'
<1>1. /\ worker.pc = "run" /\ worker' = [worker EXCEPT !.pc = "replied"]
      /\ replies' \subseteq replies \cup {worker.job.seq}
      /\ UNCHANGED <<queueVars, tickets, caller, jobStart, lastWait, watchdog, timeVars>>
  BY DEF Reply
<1>2. worker \in [pc : {"run", "replied"}, job : Job, since : Nat] /\ worker.job.seq \in Nat
  BY <1>1 DEF IInv, TypeOK, Resting, Choosing, Job
<1>3. TypeOK'
  BY <1>1, <1>2 DEF IInv, TypeOK, queueVars, timeVars
<1>4. QueueOrder' /\ RunOrder' /\ StartMark' /\ CapsRespected' /\ Accounted'
  BY <1>1, <1>2 DEF IInv, QueueOrder, RunOrder, StartMark, CapsRespected, Waiting, Accounted,
                    queueVars, timeVars
<1> QED
  BY <1>1, <1>3, <1>4 DEF IInv, queueVars

LEMMA FinishInv == ASSUME IInv, Finish PROVE IInv'
<1>1. /\ worker.pc = "replied" /\ worker' = Resting /\ jobStart' = 0
      /\ lastWait' = now - worker.job.born /\ moved' = 0
      /\ UNCHANGED <<queueVars, callVars, watchdog, now, skew, clockSteps>>
  BY DEF Finish, Age
<1>2. worker \in [pc : {"run", "replied"}, job : Job, since : Nat]
  BY <1>1 DEF IInv, TypeOK, Resting, Choosing
<1>3. now - worker.job.born \in Nat
  BY <1>1, <1>2 DEF IInv, TypeOK, RunOrder, Job
<1>4. TypeOK'
  BY <1>1, <1>3 DEF IInv, TypeOK, queueVars, callVars, timeVars
<1>5. QueueOrder' /\ RunOrder' /\ StartMark' /\ CapsRespected' /\ Accounted'
  BY <1>1 DEF IInv, QueueOrder, RunOrder, StartMark, CapsRespected, Waiting, Accounted,
              queueVars, timeVars, Resting
<1> QED
  BY <1>1, <1>4, <1>5 DEF IInv, queueVars

\* Bite, Tick and SetClock leave the queue and the worker alone.
LEMMA TimeInv ==
  ASSUME IInv, Bite \/ Tick \/ \E d \in Skews : SetClock(d)
  PROVE  IInv'
<1>1. /\ UNCHANGED <<queueVars, callVars, worker, jobStart, lastWait>>
      /\ now' \in {now, now + 1} /\ watchdog' \in {watchdog, "resetting"}
      /\ skew' \in {skew} \cup Skews
      /\ clockSteps' \in {clockSteps, clockSteps + 1}
      /\ \/ skew' = skew /\ moved' = moved
         \/ worker.pc \in {"run", "replied"} /\ moved' = moved + skew' - skew
         \/ worker.pc \notin {"run", "replied"} /\ moved' = 0
  BY DEF Bite, Tick, SetClock, workVars, timeVars, IInv, TypeOK
<1>2. /\ now \in Nat /\ clockSteps \in Nat /\ skew \in Nat /\ skew' \in Nat
      /\ moved \in Int /\ moved' \in Int /\ jobStart \in Nat /\ jobs \subseteq Job /\ seq \in Nat
  BY <1>1, ConstantsAssumption DEF IInv, TypeOK
<1>3. TypeOK'
  BY <1>1, <1>2 DEF IInv, TypeOK, queueVars, callVars
<1>4. QueueOrder'
  BY <1>1, <1>2 DEF IInv, QueueOrder, queueVars, Job
<1>5. worker.pc \in {"run", "replied"} => worker.job.born \in Nat /\ worker.since \in Nat
  BY DEF IInv, TypeOK, Resting, Choosing, Job
<1>6. RunOrder' /\ StartMark'
  <2>1. RunOrder'
    BY <1>1, <1>2, <1>5 DEF IInv, RunOrder, queueVars
  <2>2. jobStart # 0 => StartMark'
    BY <1>1, <1>2, <1>5 DEF IInv, StartMark
  <2>3. jobStart = 0 => StartMark'
    BY <1>1 DEF StartMark
  <2> QED
    BY <2>1, <2>2, <2>3
<1>7. CapsRespected' /\ Accounted'
  BY <1>1 DEF IInv, CapsRespected, Waiting, Accounted, queueVars
<1> QED
  BY <1>1, <1>3, <1>4, <1>6, <1>7 DEF IInv, queueVars

LEMMA RestartInv == ASSUME IInv, Restart PROVE IInv'
<1>1. TypeOK'
  BY PriosFact DEF Restart, IInv, TypeOK, Idle, Kinds
<1>2. jobs' = {} /\ IsFiniteSet(jobs') /\ Cardinality(jobs') = 0
  BY FS_EmptySet DEF Restart
<1>3. QueueOrder' /\ RunOrder' /\ StartMark'
  BY DEF Restart, IInv, QueueOrder, RunOrder, StartMark, Resting
<1>4. CapsRespected'
  <2> SUFFICES ASSUME NEW p \in Prios PROVE Cardinality(Waiting(p)') <= Caps[p]
    BY DEF CapsRespected
  <2>1. Waiting(p)' = {}
    BY <1>2 DEF Waiting
  <2> QED
    BY <2>1, FS_EmptySet, ConstantsAssumption
<1>5. Accounted'
  BY <1>2 DEF Accounted, Restart
<1> QED
  BY <1>1, <1>2, <1>3, <1>4, <1>5 DEF IInv

LEMMA NextInv == IInv /\ [Next]_vars => IInv'
<1> SUFFICES ASSUME IInv, [Next]_vars PROVE IInv'
  OBVIOUS
<1>1. ASSUME NEW c \in Callers, Run(c) \/ Close(c) PROVE IInv'
  BY <1>1, RequestInv, ConstantsAssumption, PriosFact DEF Run, Close, Kinds
<1>2. CASE UNCHANGED vars
  BY <1>2 DEF vars, queueVars, callVars, workVars, timeVars, IInv, TypeOK, QueueOrder,
              RunOrder, StartMark, CapsRespected, Waiting, Accounted
<1> QED
  BY <1>1, <1>2, CallerInv, PurgeInv, TakeInv, ReplyInv, FinishInv, TimeInv, RestartInv
     DEF Next

THEOREM Invariance == Spec => []IInv
BY InitInv, NextInv, PTL DEF Spec

-----------------------------------------------------------------------------
(* The properties *)

\* Every variable keeps its type; in particular the waits the daemon reports
\* never come out negative (at/queue.rs:231, worker.rs:353).
THEOREM TypeCorrect == Spec => []TypeOK
BY Invariance, PTL DEF IInv

\* No level of the queue exceeds PRIORITY_CAPS (at/queue.rs:168-177).
THEOREM CapsHold == Spec => []CapsRespected
BY Invariance, PTL DEF IInv

\* Every accepted request is queued, executed or cancelled in the statistics
\* the daemon reports (at/queue.rs:250-264).
THEOREM AccountsBalance == Spec => []Accounted
BY Invariance, PTL DEF IInv

\* pop() never prefers a younger job to an older one that is as urgent, or
\* that has aged to P0 (at/queue.rs:218-228): no starvation by overtaking.
THEOREM NoUnfairOvertaking == Spec => NoOvertake
<1> DEFINE Fair == \A j, k \in jobs :
       /\ worker.pc = "purged" /\ worker'.pc = "run" /\ worker'.job = k
       /\ j.seq < k.seq
       => j.prio < k.prio /\ j.prio + Age(j) < Critical
<1>1. IInv /\ [Next]_vars => [Fair]_vars
  <2> SUFFICES ASSUME IInv, Next, NEW j \in jobs, NEW k \in jobs,
                      worker.pc = "purged", worker'.pc = "run", worker'.job = k,
                      j.seq < k.seq
               PROVE  j.prio < k.prio /\ j.prio + Age(j) < Critical
    OBVIOUS
  <2>1. PICK t \in jobs : Take(t)
    BY DEF Next, Run, Close, Request, Push, Refuse, Receive, GiveUp, Purge, Reply, Finish, Bite,
           Restart, Tick, SetClock, workVars, Resting, Choosing
  <2>2. t = k
    BY <2>1 DEF Take
  <2>3. Before(k, j) /\ ~(k.seq < j.seq)
    BY <2>1, <2>2 DEF Take, IInv, QueueOrder, TypeOK, Job
  <2>4. Effective(k) > Effective(j)
    BY <2>3 DEF Before
  <2>5. /\ j.prio \in 0..4 /\ k.prio \in 0..4 /\ j.born \in Nat /\ k.born \in Nat /\ now \in Nat
        /\ j.born <= k.born
    BY DEF IInv, TypeOK, QueueOrder, Job, Prios, Critical
  <2> QED
    BY <2>4, <2>5 DEF Effective, Age, Critical
<1>2. Spec => [][Fair]_vars
  BY Invariance, <1>1, PTL DEF Spec
<1> QED
  BY <1>2 DEF NoOvertake

\* The watchdog acts only on a running job, and only if JOB_CAP_MS is exceeded
\* by what it has run and the clock was set forward meanwhile, or if the clock was
\* set to before its start (worker.rs:368-377).
THEOREM WatchdogIsSound == Spec => WatchdogBitesOnlyWedged
<1> DEFINE Wedged ==
             watchdog = "polling" /\ watchdog' = "resetting"
               => /\ worker.pc \in {"run", "replied"}
                  /\ (SeemsToHaveRun > JobCap \/ SeemsToHaveRun < 0)
<1>1. IInv /\ [Next]_vars => [Wedged]_vars
  <2> SUFFICES ASSUME IInv, Next, watchdog = "polling", watchdog' = "resetting"
               PROVE  /\ worker.pc \in {"run", "replied"}
                      /\ (SeemsToHaveRun > JobCap \/ SeemsToHaveRun < 0)
    OBVIOUS
  <2>1. Bite
    BY DEF Next, Run, Close, Request, Receive, GiveUp, Purge, Take, Reply, Finish,
           Restart, Tick, SetClock, workVars
  <2>2. jobStart # 0 /\ WallElapsed > JobCap
    BY <2>1 DEF Bite, Overdue
  <2>3. worker.pc \in {"run", "replied"} /\ jobStart = worker.since + skew - moved
    BY <2>2 DEF IInv, StartMark
  <2>4. /\ worker.since \in Nat /\ now \in Nat /\ skew \in Nat /\ moved \in Int
        /\ JobCap \in Nat
    BY <2>3, ConstantsAssumption DEF IInv, TypeOK, Resting, Choosing
  <2> QED
    BY <2>2, <2>3, <2>4 DEF WallElapsed, SeemsToHaveRun
<1>2. Spec => [][Wedged]_vars
  BY Invariance, <1>1, PTL DEF Spec
<1> QED
  BY <1>2 DEF WatchdogBitesOnlyWedged

\* The scheduler implements AtSerial: one request at a time has the port, each
\* at most once and to its end (at/queue.rs:22-26, worker.rs:343-350).
THEOREM Refinement == Spec => ServesSerially
<1>1. Init => Serial!Init
  BY DEF Init, Serial!Init, Serial!Free, Resting
<1>2. IInv /\ [Next]_vars => [Serial!Next]_(Serial!vars)
  <2> SUFFICES ASSUME IInv, [Next]_vars PROVE [Serial!Next]_(Serial!vars)
    OBVIOUS
  <2> USE DEF Serial!vars
  <2>1. ASSUME NEW c \in Callers, NEW p \in Prios, NEW kind \in Kinds, Request(c, p, kind)
        PROVE  [Serial!Next]_(Serial!vars)
    <3>1. CASE Push(p, kind)
      <4> DEFINE new == [seq |-> seq + 1, prio |-> p, born |-> now, kind |-> kind]
      <4>1. jobs' = jobs \cup {new} /\ seq' = seq + 1 /\ worker' = worker /\ new.seq = seq + 1
        BY <2>1, <3>1 DEF Push, Request, workVars
      <4> HIDE DEF new
      <4>2. {j.seq : j \in jobs'} = {j.seq : j \in jobs} \cup {seq + 1}
        BY <4>1
      <4>3. Serial!Submit
        BY <4>1, <4>2 DEF Serial!Submit
      <4> QED
        BY <4>3 DEF Serial!Next
    <3>2. CASE Refuse(p)
      BY <2>1, <3>2 DEF Refuse, Request, workVars
    <3> QED
      BY <2>1, <3>1, <3>2 DEF Request
  <2>2. CASE Purge
    <3>1. /\ jobs' \subseteq jobs /\ seq' = seq
          /\ worker.pc # "run" /\ worker'.pc # "run"
      BY <2>2 DEF Purge, Resting, Choosing
    <3>2. Serial!Withdraw
      BY <3>1 DEF Serial!Withdraw
    <3> QED
      BY <3>2 DEF Serial!Next
  <2>3. ASSUME NEW j \in jobs, Take(j) PROVE [Serial!Next]_(Serial!vars)
    <3>1. /\ worker.pc = "purged" /\ worker'.pc = "run" /\ worker'.job = j
          /\ jobs' = jobs \ {j} /\ seq' = seq
      BY <2>3 DEF Take
    <3>2. {k.seq : k \in jobs'} = {k.seq : k \in jobs} \ {j.seq}
      BY <3>1 DEF IInv, QueueOrder
    <3>3. Serial!Serve
      BY <3>1, <3>2 DEF Serial!Serve, Serial!Free
    <3> QED
      BY <3>3 DEF Serial!Next
  <2>4. CASE Reply
    <3>1. Serial!Complete
      BY <2>4 DEF Reply, Serial!Complete, Serial!Free, queueVars, IInv, TypeOK, Resting, Choosing
    <3> QED
      BY <3>1 DEF Serial!Next
  <2>5. CASE Restart
    <3>1. Serial!Crash
      BY <2>5 DEF Restart, Serial!Crash, Serial!Free, Resting
    <3> QED
      BY <3>1 DEF Serial!Next
  <2>6. ASSUME UNCHANGED <<queueVars, worker>> PROVE [Serial!Next]_(Serial!vars)
    BY <2>6 DEF queueVars
  <2>7. CASE Finish
    BY <2>7 DEF Finish, queueVars, Resting
  <2>8. ASSUME NEW c \in Callers, Receive(c) \/ GiveUp(c) PROVE UNCHANGED <<queueVars, worker>>
    BY <2>8 DEF Receive, GiveUp, workVars
  <2>9. ASSUME Bite \/ Tick \/ \E d \in Skews : SetClock(d)
        PROVE  UNCHANGED <<queueVars, worker>>
    BY <2>9 DEF Bite, Tick, SetClock, workVars
  <2>10. ASSUME NEW c \in Callers, Run(c) \/ Close(c) PROVE [Serial!Next]_(Serial!vars)
    BY <2>10, <2>1, ConstantsAssumption, PriosFact DEF Run, Close, Kinds
  <2>11. CASE UNCHANGED vars
    BY <2>11, <2>6 DEF vars, queueVars, workVars
  <2> QED
    BY <2>2, <2>3, <2>4, <2>5, <2>6, <2>7, <2>8, <2>9, <2>10, <2>11 DEF Next
<1> QED
  BY Invariance, <1>1, <1>2, PTL DEF Spec, ServesSerially, Serial!Spec
=============================================================================
