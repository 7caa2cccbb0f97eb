------------------------------ MODULE TaskManager ------------------------------
(***************************************************************************)
(* The background tasks of async_runtime.rs: how one is accepted, started, *)
(* timed out, cancelled, settled and forgotten.  Submitting threads and    *)
(* cancelling threads run in the blocking pool, the futures one at a time  *)
(* on the event loop, the bodies in the blocking pool again; so they       *)
(* interleave at every release of a lock.                                  *)
(*                                                                         *)
(* finished_at is a time in milliseconds; here it is the rank of the event *)
(* (two tasks that finish in one millisecond are told apart: eviction      *)
(* could only confuse them if most of the history had finished in it).     *)
(* The operators named Faulty... are plausible mistakes in the definition  *)
(* that follows them.                                                      *)
(***************************************************************************)
EXTENDS Naturals, FiniteSets

CONSTANTS
  Submitters,   \* threads that call spawn()
  InRuntime,    \* those with a handle of the runtime, as the API's threads are
  Cap,          \* TASK_CAP
  History,      \* 64: the finished tasks that are remembered
  MaxTasks      \* bound: calls of spawn()

ASSUME TaskAssumption ==
  /\ Cap \in Nat /\ History \in Nat /\ MaxTasks \in Nat
  /\ Cap < History

VARIABLES
  seq,       \* TaskManager.seq
  table,     \* the keys of TaskManager.tasks
  info,      \* TaskInfo of every task, which its future holds on to
  future,    \* the future that drives each task
  body,      \* the closure given to spawn(): running, or what it returned
  told,      \* tasks whose cancel() answered "cancelled"
  submitter, \* what each submitting thread is doing
  finishes   \* how often a task was given a finished_at

vars == <<seq, table, info, future, body, told, submitter, finishes>>

-----------------------------------------------------------------------------
Tasks == 1..MaxTasks
InFlight == {"pending", "running"}
Final == {"completed", "failed", "timeout"}
Never == 0

Unused == [state |-> "none", finishedAt |-> Never, outcome |-> "none", abandoned |-> FALSE]
Fresh == [Unused EXCEPT !.state = "pending"]
Ready == [pc |-> "idle", id |-> 0]

Init ==
  /\ seq = 0
  /\ table = {}
  /\ info = [t \in Tasks |-> Unused]
  /\ future = [t \in Tasks |-> "none"]
  /\ body = [t \in Tasks |-> "none"]
  /\ told = {}
  /\ submitter = [s \in Submitters |-> Ready]
  /\ finishes = 0

Occupied == {t \in table : info[t].state \in InFlight}

FaultyInsert(s) ==              \* the number is the counter before it is raised
  /\ submitter[s].pc = "idle"
  /\ seq < MaxTasks
  /\ seq' = seq + 1
  /\ IF Cardinality(Occupied) >= Cap
     THEN UNCHANGED <<table, info, submitter>>
     ELSE /\ table' = table \cup {seq}
          /\ info' = [info EXCEPT ![seq] = Fresh]
          /\ submitter' = [submitter EXCEPT ![s] = [pc |-> "evict", id |-> seq]]
  /\ UNCHANGED <<future, body, told, finishes>>

\* spawn(), first lock: the task is refused or entered as Pending.  Its
\* number is used up either way.
Insert(s) ==
  /\ submitter[s].pc = "idle"
  /\ seq < MaxTasks
  /\ seq' = seq + 1
  /\ IF Cardinality(Occupied) >= Cap
     THEN UNCHANGED <<table, info, submitter>>
     ELSE /\ table' = table \cup {seq'}
          /\ info' = [info EXCEPT ![seq'] = Fresh]
          /\ submitter' = [submitter EXCEPT ![s] = [pc |-> "evict", id |-> seq']]
  /\ UNCHANGED <<future, body, told, finishes>>

Finished == {t \in table : info[t].finishedAt # Never}
Oldest(gone) == \A t \in gone, u \in Finished \ gone : info[t].finishedAt <= info[u].finishedAt
Excess == IF Cardinality(table) > History THEN Cardinality(table) - History ELSE 0

FaultyEvict(s) ==               \* the unfinished ones sort first
  /\ submitter[s].pc = "evict"
  /\ \E gone \in SUBSET table :
       /\ Cardinality(gone) = Excess
       /\ \A t \in gone, u \in table \ gone : info[t].finishedAt <= info[u].finishedAt
       /\ table' = table \ gone
  /\ submitter' = [submitter EXCEPT ![s].pc = "get"]
  /\ UNCHANGED <<seq, info, future, body, told, finishes>>

FaultyExcess(s) ==              \* one too few is dropped
  /\ submitter[s].pc = "evict"
  /\ \E gone \in SUBSET Finished :
       /\ Cardinality(gone) = IF Excess > 0 THEN Excess - 1 ELSE 0
       /\ Oldest(gone)
       /\ table' = table \ gone
  /\ submitter' = [submitter EXCEPT ![s].pc = "get"]
  /\ UNCHANGED <<seq, info, future, body, told, finishes>>

\* evict_finished(), second lock: the tasks that finished first are forgotten.
Evict(s) ==
  /\ submitter[s].pc = "evict"
  /\ \E gone \in SUBSET Finished :
       /\ Cardinality(gone) =
            IF Excess < Cardinality(Finished) THEN Excess ELSE Cardinality(Finished)
       /\ Oldest(gone)
       /\ table' = table \ gone
  /\ submitter' = [submitter EXCEPT ![s].pc = "get"]
  /\ UNCHANGED <<seq, info, future, body, told, finishes>>

\* Third lock: the handle is looked up again, and the future is handed to the
\* event loop.  A task that is not there would abort the daemon.  A thread
\* outside the runtime is told that it failed, but its task stays Pending.
Launch(s) ==
  /\ submitter[s].pc = "get"
  /\ submitter[s].id \in table
  /\ future' = IF s \in InRuntime THEN [future EXCEPT ![submitter[s].id] = "queued"] ELSE future
  /\ submitter' = [submitter EXCEPT ![s] = Ready]
  /\ UNCHANGED <<seq, table, info, body, told, finishes>>

-----------------------------------------------------------------------------
(* The event loop and the bodies *)

\* First poll: Running, whatever the state was; the body starts.
Begin(t) ==
  /\ future[t] = "queued"
  /\ info' = [info EXCEPT ![t].state = "running"]
  /\ future' = [future EXCEPT ![t] = "timed"]
  /\ body' = [body EXCEPT ![t] = "running"]
  /\ UNCHANGED <<seq, table, told, submitter, finishes>>

Return(t, result) ==
  /\ body[t] = "running"
  /\ body' = [body EXCEPT ![t] = result]
  /\ UNCHANGED <<seq, table, info, future, told, submitter, finishes>>

\* The info of a task is overwritten; a new finished_at is a new instant.
Write(t, i) ==
  /\ info' = [info EXCEPT ![t] = i]
  /\ finishes' = IF i.finishedAt = info[t].finishedAt THEN finishes ELSE finishes + 1

Ended(i, state) == [i EXCEPT !.state = state, !.finishedAt = finishes + 1]
Abandoned(i) == [i EXCEPT !.abandoned = TRUE]

\* What a result makes of a task: nothing if its state is no longer open.
Settled(i, result) ==
  IF i.state \in InFlight
  THEN [Ended(i, IF result = "ok" THEN "completed" ELSE "failed") EXCEPT !.outcome = result]
  ELSE i

\* The body returned before the timeout.
Settle(t) ==
  /\ future[t] = "timed"
  /\ body[t] \in {"ok", "err"}
  /\ Write(t, Settled(info[t], body[t]))
  /\ future' = [future EXCEPT ![t] = "gone"]
  /\ UNCHANGED <<seq, table, body, told, submitter>>

FaultyTimeout(t) ==             \* the guard waits for the body first
  /\ future[t] = "timed"
  /\ body[t] \in {"ok", "err"}
  /\ Write(t, Abandoned(Ended(info[t], "timeout")))
  /\ future' = [future EXCEPT ![t] = "late"]
  /\ UNCHANGED <<seq, table, body, told, submitter>>

\* TASK_TIMEOUT passed: mark_timeout() goes through the table, so a task that
\* was forgotten meanwhile is not marked.
Timeout(t) ==
  /\ future[t] = "timed"
  /\ body[t] = "running"
  /\ IF t \in table /\ info[t].state \in InFlight
     THEN Write(t, Abandoned(Ended(info[t], "timeout")))
     ELSE UNCHANGED <<info, finishes>>
  /\ future' = [future EXCEPT ![t] = "late"]
  /\ UNCHANGED <<seq, table, body, told, submitter>>

FaultySettleLate(t) ==          \* the late result overwrites the state
  /\ future[t] = "late"
  /\ body[t] \in {"ok", "err"}
  /\ Write(t, Abandoned(Settled([info[t] EXCEPT !.state = "running"], body[t])))
  /\ future' = [future EXCEPT ![t] = "gone"]
  /\ UNCHANGED <<seq, table, body, told, submitter>>

\* The body of a timed-out task returned after all.
SettleLate(t) ==
  /\ future[t] = "late"
  /\ body[t] \in {"ok", "err"}
  /\ Write(t, Abandoned(Settled(info[t], body[t])))
  /\ future' = [future EXCEPT ![t] = "gone"]
  /\ UNCHANGED <<seq, table, body, told, submitter>>

-----------------------------------------------------------------------------
\* cancel() of a task that is listed.  The bodies ignore the token.
Cancel(t) ==
  /\ t \in table
  /\ \/ /\ info[t].state = "pending"
        /\ Write(t, Abandoned(Ended(info[t], "cancelled")))
        /\ told' = told \cup {t}
     \/ /\ info[t].state = "running"
        /\ Write(t, Abandoned(info[t]))
        /\ UNCHANGED told
  /\ UNCHANGED <<seq, table, future, body, submitter>>

-----------------------------------------------------------------------------
Driver(t) == Begin(t) \/ Settle(t) \/ Timeout(t) \/ SettleLate(t)

Next ==
  \/ \E s \in Submitters : Insert(s) \/ Evict(s) \/ Launch(s)
  \/ \E t \in Tasks : Driver(t) \/ Return(t, "ok") \/ Return(t, "err") \/ Cancel(t)

Spec == Init /\ [][Next]_vars

\* Threads and the event loop are scheduled and timers fire; a body may never
\* return: there is no fairness on Return.
Fairness ==
  /\ \A s \in Submitters : WF_vars(Evict(s)) /\ WF_vars(Launch(s))
  /\ \A t \in Tasks : WF_vars(Driver(t))

FairSpec == Spec /\ Fairness

-----------------------------------------------------------------------------
(* Properties *)

Infos == [state : {"none", "cancelled"} \cup InFlight \cup Final, finishedAt : Nat,
          outcome : {"none", "ok", "err"}, abandoned : BOOLEAN]

\* The state keeps its shape; a task is listed only once it has been numbered.
TypeOK ==
  /\ seq \in 0..MaxTasks
  /\ table \subseteq 1..seq
  /\ info \in [Tasks -> Infos]
  /\ future \in [Tasks -> {"none", "queued", "timed", "late", "gone"}]
  /\ body \in [Tasks -> {"none", "running", "ok", "err"}]
  /\ told \subseteq Tasks
  /\ submitter \in [Submitters -> [pc : {"idle", "evict", "get"}, id : 0..MaxTasks]]
  /\ finishes \in Nat

\* A task nobody cancelled is listed until it has ended, however many others
\* come and go: it can be queried and it holds its slot (async_runtime.rs:343-361).
OpenIsListed ==
  \A t \in 1..seq : info[t].state \in InFlight /\ t \notin told => t \in table

\* Whatever other threads do, the table outgrows its limit only by the tasks
\* of those between the insertion and the eviction (async_runtime.rs:344-347).
HistoryBounded ==
  Cardinality(table) <= History + Cardinality({s \in Submitters : submitter[s].pc = "evict"})

\* A task is Completed or Failed only if its body did return, and with that
\* result: the state never claims an end of the operation that did not happen
\* (async_runtime.rs:22-25).
HonestState ==
  \A t \in Tasks :
    /\ info[t].state = "completed" => body[t] = "ok"
    /\ info[t].state = "failed" => body[t] = "err"

\* A final state is final: no late result, timeout or cancel() changes it, or
\* the instant by which it is evicted (the state guards at async_runtime.rs:215,
\* 245 and 334).
FinalIsFinal ==
  [][\A t \in Tasks : info[t].state \in Final =>
       info'[t].state = info[t].state /\ info'[t].finishedAt = info[t].finishedAt]_vars

\* Tasks whose spawn() failed after they were entered: nobody drives them.
Orphans == {t \in 1..seq : future[t] = "none"} \
           {submitter[s].id : s \in {r \in Submitters : submitter[r].pc # "idle"}}

\* A task gives its slot back even if its body never returns, unless its
\* submitter had no handle of the runtime (async_runtime.rs:109-111, 190-195).
SlotFreed == \A t \in Tasks : (t \in Occupied) ~> (t \notin Occupied \/ t \in Orphans)

-----------------------------------------------------------------------------
(* What the documentation says and the code does not do *)

\* async_runtime.rs:27 and the test at 462: a task that was cancelled while it
\* was Pending is not executed.
CancelledNeverRuns == \A t \in told : body[t] = "none"
=============================================================================
