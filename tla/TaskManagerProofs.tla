--------------------------- MODULE TaskManagerProofs ---------------------------
(***************************************************************************)
(* TaskManager for any number of submitting threads, tasks, slots and      *)
(* remembered tasks: a state never claims an end that did not happen, a    *)
(* final state is final, a task nobody cancelled stays listed until it has *)
(* ended, and the table keeps to its history.                              *)
(***************************************************************************)
EXTENDS TaskManager, FiniteSetTheorems, TLAPS

\* Where a future is tells how far its body and its state can be.
Driven(t) ==
  /\ t > seq => info[t].state = "none" /\ future[t] = "none"
  /\ future[t] \in {"none", "queued"} =>
       body[t] = "none" /\ info[t].state \in {"none", "pending", "cancelled"}
  /\ future[t] = "gone" => body[t] \in {"ok", "err"}
  /\ info[t].state = "none" => t \notin table /\ future[t] = "none"

\* The state claims no more than the body did.
Honest(t) ==
  /\ info[t].state = "completed" => body[t] = "ok"
  /\ info[t].state = "failed" => body[t] = "err"

\* An open task has a finished_at only if it was cancelled before it began.
Unfinished(t) ==
  /\ info[t].state = "pending" => info[t].finishedAt = Never
  /\ info[t].state = "running" /\ t \notin told => info[t].finishedAt = Never
  /\ info[t].state = "cancelled" => t \in told

Listed(t) == info[t].state \in InFlight /\ t \notin told => t \in table

\* A submitter between insertion and launch is the only one to hold its task.
Launching ==
  \A s \in Submitters : submitter[s].pc # "idle" =>
    /\ submitter[s].id \in 1..seq
    /\ future[submitter[s].id] = "none"
    /\ info[submitter[s].id].state # "none"
    /\ \A r \in Submitters \ {s} : submitter[r].pc # "idle" => submitter[r].id # submitter[s].id

TaskInv == \A t \in Tasks : Driven(t) /\ Honest(t) /\ Unfinished(t) /\ Listed(t)

IInv == TypeOK /\ TaskInv /\ Launching

-----------------------------------------------------------------------------
\* A written info is an info, and the instants stay numbers.
LEMMA WriteType ==
  ASSUME info \in [Tasks -> Infos], finishes \in Nat, NEW t \in Tasks, NEW i \in Infos, Write(t, i)
  PROVE  info' \in [Tasks -> Infos] /\ finishes' \in Nat
  BY DEF Write

\* The changes made to an info keep it an info.
LEMMA InfoType ==
  ASSUME finishes \in Nat, NEW i \in Infos, NEW state \in InFlight \cup Final \cup {"cancelled"}
  PROVE  Ended(i, state) \in Infos /\ Abandoned(i) \in Infos
<1>1. Abandoned(i) \in Infos
  BY DEF Abandoned, Infos
<1>2. [i EXCEPT !.state = state] \in Infos
  BY DEF Infos
<1>3. \A j \in Infos : [j EXCEPT !.finishedAt = finishes + 1] \in Infos
  BY DEF Infos
<1>4. Ended(i, state) = [[i EXCEPT !.state = state] EXCEPT !.finishedAt = finishes + 1]
  BY DEF Ended
<1> QED
  BY <1>1, <1>2, <1>3, <1>4

LEMMA SettledType ==
  ASSUME finishes \in Nat, NEW i \in Infos, NEW result \in {"ok", "err"}
  PROVE  Settled(i, result) \in Infos
<1> DEFINE end == IF result = "ok" THEN "completed" ELSE "failed"
<1>1. end \in InFlight \cup Final \cup {"cancelled"}
  BY DEF Final
<1>2. Ended(i, end) \in Infos
  BY <1>1, InfoType
<1>3. [Ended(i, end) EXCEPT !.outcome = result] \in Infos
  BY <1>2 DEF Infos
<1> QED
  BY <1>3 DEF Settled

-----------------------------------------------------------------------------
LEMMA Initial == Init => IInv
<1> SUFFICES ASSUME Init PROVE IInv
  OBVIOUS
<1>1. TypeOK
  <2>1. Unused \in Infos
    BY DEF Unused, Infos, Never
  <2>2. info \in [Tasks -> Infos] /\ Never \in Nat
    BY <2>1 DEF Init, Never
  <2>3. submitter \in [Submitters -> [pc : {"idle", "evict", "get"}, id : 0..MaxTasks]]
    BY TaskAssumption DEF Init, Ready
  <2> QED
    BY <2>2, <2>3, TaskAssumption DEF Init, TypeOK
<1>2. TaskInv
  BY DEF Init, TaskInv, Driven, Honest, Unfinished, Listed, Tasks, Unused, InFlight
<1>3. Launching
  BY DEF Init, Launching, Ready
<1> QED
  BY <1>1, <1>2, <1>3 DEF IInv

-----------------------------------------------------------------------------
(* One lemma per action *)

LEMMA InsertStep ==
  ASSUME IInv, NEW s \in Submitters, Insert(s)
  PROVE  IInv'
<1> USE TaskAssumption DEF Tasks
<1>1. CASE Cardinality(Occupied) >= Cap
  <2>0. seq < MaxTasks /\ seq' = seq + 1
        /\ UNCHANGED <<table, info, submitter, future, body, told, finishes>>
    BY <1>1 DEF Insert
  <2>1. TypeOK'
    BY <2>0 DEF IInv, TypeOK
  <2>2. TaskInv'
    BY <1>1 DEF IInv, TypeOK, TaskInv, Driven, Honest, Unfinished, Listed, Insert
  <2>3. Launching'
    BY <1>1 DEF IInv, TypeOK, Launching, Insert
  <2> QED
    BY <2>1, <2>2, <2>3 DEF IInv
<1>2. CASE ~(Cardinality(Occupied) >= Cap)
  <2>1. /\ seq' = seq + 1 /\ seq' \in Tasks
        /\ table' = table \cup {seq'}
        /\ info' = [info EXCEPT ![seq'] = Fresh]
        /\ submitter' = [submitter EXCEPT ![s] = [pc |-> "evict", id |-> seq']]
        /\ future' = future /\ body' = body /\ told' = told /\ finishes' = finishes
    BY <1>2 DEF IInv, TypeOK, Insert
  <2>2. Fresh \in Infos /\ Fresh.state = "pending" /\ Fresh.finishedAt = Never
    BY DEF Fresh, Unused, Infos, InFlight, Never
  <2>3. TypeOK'
    BY <2>1, <2>2 DEF IInv, TypeOK
  <2>4. ASSUME NEW t \in Tasks
        PROVE  (Driven(t) /\ Honest(t) /\ Unfinished(t) /\ Listed(t))'
    <3>1. Driven(t) /\ Honest(t) /\ Unfinished(t) /\ Listed(t)
      BY <2>4 DEF IInv, TaskInv
    <3>2. CASE t = seq'
      <4>1. info'[t] = Fresh /\ future'[t] = "none" /\ body'[t] = "none"
        BY <2>1, <3>1, <3>2 DEF Driven, IInv, TypeOK
      <4> QED
        BY <2>1, <2>2, <3>2, <4>1 DEF Driven, Honest, Unfinished, Listed, IInv, TypeOK
    <3>3. CASE t # seq'
      <4>1. info'[t] = info[t] /\ (t \in table' <=> t \in table)
        BY <2>1, <3>3 DEF IInv, TypeOK
      <4> QED
        BY <2>1, <3>1, <3>3, <4>1 DEF Driven, Honest, Unfinished, Listed, IInv, TypeOK
    <3> QED
      BY <3>2, <3>3
  <2>5. Launching'
    <3>1. future[seq'] = "none" /\ info'[seq'].state # "none"
      BY <2>1, <2>2 DEF IInv, TypeOK, TaskInv, Driven
    <3>2. \A t \in 1..seq : info'[t] = info[t]
      BY <2>1 DEF IInv, TypeOK
    <3> QED
      BY <2>1, <3>1, <3>2 DEF IInv, TypeOK, Launching
  <2> QED
    BY <2>3, <2>4, <2>5 DEF IInv, TaskInv
<1> QED
  BY <1>1, <1>2

LEMMA EvictStep ==
  ASSUME IInv, NEW s \in Submitters, Evict(s)
  PROVE  IInv'
<1>1. PICK gone \in SUBSET Finished : table' = table \ gone
  BY DEF Evict
<1>2. submitter' = [submitter EXCEPT ![s].pc = "get"] /\ submitter[s].pc = "evict"
      /\ seq' = seq /\ info' = info /\ future' = future /\ body' = body /\ told' = told
      /\ finishes' = finishes
  BY DEF Evict
<1>3. TypeOK'
  BY <1>1, <1>2 DEF IInv, TypeOK
<1>4. TaskInv'
  <2> SUFFICES ASSUME NEW t \in Tasks
               PROVE  (Driven(t) /\ Honest(t) /\ Unfinished(t) /\ Listed(t))'
    BY DEF TaskInv
  <2>1. Driven(t) /\ Honest(t) /\ Unfinished(t) /\ Listed(t)
    BY DEF IInv, TaskInv
  <2>2. Driven(t)' /\ Honest(t)' /\ Unfinished(t)'
    BY <1>1, <1>2, <2>1 DEF Driven, Honest, Unfinished
  <2>3. Listed(t)'
    BY <1>1, <1>2, <2>1 DEF Listed, Unfinished, Finished, InFlight
  <2> QED
    BY <2>2, <2>3
<1>5. Launching'
  BY <1>2 DEF IInv, TypeOK, Launching
<1> QED
  BY <1>3, <1>4, <1>5 DEF IInv

LEMMA LaunchStep ==
  ASSUME IInv, NEW s \in Submitters, Launch(s)
  PROVE  IInv'
<1> DEFINE n == submitter[s].id
<1>1. n \in Tasks /\ future[n] = "none"
  BY DEF IInv, TypeOK, Launching, Launch, Tasks
<1>2. TypeOK'
  <2>1. Ready \in [pc : {"idle", "evict", "get"}, id : 0..MaxTasks]
    BY TaskAssumption DEF Ready
  <2> QED
    BY <1>1, <2>1 DEF IInv, TypeOK, Launch
<1>3. TaskInv'
  BY <1>1 DEF IInv, TypeOK, TaskInv, Launching, Driven, Honest, Unfinished, Listed, Launch, Tasks
<1>4. Launching'
  BY DEF IInv, TypeOK, Launching, Launch, Ready
<1> QED
  BY <1>2, <1>3, <1>4 DEF IInv

\* A task whose future has been started has a number, and no submitter holds it.
LEMMA StartedTask ==
  ASSUME IInv, NEW t \in Tasks, future[t] # "none"
  PROVE  /\ t \in 1..seq
         /\ \A s \in Submitters : submitter[s].pc # "idle" => submitter[s].id # t
  BY DEF IInv, TaskInv, Driven, Launching, Tasks, TypeOK

\* What is left to show of a step of the future of one task, or of its body.
LEMMA OneTask ==
  ASSUME IInv, NEW t \in Tasks, future[t] # "none",
         UNCHANGED <<seq, table, told, submitter>>,
         TypeOK',
         \A u \in Tasks \ {t} : info'[u] = info[u] /\ future'[u] = future[u] /\ body'[u] = body[u],
         (Driven(t) /\ Honest(t) /\ Unfinished(t) /\ Listed(t))'
  PROVE  IInv'
<1>1. TaskInv'
  <2> SUFFICES ASSUME NEW u \in Tasks \ {t}
               PROVE  (Driven(u) /\ Honest(u) /\ Unfinished(u) /\ Listed(u))'
    BY DEF TaskInv
  <2>1. Driven(u) /\ Honest(u) /\ Unfinished(u) /\ Listed(u)
    BY DEF IInv, TaskInv
  <2> QED
    BY <2>1 DEF Driven, Honest, Unfinished, Listed
<1>2. Launching'
  <2> SUFFICES ASSUME NEW s \in Submitters, submitter[s].pc # "idle"
               PROVE  future'[submitter[s].id] = "none" /\ info'[submitter[s].id].state # "none"
    BY DEF IInv, Launching
  <2>1. /\ submitter[s].id \in Tasks \ {t} /\ future[submitter[s].id] = "none"
        /\ info[submitter[s].id].state # "none"
    BY StartedTask DEF IInv, TypeOK, Launching, Tasks
  <2> QED
    BY <2>1
<1> QED
  BY <1>1, <1>2 DEF IInv

LEMMA BeginStep ==
  ASSUME IInv, NEW t \in Tasks, Begin(t)
  PROVE  IInv'
<1>1. t \in 1..seq /\ future[t] = "queued" /\ body[t] = "none"
      /\ info[t].state \in {"pending", "cancelled", "none"}
  BY StartedTask DEF IInv, TaskInv, Driven, Begin
<1>2. info' = [info EXCEPT ![t].state = "running"] /\ [info[t] EXCEPT !.state = "running"] \in Infos
  BY DEF IInv, TypeOK, Begin, Infos, InFlight
<1>3. TypeOK'
  BY <1>2 DEF IInv, TypeOK, Begin
<1>4. info'[t].state = "running" /\ info'[t].finishedAt = info[t].finishedAt
      /\ future'[t] = "timed" /\ body'[t] = "running"
  BY <1>2 DEF IInv, TypeOK, Begin, Infos
<1>5. (Driven(t) /\ Honest(t) /\ Unfinished(t) /\ Listed(t))'
  <2>1. Driven(t) /\ Honest(t) /\ Unfinished(t) /\ Listed(t)
    BY DEF IInv, TaskInv
  <2>2. info[t].state # "none"
    BY <1>1, <2>1 DEF Driven
  <2> QED
    BY <1>1, <1>4, <2>1, <2>2 DEF Begin, Driven, Honest, Unfinished, Listed, InFlight, IInv, TypeOK
<1> QED
  BY <1>1, <1>3, <1>5, OneTask DEF Begin, IInv, TypeOK

LEMMA ReturnStep ==
  ASSUME IInv, NEW t \in Tasks, NEW result \in {"ok", "err"}, Return(t, result)
  PROVE  IInv'
<1>1. body[t] = "running" /\ body'[t] = result
  BY DEF IInv, TypeOK, Return
<1>2. future[t] \notin {"none", "queued"}
  BY <1>1 DEF IInv, TaskInv, Driven
<1>3. TypeOK'
  BY DEF IInv, TypeOK, Return
<1>4. (Driven(t) /\ Honest(t) /\ Unfinished(t) /\ Listed(t))'
  BY <1>1, <1>2 DEF IInv, TaskInv, Return, Driven, Honest, Unfinished, Listed
<1> QED
  BY <1>2, <1>3, <1>4, OneTask DEF Return, IInv, TypeOK

\* What Settled makes of a task whose body returned.
LEMMA SettledTask ==
  ASSUME IInv, NEW t \in Tasks, body[t] \in {"ok", "err"}, NEW i \in Infos,
         i = Settled(info[t], body[t]) \/ i = Abandoned(Settled(info[t], body[t]))
  PROVE  \/ i.state = info[t].state /\ i.finishedAt = info[t].finishedAt /\ i.state \notin InFlight
         \/ i.state = IF body[t] = "ok" THEN "completed" ELSE "failed"
<1>1. info[t] \in Infos
  BY DEF IInv, TypeOK
<1> QED
  BY <1>1 DEF Settled, Abandoned, Ended, Infos

LEMMA SettleStep ==
  ASSUME IInv, NEW t \in Tasks, Settle(t) \/ SettleLate(t)
  PROVE  IInv'
<1>1. PICK i \in Infos :
        /\ Write(t, i)
        /\ i = Settled(info[t], body[t]) \/ i = Abandoned(Settled(info[t], body[t]))
  <2>1. Settled(info[t], body[t]) \in Infos
    BY SettledType DEF IInv, TypeOK, Settle, SettleLate
  <2>2. Abandoned(Settled(info[t], body[t])) \in Infos
    BY <2>1 DEF Abandoned, Infos
  <2> QED
    BY <2>1, <2>2 DEF Settle, SettleLate
<1>2. body[t] \in {"ok", "err"} /\ future[t] \in {"timed", "late"}
      /\ future' = [future EXCEPT ![t] = "gone"] /\ UNCHANGED <<seq, table, body, told, submitter>>
  BY DEF Settle, SettleLate
<1>3. info' = [info EXCEPT ![t] = i] /\ info' \in [Tasks -> Infos] /\ finishes' \in Nat
  BY <1>1, WriteType DEF IInv, TypeOK, Write
<1>4. TypeOK'
  BY <1>2, <1>3 DEF IInv, TypeOK
<1>5. (Driven(t) /\ Honest(t) /\ Unfinished(t) /\ Listed(t))'
  <2>1. Driven(t) /\ Honest(t) /\ Unfinished(t) /\ Listed(t) /\ t \in 1..seq
    BY <1>2, StartedTask DEF IInv, TaskInv
  <2>2. info'[t] = i /\ future'[t] = "gone"
    BY <1>2, <1>3 DEF IInv, TypeOK
  <2>3. \/ i.state = info[t].state /\ i.finishedAt = info[t].finishedAt /\ i.state \notin InFlight
        \/ i.state = IF body[t] = "ok" THEN "completed" ELSE "failed"
    BY <1>1, <1>2, SettledTask
  <2> QED
    BY <1>2, <2>1, <2>2, <2>3 DEF Driven, Honest, Unfinished, Listed, InFlight
<1> QED
  BY <1>2, <1>3, <1>4, <1>5, OneTask DEF IInv, TypeOK

LEMMA TimeoutStep ==
  ASSUME IInv, NEW t \in Tasks, Timeout(t)
  PROVE  IInv'
<1> DEFINE i == Abandoned(Ended(info[t], "timeout"))
<1>1. future[t] = "timed" /\ body[t] = "running" /\ future' = [future EXCEPT ![t] = "late"]
      /\ UNCHANGED <<seq, table, body, told, submitter>>
  BY DEF Timeout
<1>2. Driven(t) /\ Honest(t) /\ Unfinished(t) /\ Listed(t) /\ t \in 1..seq
  BY <1>1, StartedTask DEF IInv, TaskInv
<1>3. i \in Infos /\ i.state = "timeout"
  <2>1. info[t] \in Infos /\ finishes \in Nat
    BY DEF IInv, TypeOK
  <2>2. Ended(info[t], "timeout") \in Infos
    BY <2>1, InfoType DEF Final
  <2>3. Ended(info[t], "timeout").state = "timeout"
    BY <2>1 DEF Ended, Infos
  <2> QED
    BY <2>2, <2>3 DEF Abandoned, Infos
<1>4. CASE t \in table /\ info[t].state \in InFlight
  <2>1. info' = [info EXCEPT ![t] = i] /\ info' \in [Tasks -> Infos] /\ finishes' \in Nat
    BY <1>3, <1>4, WriteType DEF Timeout, Write, IInv, TypeOK
  <2>2. TypeOK'
    BY <1>1, <2>1 DEF IInv, TypeOK
  <2>3. info'[t].state = "timeout" /\ future'[t] = "late"
    BY <1>1, <1>3, <2>1 DEF IInv, TypeOK
  <2>4. (Driven(t) /\ Honest(t) /\ Unfinished(t) /\ Listed(t))'
    BY <1>1, <1>2, <2>3 DEF Driven, Honest, Unfinished, Listed, InFlight
  <2> QED
    BY <1>1, <2>1, <2>2, <2>4, OneTask DEF IInv, TypeOK
<1>5. CASE ~(t \in table /\ info[t].state \in InFlight)
  <2>1. UNCHANGED <<info, finishes>>
    BY <1>5 DEF Timeout
  <2>2. TypeOK'
    BY <1>1, <2>1 DEF IInv, TypeOK
  <2>3. (Driven(t) /\ Honest(t) /\ Unfinished(t) /\ Listed(t))'
    BY <1>1, <1>2, <2>1 DEF Driven, Honest, Unfinished, Listed, IInv, TypeOK
  <2> QED
    BY <1>1, <2>1, <2>2, <2>3, OneTask DEF IInv, TypeOK
<1> QED
  BY <1>4, <1>5

LEMMA CancelStep ==
  ASSUME IInv, NEW t \in Tasks, Cancel(t)
  PROVE  IInv'
<1>1. PICK i \in Infos :
        /\ Write(t, i)
        /\ \/ i.state = "cancelled" /\ told' = told \cup {t}
           \/ i.state = info[t].state /\ i.finishedAt = info[t].finishedAt /\ told' = told
              /\ info[t].state = "running"
  <2> DEFINE e == Ended(info[t], "cancelled")
  <2>0. info[t] \in Infos /\ finishes \in Nat
    BY DEF IInv, TypeOK
  <2>1. info[t] \in Infos /\ e \in Infos /\ e.state = "cancelled"
    BY <2>0, InfoType DEF Ended, Infos
  <2>2. Abandoned(e) \in Infos /\ Abandoned(e).state = "cancelled"
    BY <2>1 DEF Abandoned, Infos
  <2>3. /\ Abandoned(info[t]) \in Infos
        /\ Abandoned(info[t]).state = info[t].state
        /\ Abandoned(info[t]).finishedAt = info[t].finishedAt
    BY <2>1 DEF Abandoned, Infos
  <2> QED
    BY <2>2, <2>3 DEF Cancel
<1>2. t \in table /\ info[t].state \in InFlight
      /\ UNCHANGED <<seq, table, future, body, submitter>>
  BY DEF Cancel, InFlight
<1>3. info' = [info EXCEPT ![t] = i] /\ info' \in [Tasks -> Infos] /\ finishes' \in Nat
  BY <1>1, WriteType DEF IInv, TypeOK, Write
<1>4. TypeOK'
  BY <1>1, <1>2, <1>3 DEF IInv, TypeOK
<1>5. TaskInv'
  <2> SUFFICES ASSUME NEW u \in Tasks
               PROVE  (Driven(u) /\ Honest(u) /\ Unfinished(u) /\ Listed(u))'
    BY DEF TaskInv
  <2>1. Driven(u) /\ Honest(u) /\ Unfinished(u) /\ Listed(u)
    BY DEF IInv, TaskInv
  <2>2. CASE u = t
    <3>1. info'[u] = i
      BY <1>3, <2>2 DEF IInv, TypeOK
    <3>2. u \in 1..seq
      BY <1>2, <2>2 DEF IInv, TypeOK
    <3> QED
      BY <1>1, <1>2, <2>1, <2>2, <3>1, <3>2 DEF Driven, Honest, Unfinished, Listed, InFlight
  <2>3. CASE u # t
    <3>1. info'[u] = info[u] /\ (u \in told' <=> u \in told)
      BY <1>1, <1>3, <2>3 DEF IInv, TypeOK
    <3> QED
      BY <1>2, <2>1, <3>1 DEF Driven, Honest, Unfinished, Listed
  <2> QED
    BY <2>2, <2>3
<1>6. Launching'
  <2>1. \A u \in Tasks : info[u].state # "none" => info'[u].state # "none"
    BY <1>1, <1>3 DEF IInv, TypeOK
  <2> QED
    BY <1>2, <2>1 DEF IInv, TypeOK, Launching, Tasks
<1> QED
  BY <1>4, <1>5, <1>6 DEF IInv

LEMMA StutterStep ==
  ASSUME IInv, UNCHANGED vars
  PROVE  IInv'
<1>1. TypeOK'
  BY DEF IInv, TypeOK, vars
<1>2. TaskInv'
  BY DEF IInv, TaskInv, Driven, Honest, Unfinished, Listed, vars
<1>3. Launching'
  BY DEF IInv, Launching, vars
<1> QED
  BY <1>1, <1>2, <1>3 DEF IInv

-----------------------------------------------------------------------------
\* The strengthened invariant holds in every reachable state.
THEOREM Invariance == Spec => []IInv
<1>1. Init => IInv
  BY Initial
<1>2. IInv /\ [Next]_vars => IInv'
  <2> SUFFICES ASSUME IInv, [Next]_vars PROVE IInv'
    OBVIOUS
  <2>1. CASE \E s \in Submitters : Insert(s) \/ Evict(s) \/ Launch(s)
    BY <2>1, InsertStep, EvictStep, LaunchStep
  <2>2. CASE \E t \in Tasks : Driver(t) \/ Return(t, "ok") \/ Return(t, "err") \/ Cancel(t)
    BY <2>2, BeginStep, SettleStep, TimeoutStep, ReturnStep, CancelStep DEF Driver
  <2>3. CASE UNCHANGED vars
    BY <2>3, StutterStep
  <2> QED
    BY <2>1, <2>2, <2>3 DEF Next
<1> QED
  BY <1>1, <1>2, PTL DEF Spec

\* The state keeps its shape; only numbered tasks are listed.
THEOREM TypeCorrect == Spec => []TypeOK
<1>1. IInv => TypeOK
  BY DEF IInv
<1> QED
  BY <1>1, Invariance, PTL

\* No state claims an end of the operation that did not happen.
THEOREM StateIsHonest == Spec => []HonestState
<1>1. IInv => HonestState
  BY DEF IInv, TaskInv, Honest, HonestState
<1> QED
  BY <1>1, Invariance, PTL

\* A task nobody cancelled is listed until it has ended.
THEOREM OpenTasksListed == Spec => []OpenIsListed
<1>1. IInv => OpenIsListed
  BY TaskAssumption DEF IInv, TypeOK, TaskInv, Listed, OpenIsListed, Tasks
<1> QED
  BY <1>1, Invariance, PTL

\* No late result, timeout or cancellation changes a final state or its instant.
THEOREM FinalStaysFinal == Spec => FinalIsFinal
<1> DEFINE Kept == \A t \in Tasks : info[t].state \in Final =>
             info'[t].state = info[t].state /\ info'[t].finishedAt = info[t].finishedAt
<1>1. IInv /\ [Next]_vars => [Kept]_vars
  <2> SUFFICES ASSUME IInv, Next, NEW t \in Tasks, info[t].state \in Final
               PROVE  info'[t].state = info[t].state /\ info'[t].finishedAt = info[t].finishedAt
    BY DEF vars
  <2>1. info \in [Tasks -> Infos] /\ info[t].state \notin InFlight /\ info[t].state # "none"
    BY DEF IInv, TypeOK, Final, InFlight
  <2>2. ASSUME NEW s \in Submitters, Insert(s) \/ Evict(s) \/ Launch(s)
        PROVE  info'[t] = info[t]
    <3>1. seq \in Nat /\ (t = seq + 1 => info[t].state = "none")
      BY DEF IInv, TypeOK, TaskInv, Driven
    <3> QED
      BY <2>1, <2>2, <3>1 DEF Insert, Evict, Launch
  <2>3. ASSUME NEW u \in Tasks, Begin(u)
        PROVE  info'[t] = info[t]
    <3>1. info[u].state \in {"none", "pending", "cancelled"}
      BY <2>3 DEF Begin, IInv, TaskInv, Driven
    <3> QED
      BY <2>1, <2>3, <3>1 DEF Begin, Final
  <2>4. ASSUME NEW u \in Tasks, Settle(u) \/ SettleLate(u)
        PROVE  info'[t].state = info[t].state /\ info'[t].finishedAt = info[t].finishedAt
    <3>1. CASE u = t
      <4>1. Settled(info[t], body[t]) = info[t]
        BY <2>1 DEF Settled
      <4>2. info'[t] = info[t] \/ info'[t] = Abandoned(info[t])
        BY <2>1, <2>4, <3>1, <4>1 DEF Settle, SettleLate, Write
      <4> QED
        BY <2>1, <4>2 DEF Abandoned, Infos
    <3>2. CASE u # t
      BY <2>1, <2>4, <3>2 DEF Settle, SettleLate, Write
    <3> QED
      BY <3>1, <3>2
  <2>5. ASSUME NEW u \in Tasks, Timeout(u) \/ Cancel(u)
        PROVE  info'[t] = info[t]
    BY <2>1, <2>5 DEF Timeout, Cancel, Write, InFlight
  <2>6. ASSUME NEW u \in Tasks, NEW r \in {"ok", "err"}, Return(u, r)
        PROVE  info'[t] = info[t]
    BY <2>6 DEF Return
  <2> QED
    BY <2>2, <2>3, <2>4, <2>5, <2>6 DEF Next, Driver
<1> QED
  BY <1>1, Invariance, PTL DEF Spec, FinalIsFinal

-----------------------------------------------------------------------------
(* How long the table gets *)

\* A state that is not open has its instant.
Dated == \A t \in Tasks : info[t].state \in Final \cup {"cancelled"} => info[t].finishedAt # Never

Unending == table \ Finished
Evicting == {s \in Submitters : submitter[s].pc = "evict"}

\* What no eviction can drop fits into the slots, and the table outgrows its
\* history only by the tasks of those who have not evicted yet.
Bounded ==
  /\ Dated
  /\ IsFiniteSet(Evicting)
  /\ Cardinality(Unending) <= Cap
  /\ HistoryBounded

LEMMA Finite ==
  ASSUME IInv
  PROVE  /\ IsFiniteSet(table) /\ Cardinality(table) \in Nat
         /\ \A S \in SUBSET table : IsFiniteSet(S) /\ Cardinality(S) \in Nat
                                   /\ Cardinality(S) <= Cardinality(table)
<1>1. seq \in Int /\ 1 \in Int /\ table \in SUBSET (1..seq)
  BY TaskAssumption DEF IInv, TypeOK
<1>2. IsFiniteSet(1..seq)
  BY <1>1, FS_Interval
<1>3. IsFiniteSet(table)
  BY <1>1, <1>2, FS_Subset
<1> QED
  BY <1>3, FS_Subset, FS_CardinalityType

LEMMA BoundedInitially == Init => Bounded
<1> SUFFICES ASSUME Init PROVE Bounded
  OBVIOUS
<1>1. Dated
  BY DEF Init, Dated, Unused, Final
<1>2. Evicting = {} /\ Unending = {} /\ table = {}
  BY DEF Init, Evicting, Unending, Ready
<1> QED
  BY <1>1, <1>2, FS_EmptySet, TaskAssumption DEF Bounded, HistoryBounded, Evicting

\* A step that lists nothing and forgets no instant leaves the bounds alone.
LEMMA BoundedKept ==
  ASSUME IInv, Bounded, Dated', table' = table, Evicting' = Evicting,
         \A t \in table : info[t].finishedAt # Never => info'[t].finishedAt # Never
  PROVE  Bounded'
<1>1. Unending' \in SUBSET Unending /\ Unending \in SUBSET table
  BY DEF Unending, Finished
<1>2. IsFiniteSet(Unending) /\ Cardinality(Unending) \in Nat
  BY <1>1, Finite
<1>3. Cardinality(Unending') <= Cardinality(Unending) /\ Cardinality(Unending') \in Nat
  BY <1>1, <1>2, FS_Subset, FS_CardinalityType
<1>4. Cardinality(Unending') <= Cap
  BY <1>2, <1>3, TaskAssumption DEF Bounded
<1>5. HistoryBounded'
  BY DEF Bounded, HistoryBounded, Evicting
<1>6. IsFiniteSet(Evicting')
  BY DEF Bounded
<1> QED
  BY <1>4, <1>5, <1>6 DEF Bounded

LEMMA InsertBounded ==
  ASSUME IInv, Bounded, NEW s \in Submitters, Insert(s)
  PROVE  Bounded'
<1>1. CASE Cardinality(Occupied) >= Cap
  <2>1. UNCHANGED <<table, info, submitter>>
    BY <1>1 DEF Insert
  <2> QED
    BY <2>1, BoundedKept DEF Bounded, Dated, Evicting
<1>2. CASE ~(Cardinality(Occupied) >= Cap)
  <2>0. /\ seq' = seq + 1 /\ seq < MaxTasks
        /\ table' = table \cup {seq'}
        /\ info' = [info EXCEPT ![seq'] = Fresh]
        /\ submitter' = [submitter EXCEPT ![s] = [pc |-> "evict", id |-> seq']]
        /\ submitter[s].pc = "idle"
    BY <1>2 DEF Insert
  <2>1. seq' \in Tasks /\ seq' \notin table
    BY <2>0, TaskAssumption DEF IInv, TypeOK, Tasks
  <2>2. Fresh.state = "pending" /\ Fresh.finishedAt = Never
    BY DEF Fresh, Unused
  <2>3. \A t \in Tasks : info'[t] = IF t = seq' THEN Fresh ELSE info[t]
    BY <2>0, <2>1 DEF IInv, TypeOK
  <2>4. Dated'
    BY <2>2, <2>3 DEF Bounded, Dated, Final
  <2>5. IsFiniteSet(Evicting') /\ Cardinality(Evicting') = Cardinality(Evicting) + 1
        /\ Cardinality(Evicting) \in Nat
    <3>1. Evicting' = Evicting \cup {s} /\ s \notin Evicting
      BY <2>0 DEF Evicting, IInv, TypeOK
    <3> QED
      BY <3>1, FS_AddElement, FS_CardinalityType DEF Bounded
  <2>6. Cardinality(table') = Cardinality(table) + 1 /\ Cardinality(table) \in Nat
    BY <2>0, <2>1, Finite, FS_AddElement
  <2>7. Cardinality(Unending') <= Cap
    <3>1. Unending' = Unending \cup {seq'} /\ seq' \notin Unending
      <4>1. table \subseteq Tasks
        BY TaskAssumption DEF IInv, TypeOK, Tasks
      <4> QED
        BY <2>0, <2>1, <2>2, <2>3, <4>1 DEF Unending, Finished
    <3>2. Unending \in SUBSET Occupied /\ Occupied \in SUBSET table
      <4>1. ASSUME NEW t \in table, info[t].finishedAt = Never
            PROVE  info[t].state \in InFlight
        <5>1. t \in Tasks
          BY TaskAssumption DEF IInv, TypeOK, Tasks
        <5>2. info[t].state \notin Final \cup {"cancelled"}
          BY <4>1, <5>1 DEF Bounded, Dated
        <5>3. info[t].state # "none"
          BY <4>1, <5>1 DEF IInv, TaskInv, Driven
        <5>4. info[t].state \in {"none", "cancelled"} \cup InFlight \cup Final
          BY <5>1 DEF IInv, TypeOK, Infos
        <5> QED
          BY <5>2, <5>3, <5>4
      <4> QED
        BY <4>1 DEF Unending, Finished, Occupied
    <3>3. IsFiniteSet(Occupied) /\ Cardinality(Occupied) \in Nat /\ IsFiniteSet(Unending)
          /\ Cardinality(Unending) \in Nat /\ Cardinality(Unending) <= Cardinality(Occupied)
      <4>1. Unending \in SUBSET table
        BY DEF Unending
      <4> QED
        BY <3>2, <4>1, Finite, FS_Subset
    <3>4. Cardinality(Unending') = Cardinality(Unending) + 1
      BY <3>1, <3>3, FS_AddElement
    <3> QED
      BY <1>2, <3>3, <3>4, TaskAssumption
  <2>8. HistoryBounded'
    <3>1. Cardinality(table) <= History + Cardinality(Evicting)
      BY DEF Bounded, HistoryBounded, Evicting
    <3>2. Cardinality(table') <= History + Cardinality(Evicting')
      BY <2>5, <2>6, <3>1, TaskAssumption
    <3> QED
      BY <3>2 DEF HistoryBounded, Evicting
  <2> QED
    BY <2>4, <2>5, <2>7, <2>8 DEF Bounded
<1> QED
  BY <1>1, <1>2

LEMMA EvictBounded ==
  ASSUME IInv, Bounded, NEW s \in Submitters, Evict(s)
  PROVE  Bounded'
<1>1. PICK gone \in SUBSET Finished :
        /\ Cardinality(gone) = IF Excess < Cardinality(Finished) THEN Excess
                               ELSE Cardinality(Finished)
        /\ table' = table \ gone
  BY DEF Evict
<1>2. submitter' = [submitter EXCEPT ![s].pc = "get"] /\ submitter[s].pc = "evict" /\ info' = info
  BY DEF Evict
<1>3. Dated'
  BY <1>2 DEF Bounded, Dated
<1>4. IsFiniteSet(Evicting') /\ Cardinality(Evicting') \in Nat
  <2>1. Evicting' = Evicting \ {s}
    BY <1>2 DEF Evicting, IInv, TypeOK
  <2> QED
    BY <2>1, FS_RemoveElement, FS_CardinalityType DEF Bounded
<1>5. Unending' = Unending
  BY <1>1, <1>2 DEF Unending, Finished
<1>6. /\ IsFiniteSet(table) /\ Cardinality(table) \in Nat
      /\ IsFiniteSet(Finished) /\ Cardinality(Finished) \in Nat
      /\ IsFiniteSet(gone) /\ Cardinality(gone) \in Nat
  <2>1. Finished \in SUBSET table /\ gone \in SUBSET table
    BY DEF Finished
  <2> QED
    BY <2>1, Finite
<1>7. Cardinality(table') <= History
  <2>1. CASE Excess < Cardinality(Finished)
    <3>1. table \cap gone = gone
      BY DEF Finished
    <3>2. Cardinality(table') = Cardinality(table) - Cardinality(gone)
      <4>1. Cardinality(table \ gone) = Cardinality(table) - Cardinality(table \cap gone)
        BY <1>6, FS_Difference
      <4> QED
        BY <1>1, <3>1, <4>1
    <3>3. Cardinality(gone) = Excess
      BY <1>1, <2>1
    <3> QED
      BY <1>6, <3>2, <3>3, TaskAssumption DEF Excess
  <2>2. CASE ~(Excess < Cardinality(Finished))
    <3>1. Cardinality(gone) = Cardinality(Finished) /\ Finished \cap gone = gone
      BY <1>1, <2>2
    <3>2. Cardinality(Finished \ gone) = 0 /\ IsFiniteSet(Finished \ gone)
      <4>1. /\ IsFiniteSet(Finished \ gone)
            /\ Cardinality(Finished \ gone)
               = Cardinality(Finished) - Cardinality(Finished \cap gone)
        BY <1>6, FS_Difference
      <4> QED
        BY <1>6, <3>1, <4>1
    <3>3. Finished \ gone = {}
      BY <3>2, FS_EmptySet
    <3>4. table' = Unending
      BY <1>1, <3>3 DEF Unending, Finished
    <3>5. Unending \in SUBSET table
      BY DEF Unending
    <3> QED
      BY <3>4, <3>5, Finite, TaskAssumption DEF Bounded
  <2> QED
    BY <2>1, <2>2
<1>8. Cardinality(table') \in Nat
  BY <1>1, Finite
<1>9. HistoryBounded'
  <2>1. Cardinality(table') <= History + Cardinality(Evicting')
    BY <1>4, <1>7, <1>8, TaskAssumption
  <2> QED
    BY <2>1 DEF HistoryBounded, Evicting
<1> QED
  BY <1>3, <1>4, <1>5, <1>9 DEF Bounded

LEMMA LaunchBounded ==
  ASSUME IInv, Bounded, NEW s \in Submitters, Launch(s)
  PROVE  Bounded'
<1>1. table' = table /\ info' = info /\ submitter[s].pc = "get"
      /\ submitter' = [submitter EXCEPT ![s] = Ready]
  BY DEF Launch
<1>2. Evicting' = Evicting
  BY <1>1 DEF Evicting, IInv, TypeOK, Ready
<1> QED
  BY <1>1, <1>2, BoundedKept DEF Bounded, Dated

LEMMA BeginBounded ==
  ASSUME IInv, Bounded, NEW t \in Tasks, Begin(t)
  PROVE  Bounded'
<1>1. \A u \in Tasks : info'[u].finishedAt = info[u].finishedAt
                       /\ (info'[u].state = info[u].state \/ info'[u].state = "running")
  BY DEF Begin, IInv, TypeOK, Infos
<1>2. Dated'
  BY <1>1 DEF Bounded, Dated, Final
<1>3. table \subseteq Tasks /\ table' = table /\ submitter' = submitter
  BY TaskAssumption DEF Begin, IInv, TypeOK, Tasks
<1> QED
  BY <1>1, <1>2, <1>3, BoundedKept DEF Evicting

\* A task is overwritten by one that is as it was, but for being abandoned, or
\* has ended now.
LEMMA WriteBounded ==
  ASSUME IInv, Bounded, NEW t \in Tasks, NEW i, Write(t, i),
         table' = table, submitter' = submitter,
         \/ i.finishedAt = info[t].finishedAt /\ i.state = info[t].state
         \/ i.finishedAt # Never
  PROVE  Bounded'
<1>1. \A u \in Tasks : info'[u] = IF u = t THEN i ELSE info[u]
  BY DEF Write, IInv, TypeOK
<1>2. Dated'
  BY <1>1 DEF Bounded, Dated
<1>3. table \subseteq Tasks
  BY TaskAssumption DEF IInv, TypeOK, Tasks
<1> QED
  BY <1>1, <1>2, <1>3, BoundedKept DEF Evicting

LEMMA EndedNow ==
  ASSUME IInv, NEW t \in Tasks, NEW state \in InFlight \cup Final \cup {"cancelled"}
  PROVE  Ended(info[t], state) \in Infos /\ Ended(info[t], state).finishedAt # Never
<1>1. info[t] \in Infos /\ finishes \in Nat
  BY DEF IInv, TypeOK
<1>2. Ended(info[t], state) \in Infos
  BY <1>1, InfoType
<1>3. Ended(info[t], state).finishedAt = finishes + 1
  BY <1>1 DEF Ended, Infos
<1> QED
  BY <1>1, <1>2, <1>3 DEF Never

LEMMA AbandonedSame ==
  ASSUME NEW i \in Infos
  PROVE  Abandoned(i).finishedAt = i.finishedAt /\ Abandoned(i).state = i.state
  BY DEF Abandoned, Infos

LEMMA DriverBounded ==
  ASSUME IInv, Bounded, NEW t \in Tasks, Settle(t) \/ SettleLate(t) \/ Timeout(t) \/ Cancel(t)
  PROVE  Bounded'
<1>0. info[t] \in Infos
  BY DEF IInv, TypeOK
<1>1. ASSUME Settle(t) \/ SettleLate(t)
      PROVE  Bounded'
  <2> DEFINE i == Settled(info[t], body[t])
  <2>1. i = info[t] \/ i.finishedAt # Never
    <3>1. \A state \in Final : Ended(info[t], state).finishedAt # Never
      BY EndedNow
    <3> QED
      BY <1>0, <3>1 DEF Settled, Final
  <2>2. Abandoned(i).finishedAt = i.finishedAt /\ Abandoned(i).state = i.state
    <3>1. i \in Infos
      BY <1>1, SettledType DEF IInv, TypeOK, Settle, SettleLate
    <3> QED
      BY <3>1, AbandonedSame
  <2> QED
    BY <1>1, <2>1, <2>2, WriteBounded DEF Settle, SettleLate
<1>2. ASSUME Timeout(t)
      PROVE  Bounded'
  <2>1. CASE t \in table /\ info[t].state \in InFlight
    <3>1. Write(t, Abandoned(Ended(info[t], "timeout"))) /\ UNCHANGED <<table, submitter>>
      BY <1>2, <2>1 DEF Timeout
    <3>2. Abandoned(Ended(info[t], "timeout")).finishedAt # Never
      BY EndedNow, AbandonedSame DEF Final
    <3> QED
      BY <3>1, <3>2, WriteBounded
  <2>2. CASE ~(t \in table /\ info[t].state \in InFlight)
    <3>1. UNCHANGED <<info, table, submitter>>
      BY <1>2, <2>2 DEF Timeout
    <3> QED
      BY <3>1, BoundedKept DEF Bounded, Dated, Evicting
  <2> QED
    BY <2>1, <2>2
<1>3. ASSUME Cancel(t)
      PROVE  Bounded'
  <2>1. Abandoned(Ended(info[t], "cancelled")).finishedAt # Never
    BY EndedNow, AbandonedSame
  <2>2. /\ Abandoned(info[t]).finishedAt = info[t].finishedAt
        /\ Abandoned(info[t]).state = info[t].state
    BY <1>0, AbandonedSame
  <2> QED
    BY <1>3, <2>1, <2>2, WriteBounded DEF Cancel
<1> QED
  BY <1>1, <1>2, <1>3

\* Whatever the threads do, the table outgrows its history only by the tasks of
\* those between the insertion and the eviction.
THEOREM TableBounded == Spec => []HistoryBounded
<1>1. IInv /\ Bounded /\ [Next]_vars => Bounded'
  <2> SUFFICES ASSUME IInv, Bounded, [Next]_vars PROVE Bounded'
    OBVIOUS
  <2>1. CASE \E s \in Submitters : Insert(s) \/ Evict(s) \/ Launch(s)
    BY <2>1, InsertBounded, EvictBounded, LaunchBounded
  <2>2. ASSUME NEW t \in Tasks, Driver(t) \/ Cancel(t)
        PROVE  Bounded'
    BY <2>2, BeginBounded, DriverBounded DEF Driver
  <2>3. ASSUME NEW t \in Tasks, Return(t, "ok") \/ Return(t, "err")
        PROVE  Bounded'
    BY <2>3, BoundedKept DEF Return, Bounded, Dated, Evicting
  <2>4. CASE UNCHANGED vars
    BY <2>4, BoundedKept DEF vars, Bounded, Dated, Evicting
  <2> QED
    BY <2>1, <2>2, <2>3, <2>4 DEF Next
<1>2. Bounded => HistoryBounded
  BY DEF Bounded
<1> QED
  BY <1>1, <1>2, BoundedInitially, Invariance, PTL DEF Spec
=============================================================================
