---------------------------- MODULE ModemOpsProofs ----------------------------
(***************************************************************************)
(* ModemOps for any number of users, operations and faults, any arguments  *)
(* and IMEIs: who leaves the modem off the air, which locks cost an        *)
(* outage, and what is in the backup when an IMEI is replaced.             *)
(***************************************************************************)
EXTENDS ModemOps, TLAPS

Arguments == Args \cup Imeis \cup {0, 1, 4} \cup {"none"}
Seen == Imeis \cup {Factory} \cup Outcomes \cup {"nothing"}

Operations ==
  [kind : {"none", "lock", "cfun", "imei", "restart", "dial"},
   pc : {"idle", "begun", "off", "written", "backup", "write", "recover", "gate", "over"},
   arg : Arguments, saw : Seen, alone : BOOLEAN,
   told : {"nothing", "ok", "error"}]

\* What is being locked has passed the check.
Locking(u) == op[u].kind = "lock" => Accepted(op[u].arg)

\* What a write of an IMEI has read, and then backed up, is what the modem has
\* as long as nobody comes in between.
BackingUp(u) ==
  op[u].kind = "imei" /\ op[u].alone =>
    /\ op[u].pc = "backup" => op[u].saw = modem.imei
    /\ op[u].pc = "write" => backup = modem.imei

IInv ==
  /\ TypeOK /\ op \in [Actors -> Operations]
  /\ \A u \in Users : Locking(u) /\ BackingUp(u)
  /\ PutBackOnAir

Modems == [cfun : {0, 1, 4}, lock : Args \cup {NoLock}, imei : Imeis \cup {Factory},
           attached : BOOLEAN]

-----------------------------------------------------------------------------
(* The arguments of a lock *)

LEMMA ActsAreTechs ==
  ASSUME NEW r \in GTACT_RATS, r # 10 PROVE Acts(r) \subseteq Techs(r)
<1>1. r = 1 \/ r = 2 \/ r = 4 \/ r = 14 \/ r = 16 \/ r = 17 \/ r = 20
  BY DEF GTACT_RATS
<1>2. CASE r = 1
  BY <1>2 DEF Acts, Techs
<1>3. CASE r = 2
  BY <1>3 DEF Acts, Techs
<1>4. CASE r = 4
  BY <1>4 DEF Acts, Techs
<1>5. CASE r = 14
  BY <1>5 DEF Acts, Techs
<1>6. CASE r = 16
  BY <1>6 DEF Acts, Techs
<1>7. CASE r = 17
  BY <1>7 DEF Acts, Techs
<1>8. CASE r = 20
  BY <1>8 DEF Acts, Techs, GTACT_PREFS
<1> QED
  BY <1>1, <1>2, <1>3, <1>4, <1>5, <1>6, <1>7, <1>8

\* What validate_gtact() accepts is worth an outage.
LEMMA AcceptedIsJustified ==
  ASSUME NEW a \in Args, Accepted(a)
  PROVE  Fits(a.p1, a) /\ (a.rat = 20 => Workable(a))
<1>1. Fits(a.p1, a)
  BY ActsAreTechs DEF Accepted, Fits
<1>2. ASSUME a.rat = 20 PROVE Workable(a)
  <2>1. <<a.p1, a.p2>> \in Combinations
    BY <1>2 DEF Accepted
  <2>2. Techs(a.rat) = {2, 3, 6}
    BY <1>2 DEF Techs
  <2> QED
    BY <2>1, <2>2 DEF Combinations, Workable, Fits, NotStated
<1> QED
  BY <1>1, <1>2

-----------------------------------------------------------------------------
(* Types *)

LEMMA MishapType ==
  ASSUME TypeOK, NEW bad, Mishap(bad) PROVE faults' \in 0..MaxFaults
BY OpsAssumption DEF TypeOK, Mishap

LEMMA CommandType ==
  ASSUME TypeOK, NEW m \in Modems, NEW may, NEW o, Command(m, may, o)
  PROVE  modem' \in Modems /\ faults' \in 0..MaxFaults
<1>1. modem' \in {m, modem}
  BY DEF Command
<1>2. modem \in Modems
  BY DEF TypeOK, Modems
<1> QED
  BY <1>1, <1>2, MishapType DEF Command

LEMMA SetCfunType ==
  ASSUME TypeOK, NEW n \in {0, 1, 4} PROVE SetCfun(n) \in Modems /\ SetCfun(n).cfun = n
BY DEF TypeOK, SetCfun, Modems

LEMMA BlameType ==
  ASSUME TypeOK, NEW who \in {"nobody", "lock", "user", "restart", "watch"}, NEW failing,
         Blame(who, failing)
  PROVE  offBy' \in {"nobody", "lock", "user", "restart", "watch"} /\ hurt' \in BOOLEAN
BY DEF TypeOK, Blame

\* What a step of a leaves of the operations.
LEMMA Going ==
  ASSUME op \in [Actors -> Operations], NEW a \in Actors, NEW r \in Operations, Goes(a, r)
  PROVE  /\ op' \in [Actors -> Operations]
         /\ op'[a].kind = r.kind /\ op'[a].pc = r.pc /\ op'[a].arg = r.arg
         /\ op'[a].saw = r.saw /\ op'[a].told = r.told
         /\ op'[a].alone = r.alone
         /\ \A b \in Actors : b # a =>
              /\ op'[b].kind = op[b].kind /\ op'[b].pc = op[b].pc /\ op'[b].arg = op[b].arg
              /\ op'[b].saw = op[b].saw /\ op'[b].told = op[b].told
              /\ op'[b].alone => op[b].alone /\ modem' = modem /\ backup' = backup
<1>2. ASSUME NEW b \in Actors, b # a
      PROVE  op'[b] = [op[b] EXCEPT !.alone = @ /\ modem' = modem /\ backup' = backup]
  BY <1>2 DEF Goes
<1>3. ASSUME NEW b \in Actors, b # a
      PROVE  /\ op'[b] \in Operations
             /\ op'[b].kind = op[b].kind /\ op'[b].pc = op[b].pc /\ op'[b].arg = op[b].arg
             /\ op'[b].saw = op[b].saw /\ op'[b].told = op[b].told
             /\ op'[b].alone => op[b].alone /\ modem' = modem /\ backup' = backup
  BY <1>2, <1>3 DEF Operations
<1>4. op'[a] = r
  BY DEF Goes
<1> QED
  BY <1>3, <1>4 DEF Goes

\* An operation that goes on, has seen something, or is over.
LEMMA OnIs ==
  ASSUME NEW a \in Actors, op \in [Actors -> Operations],
         NEW pc \in {"off", "written", "backup", "write", "recover", "gate"}
  PROVE  /\ On(a, pc) \in Operations /\ On(a, pc).pc = pc
         /\ On(a, pc).kind = op[a].kind /\ On(a, pc).arg = op[a].arg /\ On(a, pc).saw = op[a].saw
         /\ On(a, pc).alone = op[a].alone
         /\ On(a, pc).told = op[a].told
BY DEF On, Operations

LEMMA SawIs ==
  ASSUME NEW r \in Operations, NEW s \in Seen
  PROVE  /\ [r EXCEPT !.saw = s] \in Operations
         /\ [r EXCEPT !.saw = s].kind = r.kind /\ [r EXCEPT !.saw = s].pc = r.pc
         /\ [r EXCEPT !.saw = s].arg = r.arg /\ [r EXCEPT !.saw = s].saw = s
         /\ [r EXCEPT !.saw = s].alone = r.alone
BY DEF Operations

LEMMA OverIs ==
  ASSUME NEW a \in Actors, op \in [Actors -> Operations], NEW told \in {"ok", "error"}
  PROVE  /\ Over(a, told) \in Operations /\ Over(a, told).pc = "over"
         /\ Over(a, told).kind = op[a].kind /\ Over(a, told).arg = op[a].arg
         /\ Over(a, told).saw = op[a].saw /\ Over(a, told).alone = op[a].alone
         /\ Over(a, told).told = told
BY DEF Over, Operations

\* The others' part of the invariant is kept by a step of a, whatever it is.
LEMMA OthersKept ==
  ASSUME IInv, NEW a \in Actors, NEW r \in Operations, Goes(a, r), NEW u \in Users, u # a
  PROVE  Locking(u)' /\ BackingUp(u)'
<1>1. u \in Actors /\ op \in [Actors -> Operations]
  BY DEF Actors, IInv
<1>2. /\ op'[u].kind = op[u].kind /\ op'[u].pc = op[u].pc /\ op'[u].arg = op[u].arg
      /\ op'[u].saw = op[u].saw /\ op'[u].told = op[u].told
      /\ op'[u].alone => op[u].alone /\ modem' = modem /\ backup' = backup
  BY <1>1, Going
<1>3. Locking(u) /\ BackingUp(u)
  BY DEF IInv
<1>4. Locking(u)'
  BY <1>2, <1>3 DEF Locking, Accepted, Workable
<1>5. BackingUp(u)'
  BY <1>2, <1>3 DEF BackingUp
<1> QED
  BY <1>4, <1>5

-----------------------------------------------------------------------------
(* Steps *)

\* What TypeOK says of an operation besides its shape.
Fitting(r) ==
  /\ r.kind = "lock" => r.arg \in Args
  /\ r.kind = "imei" => r.arg \in Imeis
  /\ r.kind = "cfun" => r.arg \in {0, 1, 4}
  /\ r.pc \in {"backup", "write"} => r.saw \in Imeis \cup {Factory}

LEMMA FittingOps == IInv => \A a \in Actors : op[a] \in Operations /\ Fitting(op[a])
BY DEF IInv, TypeOK, Fitting

\* A lock that is under way is so after a step of another operation.
LEMMA OffForLockKept ==
  ASSUME IInv, NEW a \in Actors, NEW r \in Operations, Goes(a, r), OffForLock,
         ~(op[a].kind = "lock" /\ op[a].pc \in {"off", "written"})
  PROVE  OffForLock'
<1>1. PICK u \in Users : op[u].kind = "lock" /\ op[u].pc \in {"off", "written"}
  BY DEF OffForLock
<1>2. u \in Actors /\ u # a /\ op \in [Actors -> Operations]
  BY <1>1 DEF Actors, IInv
<1>3. op'[u].kind = op[u].kind /\ op'[u].pc = op[u].pc
  BY <1>2, Going
<1> QED
  BY <1>1, <1>3 DEF OffForLock

\* The operations after a step of a, and what is typed with them.
LEMMA FittingAfter ==
  ASSUME IInv, NEW a \in Actors, NEW r \in Operations, Goes(a, r), Fitting(r)
  PROVE  op' \in [Actors -> Operations] /\ \A b \in Actors : Fitting(op'[b])
<1>1. /\ op' \in [Actors -> Operations]
      /\ op'[a].kind = r.kind /\ op'[a].pc = r.pc /\ op'[a].arg = r.arg /\ op'[a].saw = r.saw
  BY Going DEF IInv
<1>2. ASSUME NEW b \in Actors PROVE Fitting(op'[b])
  <2>1. CASE b = a
    BY <1>1, <2>1 DEF Fitting
  <2>2. CASE b # a
    <3>1. /\ op'[b].kind = op[b].kind /\ op'[b].pc = op[b].pc
          /\ op'[b].arg = op[b].arg /\ op'[b].saw = op[b].saw
      BY <2>2, Going DEF IInv
    <3> QED
      BY <3>1, FittingOps DEF Fitting
  <2> QED
    BY <2>1, <2>2
<1> QED
  BY <1>1, <1>2

LEMMA TypeFrom ==
  ASSUME op' \in [Actors -> Operations], \A b \in Actors : Fitting(op'[b]), modem' \in Modems,
         backup' \in Imeis \cup {Factory, "none"}, hurt' \in BOOLEAN,
         offBy' \in {"nobody", "lock", "user", "restart", "watch"},
         begun' \in 0..MaxOps, faults' \in 0..MaxFaults
  PROVE  TypeOK'
<1>1. ASSUME NEW b \in Actors
      PROVE  /\ op'[b].kind \in {"none", "lock", "cfun", "imei", "restart", "dial"}
             /\ op'[b].pc \in {"idle", "begun", "off", "written", "backup", "write", "recover",
                               "gate", "over"}
             /\ op'[b].alone \in BOOLEAN
             /\ op'[b].told \in {"nothing", "ok", "error"}
  <2>1. op'[b] \in Operations
    OBVIOUS
  <2> QED
    BY <2>1 DEF Operations
<1> QED
  BY <1>1 DEF TypeOK, Fitting, Modems

\* A command of a, which answers for what it does.
LEMMA CommandKeeps ==
  ASSUME IInv, NEW a \in Actors, NEW r \in Operations, Goes(a, r), Fitting(r),
         NEW m \in Modems, NEW may, NEW o, Command(m, may, o), UNCHANGED <<backup, begun>>,
         NEW who \in {"nobody", "lock", "user", "restart", "watch"}, NEW failing,
         Blame(who, failing),
         modem'.cfun \notin {1, modem.cfun} => who \in {"user", "restart"} \/ OffForLock',
         modem'.cfun # 1 /\ OffForLock => failing \/ OffForLock',
         a \in Users => Locking(a)' /\ BackingUp(a)'
  PROVE  IInv'
<1>1. op' \in [Actors -> Operations] /\ \A b \in Actors : Fitting(op'[b])
  BY FittingAfter
<1>2. modem' \in Modems /\ faults' \in 0..MaxFaults
  BY CommandType DEF IInv
<1>3. offBy' \in {"nobody", "lock", "user", "restart", "watch"} /\ hurt' \in BOOLEAN
  BY BlameType DEF IInv
<1>4. backup' \in Imeis \cup {Factory, "none"} /\ begun' \in 0..MaxOps
  BY DEF IInv, TypeOK
<1>5. TypeOK'
  BY <1>1, <1>2, <1>3, <1>4, TypeFrom
<1>6. ASSUME NEW u \in Users PROVE Locking(u)' /\ BackingUp(u)'
  BY <1>6, OthersKept
<1>7. ASSUME modem'.cfun # 1, ~OffForLock' PROVE offBy' \in {"user", "restart"} \/ hurt'
  <2>1. CASE modem'.cfun # modem.cfun
    BY <1>7, <2>1 DEF Blame
  <2>2. CASE modem'.cfun = modem.cfun
    <3>1. failing \/ offBy \in {"user", "restart"} \/ hurt
      BY <1>7, <2>2 DEF IInv, PutBackOnAir
    <3> QED
      BY <1>7, <2>2, <3>1 DEF Blame
  <2> QED
    BY <2>1, <2>2
<1> QED
  BY <1>1, <1>5, <1>6, <1>7 DEF IInv, PutBackOnAir

\* A request that begins: its arguments have been looked at.
LEMMA BeginKeeps ==
  ASSUME IInv, NEW a \in Actors, NEW kind, NEW arg \in Arguments, Begin(a, kind, arg),
         begun' \in 0..MaxOps,
         kind \in {"lock", "cfun", "imei", "restart", "dial"},
         kind = "lock" => arg \in Args /\ Accepted(arg),
         kind = "imei" => arg \in Imeis,
         kind = "cfun" => arg \in {0, 1, 4}
  PROVE  IInv'
<1> DEFINE r == [Idle EXCEPT !.kind = kind, !.arg = arg, !.pc = "begun"]
<1>1. Idle \in Operations
  BY DEF Idle, Operations, Arguments, Seen
<1>2. r \in Operations /\ r.kind = kind /\ r.pc = "begun" /\ r.arg = arg
  BY <1>1 DEF Operations
<1> HIDE DEF r
<1>3. op' = [op EXCEPT ![a] = r]
  BY DEF Begin, r
<1>4. op' \in [Actors -> Operations] /\ op'[a] = r /\ \A b \in Actors : b # a => op'[b] = op[b]
  BY <1>2, <1>3 DEF IInv
<1>5. modem' = modem /\ backup' = backup /\ UNCHANGED <<offBy, hurt, faults>>
  BY DEF Begin
<1>6. ASSUME NEW b \in Actors PROVE Fitting(op'[b])
  <2>1. Fitting(r)
    BY <1>2 DEF Fitting
  <2> QED
    BY <1>4, <2>1, FittingOps
<1>7. TypeOK'
  <2>1. /\ modem' \in Modems /\ backup' \in Imeis \cup {Factory, "none"} /\ hurt' \in BOOLEAN
        /\ offBy' \in {"nobody", "lock", "user", "restart", "watch"} /\ faults' \in 0..MaxFaults
    BY <1>5 DEF IInv, TypeOK, Modems
  <2> QED
    BY <1>4, <1>6, <2>1, TypeFrom
<1>8. ASSUME NEW u \in Users PROVE Locking(u)' /\ BackingUp(u)'
  <2>1. u \in Actors
    BY DEF Actors
  <2>2. CASE u = a
    BY <1>2, <1>4, <2>2 DEF Locking, BackingUp
  <2>3. CASE u # a
    <3>1. op'[u] = op[u] /\ Locking(u) /\ BackingUp(u)
      BY <1>4, <2>1, <2>3 DEF IInv
    <3> QED
      BY <1>5, <3>1 DEF Locking, BackingUp, Accepted, Workable
  <2> QED
    BY <2>2, <2>3
<1>9. OffForLock => OffForLock'
  <2>1. ASSUME NEW u \in Users, op[u].kind = "lock", op[u].pc \in {"off", "written"}
        PROVE  op'[u].kind = "lock" /\ op'[u].pc \in {"off", "written"}
    <3>1. u \in Actors /\ u # a
      BY <2>1 DEF Actors, Begin
    <3> QED
      BY <1>4, <2>1, <3>1
  <2> QED
    BY <2>1 DEF OffForLock
<1>10. PutBackOnAir'
  BY <1>5, <1>9 DEF IInv, PutBackOnAir
<1> QED
  BY <1>4, <1>7, <1>8, <1>10 DEF IInv

LEMMA Requests ==
  ASSUME IInv, NEW u \in Users, Request(u) PROVE IInv'
<1>1. u \in Actors
  BY DEF Actors
<1>2. begun' \in 0..MaxOps
  BY OpsAssumption DEF Request, IInv, TypeOK
<1>3. CASE \E a \in Args : Accepted(a) /\ Begin(u, "lock", a)
  BY <1>1, <1>2, <1>3, BeginKeeps DEF Arguments
<1>4. CASE \E n \in {0, 1, 4} : Begin(u, "cfun", n)
  BY <1>1, <1>2, <1>4, BeginKeeps DEF Arguments
<1>5. CASE \E i \in Imeis : Begin(u, "imei", i)
  BY <1>1, <1>2, <1>5, BeginKeeps DEF Arguments
<1>6. CASE Begin(u, "restart", "none")
  BY <1>1, <1>2, <1>6, BeginKeeps DEF Arguments
<1> QED
  BY <1>3, <1>4, <1>5, <1>6 DEF Request

LEMMA LockOffKeeps ==
  ASSUME IInv, NEW u \in Users, NEW o \in Outcomes, LockOff(u, o) PROVE IInv'
<1> DEFINE r == On(u, "off")
<1>1. /\ u \in Actors /\ op \in [Actors -> Operations] /\ Fitting(op[u]) /\ op[u].kind = "lock"
      /\ op[u].pc = "begun"
  BY FittingOps DEF Actors, LockOff, At, IInv
<1>2. /\ r \in Operations /\ r.kind = "lock" /\ r.pc = "off" /\ r.arg = op[u].arg
      /\ r.alone = op[u].alone
  BY <1>1, OnIs
<1>3. Fitting(r)
  BY <1>1, <1>2 DEF Fitting
<1>4. Goes(u, r)
  BY DEF LockOff
<1> HIDE DEF r
<1>5. /\ op'[u].kind = "lock" /\ op'[u].pc = "off" /\ op'[u].arg = op[u].arg
  BY <1>1, <1>2, <1>4, Going
<1>6. Accepted(op[u].arg)
  BY <1>1 DEF IInv, Locking
<1>7. SetCfun(0) \in Modems
  BY SetCfunType DEF IInv
<1>8. PICK may \in BOOLEAN : Command(SetCfun(0), may, o)
  BY DEF LockOff, CfunCommand
<1>9. Locking(u)' /\ BackingUp(u)'
  BY <1>5, <1>6 DEF Locking, BackingUp, Accepted
<1>10. OffForLock'
  BY <1>5 DEF OffForLock
<1> QED
  BY <1>1, <1>2, <1>3, <1>4, <1>7, <1>8, <1>9, <1>10, CommandKeeps DEF LockOff

LEMMA LockWriteKeeps ==
  ASSUME IInv, NEW u \in Users, NEW o \in Outcomes, LockWrite(u, o) PROVE IInv'
<1> DEFINE m == [modem EXCEPT !.lock = op[u].arg]
           may == modem.cfun # 1 /\ Workable(op[u].arg)
<1>1. /\ u \in Actors /\ op \in [Actors -> Operations] /\ Fitting(op[u]) /\ op[u].kind = "lock"
      /\ op[u].pc = "off" /\ Locking(u)
  BY FittingOps DEF Actors, LockWrite, At, IInv
<1>2. m \in Modems /\ m.cfun = modem.cfun
  BY <1>1 DEF IInv, TypeOK, Modems, Fitting
<1>3. Command(m, may, o) /\ modem'.cfun = modem.cfun
  BY <1>2 DEF LockWrite, Lock, Command
<1> HIDE DEF m
<1>4. CASE o = "failed"
  <2> DEFINE r == Over(u, "error")
  <2>1. /\ r \in Operations /\ r.kind = "lock" /\ r.pc = "over" /\ r.arg = op[u].arg
        /\ r.told = "error"
    BY <1>1, OverIs
  <2>2. Fitting(r)
    BY <1>1, <2>1 DEF Fitting
  <2>3. Goes(u, r)
    BY <1>4 DEF LockWrite
  <2> HIDE DEF r
  <2>4. /\ op'[u].kind = "lock" /\ op'[u].pc = "over" /\ op'[u].told = "error"
        /\ op'[u].arg = op[u].arg
    BY <1>1, <2>1, <2>3, Going
  <2>5. Locking(u)' /\ BackingUp(u)'
    BY <1>1, <2>4 DEF Locking, BackingUp, Accepted
  <2> QED
    BY <1>1, <1>2, <1>3, <1>4, <2>1, <2>2, <2>3, <2>5, CommandKeeps DEF LockWrite
<1>5. CASE o # "failed"
  <2> DEFINE r == [On(u, "written") EXCEPT !.saw = o]
  <2>1. /\ r \in Operations /\ r.kind = "lock" /\ r.pc = "written" /\ r.arg = op[u].arg
        /\ r.saw = o /\ r.alone = op[u].alone
    <3> DEFINE w == On(u, "written")
    <3>1. /\ w \in Operations /\ w.kind = "lock" /\ w.pc = "written" /\ w.arg = op[u].arg
          /\ w.alone = op[u].alone
      BY <1>1, OnIs
    <3>2. o \in Seen
      BY DEF Seen
    <3> HIDE DEF w
    <3>3. /\ [w EXCEPT !.saw = o] \in Operations
          /\ [w EXCEPT !.saw = o].kind = w.kind /\ [w EXCEPT !.saw = o].pc = w.pc
          /\ [w EXCEPT !.saw = o].arg = w.arg /\ [w EXCEPT !.saw = o].saw = o
          /\ [w EXCEPT !.saw = o].alone = w.alone
      BY <3>1, <3>2, SawIs
    <3> QED
      BY <3>1, <3>3 DEF w
  <2>2. Fitting(r)
    BY <1>1, <2>1 DEF Fitting
  <2>3. Goes(u, r)
    BY <1>5 DEF LockWrite
  <2> HIDE DEF r
  <2>4. /\ op'[u].kind = "lock" /\ op'[u].pc = "written" /\ op'[u].arg = op[u].arg
        /\ op'[u].saw = o /\ op'[u].alone = op[u].alone
      BY <1>1, <2>1, <2>3, Going
  <2>6. Locking(u)' /\ BackingUp(u)'
    BY <1>1, <2>4 DEF Locking, BackingUp, Accepted
  <2>7. OffForLock'
    BY <2>4 DEF OffForLock
  <2> QED
    BY <1>1, <1>2, <1>3, <2>1, <2>2, <2>3, <2>6, <2>7, CommandKeeps DEF LockWrite
<1> QED
  BY <1>4, <1>5

LEMMA LockOnKeeps ==
  ASSUME IInv, NEW u \in Users, NEW o \in Outcomes, LockOn(u, o) PROVE IInv'
<1> DEFINE r == Over(u, "ok")
<1>1. /\ u \in Actors /\ op \in [Actors -> Operations] /\ Fitting(op[u]) /\ op[u].kind = "lock"
      /\ op[u].pc = "written" /\ Locking(u)
  BY FittingOps DEF Actors, LockOn, At, IInv
<1>2. /\ r \in Operations /\ r.kind = "lock" /\ r.pc = "over" /\ r.arg = op[u].arg
      /\ r.saw = op[u].saw /\ r.alone = op[u].alone
  BY <1>1, OverIs
<1>3. Fitting(r)
  BY <1>1, <1>2 DEF Fitting
<1>4. Goes(u, r)
  BY DEF LockOn
<1> HIDE DEF r
<1>5. /\ op'[u].kind = "lock" /\ op'[u].pc = "over" /\ op'[u].arg = op[u].arg
      /\ op'[u].saw = op[u].saw /\ op'[u].alone = op[u].alone
  BY <1>1, <1>2, <1>4, Going
<1>6. SetCfun(1) \in Modems /\ SetCfun(1).cfun = 1
  BY SetCfunType DEF IInv
<1>7. Command(SetCfun(1), TRUE, o)
  BY DEF LockOn, CfunCommand, Command
<1>8. modem'.cfun \in {1, modem.cfun} /\ (o = "ok" => modem'.cfun = 1)
  BY <1>6, <1>7 DEF Command, Bad
<1>9. Locking(u)' /\ BackingUp(u)'
  BY <1>1, <1>5 DEF Locking, BackingUp, Accepted
<1> QED
  BY <1>1, <1>2, <1>3, <1>4, <1>6, <1>7, <1>8, <1>9, CommandKeeps DEF LockOn

\* The operations of one command.
LEMMA SingleKeeps ==
  ASSUME IInv, NEW u \in Users, NEW o \in Outcomes, op[u].kind \in {"cfun", "restart"},
         op[u].pc = "begun", NEW m \in Modems, NEW may, Command(m, may, o),
         NEW who \in {"user", "restart"}, Single(u, who, o)
  PROVE  IInv'
<1> DEFINE told == IF o = "failed" THEN "error" ELSE "ok"
           r == Over(u, told)
<1>1. u \in Actors /\ op \in [Actors -> Operations] /\ Fitting(op[u])
  BY FittingOps DEF Actors, IInv
<1>2. r \in Operations /\ r.kind = op[u].kind /\ r.pc = "over" /\ r.arg = op[u].arg
  BY <1>1, OverIs
<1>3. Fitting(r)
  BY <1>1, <1>2 DEF Fitting
<1>4. Goes(u, r) /\ Blame(who, FALSE) /\ UNCHANGED <<backup, begun>>
  BY DEF Single
<1> HIDE DEF r
<1>5. op'[u].kind = op[u].kind
  BY <1>1, <1>2, <1>4, Going
<1>6. Locking(u)' /\ BackingUp(u)'
  BY <1>5 DEF Locking, BackingUp
<1>7. OffForLock => OffForLock'
  BY <1>1, <1>2, <1>4, OffForLockKept
<1> QED
  BY <1>1, <1>2, <1>3, <1>4, <1>6, <1>7, CommandKeeps

LEMMA CfunSetKeeps ==
  ASSUME IInv, NEW u \in Users, NEW o \in Outcomes, CfunSet(u, o) PROVE IInv'
<1>1. u \in Actors /\ op[u].kind = "cfun" /\ op[u].pc = "begun"
  BY DEF Actors, CfunSet, At
<1>2. SetCfun(op[u].arg) \in Modems
  BY <1>1, SetCfunType DEF IInv, TypeOK
<1>3. PICK may \in BOOLEAN : Command(SetCfun(op[u].arg), may, o)
  BY DEF CfunSet, CfunCommand
<1> QED
  BY <1>1, <1>2, <1>3, SingleKeeps DEF CfunSet

LEMMA RestartKeeps ==
  ASSUME IInv, NEW u \in Users, NEW o \in Outcomes, Restart(u, o) PROVE IInv'
<1>1. op[u].kind = "restart" /\ op[u].pc = "begun"
  BY DEF Restart, At
<1>2. \A n \in {1, 4} : [modem EXCEPT !.cfun = n, !.attached = FALSE] \in Modems
  BY DEF IInv, TypeOK, Modems
<1>3. Restarted \subseteq Modems
  BY <1>2 DEF Restarted
<1> QED
  BY <1>1, <1>3, SingleKeeps DEF Restart

LEMMA ImeiReadKeeps ==
  ASSUME IInv, NEW u \in Users, NEW o \in Outcomes, ImeiRead(u, o) PROVE IInv'
<1>1. /\ u \in Actors /\ op \in [Actors -> Operations] /\ Fitting(op[u]) /\ op[u].kind = "imei"
      /\ op[u].pc = "begun"
  BY FittingOps DEF Actors, ImeiRead, At, IInv
<1>2. modem \in Modems /\ modem' = modem /\ Command(modem, TRUE, o)
  BY DEF IInv, TypeOK, Modems, ImeiRead, Command
<1>3. modem.imei \in Imeis \cup {Factory}
  BY <1>2 DEF Modems
<1>4. Blame("nobody", FALSE) /\ UNCHANGED <<backup, begun>>
  BY DEF ImeiRead
<1> SUFFICES ASSUME NEW r \in Operations, Goes(u, r), Fitting(r), r.kind = "imei",
                    r.pc = "over" \/ (r.pc = "backup" /\ r.saw = modem.imei)
             PROVE  IInv'
  <2>1. CASE Bad(o)
    <3>1. Goes(u, Over(u, "error"))
      BY <2>1 DEF ImeiRead
    <3>2. /\ Over(u, "error") \in Operations /\ Over(u, "error").kind = "imei"
          /\ Over(u, "error").pc = "over" /\ Over(u, "error").arg = op[u].arg
      BY <1>1, OverIs
    <3> QED
      BY <1>1, <3>1, <3>2 DEF Fitting
  <2>2. CASE ~Bad(o)
    <3> DEFINE w == On(u, "backup")
               r == [w EXCEPT !.saw = modem.imei]
    <3>1. Goes(u, r)
      BY <2>2 DEF ImeiRead
    <3>2. w \in Operations /\ w.kind = "imei" /\ w.pc = "backup" /\ w.arg = op[u].arg
      BY <1>1, OnIs
    <3>3. modem.imei \in Seen
      BY <1>3 DEF Seen
    <3> HIDE DEF w
    <3>4. /\ r \in Operations /\ r.kind = "imei" /\ r.pc = "backup" /\ r.arg = op[u].arg
          /\ r.saw = modem.imei
      BY <3>2, <3>3, SawIs
    <3>5. Fitting(r)
      BY <1>1, <1>3, <3>4 DEF Fitting
    <3> QED
      BY <3>1, <3>4, <3>5
  <2> QED
    BY <2>1, <2>2
<1>5. op'[u].kind = "imei" /\ op'[u].pc = r.pc /\ op'[u].saw = r.saw
  BY <1>1, Going
<1>6. Locking(u)' /\ BackingUp(u)'
  BY <1>2, <1>5 DEF Locking, BackingUp
<1>7. OffForLock => OffForLock'
  BY <1>1, OffForLockKept
<1> QED
  BY <1>1, <1>2, <1>4, <1>6, <1>7, CommandKeeps

LEMMA ImeiWriteKeeps ==
  ASSUME IInv, NEW u \in Users, NEW o \in Outcomes, ImeiWrite(u, o) PROVE IInv'
<1> DEFINE told == IF o \in {"error", "failed"} THEN "error" ELSE "ok"
           r == Over(u, told)
           m == [modem EXCEPT !.imei = op[u].arg]
<1>1. /\ u \in Actors /\ op \in [Actors -> Operations] /\ Fitting(op[u]) /\ op[u].kind = "imei"
      /\ op[u].pc = "write"
  BY FittingOps DEF Actors, ImeiWrite, At, IInv
<1>2. m \in Modems /\ m.cfun = modem.cfun
  BY <1>1 DEF IInv, TypeOK, Modems, Fitting
<1>3. r \in Operations /\ r.kind = "imei" /\ r.pc = "over" /\ r.arg = op[u].arg
  BY <1>1, OverIs
<1>4. Fitting(r)
  BY <1>1, <1>3 DEF Fitting
<1>5. Goes(u, r) /\ Blame("nobody", FALSE) /\ UNCHANGED <<backup, begun>>
  BY DEF ImeiWrite
<1>6. PICK may \in BOOLEAN : Command(m, may, o)
  BY DEF ImeiWrite
<1> HIDE DEF r, m
<1>7. modem'.cfun = modem.cfun
  BY <1>2, <1>6 DEF Command
<1>8. op'[u].kind = "imei" /\ op'[u].pc = "over"
  BY <1>1, <1>3, <1>5, Going
<1>9. Locking(u)' /\ BackingUp(u)'
  BY <1>8 DEF Locking, BackingUp
<1>10. OffForLock => OffForLock'
  BY <1>1, <1>3, <1>5, OffForLockKept
<1> QED
  BY <1>1, <1>2, <1>3, <1>4, <1>5, <1>6, <1>7, <1>9, <1>10, CommandKeeps

LEMMA ImeiBackupKeeps ==
  ASSUME IInv, NEW u \in Users, NEW full \in BOOLEAN, ImeiBackup(u, full) PROVE IInv'
<1>1. /\ u \in Actors /\ op \in [Actors -> Operations] /\ Fitting(op[u]) /\ op[u].kind = "imei"
      /\ op[u].pc = "backup" /\ BackingUp(u)
  BY FittingOps DEF Actors, ImeiBackup, At, IInv
<1>2. UNCHANGED <<modem, offBy, hurt, begun>> /\ backup' = IF full THEN "none" ELSE op[u].saw
  BY DEF ImeiBackup
<1> SUFFICES ASSUME NEW r \in Operations, Goes(u, r), Fitting(r), r.kind = "imei",
                    r.pc = "over" \/ (r.pc = "write" /\ r.alone = op[u].alone /\ ~full)
             PROVE  IInv'
  <2>1. CASE full
    <3>1. Goes(u, Over(u, "error"))
      BY <2>1 DEF ImeiBackup
    <3>2. /\ Over(u, "error") \in Operations /\ Over(u, "error").kind = "imei"
          /\ Over(u, "error").pc = "over" /\ Over(u, "error").arg = op[u].arg
      BY <1>1, OverIs
    <3> QED
      BY <1>1, <3>1, <3>2 DEF Fitting
  <2>2. CASE ~full
    <3>1. Goes(u, On(u, "write"))
      BY <2>2 DEF ImeiBackup
    <3>2. /\ On(u, "write") \in Operations /\ On(u, "write").kind = "imei"
          /\ On(u, "write").pc = "write" /\ On(u, "write").arg = op[u].arg
          /\ On(u, "write").saw = op[u].saw /\ On(u, "write").alone = op[u].alone
      BY <1>1, OnIs
    <3> QED
      BY <1>1, <2>2, <3>1, <3>2 DEF Fitting
  <2> QED
    BY <2>1, <2>2
<1>3. op'[u].kind = "imei" /\ op'[u].pc = r.pc /\ op'[u].alone = r.alone
  BY <1>1, Going
<1>4. BackingUp(u)'
  BY <1>1, <1>2, <1>3 DEF BackingUp
<1>5. Locking(u)'
  BY <1>3 DEF Locking
<1>6. ASSUME NEW v \in Users PROVE Locking(v)' /\ BackingUp(v)'
  BY <1>1, <1>4, <1>5, OthersKept
<1>7. PutBackOnAir'
  <2>1. OffForLock => OffForLock'
    BY <1>1, OffForLockKept
  <2> QED
    BY <1>2, <2>1 DEF IInv, PutBackOnAir
<1>8. TypeOK'
  <2>1. op' \in [Actors -> Operations] /\ \A b \in Actors : Fitting(op'[b])
    BY <1>1, FittingAfter
  <2>2. /\ modem' \in Modems /\ hurt' \in BOOLEAN /\ begun' \in 0..MaxOps
        /\ offBy' \in {"nobody", "lock", "user", "restart", "watch"}
    BY <1>2 DEF IInv, TypeOK, Modems
  <2>3. backup' \in Imeis \cup {Factory, "none"}
    BY <1>1, <1>2 DEF Fitting
  <2>4. faults' \in 0..MaxFaults
    BY MishapType DEF IInv, ImeiBackup
  <2> QED
    BY <2>1, <2>2, <2>3, <2>4, TypeFrom
<1>9. op' \in [Actors -> Operations]
  BY <1>1, FittingAfter
<1> QED
  BY <1>6, <1>7, <1>8, <1>9 DEF IInv

\* The watch's dial leaves the modem where it is, or on the air.
LEMMA DialKeeps ==
  ASSUME IInv, NEW o \in Outcomes, DialCheck(o) \/ DialRecover(o) \/ DialGate(o) PROVE IInv'
<1>1. /\ Watch \in Actors /\ Watch \notin Users /\ op \in [Actors -> Operations]
      /\ Fitting(op[Watch]) /\ op[Watch].kind = "dial"
      /\ op[Watch].pc \in {"begun", "recover", "gate"}
  BY FittingOps, OpsAssumption DEF Actors, DialCheck, DialRecover, DialGate, At, IInv
<1>2. modem \in Modems
  BY DEF IInv, TypeOK, Modems
<1> SUFFICES ASSUME NEW r \in Operations, Goes(Watch, r), Fitting(r), r.kind = "dial",
                    NEW m \in Modems, m.cfun \in {1, modem.cfun}, NEW may, Command(m, may, o),
                    NEW who \in {"nobody", "watch"}, Blame(who, FALSE),
                    UNCHANGED <<backup, begun>>
             PROVE  IInv'
  <2>1. CASE DialCheck(o)
    <3> DEFINE pc == IF ~Bad(o) /\ modem.cfun = 4 THEN "recover" ELSE "gate"
               r == On(Watch, pc)
    <3>1. pc \in {"recover", "gate"}
      OBVIOUS
    <3> HIDE DEF pc
    <3>2. r \in Operations /\ r.kind = "dial" /\ r.pc = pc /\ r.arg = op[Watch].arg
      BY <1>1, <3>1, OnIs
    <3>3. Fitting(r)
      BY <1>1, <3>1, <3>2 DEF Fitting
    <3>4. /\ Goes(Watch, r) /\ Command(modem, TRUE, o) /\ Blame("nobody", FALSE)
          /\ UNCHANGED <<backup, begun>>
      BY <2>1 DEF DialCheck, pc
    <3> QED
      BY <1>2, <3>2, <3>3, <3>4
  <2>2. CASE DialRecover(o)
    <3> DEFINE r == On(Watch, "gate")
    <3>1. r \in Operations /\ r.kind = "dial" /\ r.pc = "gate" /\ r.arg = op[Watch].arg
      BY <1>1, OnIs
    <3>2. Fitting(r)
      BY <1>1, <3>1 DEF Fitting
    <3>3. SetCfun(1) \in Modems /\ SetCfun(1).cfun = 1
      BY SetCfunType DEF IInv
    <3>4. Goes(Watch, r) /\ Blame("watch", FALSE) /\ UNCHANGED <<backup, begun>>
      BY <2>2 DEF DialRecover
    <3>5. Command(SetCfun(1), TRUE, o)
      BY <2>2 DEF DialRecover, CfunCommand, Command
    <3> QED
      BY <3>1, <3>2, <3>3, <3>4, <3>5
  <2>3. CASE DialGate(o)
    <3> DEFINE told == IF modem'.attached \/ Bad(o) THEN "ok" ELSE "error"
               r == Over(Watch, told)
               m == [modem EXCEPT !.attached = TRUE]
    <3>1. told \in {"ok", "error"}
      OBVIOUS
    <3> HIDE DEF told
    <3>2. r \in Operations /\ r.kind = "dial" /\ r.pc = "over" /\ r.arg = op[Watch].arg
      BY <1>1, <3>1, OverIs
    <3>3. Fitting(r)
      BY <1>1, <3>2 DEF Fitting
    <3>4. m \in Modems /\ m.cfun = modem.cfun
      BY <1>2 DEF Modems
    <3>5. PICK reg \in BOOLEAN : Command(m, reg /\ modem.cfun = 1, o)
      BY <2>3 DEF DialGate
    <3>6. Goes(Watch, r) /\ Blame("nobody", FALSE) /\ UNCHANGED <<backup, begun>>
      BY <2>3 DEF DialGate, told
    <3> QED
      BY <3>2, <3>3, <3>4, <3>5, <3>6
  <2> QED
    BY <2>1, <2>2, <2>3
<1>3. modem'.cfun \in {1, modem.cfun}
  BY DEF Command
<1>4. OffForLock => OffForLock'
  BY <1>1, OffForLockKept
<1> QED
  BY <1>1, <1>3, <1>4, CommandKeeps

\* An end of the daemon cuts short what is under way.
LEMMA DaemonEndsKeeps ==
  ASSUME IInv, DaemonEnds PROVE IInv'
<1>1. /\ UNCHANGED <<modem, backup, offBy, begun>> /\ op \in [Actors -> Operations]
      /\ hurt' = (hurt \/ (modem.cfun # 1 /\ OffForLock))
  BY DEF DaemonEnds, IInv
<1>2. ASSUME NEW a \in Actors
      PROVE  /\ op'[a] \in Operations /\ Fitting(op'[a])
             /\ op'[a].kind = op[a].kind /\ op'[a].arg = op[a].arg
             /\ op'[a].pc \in {"idle", "over"}
  <2>1. op[a] \in Operations /\ Fitting(op[a])
    BY FittingOps
  <2>2. op'[a] = IF op[a].pc \in {"idle", "over"} THEN op[a] ELSE [op[a] EXCEPT !.pc = "over"]
    BY DEF DaemonEnds
  <2>3. [op[a] EXCEPT !.pc = "over"] \in Operations
    BY <2>1 DEF Operations
  <2>4. /\ op'[a] \in Operations
        /\ op'[a].kind = op[a].kind /\ op'[a].arg = op[a].arg
        /\ op'[a].pc \in {"idle", "over"}
    BY <2>1, <2>2, <2>3 DEF Operations
  <2> QED
    BY <2>1, <2>4 DEF Fitting
<1>3. op' \in [Actors -> Operations]
  <2>1. DOMAIN op' = Actors /\ op' = [a \in Actors |-> op'[a]]
    BY DEF DaemonEnds
  <2> QED
    BY <1>2, <2>1
<1>4. TypeOK'
  <2>1. /\ modem' \in Modems /\ backup' \in Imeis \cup {Factory, "none"} /\ hurt' \in BOOLEAN
        /\ offBy' \in {"nobody", "lock", "user", "restart", "watch"} /\ begun' \in 0..MaxOps
    BY <1>1 DEF IInv, TypeOK, Modems
  <2>2. faults' \in 0..MaxFaults
    BY MishapType DEF IInv, DaemonEnds
  <2> QED
    BY <1>2, <1>3, <2>1, <2>2, TypeFrom
<1>5. ASSUME NEW u \in Users PROVE Locking(u)' /\ BackingUp(u)'
  <2>1. u \in Actors /\ Locking(u)
    BY DEF Actors, IInv
  <2> QED
    BY <1>2, <2>1 DEF Locking, BackingUp, Accepted
<1>6. PutBackOnAir'
  BY <1>1 DEF IInv, PutBackOnAir
<1> QED
  BY <1>3, <1>4, <1>5, <1>6 DEF IInv

-----------------------------------------------------------------------------
LEMMA Initial == Init => IInv
<1> SUFFICES ASSUME Init PROVE IInv
  OBVIOUS
<1>1. Idle \in Operations /\ Fitting(Idle) /\ Idle.kind = "none"
  BY DEF Idle, Operations, Arguments, Seen, Fitting
<1>2. op \in [Actors -> Operations] /\ \A a \in Actors : op[a] = Idle
  BY <1>1 DEF Init
<1>3. modem \in Modems /\ modem.cfun = 1
  BY DEF Init, Modems
<1>4. \A a \in Actors :
        /\ op[a].kind \in {"none", "lock", "cfun", "imei", "restart", "dial"}
        /\ op[a].pc \in {"idle", "begun", "off", "written", "backup", "write", "recover", "gate",
                         "over"}
        /\ op[a].alone \in BOOLEAN
        /\ op[a].told \in {"nothing", "ok", "error"}
  BY <1>1, <1>2 DEF Operations
<1>5. TypeOK
  <2>1. \A a \in Actors : Fitting(op[a])
    BY <1>1, <1>2
  <2>2. begun \in 0..MaxOps /\ faults \in 0..MaxFaults
    BY OpsAssumption DEF Init
  <2>3. backup = "none" /\ offBy = "nobody" /\ hurt \in BOOLEAN
    BY DEF Init
  <2> QED
    BY <1>3, <1>4, <2>1, <2>2, <2>3 DEF TypeOK, Fitting, Modems
<1>6. \A u \in Users : Locking(u) /\ BackingUp(u)
  BY <1>1, <1>2 DEF Actors, Locking, BackingUp
<1>7. PutBackOnAir
  BY <1>3 DEF PutBackOnAir
<1> QED
  BY <1>2, <1>5, <1>6, <1>7 DEF IInv

LEMMA Inductive == IInv /\ [Next]_vars => IInv'
<1> SUFFICES ASSUME IInv, [Next]_vars PROVE IInv'
  OBVIOUS
<1>1. CASE UNCHANGED vars
  <2>1. op' = op /\ modem' = modem /\ backup' = backup /\ UNCHANGED <<offBy, hurt, begun, faults>>
    BY <1>1 DEF vars
  <2>2. TypeOK'
    BY <2>1 DEF IInv, TypeOK
  <2>3. \A u \in Users : Locking(u)' /\ BackingUp(u)'
    BY <2>1 DEF IInv, Locking, BackingUp, Accepted
  <2>4. PutBackOnAir'
    BY <2>1 DEF IInv, PutBackOnAir, OffForLock
  <2> QED
    BY <2>1, <2>2, <2>3, <2>4 DEF IInv
<1>2. CASE DialBegin
  <2>1. Watch \in Actors /\ "none" \in Arguments /\ begun' \in 0..MaxOps
    BY <1>2 DEF Actors, Arguments, DialBegin, IInv, TypeOK
  <2> QED
    BY <1>2, <2>1, BeginKeeps DEF DialBegin
<1>3. CASE \E o \in Outcomes : DialCheck(o) \/ DialRecover(o) \/ DialGate(o)
  BY <1>3, DialKeeps
<1>4. CASE \E u \in Users : Request(u)
  BY <1>4, Requests
<1>5. CASE \E u \in Users, o \in Outcomes : LockOff(u, o) \/ LockWrite(u, o) \/ LockOn(u, o)
  BY <1>5, LockOffKeeps, LockWriteKeeps, LockOnKeeps
<1>6. CASE \E u \in Users, o \in Outcomes :
             CfunSet(u, o) \/ Restart(u, o) \/ ImeiRead(u, o) \/ ImeiWrite(u, o)
  BY <1>6, CfunSetKeeps, RestartKeeps, ImeiReadKeeps, ImeiWriteKeeps
<1>7. CASE \E u \in Users, full \in BOOLEAN : ImeiBackup(u, full)
  BY <1>7, ImeiBackupKeeps
<1>8. CASE DaemonEnds
  BY <1>8, DaemonEndsKeeps
<1> QED
  BY <1>1, <1>2, <1>3, <1>4, <1>5, <1>6, <1>7, <1>8 DEF Next

LEMMA Invariant == Spec => []IInv
BY Initial, Inductive, PTL DEF Spec

-----------------------------------------------------------------------------
\* The state has its shape, in every state of every run.
THEOREM TypeCorrect == Spec => []TypeOK
<1>1. IInv => TypeOK
  BY DEF IInv
<1> QED
  BY <1>1, Invariant, PTL

\* Off the air without a lock under way, the modem has been taken off by a
\* user or a restart, or a command of a lock has failed, or the daemon has
\* ended in the middle of one (lock.rs:226-234).
THEOREM PutBack == Spec => []PutBackOnAir
<1>1. IInv => PutBackOnAir
  BY DEF IInv
<1> QED
  BY <1>1, Invariant, PTL

\* No outage for arguments that validate_gtact() could have known to be
\* refused (lock.rs:57-176).
THEOREM OutageJustified == Spec => []OutageIsJustified
<1>1. ASSUME IInv PROVE OutageIsJustified
  <2> SUFFICES ASSUME NEW u \in Users, op[u].kind = "lock"
               PROVE  /\ Fits(op[u].arg.p1, op[u].arg)
                      /\ op[u].arg.rat = 20 => Workable(op[u].arg)
    BY DEF OutageIsJustified
  <2>1. op[u].arg \in Args /\ Accepted(op[u].arg)
    BY <1>1 DEF IInv, Locking, TypeOK, Actors
  <2> QED
    BY <2>1, AcceptedIsJustified
<1> QED
  BY <1>1, Invariant, PTL

\* An IMEI that is replaced by a write nobody has come between is the one in
\* the backup (imei.rs:170-200).
THEOREM ReplacedBackedUp == Spec => ReplacedIsBackedUp
<1>1. IInv => \A u \in Users : At(u, "imei", "write") /\ op[u].alone => backup = modem.imei
  BY DEF IInv, BackingUp, At
<1>2. IInv /\ [Next]_vars =>
        [\A u \in Users : (At(u, "imei", "write") /\ op[u].alone /\ modem'.imei # modem.imei)
                            => backup = modem.imei]_vars
  BY <1>1
<1> QED
  BY <1>2, Invariant, PTL DEF Spec, ReplacedIsBackedUp

=============================================================================
