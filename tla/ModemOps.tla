-------------------------------- MODULE ModemOps --------------------------------
(***************************************************************************)
(* The operations that take several commands: to lock bands or a cell      *)
(* (modem/lock.rs) the modem is taken off the air and put back, an IMEI is *)
(* backed up before it is written (imei.rs), and a dial first brings the   *)
(* modem on the air (modem/pdp.rs).  Each command is a job of its own      *)
(* (AtQueue), so those of other requests come in between, and the daemon   *)
(* may end there (its watchdog, a signal) and be started again.            *)
(*                                                                         *)
(* What a dial does once the modem is attached is Link's Dial; commands    *)
(* that only ask and decide nothing are left out.                          *)
(***************************************************************************)
EXTENDS Naturals

CONSTANTS
  Users,      \* requests of the pages and of command lines
  Watch,      \* the daemon's DialWatch
  Args,       \* what lock_band is given: a rat and two preferred technologies
  Imeis,      \* values to be written
  Factory,    \* the one the modem has at first
  Kinds,      \* operations the users ask for
  MaxOps,     \* bound: operations of the users
  MaxFaults   \* bound: commands and files that fail, ends of the daemon

ASSUME OpsAssumption ==
  /\ Watch \notin Users
  /\ Args \subseteq [rat : Nat, p1 : Nat, p2 : Nat]
  /\ MaxOps \in Nat /\ MaxFaults \in Nat

VARIABLES
  modem,   \* the modem: its CFUN, what it is locked to, its IMEI, attached or not
  op,      \* what each actor is doing, or has done
  backup,  \* /etc/fm350/imei.backup
  offBy,   \* history: who has taken the modem off the air
  hurt,    \* history: a lock has failed to put it back, or was cut short
  begun,   \* operations the users have begun
  faults

vars == <<modem, op, backup, offBy, hurt, begun, faults>>

Actors == Users \cup {Watch}
NotStated == 0  \* an empty <PreferredAct>
NoLock == [rat |-> 10, p1 |-> NotStated, p2 |-> NotStated]

\* An operation: its step, its argument, what it has read, whether no other
\* operation has come between its commands, and what its caller is told.
Idle == [kind |-> "none", pc |-> "idle", arg |-> "none", saw |-> "nothing",
         alone |-> TRUE, told |-> "nothing"]

Init ==
  /\ modem = [cfun |-> 1, lock |-> NoLock, imei |-> Factory, attached |-> TRUE]
  /\ op = [a \in Actors |-> Idle]
  /\ backup = "none"
  /\ offBy = "nobody" /\ hurt = FALSE
  /\ begun = 0 /\ faults = 0

-----------------------------------------------------------------------------
(* validate_gtact() *)

GTACT_RATS == {1, 2, 4, 10, 14, 16, 17, 20}
GTACT_PREFS == {2, 3, 6}  \* UMTS, LTE, NR

\* The technologies of a <rat>, and the pairs allowed with three of them.
Acts(rat) ==
  CASE rat = 1 -> {2} [] rat = 2 -> {3} [] rat = 4 -> {2, 3} [] rat = 14 -> {6}
    [] rat = 16 -> {2, 6} [] rat = 17 -> {3, 6} [] OTHER -> GTACT_PREFS

Combinations ==
  {<<NotStated, NotStated>>, <<2, NotStated>>, <<3, NotStated>>, <<6, NotStated>>,
   <<2, 3>>, <<2, 6>>, <<3, 2>>, <<3, 6>>, <<6, 2>>, <<6, 3>>}

FaultyAccepted(a) ==  \* with three technologies, the pair is not looked up
  /\ a.rat \in GTACT_RATS
  /\ {a.p1, a.p2} \subseteq GTACT_PREFS \cup {NotStated}
  /\ a.rat # 10 /\ a.p1 # NotStated => a.p1 \in Acts(a.rat)

Accepted(a) ==
  /\ a.rat \in GTACT_RATS
  /\ {a.p1, a.p2} \subseteq GTACT_PREFS \cup {NotStated}
  /\ a.rat # 10 /\ a.p1 # NotStated => a.p1 \in Acts(a.rat)
  /\ a.rat = 20 => <<a.p1, a.p2>> \in Combinations

-----------------------------------------------------------------------------
(* Commands *)

\* A command is taken ("ok"), refused by the modem ("error"), gets no answer
\* in time, which is Ok("") to its caller ("silent"), or fails in the queue
\* or with the port ("failed"); then nobody knows whether it was carried out.
Outcomes == {"ok", "error", "silent", "failed"}
Bad(o) == o \in {"silent", "failed"}

Mishap(bad) ==
  IF bad THEN faults < MaxFaults /\ faults' = faults + 1 ELSE UNCHANGED faults

\* A command that makes the modem m, if it is one the modem may take.
Command(m, may, o) ==
  /\ Mishap(Bad(o))
  /\ \/ o # "error" /\ may /\ modem' = m
     \/ o = "error" /\ ~may /\ modem' = modem
     \/ Bad(o) /\ modem' = modem

SetCfun(n) == [modem EXCEPT !.cfun = n, !.attached = @ /\ n = 1]

\* Some firmware refuses to be switched off when it is off (lock.rs:7).
CfunCommand(n, o) ==
  \E may \in IF n = 0 /\ modem.cfun = 0 THEN BOOLEAN ELSE {TRUE} : Command(SetCfun(n), may, o)

\* The modem has restarted, perhaps in flight mode.
Restarted == {[modem EXCEPT !.cfun = n, !.attached = FALSE] : n \in {1, 4}}

\* Actor a goes on as r says; the operations of the others are no longer alone
\* once it has changed something.
Goes(a, r) ==
  op' = [b \in Actors |->
           IF b = a THEN r
           ELSE [op[b] EXCEPT !.alone = @ /\ modem' = modem /\ backup' = backup]]

On(a, pc) == [op[a] EXCEPT !.pc = pc]
Over(a, told) == [op[a] EXCEPT !.pc = "over", !.told = told]

\* Who has taken the modem off the air, and whether a lock has failed to put
\* it back.
Blame(who, failing) ==
  /\ offBy' = IF modem'.cfun = 1 THEN "nobody"
              ELSE IF modem'.cfun # modem.cfun THEN who ELSE offBy
  /\ hurt' = (modem'.cfun # 1 /\ (hurt \/ failing))

At(a, kind, pc) == op[a].kind = kind /\ op[a].pc = pc

-----------------------------------------------------------------------------
(* Requests *)

Begin(a, kind, arg) ==
  /\ op[a].pc \in {"idle", "over"}
  /\ op' = [op EXCEPT ![a] = [Idle EXCEPT !.kind = kind, !.arg = arg, !.pc = "begun"]]
  /\ UNCHANGED <<modem, backup, offBy, hurt, faults>>

\* What is refused before its first command changes nothing: arguments,
\* an IMEI that is not confirmed, not enabled or not one, a mode that is none.
Request(u) ==
  /\ begun < MaxOps /\ begun' = begun + 1
  /\ \/ "lock" \in Kinds /\ \E a \in Args : Accepted(a) /\ Begin(u, "lock", a)
     \/ "cfun" \in Kinds /\ \E n \in {0, 1, 4} : Begin(u, "cfun", n)
     \/ "imei" \in Kinds /\ \E i \in Imeis : Begin(u, "imei", i)
     \/ "restart" \in Kinds /\ Begin(u, "restart", "none")

-----------------------------------------------------------------------------
(* offline_apply() *)

LockOff(u, o) ==
  /\ At(u, "lock", "begun")
  /\ CfunCommand(0, o)
  /\ UNCHANGED <<backup, begun>>
  /\ Goes(u, On(u, "off"))
  /\ Blame("lock", FALSE)

\* The manual's rule, which the modem follows: only technologies of the rat,
\* and no second one without another as the first.
Techs(rat) ==
  (IF rat \in {1, 4, 16, 20} THEN {2} ELSE {}) \cup (IF rat \in {2, 4, 17, 20} THEN {3} ELSE {})
    \cup (IF rat \in {14, 16, 17, 20} THEN {6} ELSE {})
Fits(p, a) == p = NotStated \/ a.rat = 10 \/ p \in Techs(a.rat)
Workable(a) ==
  /\ Fits(a.p1, a) /\ Fits(a.p2, a)
  /\ a.p2 # NotStated => a.p1 \notin {NotStated, a.p2}

Lock(u, o) ==
  Command([modem EXCEPT !.lock = op[u].arg], modem.cfun # 1 /\ Workable(op[u].arg), o)

\* Only the failure of this command is returned at once; an ERROR of the
\* modem is an answer like others.
FaultyLockWrite(u, o) ==  \* so is a refusal
  /\ At(u, "lock", "off")
  /\ Lock(u, o)
  /\ UNCHANGED <<backup, begun>>
  /\ Goes(u, IF o \in {"error", "failed"} THEN Over(u, "error")
                ELSE [On(u, "written") EXCEPT !.saw = o])
  /\ Blame("lock", o = "failed")

LockWrite(u, o) ==
  /\ At(u, "lock", "off")
  /\ Lock(u, o)
  /\ UNCHANGED <<backup, begun>>
  /\ Goes(u, IF o = "failed" THEN Over(u, "error") ELSE [On(u, "written") EXCEPT !.saw = o])
  /\ Blame("lock", o = "failed")

LockOn(u, o) ==
  /\ At(u, "lock", "written")
  /\ CfunCommand(1, o)
  /\ UNCHANGED <<backup, begun>>
  /\ Goes(u, Over(u, "ok"))
  /\ Blame("lock", o # "ok")

-----------------------------------------------------------------------------
(* Operations of one command *)

Single(u, who, o) ==
  /\ UNCHANGED <<backup, begun>>
  /\ Goes(u, Over(u, IF o = "failed" THEN "error" ELSE "ok"))
  /\ Blame(who, FALSE)

CfunSet(u, o) ==
  /\ At(u, "cfun", "begun")
  /\ CfunCommand(op[u].arg, o)
  /\ Single(u, "user", o)

\* reboot() and set_usb_mode().
Restart(u, o) ==
  /\ At(u, "restart", "begun")
  /\ \E m \in Restarted : Command(m, TRUE, o)
  /\ Single(u, "restart", o)

-----------------------------------------------------------------------------
(* imei::write() *)

\* backup() reads the IMEI: without an answer nothing is written.
ImeiRead(u, o) ==
  /\ At(u, "imei", "begun")
  /\ Command(modem, TRUE, o)
  /\ UNCHANGED <<backup, begun>>
  /\ Goes(u, IF Bad(o) THEN Over(u, "error") ELSE [On(u, "backup") EXCEPT !.saw = modem.imei])
  /\ Blame("nobody", FALSE)

\* and writes the file, whose old contents go first; a full flash ends it.
FaultyImeiBackup(u, full) ==  \* goes on without a backup
  /\ At(u, "imei", "backup")
  /\ Mishap(full)
  /\ UNCHANGED <<modem, offBy, hurt, begun>>
  /\ backup' = IF full THEN "none" ELSE op[u].saw
  /\ Goes(u, On(u, "write"))

ImeiBackup(u, full) ==
  /\ At(u, "imei", "backup")
  /\ Mishap(full)
  /\ UNCHANGED <<modem, offBy, hurt, begun>>
  /\ backup' = IF full THEN "none" ELSE op[u].saw
  /\ Goes(u, IF full THEN Over(u, "error") ELSE On(u, "write"))

\* What the modem makes of the new value is its affair; it is read back for
\* the answer only.
ImeiWrite(u, o) ==
  /\ At(u, "imei", "write")
  /\ \E may \in BOOLEAN : Command([modem EXCEPT !.imei = op[u].arg], may, o)
  /\ UNCHANGED <<backup, begun>>
  /\ Goes(u, Over(u, IF o \in {"error", "failed"} THEN "error" ELSE "ok"))
  /\ Blame("nobody", FALSE)

\* A lock is under way.
OffForLock == \E u \in Users : op[u].kind = "lock" /\ op[u].pc \in {"off", "written"}

-----------------------------------------------------------------------------
(* dial() of the watch, which has found no session *)

DialBegin ==
  /\ ~modem.attached
  /\ Begin(Watch, "dial", "none")
  /\ UNCHANGED begun

\* readiness(): what CFUN it has read.
FaultyDialCheck(o) ==  \* takes flight mode for on the air
  /\ At(Watch, "dial", "begun")
  /\ Command(modem, TRUE, o)
  /\ UNCHANGED <<backup, begun>>
  /\ Goes(Watch, On(Watch, "gate"))
  /\ Blame("nobody", FALSE)

DialCheck(o) ==
  /\ At(Watch, "dial", "begun")
  /\ Command(modem, TRUE, o)
  /\ UNCHANGED <<backup, begun>>
  /\ Goes(Watch, On(Watch, IF ~Bad(o) /\ modem.cfun = 4 THEN "recover" ELSE "gate"))
  /\ Blame("nobody", FALSE)

DialRecover(o) ==
  /\ At(Watch, "dial", "recover")
  /\ CfunCommand(1, o)
  /\ UNCHANGED <<backup, begun>>
  /\ Goes(Watch, On(Watch, "gate"))
  /\ Blame("watch", FALSE)

\* The gate: a modem that is not attached is asked to attach if it has been
\* seen registered; without an answer to either the dial goes on.
DialGate(o) ==
  /\ At(Watch, "dial", "gate")
  /\ \E reg \in BOOLEAN : Command([modem EXCEPT !.attached = TRUE], reg /\ modem.cfun = 1, o)
  /\ UNCHANGED <<backup, begun>>
  /\ Goes(Watch, Over(Watch, IF modem'.attached \/ Bad(o) THEN "ok" ELSE "error"))
  /\ Blame("nobody", FALSE)

\* The daemon ends, with whatever its requests and its watch were doing, and
\* is started again.
DaemonEnds ==
  /\ Mishap(TRUE)
  /\ op' = [a \in Actors |-> IF op[a].pc \in {"idle", "over"} THEN op[a]
                             ELSE [op[a] EXCEPT !.pc = "over"]]
  /\ hurt' = (hurt \/ (modem.cfun # 1 /\ OffForLock))
  /\ UNCHANGED <<modem, backup, offBy, begun>>

Next ==
  \/ DaemonEnds
  \/ \E u \in Users : Request(u)
  \/ \E u \in Users, o \in Outcomes :
       \/ LockOff(u, o) \/ LockWrite(u, o) \/ LockOn(u, o)
       \/ CfunSet(u, o) \/ Restart(u, o)
       \/ ImeiRead(u, o) \/ ImeiWrite(u, o)
  \/ \E u \in Users, full \in BOOLEAN : ImeiBackup(u, full)
  \/ DialBegin
  \/ \E o \in Outcomes : DialCheck(o) \/ DialRecover(o) \/ DialGate(o)

Spec == Init /\ [][Next]_vars

\* The threads of the requests go on; so does the daemon, round after round.
Dialling == DialBegin \/ \E o \in Outcomes : DialCheck(o) \/ DialRecover(o) \/ DialGate(o)
Working(u) ==
  \/ \E o \in Outcomes :
       \/ LockOff(u, o) \/ LockWrite(u, o) \/ LockOn(u, o)
       \/ CfunSet(u, o) \/ Restart(u, o)
       \/ ImeiRead(u, o) \/ ImeiWrite(u, o)
  \/ \E full \in BOOLEAN : ImeiBackup(u, full)

Fairness == WF_vars(Dialling) /\ \A u \in Users : WF_vars(Working(u))

FairSpec == Spec /\ Fairness

-----------------------------------------------------------------------------
(* Properties *)

\* Shape of the state.
TypeOK ==
  /\ modem \in [cfun : {0, 1, 4}, lock : Args \cup {NoLock}, imei : Imeis \cup {Factory},
                attached : BOOLEAN]
  /\ \A a \in Actors :
       /\ op[a].kind \in {"none", "lock", "cfun", "imei", "restart", "dial"}
       /\ op[a].pc \in {"idle", "begun", "off", "written", "backup", "write", "recover", "gate",
                       "over"}
       /\ op[a].alone \in BOOLEAN /\ op[a].told \in {"nothing", "ok", "error"}
       /\ op[a].kind = "lock" => op[a].arg \in Args
       /\ op[a].kind = "imei" => op[a].arg \in Imeis
       /\ op[a].kind = "cfun" => op[a].arg \in {0, 1, 4}
       /\ op[a].pc \in {"backup", "write"} => op[a].saw \in Imeis \cup {Factory}
  /\ backup \in Imeis \cup {Factory, "none"}
  /\ offBy \in {"nobody", "lock", "user", "restart", "watch"} /\ hurt \in BOOLEAN
  /\ begun \in 0..MaxOps /\ faults \in 0..MaxFaults

\* When no lock is under way the modem is on the air, unless a user, or a
\* restart, has taken it off, or one of a lock's own commands has failed, or
\* the daemon has ended between them (lock.rs:226-234): also if several locks,
\* dials and restarts run through one another, and if the modem refuses what is
\* to be locked.
PutBackOnAir ==
  (modem.cfun # 1 /\ ~OffForLock) => (offBy \in {"user", "restart"} \/ hurt)

\* The outage of a lock is not spent on arguments whose preferred technology
\* the modem must refuse, nor with three of them on any it must
\* (lock.rs:57-176).  The second preferred one is looked at with three only.
OutageIsJustified ==
  \A u \in Users : op[u].kind = "lock" =>
    /\ Fits(op[u].arg.p1, op[u].arg)
    /\ op[u].arg.rat = 20 => Workable(op[u].arg)

\* An IMEI is only replaced when the backup holds it, unless another
\* operation has come in between (imei.rs:170-200).
ReplacedIsBackedUp ==
  [][\A u \in Users :
       (At(u, "imei", "write") /\ op[u].alone /\ modem'.imei # modem.imei)
         => backup = modem.imei]_vars

\* A modem in flight mode is brought back by the watch's dials
\* (pdp.rs:579-602).
FlightModeEnds == (modem.cfun = 4) ~> (modem.cfun # 4)

\* "When it is found not to be on the air, CFUN=1 is sent" (pdp.rs:579-580):
\* however the modem was left off the air, the watch's dials bring it back.
OffAirEnds == (modem.cfun # 1) ~> (modem.cfun = 1)

\* Not true: a lock's commands being one job that nothing comes between
\* (queue.rs:24-26, worker.rs:21-22), its write finds the modem off the air and
\* is taken when no command fails.  They are three jobs (lock.rs:230-232):
\* another lock's last command, or a dial's, puts the modem on the air between
\* the first two, and the answer "ok" holds the modem's ERROR.
LockIsTaken ==
  \A u \in Users :
    (op[u].kind = "lock" /\ op[u].pc \in {"written", "over"} /\ op[u].saw # "nothing"
       /\ faults = 0 /\ Workable(op[u].arg)) => op[u].saw = "ok"
=============================================================================
