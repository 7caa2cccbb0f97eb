---------------------------- MODULE AtPortProofs ----------------------------
(***************************************************************************)
(* The session with the modem's AT port, its two halves.                   *)
(*                                                                         *)
(* AtSlot for any number of ports, interfaces and clients, with or without *)
(* udev's links and identifiers, any thresholds and windows, and any       *)
(* number of re-enumerations and configuration changes: what the slot      *)
(* holds is accounted for, is what the job asked for, and is what the      *)
(* published view says.                                                    *)
(*                                                                         *)
(* AtDialogue for any number of jobs, +GT lines, ignored commands, notes   *)
(* of the proxy and cuts and any length of the queue of events: no input   *)
(* is left open, an answer is its command's own, what is reported as sent  *)
(* is sent, what is reported as rejected is not, and every +GT line is     *)
(* counted once.                                                           *)
(***************************************************************************)
EXTENDS AtSlot, AtDialogue, SequenceTheorems, FiniteSetTheorems, TLAPS

\* Nothing is held from the moment the old handle is dropped until the next
\* one is open, nor while the worker probes for another port.
NothingHeldMeanwhile == worker.pc \in {"open", "probe", "save"} => ~Held

\* What is about to be opened, and what is about to be saved, is named.
Named ==
  /\ worker.pc \in {"open", "session"} => worker.want \in Paths
  /\ worker.pc = "save" => worker.found \in Settings
  /\ watch.pc = "save" => watch.found \in Settings

IInv ==
  /\ TypeOK
  /\ HandlesBalance
  /\ TalksToConfigured
  /\ BreakerOnlyWhileClosed
  /\ ViewIsCurrent
  /\ NothingHeldMeanwhile
  /\ Named

-----------------------------------------------------------------------------
(* Facts about the operators *)

\* resolve_stable() yields a node, or what it was given.
LEMMA ResolveType ==
  ASSUME WorldTypeOK, NEW s \in Settings
  PROVE  Resolve(s) \in Paths
  BY DEF WorldTypeOK, Resolve, Enumerated, Paths, Settings, NodeMaps

\* The counters wrap around and stay in range.
LEMMA IncType ==
  ASSUME NEW n \in Counters
  PROVE  Inc(n) \in Counters
  BY SlotAssumption DEF Inc, Counters

\* A handle is not NoPort: it has a path.
LEMMA HandleIsHeld ==
  ASSUME NEW h \in Handles
  PROVE  h # NoPort /\ h.path \in Paths /\ h.path # NoNode
  BY SlotAssumption DEF Handles, NoPort, Paths, Settings

LEMMA HeldHandle ==
  ASSUME SlotTypeOK, Held
  PROVE  port \in Handles
  BY DEF SlotTypeOK, Held

\* Changing the streak or the life of a handle leaves it a handle of its path.
LEMMA HandleUpdate ==
  ASSUME NEW h \in Handles, NEW n \in 0..Threshold
  PROVE  /\ [h EXCEPT !.silent = n] \in Handles
         /\ [h EXCEPT !.silent = n].path = h.path
  BY DEF Handles

LEMMA HandleDies ==
  ASSUME NEW h \in Handles
  PROVE  /\ [h EXCEPT !.alive = FALSE, !.silent = 0] \in Handles
         /\ [h EXCEPT !.alive = FALSE, !.silent = 0].path = h.path
<1>1. 0 \in 0..Threshold
  BY SlotAssumption
<1> QED
  BY <1>1 DEF Handles

\* What is opened is a handle of the wanted path.
LEMMA OpenedHandle ==
  ASSUME NEW p \in Paths, Exists(p), NEW n \in {0, 1}
  PROVE  [path |-> p, iface |-> IfaceAt(p), alive |-> TRUE, silent |-> n] \in Handles
  BY SlotAssumption DEF Exists, IfaceAt, Enumerated, Handles

LEMMA JobEnds ==
  ASSUME NEW end \in Ends
  PROVE  /\ [AtRest EXCEPT !.pc = "done", !.end = end] \in Jobs
         /\ [AtRest EXCEPT !.pc = "done", !.end = end].pc = "done"
  BY DEF Jobs, AtRest

\* stable_path() names the port in one of the three forms.
LEMMA StablePathsType ==
  ASSUME WorldTypeOK, NEW i \in Enumerated, NEW s \in StablePaths(i)
  PROVE  s \in Settings
<1>1. i \in Ifaces /\ nodeOf[i] \in Nodes
  BY DEF Enumerated, WorldTypeOK, NodeMaps
<1>2. i \in Linked => ById(i) \in ByIds
  BY DEF ByIds
<1> QED
  BY <1>1, <1>2 DEF StablePaths, Settings

-----------------------------------------------------------------------------
(* What groups of actions have in common *)

WorldSame == UNCHANGED <<envVars, saveVars>>
SlotSame == UNCHANGED <<slotVars, view>>

LEMMA WorldFrame ==
  ASSUME WorldTypeOK, WorldSame
  PROVE  WorldTypeOK'
  BY DEF WorldTypeOK, WorldSame, envVars, saveVars, NodeMaps, Settings

LEMMA SlotFrame ==
  ASSUME SlotTypeOK, HandlesBalance, BreakerOnlyWhileClosed, SlotSame
  PROVE  /\ SlotTypeOK' /\ HandlesBalance' /\ BreakerOnlyWhileClosed'
         /\ Held' = Held /\ Snapshot' = Snapshot /\ view' = view /\ port' = port
  BY DEF SlotTypeOK, HandlesBalance, BreakerOnlyWhileClosed, SlotSame, slotVars, Held, Snapshot

\* The first step of a job.
LEMMA StartStep ==
  ASSUME WorldTypeOK, ThreadTypeOK, NEW c \in Clients, NEW to \in {"open", "session"},
         Start(c, to), UNCHANGED <<closePending, watch>>
  PROVE  /\ ThreadTypeOK'
         /\ worker'.pc = to
         /\ worker'.want = Resolve(client[c].cfg) /\ worker'.want \in Paths
<1>1. client[c] \in ClientStates /\ client[c].cfg \in Settings
  BY DEF ThreadTypeOK, ClientStates
<1>2. Resolve(client[c].cfg) \in Paths
  BY <1>1, ResolveType
<1>3. worker' \in Jobs /\ worker'.pc = to /\ worker'.want = Resolve(client[c].cfg)
  BY <1>1, <1>2 DEF Start, AtRest, Jobs, Ends
<1>4. client' \in [Clients -> ClientStates]
  BY <1>1 DEF Start, ThreadTypeOK, ClientStates
<1> QED
  BY <1>2, <1>3, <1>4 DEF ThreadTypeOK

\* A job that fails before its first step.
LEMMA FailFastStep ==
  ASSUME ThreadTypeOK, NEW c \in Clients, FailFast(c), UNCHANGED <<closePending, watch>>
  PROVE  ThreadTypeOK' /\ worker'.pc = "done"
<1>1. worker' \in Jobs /\ worker'.pc = "done"
  BY JobEnds DEF FailFast, Ends
<1> QED
  BY <1>1 DEF FailFast, ThreadTypeOK

\* The last step of a job.
LEMMA DoneStep ==
  ASSUME ThreadTypeOK, NEW end \in Ends, Done(end), UNCHANGED <<closePending, watch>>
  PROVE  ThreadTypeOK' /\ worker'.pc = "done"
<1>1. worker' \in Jobs /\ worker'.pc = "done"
  BY JobEnds DEF Done, ThreadTypeOK
<1>2. client' \in [Clients -> ClientStates]
  BY DEF Done, ThreadTypeOK, ClientStates
<1> QED
  BY <1>1, <1>2 DEF ThreadTypeOK

LEMMA EndRoundStep ==
  ASSUME ThreadTypeOK, EndRound
  PROVE  client' \in [Clients -> ClientStates]
  BY DEF EndRound, ThreadTypeOK, ClientStates

LEMMA SaveStep ==
  ASSUME WorldTypeOK, NEW s \in Settings, Save(s), UNCHANGED envVars
  PROVE  WorldTypeOK'
  BY DEF WorldTypeOK, Save, Mishap, envVars, NodeMaps, Settings

LEMMA Released ==
  ASSUME SlotTypeOK, Release
  PROVE  port' = NoPort /\ ~Held' /\ releases' = Inc(releases) /\ releases' \in Counters
  BY IncType DEF SlotTypeOK, Release, Held

LEMMA Initial == Init => IInv
<1> SUFFICES ASSUME Init PROVE IInv
  OBVIOUS
<1>1. WorldTypeOK
  BY DEF Init, WorldTypeOK
<1>2. SlotTypeOK
  BY SlotAssumption DEF Init, SlotTypeOK, NoPort, NoHold, Snapshot, Counters
<1>3. ThreadTypeOK
  <2>1. worker \in Jobs
    BY DEF Init, AtRest, Jobs, Ends
  <2>2. client \in [Clients -> ClientStates]
    BY DEF Init, ClientStates
  <2>3. watch \in WatchStates
    BY SlotAssumption DEF Init, WatchStates
  <2> QED
    BY <2>1, <2>2, <2>3 DEF Init, ThreadTypeOK
<1>4. ~Held
  BY DEF Init, Held
<1> QED
  BY <1>1, <1>2, <1>3, <1>4 DEF Init, TypeOK, IInv, HandlesBalance, TalksToConfigured,
    BreakerOnlyWhileClosed, ViewIsCurrent, NothingHeldMeanwhile, Named, AtRest

LEMMA Inductive == ASSUME IInv, [Next]_vars PROVE IInv'
<1> USE DEF IInv, TypeOK
<1>1. CASE Reenumerate
  <2>1. WorldTypeOK'
    BY <1>1 DEF Reenumerate, Mishap, WorldTypeOK, Settings
  <2>2. port' \in Handles \cup {NoPort} /\ Held' = Held /\ port'.path = port.path
    <3>1. CASE Held
      <4>1. port \in Handles
        BY <3>1, HeldHandle
      <4>2. port' \in Handles /\ port'.path = port.path
        BY <1>1, <3>1, <4>1, HandleDies DEF Reenumerate
      <4> QED
        BY <3>1, <4>2, HandleIsHeld DEF Held
    <3>2. CASE ~Held
      BY <1>1, <3>2 DEF Reenumerate, Held
    <3> QED
      BY <3>1, <3>2
  <2>3. SlotTypeOK'
    BY <1>1, <2>2 DEF Reenumerate, SlotTypeOK
  <2>4. ThreadTypeOK'
    BY <1>1 DEF Reenumerate, ThreadTypeOK
  <2>5. HandlesBalance' /\ BreakerOnlyWhileClosed'
    BY <1>1, <2>2 DEF Reenumerate, HandlesBalance, BreakerOnlyWhileClosed
  <2> QED
    BY <1>1, <2>1, <2>2, <2>3, <2>4, <2>5
      DEF Reenumerate, Snapshot, TalksToConfigured,
      ViewIsCurrent, NothingHeldMeanwhile, Named
<1>2. CASE SetTalks
  <2>1. WorldTypeOK'
    BY <1>2 DEF SetTalks, Mishap, WorldTypeOK, NodeMaps, Settings
  <2> QED
    BY <1>2, <2>1, SlotFrame DEF SetTalks, SlotSame, ThreadTypeOK, TalksToConfigured,
      ViewIsCurrent, NothingHeldMeanwhile, Named
<1>3. CASE Tick
  <2>1. WorldTypeOK' /\ ThreadTypeOK'
    BY <1>3, WorldFrame DEF Tick, WorldSame, ThreadTypeOK
  <2>2. openFailed' \in 0..OpenRetry /\ (openFailed = 0 => openFailed' = 0)
    BY <1>3, SlotAssumption DEF Tick, SlotTypeOK, Less
  <2>3. hold' \in [to : Settings \cup {NoNode}, left : 0..Hold] /\ cooldown' \in 0..Cooldown
    BY <1>3, SlotAssumption DEF Tick, SlotTypeOK, NoHold, Less
  <2> QED
    BY <1>3, <2>1, <2>2, <2>3 DEF Tick, SlotTypeOK, HandlesBalance, BreakerOnlyWhileClosed, Held,
      Snapshot, TalksToConfigured,
      ViewIsCurrent, NothingHeldMeanwhile, Named
<1>4. ASSUME NEW x \in Settings, UserSaves(x) PROVE IInv'
  <2>1. WorldTypeOK'
    BY <1>4 DEF UserSaves, Mishap, envVars, WorldTypeOK, NodeMaps, Settings
  <2> QED
    BY <1>4, <2>1, SlotFrame DEF UserSaves, SlotSame, ThreadTypeOK, TalksToConfigured,
      ViewIsCurrent, NothingHeldMeanwhile, Named
<1>5. ASSUME NEW c \in Clients, Load(c) PROVE IInv'
  <2>1. ThreadTypeOK'
    BY <1>5 DEF Load, ThreadTypeOK, WorldTypeOK, ClientStates
  <2> QED
    BY <1>5, <2>1, SlotFrame, WorldFrame DEF Load, SlotSame, WorldSame, TalksToConfigured,
      ViewIsCurrent, NothingHeldMeanwhile, Named
<1>6. ASSUME NEW c \in Clients, Refuse(c) PROVE IInv'
  <2>1. ThreadTypeOK' /\ worker'.pc = "done"
    BY <1>6, FailFastStep DEF Refuse
  <2> QED
    BY <1>6, <2>1, SlotFrame, WorldFrame DEF Refuse, SlotSame, WorldSame, TalksToConfigured,
      ViewIsCurrent, NothingHeldMeanwhile, Named
<1>7. ASSUME NEW c \in Clients, Reuse(c) PROVE IInv'
  <2>1. ThreadTypeOK' /\ worker'.pc = "session" /\ worker'.want = Resolve(client[c].cfg)
        /\ worker'.want \in Paths
    BY <1>7, StartStep DEF Reuse
  <2>2. Held /\ port.path = worker'.want
    BY <1>7, <2>1 DEF Reuse, HeldOff
  <2> QED
    BY <1>7, <2>1, <2>2, SlotFrame, WorldFrame DEF Reuse, SlotSame, WorldSame, TalksToConfigured,
      ViewIsCurrent, NothingHeldMeanwhile, Named
<1>8. ASSUME NEW c \in Clients, Trip(c) PROVE IInv'
  <2>1. ThreadTypeOK' /\ worker'.pc = "done"
    BY <1>8, FailFastStep DEF Trip
  <2> QED
    BY <1>8, <2>1, SlotFrame, WorldFrame DEF Trip, SlotSame, WorldSame, TalksToConfigured,
      ViewIsCurrent, NothingHeldMeanwhile, Named
<1>9. ASSUME NEW c \in Clients, Reopen(c) PROVE IInv'
  <2>1. ThreadTypeOK' /\ worker'.pc = "open" /\ worker'.want = Resolve(client[c].cfg)
        /\ worker'.want \in Paths
    BY <1>9, StartStep DEF Reopen
  <2>2. ~Held
    BY <1>9, <2>1 DEF Reopen, HeldOff
  <2> QED
    BY <1>9, <2>1, <2>2, SlotFrame, WorldFrame DEF Reopen, SlotSame, WorldSame, TalksToConfigured,
      ViewIsCurrent, NothingHeldMeanwhile, Named
<1>10. ASSUME NEW c \in Clients, Switch(c) PROVE IInv'
  <2>1. /\ ThreadTypeOK' /\ worker'.pc = "open" /\ worker'.want \in Paths
    BY <1>10, StartStep DEF Switch
  <2>2. port' = NoPort /\ ~Held' /\ releases' = Inc(releases) /\ releases' \in Counters
    BY <1>10, Released DEF Switch
  <2>3. SlotTypeOK'
    BY <1>10, <2>2, SlotAssumption DEF Switch, SlotTypeOK
  <2>4. HandlesBalance' /\ BreakerOnlyWhileClosed'
    BY <1>10, <2>2 DEF Switch, HandlesBalance, BreakerOnlyWhileClosed
  <2> QED
    BY <1>10, <2>1, <2>2, <2>3, <2>4, WorldFrame DEF Switch, WorldSame, TalksToConfigured,
      ViewIsCurrent, NothingHeldMeanwhile, Named
<1>11. CASE Opened
  <2>1. worker.want \in Paths /\ ~Held /\ Exists(worker.want)
    BY <1>11 DEF Opened, Named, NothingHeldMeanwhile
  <2>2. port' \in Handles /\ port'.path = worker.want
    <3>1. PICK n \in {0, 1} :
            port' = [path |-> worker.want, iface |-> IfaceAt(worker.want), alive |-> TRUE,
                     silent |-> n]
      BY <1>11 DEF Opened
    <3> QED
      BY <2>1, <3>1, OpenedHandle
  <2>3. Held'
    BY <2>2, HandleIsHeld DEF Held
  <2>4. SlotTypeOK'
    BY <1>11, <2>2, IncType, SlotAssumption DEF Opened, SlotTypeOK
  <2>5. HandlesBalance' /\ BreakerOnlyWhileClosed'
    BY <1>11, <2>1, <2>3 DEF Opened, HandlesBalance, BreakerOnlyWhileClosed
  <2>6. ThreadTypeOK' /\ worker'.pc = "session" /\ worker'.want = worker.want
    BY <1>11 DEF Opened, ThreadTypeOK, Jobs
  <2> QED
    BY <1>11, <2>1, <2>2, <2>3, <2>4, <2>5, <2>6, WorldFrame
      DEF Opened, WorldSame, TalksToConfigured, ViewIsCurrent, NothingHeldMeanwhile, Named
<1>12. CASE OpenFails
  <2>1. ThreadTypeOK' /\ worker'.pc = "done"
    BY <1>12, DoneStep DEF OpenFails, Ends
  <2>2. worker.want \in Paths /\ ~Held
    BY <1>12 DEF OpenFails, Named, NothingHeldMeanwhile
  <2>3. SlotTypeOK'
    BY <1>12, <2>2, SlotAssumption DEF OpenFails, SlotTypeOK
  <2>4. ~Held' /\ HandlesBalance' /\ BreakerOnlyWhileClosed'
    BY <1>12, <2>2 DEF OpenFails, HandlesBalance, BreakerOnlyWhileClosed, Held
  <2> QED
    BY <1>12, <2>1, <2>3, <2>4, WorldFrame DEF OpenFails, WorldSame, TalksToConfigured,
      ViewIsCurrent, NothingHeldMeanwhile, Named
<1>13. CASE Answered
  <2>1. ThreadTypeOK' /\ worker'.pc = "done"
    BY <1>13, DoneStep DEF Answered, Ends
  <2>2. port \in Handles /\ Held
    BY <1>13, HeldHandle DEF Answered, TalksToConfigured
  <2>3. port' \in Handles /\ Held'
    <3>1. 0 \in 0..Threshold
      BY <1>13, <2>2, SlotAssumption DEF Handles, Streak
    <3>2. port' = [port EXCEPT !.silent = 0]
      BY <1>13 DEF Answered
    <3>3. port' \in Handles
      BY <2>2, <3>1, <3>2, HandleUpdate
    <3> QED
      BY <3>3, HandleIsHeld DEF Held
  <2>4. SlotTypeOK'
    BY <1>13, <2>3, SlotAssumption DEF Answered, SlotTypeOK, NoHold
  <2>5. HandlesBalance' /\ BreakerOnlyWhileClosed'
    BY <1>13, <2>2, <2>3 DEF Answered, HandlesBalance, BreakerOnlyWhileClosed
  <2> QED
    BY <1>13, <2>1, <2>4, <2>5, WorldFrame DEF Answered, WorldSame, TalksToConfigured,
      ViewIsCurrent, NothingHeldMeanwhile, Named
<1>14. CASE Failed
  <2>1. ThreadTypeOK' /\ worker'.pc = "done"
    BY <1>14, DoneStep DEF Failed, Ends
  <2>2. port' = NoPort /\ ~Held' /\ releases' = Inc(releases) /\ releases' \in Counters
    BY <1>14, Released DEF Failed
  <2>3. SlotTypeOK'
    BY <1>14, <2>2 DEF Failed, SlotTypeOK
  <2>4. HandlesBalance' /\ BreakerOnlyWhileClosed'
    BY <1>14, <2>2 DEF Failed, HandlesBalance, BreakerOnlyWhileClosed, TalksToConfigured
  <2> QED
    BY <1>14, <2>1, <2>3, <2>4, WorldFrame DEF Failed, WorldSame, TalksToConfigured,
      ViewIsCurrent, NothingHeldMeanwhile, Named
<1>15. ASSUME NEW n \in 1..Threshold, Unanswered(n) PROVE IInv'
  <2>1. ThreadTypeOK' /\ worker'.pc = "done"
    BY <1>15, DoneStep DEF Unanswered, Ends
  <2>2. port \in Handles /\ Held
    BY <1>15, HeldHandle DEF Unanswered, TalksToConfigured
  <2>3. port' \in Handles /\ Held'
    <3>1. Streak(n) \in 0..Threshold
      BY <1>15, <2>2, SlotAssumption DEF Handles, Streak
    <3>2. port' = [port EXCEPT !.silent = Streak(n)]
      BY <1>15 DEF Unanswered
    <3>3. port' \in Handles
      BY <2>2, <3>1, <3>2, HandleUpdate
    <3> QED
      BY <3>3, HandleIsHeld DEF Held
  <2>4. SlotTypeOK'
    BY <1>15, <2>3, SlotAssumption DEF Unanswered, SlotTypeOK, NoHold
  <2>5. HandlesBalance' /\ BreakerOnlyWhileClosed'
    BY <1>15, <2>2, <2>3 DEF Unanswered, HandlesBalance, BreakerOnlyWhileClosed
  <2> QED
    BY <1>15, <2>1, <2>4, <2>5, WorldFrame DEF Unanswered, WorldSame, TalksToConfigured,
      ViewIsCurrent, NothingHeldMeanwhile, Named
<1>16. ASSUME NEW n \in 1..Threshold, TooSilent(n) PROVE IInv'
  <2>1. ThreadTypeOK' /\ worker'.pc = "done"
    BY <1>16, DoneStep DEF TooSilent, Ends
  <2>2. port \in Handles /\ Held
    BY <1>16, HeldHandle DEF TooSilent, TalksToConfigured
  <2>3. port' \in Handles /\ Held'
    <3>1. Threshold \in 0..Threshold
      BY <1>16, <2>2, SlotAssumption DEF Handles, Streak
    <3>2. port' = [port EXCEPT !.silent = Threshold]
      BY <1>16 DEF TooSilent
    <3>3. port' \in Handles
      BY <2>2, <3>1, <3>2, HandleUpdate
    <3> QED
      BY <3>3, HandleIsHeld DEF Held
  <2>4. SlotTypeOK'
    BY <1>16, <2>3, SlotAssumption DEF TooSilent, SlotTypeOK, NoHold
  <2>5. HandlesBalance' /\ BreakerOnlyWhileClosed'
    BY <1>16, <2>2, <2>3 DEF TooSilent, HandlesBalance, BreakerOnlyWhileClosed
  <2> QED
    BY <1>16, <2>1, <2>4, <2>5, WorldFrame DEF TooSilent, WorldSame, TalksToConfigured,
      ViewIsCurrent, NothingHeldMeanwhile, Named
<1>17. ASSUME NEW n \in 1..Threshold, Reselect(n) PROVE IInv'
  <2>1. ThreadTypeOK' /\ worker'.pc = "probe"
    BY <1>17 DEF Reselect, ThreadTypeOK, Jobs
  <2>2. port' = NoPort /\ ~Held' /\ releases' = Inc(releases) /\ releases' \in Counters
    BY <1>17, Released DEF Reselect
  <2>3. SlotTypeOK'
    BY <1>17, <2>2 DEF Reselect, SlotTypeOK
  <2>4. HandlesBalance' /\ BreakerOnlyWhileClosed'
    BY <1>17, <2>2 DEF Reselect, HandlesBalance, BreakerOnlyWhileClosed, TalksToConfigured
  <2> QED
    BY <1>17, <2>1, <2>2, <2>3, <2>4, WorldFrame DEF Reselect, WorldSame, TalksToConfigured,
      ViewIsCurrent, NothingHeldMeanwhile, Named
<1>18. CASE NothingAnswers
  <2>1. ThreadTypeOK' /\ worker'.pc = "done"
    BY <1>18, DoneStep DEF NothingAnswers, Ends
  <2>2. SlotTypeOK'
    BY <1>18, SlotAssumption DEF NothingAnswers, SlotTypeOK
  <2>3. HandlesBalance' /\ BreakerOnlyWhileClosed'
    BY <1>18 DEF NothingAnswers, HandlesBalance, BreakerOnlyWhileClosed, Held
  <2> QED
    BY <1>18, <2>1, <2>2, <2>3, WorldFrame DEF NothingAnswers, WorldSame, TalksToConfigured,
      ViewIsCurrent, NothingHeldMeanwhile, Named
<1>19. ASSUME NEW i \in Ifaces, Found(i) PROVE IInv'
  <2>1. PICK s \in StablePaths(i) : worker' = [worker EXCEPT !.pc = "save", !.found = s]
    BY <1>19 DEF Found
  <2>2. s \in Settings
    BY <1>19, <2>1, StablePathsType DEF Found, Answering
  <2>3. ThreadTypeOK' /\ worker'.pc = "save" /\ worker'.found \in Settings
    BY <1>19, <2>1, <2>2 DEF Found, ThreadTypeOK, Jobs
  <2> QED
    BY <1>19, <2>3, SlotFrame, WorldFrame DEF Found, SlotSame, WorldSame, TalksToConfigured,
      ViewIsCurrent, NothingHeldMeanwhile, Named
<1>20. CASE Reselected
  <2>1. ThreadTypeOK' /\ worker'.pc = "done"
    BY <1>20, DoneStep DEF Reselected, Ends
  <2>2. worker.found \in Settings
    BY <1>20 DEF Reselected, Named
  <2>3. WorldTypeOK'
    BY <1>20, <2>2, SaveStep DEF Reselected
  <2>4. SlotTypeOK'
    BY <1>20, <2>2, SlotAssumption DEF Reselected, SlotTypeOK
  <2>5. HandlesBalance' /\ BreakerOnlyWhileClosed'
    BY <1>20 DEF Reselected, HandlesBalance, BreakerOnlyWhileClosed, Held
  <2> QED
    BY <1>20, <2>1, <2>3, <2>4, <2>5 DEF Reselected, TalksToConfigured,
      ViewIsCurrent, NothingHeldMeanwhile, Named
<1>21. CASE Publish
  <2>1. Snapshot \in [current : Paths \cup {NoNode}, opens : Counters, releases : Counters]
    BY HandleIsHeld DEF SlotTypeOK, Snapshot, NoPort
  <2>2. SlotTypeOK' /\ Snapshot' = Snapshot
    BY <1>21, <2>1 DEF Publish, slotVars, SlotTypeOK, Snapshot
  <2>3. ThreadTypeOK'
    BY <1>21 DEF Publish, ThreadTypeOK, AtRest, Jobs, Ends
  <2> QED
    BY <1>21, <2>2, <2>3, WorldFrame DEF Publish, slotVars, WorldSame, HandlesBalance, Held,
      BreakerOnlyWhileClosed, AtRest, TalksToConfigured,
      ViewIsCurrent, NothingHeldMeanwhile, Named
<1>22. CASE CloseJob
  <2>1. ThreadTypeOK' /\ worker'.pc = "done"
    BY <1>22 DEF CloseJob, ThreadTypeOK, AtRest, Jobs, Ends
  <2>2. ~Held' /\ SlotTypeOK' /\ HandlesBalance' /\ BreakerOnlyWhileClosed'
    <3>1. CASE Held
      <4>1. port' = NoPort /\ ~Held' /\ releases' = Inc(releases) /\ releases' \in Counters
        BY <1>22, <3>1, Released DEF CloseJob
      <4> QED
        BY <1>22, <3>1, <4>1 DEF CloseJob, SlotTypeOK, HandlesBalance, BreakerOnlyWhileClosed
    <3>2. CASE ~Held
      BY <1>22, <3>2 DEF CloseJob, SlotTypeOK, HandlesBalance, BreakerOnlyWhileClosed, Held
    <3> QED
      BY <3>1, <3>2
  <2> QED
    BY <1>22, <2>1, <2>2, WorldFrame DEF CloseJob, WorldSame, TalksToConfigured,
      ViewIsCurrent, NothingHeldMeanwhile, Named
<1>23. CASE ReleaseOnChange
  <2>1. ThreadTypeOK' /\ watch'.pc = "check"
    BY <1>23 DEF ReleaseOnChange, ThreadTypeOK, ClientStates, WatchStates
  <2> QED
    BY <1>23, <2>1, SlotFrame, WorldFrame
      DEF ReleaseOnChange, SlotSame, WorldSame, TalksToConfigured,
        ViewIsCurrent, NothingHeldMeanwhile, Named
<1>24. CASE Present
  <2>1. ThreadTypeOK' /\ watch'.pc = "round"
    <3>1. 0 \in 0..(DownRounds - 1)
      BY <1>24, SlotAssumption DEF Present, ThreadTypeOK, WatchStates
    <3>2. watch' = [watch EXCEPT !.pc = "round", !.down = 0]
      BY <1>24 DEF Present
    <3>3. watch' \in WatchStates /\ watch'.pc = "round"
      BY <3>1, <3>2 DEF ThreadTypeOK, WatchStates
    <3> QED
      BY <1>24, <3>3, EndRoundStep DEF Present, ThreadTypeOK
  <2> QED
    BY <1>24, <2>1, SlotFrame, WorldFrame DEF Present, SlotSame, WorldSame, TalksToConfigured,
      ViewIsCurrent, NothingHeldMeanwhile, Named
<1>25. CASE Missing
  <2>1. ThreadTypeOK' /\ watch'.pc = "round"
    <3>1. watch.down + 1 \in 0..(DownRounds - 1)
      BY <1>25, SlotAssumption DEF Missing, ThreadTypeOK, WatchStates
    <3>2. watch' = [watch EXCEPT !.pc = "round", !.down = watch.down + 1]
      BY <1>25 DEF Missing
    <3>3. watch' \in WatchStates /\ watch'.pc = "round"
      BY <3>1, <3>2 DEF ThreadTypeOK, WatchStates
    <3> QED
      BY <1>25, <3>3, EndRoundStep DEF Missing, ThreadTypeOK
  <2> QED
    BY <1>25, <2>1, SlotFrame, WorldFrame DEF Missing, SlotSame, WorldSame, TalksToConfigured,
      ViewIsCurrent, NothingHeldMeanwhile, Named
<1>26. CASE GiveUpOnPort
  <2>1. ThreadTypeOK' /\ watch'.pc = "probe"
    <3>1. 0 \in 0..(DownRounds - 1)
      BY SlotAssumption
    <3>2. watch' \in WatchStates /\ watch'.pc = "probe"
      BY <1>26, <3>1 DEF GiveUpOnPort, ThreadTypeOK, WatchStates
    <3> QED
      BY <1>26, <3>2 DEF GiveUpOnPort, ThreadTypeOK
  <2> QED
    BY <1>26, <2>1, SlotFrame, WorldFrame DEF GiveUpOnPort, SlotSame, WorldSame, TalksToConfigured,
      ViewIsCurrent, NothingHeldMeanwhile, Named
<1>27. CASE WatchProbe
  <2>1. ThreadTypeOK' /\ (watch'.pc = "save" => watch'.found \in Settings)
    <3>1. ASSUME watch' = [watch EXCEPT !.pc = "round"], EndRound
          PROVE  ThreadTypeOK' /\ watch'.pc = "round"
      <4>1. watch' \in WatchStates /\ watch'.pc = "round"
        BY <3>1 DEF ThreadTypeOK, WatchStates
      <4> QED
        BY <1>27, <3>1, <4>1, EndRoundStep DEF WatchProbe, ThreadTypeOK
    <3>2. ASSUME NEW i \in Answering(Watched), NEW s \in StablePaths(i),
                 watch' = [watch EXCEPT !.pc = "save", !.found = s], UNCHANGED client
          PROVE  ThreadTypeOK' /\ watch'.found \in Settings
      <4>1. s \in Settings
        BY StablePathsType DEF Answering
      <4> QED
        BY <1>27, <3>2, <4>1 DEF WatchProbe, ThreadTypeOK, WatchStates
    <3>3. \/ watch' = [watch EXCEPT !.pc = "round"] /\ EndRound
          \/ \E i \in Answering(Watched) : \E s \in StablePaths(i) :
               watch' = [watch EXCEPT !.pc = "save", !.found = s] /\ UNCHANGED client
      BY <1>27 DEF WatchProbe
    <3> QED
      BY <3>1, <3>2, <3>3
  <2>2. UNCHANGED <<envVars, saveVars, slotVars, view, worker>>
    BY <1>27 DEF WatchProbe
  <2> QED
    BY <2>2, <2>1, SlotFrame, WorldFrame DEF SlotSame, WorldSame, TalksToConfigured,
      ViewIsCurrent, NothingHeldMeanwhile, Named
<1>28. CASE WatchSave
  <2>1. watch.found \in Settings
    BY <1>28 DEF WatchSave, Named
  <2>2. WorldTypeOK'
    BY <1>28, <2>1, SaveStep DEF WatchSave
  <2>3. ThreadTypeOK' /\ watch'.pc = "round"
    BY <1>28, EndRoundStep DEF WatchSave, ThreadTypeOK, WatchStates
  <2> QED
    BY <1>28, <2>2, <2>3, SlotFrame DEF WatchSave, SlotSame, TalksToConfigured,
      ViewIsCurrent, NothingHeldMeanwhile, Named
<1>29. CASE UNCHANGED vars
  BY <1>29, SlotFrame, WorldFrame DEF vars, SlotSame, WorldSame, ThreadTypeOK, TalksToConfigured,
      ViewIsCurrent, NothingHeldMeanwhile, Named
<1>30. ASSUME NEW n \in 0..Threshold, Chatter(n) PROVE IInv'
  <2>1. ThreadTypeOK' /\ worker'.pc = "done"
    BY <1>30, DoneStep DEF Chatter, Ends
  <2>2. port \in Handles /\ Held
    BY <1>30, HeldHandle DEF Chatter, TalksToConfigured
  <2>3. port' \in Handles /\ Held'
    <3>1. port' = [port EXCEPT !.silent = n]
      BY <1>30 DEF Chatter
    <3>2. port' \in Handles
      BY <2>2, <3>1, HandleUpdate
    <3> QED
      BY <3>2, HandleIsHeld DEF Held
  <2>4. hold' \in [to : Settings \cup {NoNode}, left : 0..Hold]
    BY <1>30, SlotAssumption DEF Chatter, SlotTypeOK, NoHold
  <2>5. SlotTypeOK'
    BY <1>30, <2>3, <2>4 DEF Chatter, SlotTypeOK
  <2>6. HandlesBalance' /\ BreakerOnlyWhileClosed'
    BY <1>30, <2>2, <2>3 DEF Chatter, HandlesBalance, BreakerOnlyWhileClosed
  <2> QED
    BY <1>30, <2>1, <2>5, <2>6, WorldFrame DEF Chatter, WorldSame, TalksToConfigured,
      ViewIsCurrent, NothingHeldMeanwhile, Named
<1> QED
  BY <1>1, <1>2, <1>3, <1>4, <1>5, <1>6, <1>7, <1>8, <1>9, <1>10, <1>11, <1>12, <1>13,
    <1>14, <1>15, <1>16, <1>17, <1>18, <1>19, <1>20, <1>21, <1>22, <1>23, <1>24, <1>25,
    <1>26, <1>27, <1>28, <1>29, <1>30
    DEF Next, JobStart, Execute, PortWatch

-----------------------------------------------------------------------------
(* The theorems *)

THEOREM Invariance == Spec => []IInv
<1>1. Init => IInv
  BY Initial
<1>2. IInv /\ [Next]_vars => IInv'
  BY Inductive
<1> QED
  BY <1>1, <1>2, PTL DEF Spec

\* The state keeps its shape: a link, an identifier or a bare node, whichever
\* stable_path() has to save, is a path the jobs can take from there
\* (at/port.rs:196-244, daemon/port.rs:195-216), and neither the streak nor a
\* window leaves its range, whatever is heard on a mute port.
THEOREM TypeCorrect == Spec => []TypeOK
<1>1. IInv => TypeOK
  BY DEF IInv
<1> QED
  BY <1>1, Invariance, PTL

\* The opened and released ports of AtStats always account for the handle.
THEOREM HandlesAccounted == Spec => []HandlesBalance
<1>1. IInv => HandlesBalance
  BY DEF IInv
<1> QED
  BY <1>1, Invariance, PTL

\* No job ever talks to another port than the one its configuration names.
THEOREM TalkIsConfigured == Spec => []TalksToConfigured
<1>1. IInv => TalksToConfigured
  BY DEF IInv
<1> QED
  BY <1>1, Invariance, PTL

\* The breaker is never set while a port is held.
THEOREM BreakerNeverBlocksHeld == Spec => []BreakerOnlyWhileClosed
<1>1. IInv => BreakerOnlyWhileClosed
  BY DEF IInv
<1> QED
  BY <1>1, Invariance, PTL

\* Between two jobs the published view is the state of the slot.
THEOREM ViewCorrect == Spec => []ViewIsCurrent
<1>1. IInv => ViewIsCurrent
  BY DEF IInv
<1> QED
  BY <1>1, Invariance, PTL

-----------------------------------------------------------------------------
(* Sequences of lines *)

\* The members of small sequences and of parts of sequences.
LEMMA RangeOfOne == ASSUME NEW x PROVE Range(<<x>>) = {x}
  BY DEF Range

LEMMA RangeOfPart ==
  ASSUME NEW S, NEW s \in Seq(S), NEW m \in Nat \ {0}, NEW n \in 0..Len(s)
  PROVE  /\ SubSeq(s, m, n) \in Seq(S)
         /\ \A i \in DOMAIN SubSeq(s, m, n) :
              m + i - 1 \in DOMAIN s /\ SubSeq(s, m, n)[i] = s[m + i - 1]
         /\ Range(SubSeq(s, m, n)) = {s[i] : i \in m..n}
         /\ Len(SubSeq(s, m, n)) = IF m <= n THEN n - m + 1 ELSE 0
<1>1. Len(s) \in Nat /\ DOMAIN s = 1..Len(s) /\ m \in Int /\ n \in Int
  BY LenProperties
<1>2. \A i \in m..n : s[i] \in S
  BY <1>1, ElementOfSeq
<1>3. /\ SubSeq(s, m, n) \in Seq(S)
      /\ Len(SubSeq(s, m, n)) = IF m <= n THEN n - m + 1 ELSE 0
      /\ \A i \in 1..n - m + 1 : SubSeq(s, m, n)[i] = s[m + i - 1]
  BY <1>1, <1>2, SubSeqProperties
<1>4. DOMAIN SubSeq(s, m, n) = 1..Len(SubSeq(s, m, n))
  BY <1>3, LenProperties
<1>5. \A i \in DOMAIN SubSeq(s, m, n) : m + i - 1 \in m..n /\ SubSeq(s, m, n)[i] = s[m + i - 1]
  BY <1>1, <1>3, <1>4
<1>6. \A j \in m..n : j - m + 1 \in DOMAIN SubSeq(s, m, n) /\ SubSeq(s, m, n)[j - m + 1] = s[j]
  <2> SUFFICES ASSUME NEW j \in m..n
               PROVE  j - m + 1 \in DOMAIN SubSeq(s, m, n) /\ SubSeq(s, m, n)[j - m + 1] = s[j]
    OBVIOUS
  <2>1. j - m + 1 \in 1..n - m + 1 /\ m + (j - m + 1) - 1 = j /\ m <= n
    BY <1>1
  <2> QED BY <2>1, <1>3, <1>4
<1>7. Range(SubSeq(s, m, n)) = {s[i] : i \in m..n}
  <2>1. ASSUME NEW x \in Range(SubSeq(s, m, n)) PROVE x \in {s[i] : i \in m..n}
    BY <1>5 DEF Range
  <2>2. ASSUME NEW j \in m..n PROVE s[j] \in Range(SubSeq(s, m, n))
    BY <1>6 DEF Range
  <2> QED BY <2>1, <2>2
<1>8. \A i \in m..n : i \in DOMAIN s
  BY <1>1
<1> QED BY <1>3, <1>5, <1>7, <1>8

LEMMA RangeOfMore ==
  ASSUME NEW S, NEW s \in Seq(S), NEW x \in S
  PROVE  /\ Append(s, x) \in Seq(S) /\ Append(s, x) # <<>>
         /\ Range(Append(s, x)) = Range(s) \cup {x}
         /\ Append(s, x)[Len(s) + 1] = x /\ Len(Append(s, x)) = Len(s) + 1
         /\ \A i \in 1..Len(s) : Append(s, x)[i] = s[i]
<1>1. Append(s, x) \in Seq(S) /\ Append(s, x) # <<>> /\ Append(s, x) = s \o <<x>>
  BY AppendProperties, AppendIsConcat
<1>2. <<x>> \in Seq(S)
  OBVIOUS
<1>3. Range(s \o <<x>>) = Range(s) \cup Range(<<x>>)
  BY <1>2, RangeConcatenation
<1> QED BY <1>1, <1>3, RangeOfOne, AppendProperties

LEMMA RangeOfRest ==
  ASSUME NEW S, NEW s \in Seq(S), s # <<>>
  PROVE  /\ Head(s) \in S /\ Head(s) = s[1] /\ 1 \in DOMAIN s
         /\ Tail(s) \in Seq(S) /\ Range(Tail(s)) \subseteq Range(s)
         /\ Len(Tail(s)) = Len(s) - 1 /\ Len(s) \in Nat \ {0}
         /\ \A i \in DOMAIN Tail(s) : i + 1 \in DOMAIN s /\ Tail(s)[i] = s[i + 1]
<1>1. Len(s) \in Nat \ {0} /\ DOMAIN s = 1..Len(s)
  BY LenProperties, EmptySeq
<1>2. /\ Head(s) \in S /\ Tail(s) \in Seq(S) /\ Len(Tail(s)) = Len(s) - 1
      /\ \A i \in 1..Len(Tail(s)) : Tail(s)[i] = s[i + 1]
  BY HeadTailProperties
<1>3. DOMAIN Tail(s) = 1..Len(Tail(s))
  BY <1>2, LenProperties
<1>4. Head(s) = s[1]
  OBVIOUS
<1>5. \A i \in DOMAIN Tail(s) : i + 1 \in DOMAIN s /\ Tail(s)[i] = s[i + 1]
  BY <1>1, <1>2, <1>3
<1> QED BY <1>1, <1>2, <1>4, <1>5 DEF Range

\* Where the +GT lines are.
Places(s) == {i \in DOMAIN s : IsUrc(s[i])}

\* Urcs() counts a finite set.
LEMMA UrcsType ==
  ASSUME NEW S, NEW s \in Seq(S)
  PROVE  IsFiniteSet(Places(s)) /\ Urcs(s) = Cardinality(Places(s)) /\ Urcs(s) \in Nat
<1>1. Len(s) \in Nat /\ DOMAIN s = 1..Len(s)
  BY LenProperties
<1>2. IsFiniteSet(1..Len(s))
  BY <1>1, FS_Interval
<1>3. IsFiniteSet(Places(s))
  BY <1>1, <1>2, FS_Subset DEF Places
<1> QED BY <1>3, FS_CardinalityType DEF Urcs, Places

LEMMA UrcsNone ==
  ASSUME NEW S, NEW s \in Seq(S), \A i \in DOMAIN s : ~IsUrc(s[i])
  PROVE  Urcs(s) = 0
<1>1. Places(s) = {}
  BY DEF Places
<1> QED BY <1>1, FS_EmptySet, UrcsType

LEMMA UrcsOne ==
  ASSUME NEW x
  PROVE  Urcs(<<x>>) = IF IsUrc(x) THEN 1 ELSE 0
<1>1. <<x>> \in Seq({x}) /\ DOMAIN <<x>> = {1} /\ <<x>>[1] = x
  OBVIOUS
<1>2. CASE IsUrc(x)
  <2>1. Places(<<x>>) = {1}
    BY <1>1, <1>2 DEF Places
  <2>2. Cardinality({1}) = 1
    BY FS_Singleton
  <2> QED BY <1>1, <1>2, <2>1, <2>2, UrcsType
<1>3. CASE ~IsUrc(x)
  <2>1. Places(<<x>>) = {}
    BY <1>1, <1>3 DEF Places
  <2> QED BY <1>1, <1>3, <2>1, FS_EmptySet, UrcsType
<1> QED BY <1>2, <1>3

\* The +GT lines of two sequences, one after the other.
LEMMA UrcsOfBoth ==
  ASSUME NEW S, NEW s \in Seq(S), NEW t \in Seq(S)
  PROVE  Urcs(s \o t) = Urcs(s) + Urcs(t)
<1> DEFINE both == s \o t
           B == {j \in DOMAIN both : j > Len(s) /\ IsUrc(both[j])}
           f == [i \in Places(t) |-> Len(s) + i]
<1>1. /\ Len(s) \in Nat /\ DOMAIN s = 1..Len(s) /\ Len(t) \in Nat /\ DOMAIN t = 1..Len(t)
      /\ both \in Seq(S) /\ Len(both) = Len(s) + Len(t) /\ DOMAIN both = 1..Len(s) + Len(t)
      /\ \A i \in 1..Len(s) + Len(t) : both[i] = IF i <= Len(s) THEN s[i] ELSE t[i - Len(s)]
  BY LenProperties, ConcatProperties
<1> HIDE DEF both
<1>2. \A i \in 1..Len(s) : i \in DOMAIN both /\ both[i] = s[i]
  BY <1>1
<1>3. \A i \in 1..Len(t) : Len(s) + i \in DOMAIN both /\ both[Len(s) + i] = t[i]
  <2> SUFFICES ASSUME NEW i \in 1..Len(t)
               PROVE  Len(s) + i \in DOMAIN both /\ both[Len(s) + i] = t[i]
    OBVIOUS
  <2>1. Len(s) + i \in 1..Len(s) + Len(t) /\ ~(Len(s) + i <= Len(s)) /\ Len(s) + i - Len(s) = i
    BY <1>1
  <2> QED BY <1>1, <2>1
<1>4. Places(both) = Places(s) \cup B
  BY <1>1, <1>2 DEF Places
<1>5. Places(s) \cap B = {}
  BY <1>1 DEF Places
<1>6. f \in [Places(t) -> B]
  BY <1>1, <1>3 DEF Places
<1>7. \A i, j \in Places(t) : f[i] = f[j] => i = j
  BY <1>1 DEF Places
<1>8. \A j \in B : \E i \in Places(t) : f[i] = j
  <2> SUFFICES ASSUME NEW j \in B PROVE \E i \in Places(t) : f[i] = j
    OBVIOUS
  <2>1. j \in 1..Len(s) + Len(t) /\ j > Len(s) /\ IsUrc(both[j])
    BY <1>1
  <2>2. j - Len(s) \in 1..Len(t) /\ Len(s) + (j - Len(s)) = j
    BY <1>1, <2>1
  <2>3. j - Len(s) \in Places(t)
    BY <1>1, <1>3, <2>1, <2>2 DEF Places
  <2>4. f[j - Len(s)] = j
    BY <2>2, <2>3
  <2> QED BY <2>3, <2>4
<1>9. f \in Bijection(Places(t), B)
  BY <1>6, <1>7, <1>8 DEF Bijection, Injection, Surjection, IsInjective
<1>10. IsFiniteSet(Places(s)) /\ IsFiniteSet(Places(t))
  BY UrcsType
<1>11. IsFiniteSet(B) /\ Cardinality(B) = Cardinality(Places(t))
  BY <1>9, <1>10, FS_Bijection DEF ExistsBijection
<1>12. Cardinality(Places(s) \cup B) = Cardinality(Places(s)) + Cardinality(B) - Cardinality({})
  BY <1>5, <1>10, <1>11, FS_Union
<1>13. Urcs(both) = Cardinality(Places(both))
  BY <1>1, UrcsType
<1>14. Urcs(s) = Cardinality(Places(s)) /\ Urcs(t) = Cardinality(Places(t))
       /\ Urcs(s) \in Nat /\ Urcs(t) \in Nat
  BY UrcsType
<1> HIDE DEF B
<1>15. Cardinality({}) = 0
  BY FS_EmptySet
<1>16. Urcs(both) = Urcs(s) + Urcs(t)
  BY <1>4, <1>11, <1>12, <1>13, <1>14, <1>15
<1> QED BY <1>16 DEF both

\* ... and of a sequence cut in two.
LEMMA UrcsOfParts ==
  ASSUME NEW S, NEW s \in Seq(S), NEW n \in 0..Len(s)
  PROVE  Urcs(s) = Urcs(SubSeq(s, 1, n)) + Urcs(SubSeq(s, n + 1, Len(s)))
<1>1. Len(s) \in Nat
  BY LenProperties
<1>2. SubSeq(s, 1, n) \o SubSeq(s, n + 1, Len(s)) = SubSeq(s, 1, Len(s))
  <2>1. 1 \in 1..Len(s) + 1 /\ n \in 1 - 1..Len(s) /\ Len(s) \in n..Len(s)
    BY <1>1
  <2> QED BY <2>1, ConcatAdjacentSubSeq
<1>3. SubSeq(s, 1, Len(s)) = s
  BY SubSeqFull
<1>4. SubSeq(s, 1, n) \in Seq(S) /\ SubSeq(s, n + 1, Len(s)) \in Seq(S)
  BY <1>1, RangeOfPart
<1> QED BY <1>2, <1>3, <1>4, UrcsOfBoth

\* +GT lines behind a prompt are some of the +GT lines.
LEMMA GluedType ==
  ASSUME NEW S, NEW s \in Seq(S)
  PROVE  Glued(s) \in Nat /\ Urcs(s) - Glued(s) \in Nat
<1> DEFINE G == {i \in DOMAIN s : IsUrc(s[i]) /\ i > 1 /\ IsPrompt(s[i - 1])}
<1>1. G \subseteq Places(s)
  BY DEF Places
<1>2. IsFiniteSet(Places(s)) /\ Urcs(s) = Cardinality(Places(s)) /\ Urcs(s) \in Nat
  BY UrcsType
<1>3. Cardinality(G) \in Nat /\ Cardinality(G) <= Cardinality(Places(s))
  BY <1>1, <1>2, FS_Subset, FS_CardinalityType
<1>4. Glued(s) = Cardinality(G)
  BY DEF Glued
<1> HIDE DEF G
<1> QED BY <1>2, <1>3, <1>4
-----------------------------------------------------------------------------
(* What the filter lets out *)

\* The lines an answer is made of, and what a wait may hold of them.
Answers == DownLines \ {Urc}
Collected(r) ==
  /\ r \in [lines : SUBSET Answers, last : Answers \cup {NoLine}]
  /\ r.last # NoLine => r.last \in r.lines

\* The kinds of lines are different.
LEMMA LineKinds ==
  /\ {Urc, Note, Rest} \subseteq DownLines /\ Rest # Urc /\ Note # Urc
  /\ IsUrc(Urc) /\ ~IsUrc(Rest) /\ ~IsUrc(Note)
  /\ NoLine \notin DownLines /\ ~IsUrc(NoLine)
  /\ \A l \in DownLines : IsUrc(l) <=> l = Urc
  /\ \A l \in DownLines : ~IsUrc(l) => l \in Answers
  /\ \A l \in {Urc, Note, Rest} : l.k \notin {"info", "ok", "error", "prompt"}
<1> DEFINE A == [k : {"info", "ok", "error", "prompt"}, job : 0..MaxJobs, to : Phases]
<1>1. \A l \in A : l.k \in {"info", "ok", "error", "prompt"}
  OBVIOUS
<1>2. Urc.k = "urc" /\ Rest.k = "rest" /\ Note.k = "note" /\ NoLine.k = "none"
  BY DEF Urc, Rest, Note, NoLine
<1>3. DownLines = A \cup {Urc, Note, Rest}
  BY DEF DownLines
<1> HIDE DEF A
<1>4. \A l \in DownLines : l \in {Urc, Note, Rest} \/ l.k \in {"info", "ok", "error", "prompt"}
  BY <1>1, <1>3
<1>5. NoLine \notin DownLines /\ Rest # Urc /\ Note # Urc
  BY <1>2, <1>4
<1>6. \A l \in DownLines : IsUrc(l) <=> l = Urc
  BY <1>2, <1>4 DEF IsUrc
<1>7. IsUrc(Urc) /\ ~IsUrc(Rest) /\ ~IsUrc(Note) /\ ~IsUrc(NoLine)
  BY <1>2 DEF IsUrc
<1>8. \A l \in {Urc, Note, Rest} : l.k \notin {"info", "ok", "error", "prompt"}
  BY <1>2
<1> QED BY <1>3, <1>5, <1>6, <1>7, <1>8 DEF Answers

\* A set of positions that is not empty has a last one.
LEMMA MaxIsThere ==
  ASSUME NEW n \in Nat, NEW T \in SUBSET (1..n), T # {}
  PROVE  Max(T) \in T
<1> DEFINE U == {n - i : i \in T}
<1>1. U \subseteq Nat
  <2>1. \A i \in T : i \in Nat /\ i <= n /\ n - i \in Nat
    OBVIOUS
  <2> QED BY <2>1
<1>0. U # {}
  OBVIOUS
<1>2. PICK x \in U : \A y \in U : ~(<<y, x>> \in OpToRel(<, Nat))
  <2> HIDE DEF U
  <2> QED BY <1>0, <1>1, NatLessThanWellFounded, WFMin
<1>3. PICK i \in T : x = n - i
  OBVIOUS
<1>4. \A j \in T : i >= j
  <2> SUFFICES ASSUME NEW j \in T, ~(i >= j) PROVE FALSE
    OBVIOUS
  <2>1. n - j \in U /\ n - j \in Nat /\ x \in Nat /\ n - j < x
    BY <1>3
  <2>2. <<n - j, x>> \in OpToRel(<, Nat)
    BY <2>1 DEF OpToRel
  <2> QED BY <1>2, <2>1, <2>2
<1> QED BY <1>4 DEF Max

\* What comes out of the filter has no +GT line and no end of a divided one.
LEMMA PassedLines ==
  ASSUME NEW s \in Seq(DownLines)
  PROVE  /\ Collected(Passed(s))
         /\ Passed(s).lines \subseteq Range(s)
<1> DEFINE others == {i \in DOMAIN s : ~IsUrc(s[i])}
<1>1. Len(s) \in Nat /\ DOMAIN s = 1..Len(s) /\ \A i \in DOMAIN s : s[i] \in DownLines
  BY LenProperties, ElementOfSeq
<1>2. \A i \in others : s[i] \in Answers
  BY <1>1, LineKinds
<1>3. CASE others = {}
  <2>1. Passed(s) = Nothing
    BY <1>3 DEF Passed
  <2> QED BY <2>1 DEF Nothing, Collected
<1>4. CASE others # {}
  <2>1. Passed(s) = [lines |-> {s[i] : i \in others}, last |-> s[Max(others)]]
    BY <1>4 DEF Passed
  <2>2. Max(others) \in others
    BY <1>1, <1>4, MaxIsThere
  <2>3. s[Max(others)] \in Answers /\ s[Max(others)] \in {s[i] : i \in others}
    BY <1>2, <2>2
  <2>4. {s[i] : i \in others} \in SUBSET Answers
    BY <1>2
  <2>5. {s[i] : i \in others} \subseteq Range(s)
    BY DEF Range
  <2> HIDE DEF others
  <2> QED BY <2>1, <2>3, <2>4, <2>5 DEF Collected
<1> QED BY <1>3, <1>4

LEMMA JoinedLines ==
  ASSUME NEW r, NEW more, Collected(r), Collected(more)
  PROVE  /\ Collected(Joined(r, more))
         /\ Joined(r, more).lines = r.lines \cup more.lines
<1>1. Joined(r, more) = [lines |-> r.lines \cup more.lines,
                         last |-> IF more = Nothing THEN r.last ELSE more.last]
  BY DEF Joined
<1>2. more.last = NoLine => more.lines \in SUBSET Answers
  BY DEF Collected
<1> QED BY <1>1 DEF Collected

LEMMA SmallCollections ==
  /\ Collected(Nothing) /\ Nothing.lines = {}
  /\ \A l \in Answers : Collected(Just(l)) /\ Just(l).lines = {l}
  BY DEF Collected, Nothing, Just

\* push_event() neither loses an event without counting it nor exceeds the cap.
FeedType == [queued : 0..QueueCap, dropped : Nat]

\* The queue holds what it is given or counts it as dropped.
LEMMA CaptureCounts ==
  ASSUME feed \in FeedType, NEW n \in Nat
  PROVE  /\ Capture(n) \in FeedType
         /\ Capture(n).queued + Capture(n).dropped = feed.queued + feed.dropped + n
<1> DEFINE over == IF feed.queued + n > QueueCap THEN feed.queued + n - QueueCap ELSE 0
           q == feed.queued + n - over
           d == feed.dropped + over
<1>1. QueueCap \in Nat /\ feed.queued \in 0..QueueCap /\ feed.dropped \in Nat
  BY DialogueAssumption DEF FeedType
<1>2. over \in Nat /\ q \in 0..QueueCap /\ d \in Nat /\ q + d = feed.queued + feed.dropped + n
  BY <1>1
<1>3. Capture(n) = [feed EXCEPT !.queued = q, !.dropped = d]
  BY DEF Capture
<1> HIDE DEF over, q, d
<1>4. feed \in [queued : 0..QueueCap, dropped : Nat]
  BY DEF FeedType
<1>5. Capture(n).queued = q /\ Capture(n).dropped = d
  BY <1>3, <1>4
<1>6. Capture(n) \in FeedType
  BY <1>2, <1>3, <1>4 DEF FeedType
<1> QED BY <1>2, <1>5, <1>6
-----------------------------------------------------------------------------
(* One read through the filter *)

\* The end of a line that has been started is the next to arrive.
WireOK ==
  /\ down \in Seq(DownLines) /\ gate \in Seq(DownLines)
  /\ Started => down # <<>> /\ Head(down) = Rest

\* What is between the modem and the host's caller.
Arrived == Range(down) \cup Range(gate)

\* What a read hands to the filter: whole lines that had arrived.
LEMMA ChunkLines ==
  ASSUME WireOK, NEW n \in 0..Len(down)
  PROVE  /\ Chunk(n) \in Seq(DownLines)
         /\ Range(Chunk(n)) \subseteq Arrived
         /\ Urcs(Chunk(n)) = Urcs(gate) + Urcs(SubSeq(down, 1, n))
<1> DEFINE m == IF Started THEN 2 ELSE 1
           new == SubSeq(down, m, n)
<1>1. /\ Len(down) \in Nat /\ DOMAIN down = 1..Len(down)
      /\ down \in Seq(DownLines) /\ gate \in Seq(DownLines)
      /\ \A i \in DOMAIN down : down[i] \in DownLines
  BY LenProperties, ElementOfSeq DEF WireOK
<1>2. m \in Nat \ {0} /\ m \in Int /\ n \in Int
  BY <1>1
<1>3. new \in Seq(DownLines) /\ Range(new) = {down[i] : i \in m..n}
  <2> HIDE DEF m
  <2> QED BY <1>1, <1>2, RangeOfPart
<1>4. Range(new) \subseteq Range(down)
  <2>1. \A i \in m..n : i \in DOMAIN down
    BY <1>1, <1>2
  <2> QED BY <1>3, <2>1 DEF Range
<1>5. Urcs(new) = Urcs(SubSeq(down, 1, n))
  <2>1. CASE ~Started
    BY <2>1
  <2>2. CASE Started /\ n = 0
    <3>1. new = <<>>
      <4>1. n < m
        BY <2>2
      <4> HIDE DEF m
      <4> QED BY <1>2, <4>1, SubSeqEmpty
    <3>2. SubSeq(down, 1, n) = <<>>
      BY <2>2, SubSeqEmpty
    <3> QED BY <3>1, <3>2
  <2>3. CASE Started /\ n # 0
    <3>1. 1 \in 1..Len(down) /\ n \in 1..Len(down)
      BY <1>1, <2>3
    <3>2. SubSeq(down, 1, n) = <<down[1]>> \o SubSeq(down, 2, n)
      BY <1>1, <3>1, SubSeqRecursiveFirst
    <3>3. down[1] = Rest
      BY <1>1, <2>3, RangeOfRest DEF WireOK
    <3>4. Urcs(<<down[1]>>) = 0
      BY <3>3, UrcsOne, LineKinds
    <3>5. <<down[1]>> \in Seq(DownLines) /\ SubSeq(down, 2, n) \in Seq(DownLines)
      BY <1>1, <3>3, LineKinds, RangeOfPart
    <3>6. /\ Urcs(SubSeq(down, 1, n)) = 0 + Urcs(SubSeq(down, 2, n))
          /\ Urcs(SubSeq(down, 2, n)) \in Nat
      BY <3>2, <3>4, <3>5, UrcsOfBoth, UrcsType
    <3> QED BY <2>3, <3>6
  <2> QED BY <2>1, <2>2, <2>3
<1>6. Chunk(n) = gate \o new
  BY DEF Chunk
<1> HIDE DEF new
<1>7. /\ Chunk(n) \in Seq(DownLines)
      /\ Urcs(Chunk(n)) = Urcs(gate) + Urcs(new)
      /\ Range(Chunk(n)) = Range(gate) \cup Range(new)
  <2>1. gate \in Seq(DownLines) /\ new \in Seq(DownLines)
    BY <1>1, <1>3
  <2>2. gate \o new \in Seq(DownLines)
    BY <2>1, ConcatProperties
  <2>3. Urcs(gate \o new) = Urcs(gate) + Urcs(new)
    BY <2>1, UrcsOfBoth
  <2>4. Range(gate \o new) = Range(gate) \cup Range(new)
    BY <2>1, RangeConcatenation
  <2> QED BY <1>6, <2>2, <2>3, <2>4
<1> QED BY <1>4, <1>5, <1>7 DEF Arrived

\* What stays has no more than two pieces; the last of them is a +GT line only
\* if that was divided.
LEMMA UnfinishedPieces ==
  ASSUME NEW c \in Seq(DownLines), NEW half \in BOOLEAN
  PROVE  /\ Unfinished(c, half) \in 0..Len(c)
         /\ ~half /\ Unfinished(c, half) # 0 => c # <<>> /\ IsPrompt(Last(c))
<1>1. Len(c) \in Nat /\ (c # <<>> => Len(c) > 0)
  BY LenProperties, EmptySeq
<1>2. CASE c = <<>> \/ (~half /\ ~IsPrompt(Last(c)))
  <2>1. Unfinished(c, half) = 0
    BY <1>2 DEF Unfinished
  <2> QED BY <1>1, <2>1
<1>3. CASE ~(c = <<>> \/ (~half /\ ~IsPrompt(Last(c))))
  <2>1. (Unfinished(c, half) = 2 /\ Len(c) > 1) \/ Unfinished(c, half) = 1
    BY <1>3 DEF Unfinished
  <2> QED BY <1>1, <1>3, <2>1
<1> QED BY <1>2, <1>3

\* What the filter makes of it: each +GT line is captured or stays in the gate.
LEMMA FeedLines ==
  ASSUME NEW c \in Seq(DownLines), NEW half \in BOOLEAN, feed \in FeedType
  PROVE  LET f == Feed(c, half) IN
         /\ Collected(f.out) /\ f.out.lines \subseteq Range(c)
         /\ f.gate \in Seq(DownLines) /\ Range(f.gate) \subseteq Range(c)
         /\ f.gate # <<>> /\ ~half => IsPrompt(Last(f.gate))
         /\ f.glued \in Nat /\ f.feed \in FeedType
         /\ Urcs(f.gate) \in Nat
         /\ f.feed.queued + f.feed.dropped + f.glued + Urcs(f.gate)
              = feed.queued + feed.dropped + Urcs(c)
<1> DEFINE kept == Len(c) - Unfinished(c, half)
           whole == SubSeq(c, 1, kept)
           rest == SubSeq(c, kept + 1, Len(c))
           f == Feed(c, half)
<1>1. /\ f.gate = rest /\ f.out = Passed(whole) /\ f.glued = Glued(whole)
      /\ f.feed = Capture(Urcs(whole) - Glued(whole))
  BY DEF Feed
<1>2. Len(c) \in Nat /\ DOMAIN c = 1..Len(c)
  BY LenProperties
<1>3. kept \in 0..Len(c) /\ kept \in Nat
  BY <1>2, UnfinishedPieces
<1>4. ~half /\ kept # Len(c) => IsPrompt(c[Len(c)])
  <2>1. kept # Len(c) => Unfinished(c, half) # 0
    BY <1>2, <1>3, UnfinishedPieces
  <2> QED BY <2>1, UnfinishedPieces DEF Last
<1> HIDE DEF kept, f
<1>5. /\ whole \in Seq(DownLines) /\ Range(whole) = {c[i] : i \in 1..kept}
      /\ rest \in Seq(DownLines) /\ Range(rest) = {c[i] : i \in kept + 1..Len(c)}
      /\ Len(rest) = IF kept + 1 <= Len(c) THEN Len(c) - (kept + 1) + 1 ELSE 0
      /\ \A i \in DOMAIN rest : rest[i] = c[kept + 1 + i - 1]
  <2>1. 1 \in Nat \ {0} /\ kept + 1 \in Nat \ {0} /\ Len(c) \in 0..Len(c)
    BY <1>2, <1>3
  <2>2. whole \in Seq(DownLines) /\ Range(whole) = {c[i] : i \in 1..kept}
    <3>1. kept \in 0..Len(c) /\ 1 \in Nat \ {0} /\ c \in Seq(DownLines)
      BY <1>3, <2>1
    <3>2. /\ SubSeq(c, 1, kept) \in Seq(DownLines)
          /\ Range(SubSeq(c, 1, kept)) = {c[i] : i \in 1..kept}
      BY <3>1, RangeOfPart
    <3> QED BY <3>2
  <2> DEFINE p == kept + 1
  <2>3. p \in Nat \ {0}
    BY <2>1
  <2> HIDE DEF p
  <2>4. /\ SubSeq(c, p, Len(c)) \in Seq(DownLines)
        /\ Range(SubSeq(c, p, Len(c))) = {c[i] : i \in p..Len(c)}
        /\ Len(SubSeq(c, p, Len(c))) = IF p <= Len(c) THEN Len(c) - p + 1 ELSE 0
        /\ \A i \in DOMAIN SubSeq(c, p, Len(c)) : SubSeq(c, p, Len(c))[i] = c[p + i - 1]
    BY <2>1, <2>3, RangeOfPart
  <2> QED BY <2>2, <2>4 DEF p
<1>6. Range(whole) \subseteq Range(c) /\ Range(rest) \subseteq Range(c)
  <2>1. \A i \in 1..kept : i \in DOMAIN c
    BY <1>2, <1>3
  <2>2. \A i \in kept + 1..Len(c) : i \in DOMAIN c
    BY <1>2, <1>3
  <2> QED BY <1>5, <2>1, <2>2 DEF Range
<1>7. Urcs(c) = Urcs(whole) + Urcs(rest)
  BY <1>3, UrcsOfParts
<1>8. rest # <<>> /\ ~half => IsPrompt(Last(rest))
  <2> SUFFICES ASSUME rest # <<>>, ~half PROVE IsPrompt(Last(rest))
    OBVIOUS
  <2> HIDE DEF rest
  <2>1. Len(rest) # 0 /\ Len(rest) \in Nat /\ DOMAIN rest = 1..Len(rest)
    BY <1>5, LenProperties, EmptySeq
  <2> DEFINE n == Len(c)
             m == Len(rest)
  <2>2. kept \in 0..n /\ n \in Nat /\ m \in Nat /\ m # 0
        /\ m = IF kept + 1 <= n THEN n - (kept + 1) + 1 ELSE 0
    BY <1>2, <1>3, <1>5, <2>1
  <2>5. m \in DOMAIN rest
    BY <2>1
  <2> HIDE DEF n, m
  <2>6. kept # n /\ kept + 1 + m - 1 = n
    BY <2>2
  <2>3. kept + 1 + Len(rest) - 1 = Len(c) /\ Len(rest) \in DOMAIN rest /\ kept # Len(c)
    BY <2>5, <2>6 DEF n, m
  <2>4. rest[Len(rest)] = c[Len(c)]
    BY <1>5, <2>3
  <2> QED BY <1>4, <2>3, <2>4 DEF Last
<1> HIDE DEF whole, rest
<1>9. Collected(Passed(whole)) /\ Passed(whole).lines \subseteq Range(whole)
  BY <1>5, PassedLines
<1>10. /\ Urcs(whole) \in Nat /\ Urcs(rest) \in Nat /\ Glued(whole) \in Nat
       /\ Urcs(whole) - Glued(whole) \in Nat
  BY <1>5, UrcsType, GluedType
<1> DEFINE k == Urcs(whole) - Glued(whole)
           q == f.feed.queued
           x == f.feed.dropped
           q0 == feed.queued
           x0 == feed.dropped
<1>11. k \in Nat /\ f.feed = Capture(k)
  BY <1>1, <1>10
<1>12. k = Urcs(whole) - Glued(whole)
  OBVIOUS
<1> HIDE DEF k
<1>13. f.feed \in FeedType /\ q + x = q0 + x0 + k
  BY <1>11, CaptureCounts
<1>14. q \in Nat /\ x \in Nat /\ q0 \in Nat /\ x0 \in Nat
  BY <1>13, DialogueAssumption DEF FeedType
<1> HIDE DEF q, x, q0, x0
<1>15. q + x + Glued(whole) + Urcs(rest) = q0 + x0 + Urcs(c)
  <2> DEFINE g == Glued(whole)
             uw == Urcs(whole)
             ur == Urcs(rest)
             uc == Urcs(c)
  <2>1. g \in Nat /\ uw \in Nat /\ ur \in Nat /\ uc = uw + ur /\ k = uw - g /\ k \in Nat
    BY <1>7, <1>10, <1>11, <1>12
  <2> HIDE DEF g, uw, ur, uc
  <2>2. q + x + g + ur = q0 + x0 + uc
    BY <1>13, <1>14, <2>1
  <2> QED BY <2>2 DEF g, ur, uc
<1>16. f.feed.queued + f.feed.dropped + f.glued + Urcs(f.gate)
         = feed.queued + feed.dropped + Urcs(c)
  BY <1>1, <1>15 DEF q, x, q0, x0
<1> QED BY <1>1, <1>5, <1>6, <1>8, <1>9, <1>10, <1>13, <1>16 DEF f

\* What a read leaves on the line.
LEMMA AfterLines ==
  ASSUME WireOK, NEW n \in 0..Len(down), NEW half \in BOOLEAN
  PROVE  /\ After(n, half) \in Seq(DownLines)
         /\ Range(After(n, half)) \subseteq Range(down) \cup {Rest}
         /\ half => After(n, half) # <<>> /\ Head(After(n, half)) = Rest
         /\ Urcs(After(n, half)) = Urcs(SubSeq(down, n + 1, Len(down)))
<1> DEFINE later == SubSeq(down, n + 1, Len(down))
<1>1. Len(down) \in Nat /\ DOMAIN down = 1..Len(down) /\ down \in Seq(DownLines)
  BY LenProperties DEF WireOK
<1>2. later \in Seq(DownLines) /\ Range(later) \subseteq Range(down)
  <2> DEFINE p == n + 1
  <2>1. p \in Nat \ {0} /\ Len(down) \in 0..Len(down)
    BY <1>1
  <2> HIDE DEF p
  <2>2. /\ SubSeq(down, p, Len(down)) \in Seq(DownLines)
        /\ Range(SubSeq(down, p, Len(down))) = {down[i] : i \in p..Len(down)}
    BY <1>1, <2>1, RangeOfPart
  <2>3. \A i \in p..Len(down) : i \in DOMAIN down
    BY <1>1, <2>1
  <2>4. Range(SubSeq(down, p, Len(down))) \subseteq Range(down)
    BY <2>2, <2>3 DEF Range
  <2> QED BY <2>2, <2>4 DEF p
<1> HIDE DEF later
<1>3. CASE ~half
  <2>1. After(n, half) = <<>> \o later
    BY <1>3 DEF After, later
  <2>2. After(n, half) = later
    BY <1>2, <2>1, ConcatEmptySeq
  <2> QED BY <1>2, <1>3, <2>2 DEF later
<1>4. CASE half
  <2>1. After(n, half) = <<Rest>> \o later
    BY <1>4 DEF After, later
  <2>2. <<Rest>> \in Seq(DownLines) /\ Len(<<Rest>>) = 1 /\ <<Rest>>[1] = Rest
    BY LineKinds
  <2>3. Range(After(n, half)) = {Rest} \cup Range(later)
    <3>1. Range(<<Rest>> \o later) = Range(<<Rest>>) \cup Range(later)
      BY <1>2, <2>2, RangeConcatenation
    <3> QED BY <2>1, <3>1, RangeOfOne
  <2>4. Urcs(After(n, half)) = 0 + Urcs(later) /\ Urcs(later) \in Nat
    BY <1>2, <2>1, <2>2, UrcsOfBoth, UrcsOne, UrcsType, LineKinds
  <2>5. /\ After(n, half) \in Seq(DownLines) /\ Len(After(n, half)) = 1 + Len(later)
        /\ \A i \in 1..1 + Len(later) :
             After(n, half)[i] = IF i <= 1 THEN <<Rest>>[i] ELSE later[i - 1]
    BY <1>2, <2>1, <2>2, ConcatProperties
  <2>6. Len(later) \in Nat /\ 1 \in 1..1 + Len(later)
    <3>1. Len(later) \in Nat
      BY <1>2, LenProperties
    <3> QED BY <3>1
  <2>7. After(n, half)[1] = Rest /\ After(n, half) # <<>>
    BY <2>2, <2>5, <2>6, EmptySeq
  <2>8. Head(After(n, half)) = Rest
    BY <2>5, <2>7, RangeOfRest
  <2> QED BY <1>2, <2>3, <2>4, <2>5, <2>7, <2>8 DEF later
<1> QED BY <1>3, <1>4

\* What one read does to the line, the gate and the events, and what it lets
\* out.
Filters(f, d) ==
  /\ d \in Seq(DownLines) /\ Range(d) \subseteq Range(down) \cup {Rest}
  /\ f.gate \in Seq(DownLines) /\ Range(f.gate) \subseteq Arrived
  /\ f.gate # <<>> /\ IsUrc(Last(f.gate)) => d # <<>> /\ Head(d) = Rest
  /\ Collected(f.out) /\ f.out.lines \subseteq Arrived
  /\ f.feed \in FeedType /\ f.glued \in Nat
  /\ Urcs(d) \in Nat /\ Urcs(f.gate) \in Nat
  /\ Urcs(d) + Urcs(f.gate) + f.feed.queued + f.feed.dropped + f.glued
       = InFlight + feed.queued + feed.dropped

\* Together.
LEMMA ReadFilters ==
  ASSUME WireOK, feed \in FeedType, NEW n \in 0..Len(down), NEW half \in BOOLEAN
  PROVE  Filters(Feed(Chunk(n), half), After(n, half))
<1> DEFINE c == Chunk(n)
           f == Feed(c, half)
           d == After(n, half)
           s == SubSeq(down, 1, n)
           r == SubSeq(down, n + 1, Len(down))
<1>1. c \in Seq(DownLines) /\ Range(c) \subseteq Arrived /\ Urcs(c) = Urcs(gate) + Urcs(s)
  BY ChunkLines
<1>2. /\ d \in Seq(DownLines) /\ Range(d) \subseteq Range(down) \cup {Rest}
      /\ half => d # <<>> /\ Head(d) = Rest
      /\ Urcs(d) = Urcs(r)
  BY AfterLines
<1>3. Urcs(down) = Urcs(s) + Urcs(r)
  BY UrcsOfParts DEF WireOK
<1> HIDE DEF c, d
<1>4. /\ Collected(f.out) /\ f.out.lines \subseteq Range(c)
      /\ f.gate \in Seq(DownLines) /\ Range(f.gate) \subseteq Range(c)
      /\ f.gate # <<>> /\ ~half => IsPrompt(Last(f.gate))
      /\ f.glued \in Nat /\ f.feed \in FeedType /\ Urcs(f.gate) \in Nat
      /\ f.feed.queued + f.feed.dropped + f.glued + Urcs(f.gate)
           = feed.queued + feed.dropped + Urcs(c)
  BY <1>1, FeedLines
<1> HIDE DEF f
<1>5. f.gate # <<>> /\ IsUrc(Last(f.gate)) => d # <<>> /\ Head(d) = Rest
  <2>1. \A l : IsUrc(l) => ~IsPrompt(l)
    BY DEF IsUrc, IsPrompt
  <2> QED BY <1>2, <1>4, <2>1
<1>6. Urcs(s) \in Nat /\ Urcs(r) \in Nat /\ Urcs(gate) \in Nat
  <2>1. Len(down) \in Nat
    BY LenProperties DEF WireOK
  <2>2. s \in Seq(DownLines) /\ r \in Seq(DownLines)
    BY <2>1, RangeOfPart DEF WireOK
  <2> QED BY <2>2, UrcsType DEF WireOK
<1>7. Urcs(d) + Urcs(f.gate) + f.feed.queued + f.feed.dropped + f.glued
        = InFlight + feed.queued + feed.dropped
  <2> DEFINE q == f.feed.queued
             x == f.feed.dropped
             q0 == feed.queued
             x0 == feed.dropped
             g == f.glued
             u == Urcs(f.gate)
             us == Urcs(s)
             ur == Urcs(r)
             ug == Urcs(gate)
             uc == Urcs(c)
             ud == Urcs(d)
  <2>1. q \in Nat /\ x \in Nat /\ q0 \in Nat /\ x0 \in Nat /\ g \in Nat /\ u \in Nat
    BY <1>4, DialogueAssumption DEF FeedType
  <2>2. q + x + g + u = q0 + x0 + uc
    BY <1>4
  <2>3. InFlight = (us + ur) + ug
    BY <1>3 DEF InFlight
  <2>4. ud = ur /\ uc = ug + us /\ us \in Nat /\ ur \in Nat /\ ug \in Nat
    BY <1>1, <1>2, <1>6
  <2> HIDE DEF q, x, q0, x0, g, u, us, ur, ug, uc, ud
  <2>5. ud + u + q + x + g = InFlight + q0 + x0
    BY <2>1, <2>2, <2>3, <2>4
  <2> QED BY <2>5 DEF q, x, q0, x0, g, u, ud
<1>8. Urcs(d) \in Nat
  BY <1>2, <1>6
<1> HIDE DEF s, r
<1> QED BY <1>1, <1>2, <1>4, <1>5, <1>7, <1>8 DEF Filters, c, d, f
-----------------------------------------------------------------------------
(* What draining and reading do *)

\* The +GT lines that have not left the host.
Known == InFlight + feed.queued + feed.dropped + urcs.glued

UrcCounts == [sent : Nat, gone : Nat, glued : Nat]

\* A step that takes lines in: nothing new is on the line, and no +GT line is
\* gone.
TakesIn ==
  /\ WireOK' /\ Range(down') \subseteq Range(down) \cup {Rest}
  /\ Range(gate') \subseteq Arrived
  /\ feed' \in FeedType /\ urcs' \in UrcCounts /\ Known' = Known
  /\ urcs'.sent = urcs.sent /\ urcs'.gone = urcs.gone

\* It may also take n of them for the end of a prompt.
LEMMA Taken ==
  ASSUME WireOK, feed \in FeedType, urcs \in UrcCounts, NEW f, NEW d, Filters(f, d),
         NEW g, NEW n \in Nat, g \in Seq(DownLines), Range(g) \subseteq Range(f.gate),
         g # <<>> => g = f.gate, Urcs(g) + n = Urcs(f.gate),
         down' = d, gate' = g, feed' = f.feed,
         urcs' = [urcs EXCEPT !.glued = @ + f.glued + n]
  PROVE  TakesIn
<1>1. WireOK'
  BY DEF WireOK, Started, Filters
<1> DEFINE k == urcs.glued + f.glued + n
<1>2. k \in Nat /\ urcs.glued \in Nat /\ f.glued \in Nat
  <2>1. urcs.glued \in Nat
    BY DEF UrcCounts
  <2>2. f.glued \in Nat
    BY DEF Filters
  <2> QED BY <2>1, <2>2
<1>3. urcs' = [urcs EXCEPT !.glued = k]
  OBVIOUS
<1>4. k = urcs.glued + f.glued + n
  OBVIOUS
<1> HIDE DEF k
<1>5. /\ urcs' \in UrcCounts /\ urcs'.sent = urcs.sent /\ urcs'.gone = urcs.gone
      /\ urcs'.glued = k
  BY <1>2, <1>3 DEF UrcCounts
<1>6. Known' = Known
  <2> DEFINE q == f.feed.queued
             x == f.feed.dropped
             q0 == feed.queued
             x0 == feed.dropped
             fg == f.glued
             ug == Urcs(g)
             uf == Urcs(f.gate)
             ud == Urcs(d)
             e == urcs.glued
             fl == InFlight
  <2>1. q \in Nat /\ x \in Nat /\ q0 \in Nat /\ x0 \in Nat
    BY DialogueAssumption DEF Filters, FeedType
  <2>2. ud \in Nat /\ uf \in Nat /\ ug \in Nat /\ fg \in Nat /\ e \in Nat /\ ug + n = uf
    BY <1>2, UrcsType DEF Filters
  <2>3. ud + uf + q + x + fg = fl + q0 + x0
    BY DEF Filters
  <2>4. fl \in Nat
    <3>1. Urcs(down) \in Nat /\ Urcs(gate) \in Nat
      BY UrcsType DEF WireOK
    <3> QED BY <3>1 DEF InFlight
  <2>5. Known' = ((ud + ug) + q + x) + k
    BY <1>5 DEF Known, InFlight
  <2>6. Known = (fl + q0 + x0) + e
    BY DEF Known
  <2>9. k = e + fg + n
    BY <1>4
  <2> HIDE DEF q, x, q0, x0, fg, ug, uf, ud, e, fl
  <2>7. n \in Nat /\ k \in Nat
    BY <1>2
  <2>10. ud \in Nat /\ q \in Nat /\ x \in Nat /\ fg \in Nat /\ e \in Nat /\ ug \in Nat
         /\ uf \in Nat
    BY <2>1, <2>2
  <2>11. k + ug = e + fg + uf
    BY <2>2, <2>7, <2>9, <2>10
  <2>12. ((ud + ug) + q + x) + k = ud + q + x + (e + fg + uf)
    BY <2>7, <2>10, <2>11
  <2>13. ud + q + x + (e + fg + uf) = (ud + uf + q + x + fg) + e
    BY <2>10
  <2>8. ((ud + ug) + q + x) + k = (fl + q0 + x0) + e
    BY <2>3, <2>12, <2>13
  <2> QED BY <2>5, <2>6, <2>8
<1> QED BY <1>1, <1>5, <1>6 DEF Filters, TakesIn

\* drain() is such a step and leaves at most the end of a divided line.
LEMMA DrainTakesIn ==
  ASSUME WireOK, feed \in FeedType, urcs \in UrcCounts, NEW half \in BOOLEAN, Drain(half)
  PROVE  TakesIn /\ Range(down') \subseteq {Rest}
<1> DEFINE n == Len(down)
           f == Feed(Chunk(n), half)
           d == After(n, half)
<1>1. /\ down' = d /\ gate' = f.gate /\ feed' = f.feed
      /\ urcs' = [urcs EXCEPT !.glued = @ + f.glued]
  BY DEF Drain
<1>2. n \in 0..Len(down) /\ n \in Nat
  BY LenProperties DEF WireOK
<1>3. Filters(f, d)
  BY <1>2, ReadFilters
<1>4. Range(d) \subseteq {Rest}
  <2>1. SubSeq(down, n + 1, n) = <<>>
    <3> HIDE DEF n
    <3> QED BY <1>2, SubSeqEmpty
  <2>2. Range(<<>> \o <<>>) = {} /\ Range(<<Rest>> \o <<>>) = {Rest}
    <3>1. <<>> \o <<>> = <<>> /\ <<Rest>> \o <<>> = <<Rest>>
      OBVIOUS
    <3>2. Range(<<>>) = {}
      BY DEF Range
    <3> QED BY <3>1, <3>2, RangeOfOne
  <2> QED BY <2>1, <2>2 DEF After
<1> HIDE DEF f, d
<1>5. urcs' = [urcs EXCEPT !.glued = @ + f.glued + 0]
  <2>1. urcs.glued \in Nat /\ f.glued \in Nat
    BY <1>3 DEF UrcCounts, Filters
  <2>2. urcs.glued + f.glued + 0 = urcs.glued + f.glued
    BY <2>1
  <2> QED BY <1>1, <2>2
<1>6. Urcs(f.gate) + 0 = Urcs(f.gate) /\ f.gate \in Seq(DownLines) /\ 0 \in Nat
  BY <1>3 DEF Filters
<1>7. TakesIn
  BY <1>1, <1>3, <1>5, <1>6, Taken
<1> QED BY <1>1, <1>4, <1>7

\* What a wait has after a read.
Receives(r) ==
  /\ Collected(r)
  /\ r.lines \subseteq raw.lines \cup Arrived

\* So is a read of a wait.
LEMMA ReadTakesIn ==
  ASSUME WireOK, Collected(raw), feed \in FeedType, urcs \in UrcCounts,
         NEW n \in 1..Len(down), NEW half \in BOOLEAN, Read(n, half)
  PROVE  TakesIn /\ \E r : Receives(r) /\ Consider(r)
<1> DEFINE f == Feed(Chunk(n), half)
           d == After(n, half)
           prompted == pc = "prompt" /\ f.gate # <<>> /\ IsPrompt(f.gate[1])
           extra == IF prompted THEN Just(f.gate[1]) ELSE Nothing
           r == Joined(Joined(raw, f.out), extra)
           g == IF prompted THEN <<>> ELSE f.gate
           m == IF prompted THEN Urcs(f.gate) ELSE 0
<1>1. /\ down' = d /\ gate' = g /\ feed' = f.feed /\ Consider(r)
      /\ urcs' = [urcs EXCEPT !.glued = @ + f.glued + m]
  BY DEF Read
<1>2. n \in 0..Len(down)
  OBVIOUS
<1>3. Filters(f, d)
  BY <1>2, ReadFilters
<1> HIDE DEF f, d
<1>4. f.gate \in Seq(DownLines) /\ Range(f.gate) \subseteq Arrived /\ Urcs(f.gate) \in Nat
  BY <1>3 DEF Filters
<1>5. prompted => f.gate[1] \in Answers /\ f.gate[1] \in Arrived
  <2> SUFFICES ASSUME prompted PROVE f.gate[1] \in Answers /\ f.gate[1] \in Arrived
    OBVIOUS
  <2>1. Head(f.gate) \in DownLines /\ Head(f.gate) = f.gate[1] /\ 1 \in DOMAIN f.gate
    BY <1>4, RangeOfRest
  <2>2. ~IsUrc(f.gate[1])
    BY DEF IsUrc, IsPrompt
  <2>3. f.gate[1] \in Range(f.gate)
    BY <2>1 DEF Range
  <2> QED BY <1>4, <2>1, <2>2, <2>3, LineKinds
<1>6. Collected(extra) /\ extra.lines \subseteq Arrived
  BY <1>5, SmallCollections
<1>7. Collected(f.out) /\ f.out.lines \subseteq Arrived
  BY <1>3 DEF Filters
<1> HIDE DEF extra
<1>8. Collected(Joined(raw, f.out)) /\ Joined(raw, f.out).lines = raw.lines \cup f.out.lines
  BY <1>7, JoinedLines
<1>9. Collected(r) /\ r.lines = Joined(raw, f.out).lines \cup extra.lines
  BY <1>6, <1>8, JoinedLines
<1>10. Receives(r)
  BY <1>6, <1>7, <1>8, <1>9 DEF Receives
<1>11. /\ g \in Seq(DownLines) /\ Range(g) \subseteq Range(f.gate) /\ (g # <<>> => g = f.gate)
       /\ m \in Nat /\ Urcs(g) + m = Urcs(f.gate)
  <2>1. CASE prompted
    <3>1. g = <<>> /\ m = Urcs(f.gate) /\ DOMAIN g = {} /\ g \in Seq(DownLines)
      BY <2>1
    <3>2. Urcs(<<>>) = 0 /\ Range(<<>>) = {}
      BY <3>1, UrcsNone DEF Range
    <3> HIDE DEF g, m, prompted
    <3> QED BY <1>4, <3>1, <3>2
  <2>2. CASE ~prompted
    <3>1. g = f.gate /\ m = 0
      BY <2>2
    <3> HIDE DEF g, m, prompted
    <3> QED BY <1>4, <3>1
  <2> QED BY <2>1, <2>2
<1> HIDE DEF g, m, r, prompted
<1>12. TakesIn
  BY <1>1, <1>3, <1>11, Taken
<1> QED BY <1>1, <1>10, <1>12

\* A command is written: what had arrived is gone but for a line that is
\* still arriving.
Writes(line, next) ==
  /\ TakesIn /\ Range(down') \subseteq {Rest}
  /\ up' = Append(up, line) /\ raw' = Nothing /\ pc' = next

\* Every command is written that way.
LEMMA WriteWrites ==
  ASSUME WireOK, feed \in FeedType, urcs \in UrcCounts, NEW line, NEW next, Write(line, next)
  PROVE  Writes(line, next)
<1>1. PICK half \in BOOLEAN : Drain(half)
  BY DEF Write
<1>2. TakesIn /\ Range(down') \subseteq {Rest}
  BY <1>1, DrainTakesIn
<1> QED BY <1>2 DEF Write, Writes
-----------------------------------------------------------------------------
(* What the modem does *)

AnswersTo(t) == {Answer(k, t) : k \in {"info", "ok", "error", "prompt"}}

\* The answers to a line carry its job and its purpose.
LEMMA AnswersAreLines ==
  ASSUME NEW t \in UpLines
  PROVE  /\ AnswersTo(t) \subseteq Answers
         /\ \A l \in AnswersTo(t) : l.job = t.job /\ l.to = t.to
         /\ \A k \in {"info", "ok", "error", "prompt"} :
              Answer(k, t) \in AnswersTo(t) /\ Answer(k, t).k = k
<1>1. t.job \in 0..MaxJobs /\ t.to \in Phases
  BY DEF UpLines
<1>2. ASSUME NEW k \in {"info", "ok", "error", "prompt"}
      PROVE  Answer(k, t) \in Answers /\ Answer(k, t).k = k
             /\ Answer(k, t).job = t.job /\ Answer(k, t).to = t.to
  <2>1. Answer(k, t) = [k |-> k, job |-> t.job, to |-> t.to]
    BY DEF Answer
  <2>2. Answer(k, t) \in [k : {"info", "ok", "error", "prompt"}, job : 0..MaxJobs, to : Phases]
    BY <1>1, <2>1
  <2>3. Urc.k = "urc"
    BY DEF Urc
  <2> QED BY <2>1, <2>2, <2>3 DEF Answers, DownLines
<1> QED BY <1>2 DEF AnswersTo

\* It adds some lines at the end, none of them a +GT line.
LEMMA SaysMore ==
  ASSUME WireOK, NEW lines \in Seq(Answers), Says(lines), gate' = gate
  PROVE  /\ WireOK' /\ InFlight' = InFlight
         /\ Range(down') = Range(down) \cup Range(lines)
<1>1. Answers \subseteq DownLines /\ down \in Seq(DownLines)
  BY DEF Answers, WireOK
<1>2. lines \in Seq(DownLines)
  BY <1>1, SeqMonotonic
<1>3. down' = down \o lines
  BY DEF Says
<1>4. \A i \in DOMAIN lines : ~IsUrc(lines[i])
  <2>1. \A i \in DOMAIN lines : lines[i] \in Answers
    BY LenProperties, ElementOfSeq
  <2> QED BY <2>1, LineKinds DEF Answers
<1>5. Urcs(lines) = 0
  BY <1>2, <1>4, UrcsNone
<1>6. Urcs(down') = Urcs(down) + 0 /\ Urcs(down) \in Nat
  BY <1>1, <1>2, <1>3, <1>5, UrcsOfBoth, UrcsType
<1>7. /\ Len(down) \in Nat /\ Len(lines) \in Nat
      /\ down' \in Seq(DownLines) /\ Len(down') = Len(down) + Len(lines)
      /\ \A i \in 1..Len(down) + Len(lines) :
           down'[i] = IF i <= Len(down) THEN down[i] ELSE lines[i - Len(down)]
  BY <1>1, <1>2, <1>3, ConcatProperties, LenProperties
<1>8. Started' => down' # <<>> /\ Head(down') = Rest
  <2> SUFFICES ASSUME Started' PROVE down' # <<>> /\ Head(down') = Rest
    OBVIOUS
  <2>1. down # <<>> /\ Head(down) = Rest
    BY DEF WireOK, Started
  <2>2. Head(down) = down[1] /\ Len(down) # 0
    BY <1>1, <2>1, RangeOfRest
  <2>3. 1 \in 1..Len(down) + Len(lines) /\ 1 <= Len(down) /\ Len(down') # 0
    BY <1>7, <2>2
  <2>4. down'[1] = Rest /\ down' # <<>>
    BY <1>7, <2>1, <2>2, <2>3, EmptySeq
  <2> QED BY <1>7, <2>4, RangeOfRest
<1>9. InFlight' = InFlight
  BY <1>6 DEF InFlight
<1>10. Range(down') = Range(down) \cup Range(lines)
  BY <1>1, <1>2, <1>3, RangeConcatenation
<1> QED BY <1>7, <1>8, <1>9, <1>10 DEF WireOK

Modems == [mode : {"command", "text"}, junk : BOOLEAN]

\* What may be said to a line: OK to a send only when the modem has the
\* message, and an error only when it has not and says nothing else.
Speaks(t, new) ==
  /\ Range(down') = Range(down) \cup new
  /\ (\E l \in new : l.k = "ok") =>
       t.k \in {"line", "esc"} \/ (t.k = "z" /\ t.job \in accepted')
  /\ (\E l \in new : l.k = "error") => accepted' = accepted /\ \A l \in new : l.k = "error"
  /\ (\E l \in new : l.k = "prompt") => t.k = "cmgs"
  /\ t.k = "text" => new = {}

\* One turn of the modem: it takes the first of what was written and answers
\* it.  It leaves the text only at a line that ends it, enters it only for a
\* line that asks for it, and takes a message over only at its end.
Turn(t) ==
  /\ t \in UpLines /\ t = Head(up) /\ up # <<>> /\ up' = Tail(up)
  /\ WireOK' /\ InFlight' = InFlight
  /\ modem' \in Modems
  /\ t.k \in {"z", "esc"} => modem'.mode = "command"
  /\ modem'.mode = "text" => modem.mode = "text" \/ t.k = "cmgs"
  /\ accepted \subseteq accepted'
  /\ accepted' \subseteq accepted \cup (IF t.k = "z" THEN {t.job} ELSE {})
  /\ \E new \in SUBSET AnswersTo(t) : Speaks(t, new)

\* An answer of one line.
LEMMA SaysOne ==
  ASSUME NEW t \in UpLines, NEW k \in {"info", "ok", "error", "prompt"}
  PROVE  /\ <<Answer(k, t)>> \in Seq(Answers)
         /\ Range(<<Answer(k, t)>>) = {Answer(k, t)}
         /\ {Answer(k, t)} \in SUBSET AnswersTo(t)
         /\ \A l \in {Answer(k, t)} : l.k = k
<1>1. Answer(k, t) \in Answers /\ Answer(k, t) \in AnswersTo(t) /\ Answer(k, t).k = k
  BY AnswersAreLines
<1> QED BY <1>1, RangeOfOne

\* Whatever the modem reads, it does no more than that.
LEMMA ModemTurns ==
  ASSUME DialogueTypeOK, WireOK, ModemReads
  PROVE  Turn(Head(up))
<1> DEFINE t == Head(up)
<1>1. /\ up # <<>> /\ up' = Tail(up) /\ gate' = gate
      /\ \/ modem.mode = "command" /\ t.k = "line" /\ Obey(t)
         \/ modem.mode = "command" /\ t.k = "cmgs" /\ Ask(t)
         \/ modem.mode = "command" /\ t.k \in {"text", "z", "esc"} /\ Misread(t)
         \/ modem.mode = "text" /\ t.k = "z" /\ EndText(t)
         \/ modem.mode = "text" /\ t.k = "esc" /\ Escape(t)
         \/ modem.mode = "text" /\ t.k \in {"line", "cmgs", "text"} /\ Misread(t)
  BY DEF ModemReads, hostVars
<1>2. t \in UpLines /\ modem \in Modems
  BY <1>1, RangeOfRest DEF DialogueTypeOK, Modems
<1>3. Range(<<>>) = {} /\ <<>> \in Seq(Answers)
  BY DEF Range
<1> HIDE DEF t
\* What an answer of one line does, and what silence does.
<1>4. ASSUME NEW k \in {"info", "ok", "error", "prompt"}, Says(<<Answer(k, t)>>),
             k = "ok" => t.k \in {"line", "esc"} \/ (t.k = "z" /\ t.job \in accepted'),
             k = "error" => accepted' = accepted, k = "prompt" => t.k = "cmgs", t.k # "text"
      PROVE  /\ WireOK' /\ InFlight' = InFlight
             /\ \E new \in SUBSET AnswersTo(t) : Speaks(t, new)
  <2> DEFINE new == {Answer(k, t)}
  <2>1. <<Answer(k, t)>> \in Seq(Answers) /\ Range(<<Answer(k, t)>>) = new
    BY <1>2, SaysOne
  <2>2. new \in SUBSET AnswersTo(t) /\ \A l \in new : l.k = k
    BY <1>2, SaysOne
  <2>3. WireOK' /\ InFlight' = InFlight /\ Range(down') = Range(down) \cup new
    BY <1>1, <1>4, <2>1, SaysMore
  <2> HIDE DEF new
  <2>4. Speaks(t, new)
    BY <1>4, <2>2, <2>3 DEF Speaks
  <2> QED BY <2>2, <2>3, <2>4
<1>5. ASSUME down' = down
      PROVE  /\ WireOK' /\ InFlight' = InFlight
             /\ \E new \in SUBSET AnswersTo(t) : Speaks(t, new)
  <2>1. {} \in SUBSET AnswersTo(t) /\ Range(down') = Range(down) \cup {}
    BY <1>5
  <2>2. Speaks(t, {})
    BY <2>1 DEF Speaks
  <2>3. WireOK' /\ InFlight' = InFlight
    BY <1>1, <1>5 DEF WireOK, Started, InFlight
  <2> QED BY <2>1, <2>2, <2>3
<1>6. CASE modem.mode = "command" /\ t.k = "line" /\ Obey(t)
  <2>1. modem' \in Modems /\ modem'.mode = "command" /\ accepted' = accepted
    BY <1>2, <1>6 DEF Obey, Modems
  <2>2. CASE Says(<<Answer("info", t), Answer("ok", t)>>)
    <3> DEFINE two == <<Answer("info", t), Answer("ok", t)>>
               new == {Answer("info", t), Answer("ok", t)}
    <3>1. new \in SUBSET AnswersTo(t) /\ new \subseteq Answers
      BY <1>2, AnswersAreLines
    <3>2. two \in Seq(Answers) /\ Range(two) = new
      BY <3>1 DEF Range
    <3>3. WireOK' /\ InFlight' = InFlight /\ Range(down') = Range(down) \cup new
      <4> HIDE DEF new
      <4>1. two \in Seq(Answers) /\ Says(two) /\ Range(two) = new
        BY <2>2, <3>2
      <4> HIDE DEF two
      <4> QED BY <1>1, <4>1, SaysMore
    <3>4. \A l \in new : l.k \in {"info", "ok"}
      BY <1>2, AnswersAreLines
    <3> HIDE DEF new
    <3>5. Speaks(t, new)
      BY <1>6, <3>3, <3>4 DEF Speaks
    <3> QED BY <1>1, <1>2, <1>6, <2>1, <3>1, <3>3, <3>5 DEF Turn, t
  <2>3. CASE Says(<<Answer("error", t)>>)
    <3> QED BY <1>1, <1>2, <1>4, <1>6, <2>1, <2>3 DEF Turn, t
  <2> QED BY <1>6, <2>2, <2>3 DEF Obey
<1>7. CASE modem.mode = "command" /\ t.k = "cmgs" /\ Ask(t)
  <2>1. modem' \in Modems /\ accepted' = accepted
    BY <1>2, <1>7 DEF Ask, Modems
  <2>2. Says(<<Answer("prompt", t)>>) \/ Says(<<Answer("error", t)>>)
    BY <1>7 DEF Ask
  <2> QED BY <1>1, <1>2, <1>4, <1>7, <2>1, <2>2 DEF Turn, t
<1>8. CASE t.k \in {"text", "z", "esc", "line", "cmgs"} /\ Misread(t)
           /\ (t.k \in {"z", "esc"} => modem.mode = "command")
  <2>1. modem' \in Modems /\ modem'.mode = modem.mode /\ accepted' = accepted /\ down' = down
    BY <1>2, <1>8 DEF Misread, Modems
  <2> QED BY <1>1, <1>2, <1>5, <1>8, <2>1 DEF Turn, t
<1>9. CASE t.k = "z" /\ EndText(t)
  <2>1. modem' \in Modems /\ modem'.mode = "command"
    BY <1>9 DEF EndText, Modems
  <2>2. CASE Says(<<Answer("ok", t)>>) /\ accepted' = accepted \cup {t.job}
    BY <1>1, <1>2, <1>4, <1>9, <2>1, <2>2 DEF Turn, t
  <2>3. CASE Says(<<Answer("error", t)>>) /\ accepted' = accepted
    BY <1>1, <1>2, <1>4, <1>9, <2>1, <2>3 DEF Turn, t
  <2> QED BY <1>9, <2>2, <2>3 DEF EndText
<1>10. CASE t.k = "esc" /\ Escape(t)
  <2>1. modem' \in Modems /\ modem'.mode = "command" /\ accepted' = accepted
    BY <1>10 DEF Escape, Modems
  <2>2. CASE Says(<<Answer("ok", t)>>)
    BY <1>1, <1>2, <1>4, <1>10, <2>1, <2>2 DEF Turn, t
  <2>3. CASE down' = down
    BY <1>1, <1>2, <1>5, <1>10, <2>1, <2>3 DEF Turn, t
  <2> QED BY <1>10, <2>2, <2>3 DEF Escape
<1> QED BY <1>1, <1>6, <1>7, <1>8, <1>9, <1>10 DEF t

\* A line of the proxy comes between two lines, never behind the start of one.
LEMMA LineComes ==
  ASSUME WireOK, NEW i, NEW line \in {Urc, Note}, Emit(i, line)
  PROVE  /\ WireOK' /\ Range(down') = Range(down) \cup {line} /\ gate' = gate
         /\ InFlight' = InFlight + Urcs(<<line>>) /\ InFlight \in Nat
<1> DEFINE a == SubSeq(down, 1, i - 1)
           b == SubSeq(down, i, Len(down))
           ab == a \o <<line>>
<1>1. /\ Len(down) \in Nat /\ DOMAIN down = 1..Len(down) /\ down \in Seq(DownLines)
      /\ i \in 1..Len(down) + 1 /\ i \in Nat \ {0}
      /\ i - 1 \in 0..Len(down) /\ Len(down) \in 0..Len(down)
      /\ 1 \in Nat \ {0} /\ gate' = gate
  BY LenProperties DEF WireOK, Emit, hostVars
<1>2. down' = ab \o b /\ (i <= Len(down) => down[i] # Rest)
  BY DEF Emit, InsertAt
<1>3. /\ a \in Seq(DownLines) /\ Len(a) = i - 1
      /\ \A j \in DOMAIN a : 1 + j - 1 \in DOMAIN down /\ a[j] = down[1 + j - 1]
  <2> DEFINE p == i - 1
  <2>1. p \in 0..Len(down)
    BY <1>1
  <2> HIDE DEF p
  <2>2. /\ SubSeq(down, 1, p) \in Seq(DownLines)
        /\ Len(SubSeq(down, 1, p)) = IF 1 <= p THEN p - 1 + 1 ELSE 0
        /\ \A j \in DOMAIN SubSeq(down, 1, p) :
             1 + j - 1 \in DOMAIN down /\ SubSeq(down, 1, p)[j] = down[1 + j - 1]
    BY <1>1, <2>1, RangeOfPart
  <2>3. (IF 1 <= p THEN p - 1 + 1 ELSE 0) = p
    BY <2>1
  <2> QED BY <2>2, <2>3 DEF p
<1>4. /\ b \in Seq(DownLines)
      /\ \A j \in DOMAIN b : i + j - 1 \in DOMAIN down /\ b[j] = down[i + j - 1]
  BY <1>1, RangeOfPart
<1>5. down = a \o b
  <2>1. SubSeq(down, 1, i - 1) \o SubSeq(down, (i - 1) + 1, Len(down)) = SubSeq(down, 1, Len(down))
    <3>1. 1 \in 1..Len(down) + 1 /\ i - 1 \in 1 - 1..Len(down) /\ Len(down) \in i - 1..Len(down)
      BY <1>1
    <3> QED BY <1>1, <3>1, ConcatAdjacentSubSeq
  <2>2. (i - 1) + 1 = i
    BY <1>1
  <2> QED BY <1>1, <2>1, <2>2, SubSeqFull
<1> HIDE DEF a, b
<1>6. <<line>> \in Seq(DownLines) /\ Len(<<line>>) = 1 /\ <<line>>[1] = line
  BY LineKinds
<1>7. /\ ab \in Seq(DownLines) /\ Len(ab) = Len(a) + 1
      /\ \A j \in 1..Len(a) + 1 : ab[j] = IF j <= Len(a) THEN a[j] ELSE <<line>>[j - Len(a)]
  BY <1>3, <1>6, ConcatProperties
<1>8. /\ Range(ab) = Range(a) \cup Range(<<line>>) /\ Range(down) = Range(a) \cup Range(b)
      /\ Urcs(ab) = Urcs(a) + Urcs(<<line>>) /\ Urcs(down) = Urcs(a) + Urcs(b)
      /\ Urcs(a) \in Nat /\ Urcs(b) \in Nat
  <2>1. a \in Seq(DownLines) /\ b \in Seq(DownLines)
    BY <1>3, <1>4
  <2>2. Range(ab) = Range(a) \cup Range(<<line>>) /\ Range(a \o b) = Range(a) \cup Range(b)
    BY <1>6, <2>1, RangeConcatenation
  <2>3. Urcs(ab) = Urcs(a) + Urcs(<<line>>) /\ Urcs(a \o b) = Urcs(a) + Urcs(b)
    BY <1>6, <2>1, UrcsOfBoth
  <2>4. Urcs(a) \in Nat /\ Urcs(b) \in Nat
    BY <2>1, UrcsType
  <2> HIDE DEF ab
  <2> QED BY <1>5, <2>2, <2>3, <2>4
<1> HIDE DEF ab
<1>9. /\ down' \in Seq(DownLines) /\ Len(down') = Len(ab) + Len(b)
      /\ \A j \in 1..Len(ab) + Len(b) : down'[j] = IF j <= Len(ab) THEN ab[j] ELSE b[j - Len(ab)]
      /\ Range(down') = Range(ab) \cup Range(b) /\ Urcs(down') = Urcs(ab) + Urcs(b)
  <2>1. ab \in Seq(DownLines) /\ b \in Seq(DownLines) /\ down' = ab \o b
    BY <1>2, <1>4, <1>7
  <2>2. Range(ab \o b) = Range(ab) \cup Range(b) /\ Urcs(ab \o b) = Urcs(ab) + Urcs(b)
    BY <2>1, RangeConcatenation, UrcsOfBoth
  <2>3. /\ ab \o b \in Seq(DownLines) /\ Len(ab \o b) = Len(ab) + Len(b)
        /\ \A j \in 1..Len(ab) + Len(b) :
             (ab \o b)[j] = IF j <= Len(ab) THEN ab[j] ELSE b[j - Len(ab)]
    BY <2>1, ConcatProperties
  <2> QED BY <2>1, <2>2, <2>3
<1>10. Range(down') = Range(down) \cup {line}
  BY <1>8, <1>9, RangeOfOne
<1>11. InFlight' = InFlight + Urcs(<<line>>) /\ InFlight \in Nat
  <2>1. Urcs(<<line>>) \in Nat /\ Urcs(gate) \in Nat
    BY <1>6, UrcsType DEF WireOK
  <2>2. Urcs(down') = Urcs(down) + Urcs(<<line>>) /\ Urcs(down) \in Nat
    BY <1>8, <1>9, <2>1
  <2>3. InFlight' = Urcs(down') + Urcs(gate)
    BY <1>1 DEF InFlight
  <2> DEFINE x == Urcs(<<line>>)
             y == Urcs(down)
             z == Urcs(gate)
  <2>4. x \in Nat /\ y \in Nat /\ z \in Nat /\ InFlight = y + z /\ InFlight' = (y + x) + z
    BY <2>1, <2>2, <2>3 DEF InFlight
  <2> HIDE DEF x, y, z
  <2>5. InFlight' = InFlight + x /\ InFlight \in Nat
    BY <2>4
  <2> QED BY <2>5 DEF x
<1>12. Started' => down' # <<>> /\ Head(down') = Rest
  <2> SUFFICES ASSUME Started' PROVE down' # <<>> /\ Head(down') = Rest
    OBVIOUS
  <2>1. down # <<>> /\ Head(down) = Rest
    BY <1>1 DEF WireOK, Started
  <2>2. Head(down) = down[1] /\ Len(down) # 0
    BY <1>1, <2>1, RangeOfRest
  <2>3. i > 1
    BY <1>1, <1>2, <2>1, <2>2
  <2>4. Len(a) >= 1 /\ Len(a) \in Nat /\ 1 \in DOMAIN a /\ 1 + 1 - 1 = 1
    BY <1>1, <1>3, <2>3, LenProperties
  <2>5. a[1] = Rest
    BY <1>3, <2>1, <2>2, <2>4
  <2>6. ab[1] = Rest /\ Len(ab) >= 1 /\ Len(b) \in Nat /\ Len(ab) \in Nat
    BY <1>4, <1>7, <2>4, <2>5, LenProperties
  <2>7. down'[1] = Rest /\ Len(down') # 0
    BY <1>9, <2>6
  <2>8. down' # <<>>
    BY <2>7, EmptySeq
  <2> QED BY <1>9, <2>7, <2>8, RangeOfRest
<1> QED BY <1>1, <1>9, <1>10, <1>11, <1>12 DEF WireOK
-----------------------------------------------------------------------------
(* The shape of the state *)

Stages == Waits \cup {"idle", "echo", "settle", "failed"}
Tales == {"nothing", "answer", "sent", "rejected", "unknown", "failed"}

\* A message has a job; no line and no message is of a later one.
Numbered ==
  /\ pc \in {"prompt", "text"} => job.n > 0
  /\ \A l \in Range(up) : l.job <= job.n /\ (l.k = "z" => l.job > 0)
  /\ \A n \in accepted : n <= job.n

Shaped ==
  /\ DialogueTypeOK
  /\ WireOK
  /\ Collected(raw)
  /\ Numbered

\* What the host writes.
LEMMA SaidIsLine ==
  ASSUME DialogueTypeOK
  PROVE  \A k \in {"line", "cmgs", "text", "z", "esc"}, to \in Phases :
           Said(k, to) \in UpLines /\ Said(k, to).k = k
           /\ Said(k, to).job = job.n /\ Said(k, to).to = to
<1>1. job.n \in 0..MaxJobs
  BY DEF DialogueTypeOK
<1> QED BY <1>1 DEF Said, UpLines

LEMMA SaysOneLine ==
  ASSUME DialogueTypeOK, NEW line \in UpLines
  PROVE  Append(up, line) \in Seq(UpLines) /\ Range(Append(up, line)) = Range(up) \cup {line}
  BY RangeOfMore DEF DialogueTypeOK

LEMMA SaysText ==
  ASSUME DialogueTypeOK
  PROVE  LET two == <<Said("text", "text"), Said("z", "text")>> IN
         /\ up \o two \in Seq(UpLines) /\ two \in Seq(UpLines) /\ Len(two) = 2
         /\ Range(up \o two) = Range(up) \cup {Said("text", "text"), Said("z", "text")}
<1> DEFINE two == <<Said("text", "text"), Said("z", "text")>>
<1>1. Said("text", "text") \in UpLines /\ Said("z", "text") \in UpLines
  BY SaidIsLine DEF Phases
<1>2. two \in Seq(UpLines) /\ Len(two) = 2 /\ Range(two) = {Said("text", "text"), Said("z", "text")}
  BY <1>1 DEF Range
<1> HIDE DEF two
<1>3. up \in Seq(UpLines)
  BY DEF DialogueTypeOK
<1>4. up \o two \in Seq(UpLines) /\ Range(up \o two) = Range(up) \cup Range(two)
  BY <1>2, <1>3, ConcatProperties, RangeConcatenation
<1> QED BY <1>2, <1>4 DEF two

\* What a wait may hold has the type DialogueTypeOK gives it.
LEMMA CollectedType ==
  ASSUME NEW r, Collected(r)
  PROVE  r \in [lines : SUBSET DownLines, last : DownLines \cup {NoLine}]
<1>1. Answers \subseteq DownLines
  BY DEF Answers
<1> QED BY <1>1 DEF Collected

LEMMA NothingType == Collected(Nothing)
  BY SmallCollections

\* The shape after a step in which the lines are all right.
LEMMA StillShaped ==
  ASSUME Shaped, WireOK', Collected(raw'), Numbered', up' \in Seq(UpLines),
         modem' \in Modems, accepted' \subseteq 1..MaxJobs,
         open' \in BOOLEAN, behind' \in BOOLEAN, cut' \in BOOLEAN,
         job' \in [n : 0..MaxJobs, kind : {"none", "query", "send"}],
         pc' \in Stages,
         told' \in Tales,
         feed' \in FeedType, urcs' \in UrcCounts
  PROVE  Shaped'
<1>1. raw' \in [lines : SUBSET DownLines, last : DownLines \cup {NoLine}]
  BY CollectedType
<1>2. down' \in Seq(DownLines) /\ gate' \in Seq(DownLines)
  BY DEF WireOK
<1> QED BY <1>1, <1>2 DEF Shaped, DialogueTypeOK, Modems, FeedType, UrcCounts, Stages, Tales

\* What the shape says, one part at a time.
LEMMA ShapeParts ==
  ASSUME Shaped
  PROVE  /\ DialogueTypeOK /\ WireOK /\ Collected(raw) /\ Numbered
         /\ up \in Seq(UpLines) /\ modem \in Modems /\ accepted \subseteq 1..MaxJobs
         /\ open \in BOOLEAN /\ behind \in BOOLEAN /\ cut \in BOOLEAN
         /\ job \in [n : 0..MaxJobs, kind : {"none", "query", "send"}]
         /\ pc \in Stages
         /\ told \in Tales
         /\ feed \in FeedType /\ urcs \in UrcCounts
  BY DEF Shaped, DialogueTypeOK, Modems, FeedType, UrcCounts, Stages, Tales

\* A failed send writes ESC, and a message is text and Ctrl-Z.
LEMMA HostLines ==
  ASSUME Shaped
  PROVE  /\ \A o : Abandon(o) =>
              /\ up' = Append(up, Said("esc", "esc")) /\ Said("esc", "esc").k = "esc"
              /\ Said("esc", "esc").job = job.n
              /\ up' \in Seq(UpLines) /\ Range(up') = Range(up) \cup {Said("esc", "esc")}
         /\ SendText =>
              /\ up' \in Seq(UpLines)
              /\ Range(up') = Range(up) \cup {Said("text", "text"), Said("z", "text")}
              /\ Said("text", "text").k = "text" /\ Said("z", "text").k = "z"
              /\ Said("text", "text").job = job.n /\ Said("z", "text").job = job.n
<1>1. DialogueTypeOK
  BY DEF Shaped
<1>2. /\ Said("esc", "esc") \in UpLines /\ Said("esc", "esc").k = "esc"
      /\ Said("esc", "esc").job = job.n
  BY <1>1, SaidIsLine DEF Phases
<1>3. /\ Said("text", "text").k = "text" /\ Said("z", "text").k = "z"
      /\ Said("text", "text").job = job.n /\ Said("z", "text").job = job.n
  BY <1>1, SaidIsLine DEF Phases
<1>4. \A o : Abandon(o) => up' = Append(up, Said("esc", "esc"))
  BY DEF Abandon
<1>5. SendText => up' = up \o <<Said("text", "text"), Said("z", "text")>>
  BY DEF SendText
<1> QED BY <1>1, <1>2, <1>3, <1>4, <1>5, SaysOneLine, SaysText

\* Jobs are numbered.
LEMMA JobNumber == Shaped => job.n \in Nat
  BY DialogueAssumption DEF Shaped, DialogueTypeOK

\* What a wait does with what it has keeps the shape.
LEMMA ConsiderShape ==
  ASSUME Shaped, NEW r, Collected(r), Consider(r), job' = job, accepted' = accepted
  PROVE  /\ up' \in Seq(UpLines) /\ Collected(raw') /\ Numbered'
         /\ open' \in BOOLEAN /\ pc' \in Stages
         /\ told' \in Tales /\ behind' = behind
<1>0. job.n \in Nat
  BY JobNumber
<1>1. CASE /\ pc = "prompt" /\ Prompted(r)
           /\ SendText /\ raw' = Nothing
  <2>1. /\ pc' = "text" /\ open' = open /\ told' = told /\ behind' = behind
    BY <1>1 DEF SendText
  <2>2. Numbered'
    BY <1>0, <1>1, <2>1, HostLines DEF Numbered, Shaped
  <2> QED BY <1>1, <2>1, <2>2, HostLines, ShapeParts, NothingType DEF Waits, Stages
<1>2. CASE Abandon("rejected") /\ raw' = Nothing
  <2>1. /\ pc' = "settle" /\ open' = open /\ told' = "rejected" /\ behind' = behind
    BY <1>2 DEF Abandon
  <2>2. Numbered'
    BY <1>0, <1>2, <2>1, HostLines DEF Numbered, Shaped
  <2> QED BY <1>2, <2>1, <2>2, HostLines, ShapeParts, NothingType DEF Stages, Tales
<1>3. CASE /\ raw' \in {r, Nothing}
           /\ (Concludes("sent") \/ Concludes("answer") \/ Resynced)
  <2>1. /\ pc' \in {"idle", "failed"} /\ open' \in {TRUE, open}
        /\ told' \in {"sent", "answer", told} /\ up' = up /\ behind' = behind
    BY <1>3 DEF Concludes, Resynced
  <2>2. Numbered'
    BY <2>1, ShapeParts DEF Numbered
  <2> QED BY <1>3, <2>1, <2>2, ShapeParts, NothingType DEF Stages, Tales
<1>4. CASE raw' = r /\ UNCHANGED <<up, open, pc, told, behind>>
  BY <1>4, ShapeParts DEF Numbered
<1> QED
  <2>1. \/ pc = "prompt" /\ Prompted(r) /\ SendText /\ raw' = Nothing
        \/ Abandon("rejected") /\ raw' = Nothing
        \/ /\ raw' \in {r, Nothing}
           /\ (Concludes("sent") \/ Concludes("answer") \/ Resynced)
        \/ raw' = r /\ UNCHANGED <<up, open, pc, told, behind>>
    BY DEF Consider
  <2> QED BY <1>1, <1>2, <1>3, <1>4, <2>1

\* One command or another is written.
LEMMA WriteShape ==
  ASSUME Shaped, NEW line \in UpLines, NEW next, Writes(line, next)
  PROVE  /\ up' \in Seq(UpLines) /\ Range(up') = Range(up) \cup {line}
         /\ WireOK' /\ Collected(raw') /\ pc' = next
         /\ feed' \in FeedType /\ urcs' \in UrcCounts
  BY SaysOneLine, NothingType DEF Shaped, Writes, TakesIn

\* The shape holds at first and at every step.
LEMMA InitialShape == DialogueInit => Shaped
<1> SUFFICES ASSUME DialogueInit PROVE Shaped
  OBVIOUS
<1> USE DEF DialogueInit
<1>1. WireOK
  BY DEF WireOK, Started
<1>2. Collected(raw)
  BY NothingType
<1>3. Numbered
  BY DEF Numbered, Range
<1>4. feed \in FeedType /\ urcs \in UrcCounts
  BY DialogueAssumption DEF FeedType, UrcCounts
<1>5. job \in [n : 0..MaxJobs, kind : {"none", "query", "send"}]
  BY DialogueAssumption
<1>6. up \in Seq(UpLines) /\ down \in Seq(DownLines) /\ gate \in Seq(DownLines)
  OBVIOUS
<1> QED BY <1>1, <1>2, <1>3, <1>4, <1>5, <1>6, CollectedType
        DEF Shaped, DialogueTypeOK, FeedType, UrcCounts, Waits

\* A port that is closed.
LEMMA ClosesShape ==
  ASSUME Shaped, Closes
  PROVE  /\ WireOK' /\ Collected(raw') /\ open' \in BOOLEAN /\ urcs' \in UrcCounts
         /\ InFlight' = 0 /\ urcs'.sent = urcs.sent /\ urcs'.glued = urcs.glued
         /\ urcs'.gone = urcs.gone + InFlight
<1>1. /\ open' = FALSE /\ gate' = <<>> /\ raw' = Nothing /\ down' = <<>>
      /\ urcs' = [urcs EXCEPT !.gone = @ + InFlight]
  BY DEF Closes
<1>2. InFlight \in Nat
  <2>1. Urcs(down) \in Nat /\ Urcs(gate) \in Nat
    BY ShapeParts, UrcsType DEF WireOK
  <2> QED BY <2>1 DEF InFlight
<1>3. InFlight' = 0
  <2>1. <<>> \in Seq(DownLines) /\ DOMAIN <<>> = {}
    OBVIOUS
  <2>2. Urcs(<<>>) = 0
    BY <2>1, UrcsNone
  <2> QED BY <1>1, <2>2 DEF InFlight
<1>4. WireOK'
  BY <1>1 DEF WireOK, Started
<1> DEFINE t == urcs.gone + InFlight
<1>5. urcs' = [urcs EXCEPT !.gone = t] /\ t \in Nat /\ t = urcs.gone + InFlight
  BY <1>1, <1>2, ShapeParts DEF UrcCounts
<1> HIDE DEF t
<1>6. urcs' \in UrcCounts /\ urcs'.sent = urcs.sent /\ urcs'.glued = urcs.glued /\ urcs'.gone = t
  BY <1>5, ShapeParts DEF UrcCounts
<1>7. Collected(raw') /\ open' \in BOOLEAN
  BY <1>1, NothingType
<1> QED BY <1>3, <1>4, <1>5, <1>6, <1>7

LEMMA StepShape == Shaped /\ [DialogueNext]_dialogueVars => Shaped'
<1> SUFFICES ASSUME Shaped, [DialogueNext]_dialogueVars PROVE Shaped'
  OBVIOUS
<1> USE ShapeParts, JobNumber
<1>1. CASE Open
  <2>1. /\ up' = Append(up, Said("line", "echo")) /\ pc' = "echo" /\ feed' = feed /\ urcs' = urcs
        /\ down' = down /\ modem' = modem /\ accepted' = accepted /\ open' = open /\ gate' = gate
        /\ raw' = raw /\ job' = job /\ told' = "nothing" /\ behind' = behind /\ cut' = cut
    BY <1>1 DEF Open, modemVars
  <2>2. /\ Said("line", "echo") \in UpLines /\ Said("line", "echo").k = "line"
        /\ Said("line", "echo").job = job.n
    BY SaidIsLine DEF Phases
  <2>3. up' \in Seq(UpLines) /\ Range(up') = Range(up) \cup {Said("line", "echo")}
    BY <2>1, <2>2, SaysOneLine
  <2>4. WireOK' /\ Numbered'
    BY <2>1, <2>2, <2>3 DEF WireOK, Started, Numbered
  <2>5. pc' \in Stages /\ told' \in Tales
    BY <2>1 DEF Stages, Tales
  <2> QED BY <2>1, <2>3, <2>4, <2>5, StillShaped
\* A command of the latest job, or of the handshake.
<1>2. ASSUME NEW to \in {"cmee", "sync"}, Write(Said("line", to), to), behind' \in BOOLEAN,
             UNCHANGED <<modemVars, open, job, told, cut>>
      PROVE  Shaped'
  <2>1. modem' = modem /\ accepted' = accepted /\ open' = open /\ job' = job
        /\ told' = told /\ cut' = cut
    BY <1>2 DEF modemVars
  <2>2. /\ Said("line", to) \in UpLines /\ Said("line", to).k = "line"
        /\ Said("line", to).job = job.n
    BY SaidIsLine DEF Phases
  <2>3. Writes(Said("line", to), to)
    BY <1>2, WriteWrites
  <2>4. /\ up' \in Seq(UpLines) /\ Range(up') = Range(up) \cup {Said("line", to)}
        /\ WireOK' /\ Collected(raw') /\ pc' = to /\ feed' \in FeedType /\ urcs' \in UrcCounts
    BY <2>2, <2>3, WriteShape
  <2>5. Numbered'
    BY <2>1, <2>2, <2>4 DEF Numbered
  <2>6. pc' \in Stages
    BY <2>4 DEF Stages, Waits
  <2> QED BY <1>2, <2>1, <2>4, <2>5, <2>6, StillShaped
<1>3. CASE Hello
  BY <1>2, <1>3 DEF Hello, Outstanding
<1>4. ASSUME NEW kind \in {"query", "send"}, Begin(kind)
      PROVE  Shaped'
  <2> DEFINE k == IF kind = "send" THEN "cmgs" ELSE "line"
             line == [k |-> k, job |-> job.n + 1, to |-> "cmd"]
             next == IF kind = "send" THEN "prompt" ELSE "cmd"
  <2>1. /\ modem' = modem /\ accepted' = accepted /\ open' = open
        /\ job' = [n |-> job.n + 1, kind |-> kind] /\ job.n < MaxJobs
        /\ told' = "nothing" /\ cut' = (cut /\ kind # "send") /\ Write(line, next)
        /\ behind' = Outstanding
    BY <1>4 DEF Begin, modemVars
  <2>2. job.n + 1 \in 0..MaxJobs /\ job.n + 1 > 0
    BY <2>1, DialogueAssumption
  <2>3. line \in UpLines /\ line.k # "z" /\ next \in Waits /\ line.job = job.n + 1
    BY <2>2 DEF UpLines, Phases, Waits
  <2> HIDE DEF line, next
  <2>4. Writes(line, next)
    BY <2>1, WriteWrites
  <2>5. /\ up' \in Seq(UpLines) /\ Range(up') = Range(up) \cup {line}
        /\ WireOK' /\ Collected(raw') /\ pc' = next /\ feed' \in FeedType /\ urcs' \in UrcCounts
    BY <2>3, <2>4, WriteShape
  <2>6. /\ job' \in [n : 0..MaxJobs, kind : {"none", "query", "send"}]
        /\ job'.n = job.n + 1 /\ job'.n > 0
    BY <2>1, <2>2
  <2>7. Numbered'
    <3>1. \A l \in Range(up) : l.job \in 0..MaxJobs /\ l.job <= job.n /\ (l.k = "z" => l.job > 0)
      <4>1. \A l \in Range(up) : l \in UpLines
        BY RangeOfSeq
      <4> QED BY <4>1 DEF UpLines, Numbered
    <3>2. \A n \in accepted : n \in 1..MaxJobs /\ n <= job.n
      BY DEF Numbered
    <3>3. \A l \in Range(up') : l.job <= job'.n /\ (l.k = "z" => l.job > 0)
      BY <2>3, <2>5, <2>6, <3>1, DialogueAssumption
    <3>4. \A n \in accepted' : n <= job'.n
      BY <2>1, <2>6, <3>2, DialogueAssumption
    <3> QED BY <2>6, <3>3, <3>4 DEF Numbered
  <2>8. cut' \in BOOLEAN /\ told' \in Tales /\ behind' \in BOOLEAN /\ pc' \in Stages
    BY <2>1, <2>3, <2>5 DEF Tales, Stages, Outstanding
  <2> QED BY <2>1, <2>5, <2>6, <2>7, <2>8, StillShaped
<1>5. ASSUME NEW n \in 1..Len(down), NEW half \in BOOLEAN, Read(n, half)
      PROVE  Shaped'
  <2>1. modem' = modem /\ accepted' = accepted /\ job' = job /\ cut' = cut
    BY <1>5 DEF Read, modemVars
  <2>2. TakesIn
    BY <1>5, ReadTakesIn
  <2>3. PICK r : Receives(r) /\ Consider(r)
    BY <1>5, ReadTakesIn
  <2>4. Collected(r)
    BY <2>3 DEF Receives
  <2>5. /\ up' \in Seq(UpLines) /\ Collected(raw') /\ Numbered'
        /\ open' \in BOOLEAN /\ pc' \in Stages
        /\ told' \in Tales /\ behind' = behind
    BY <2>1, <2>3, <2>4, ConsiderShape
  <2>6. WireOK' /\ feed' \in FeedType /\ urcs' \in UrcCounts
    BY <2>2 DEF TakesIn
  <2> QED BY <2>1, <2>5, <2>6, StillShaped
<1>6. CASE Timeout
  <2>1. /\ modem' = modem /\ accepted' = accepted /\ job' = job /\ urcs' = urcs /\ cut' = cut
        /\ down' = down /\ gate' = gate /\ raw' = Nothing /\ feed' = feed
        /\ (Abandon("unknown") \/ Resynced \/ Concludes("answer"))
    BY <1>6 DEF Timeout, Silence, modemVars
  <2>2. WireOK' /\ Collected(raw')
    BY <2>1, NothingType DEF WireOK, Started
  <2>3. CASE Abandon("unknown")
    <3>1. pc' = "settle" /\ told' = "unknown" /\ open' = open /\ behind' = behind
      BY <2>3 DEF Abandon
    <3>2. up' \in Seq(UpLines) /\ Numbered'
      BY <2>1, <2>3, <3>1, HostLines DEF Numbered
    <3> QED BY <2>1, <2>2, <3>1, <3>2, StillShaped DEF Stages, Tales
  <2>4. CASE Resynced \/ Concludes("answer")
    <3>1. /\ pc' \in {"idle", "failed"} /\ told' \in {told, "answer"} /\ open' \in {open, TRUE}
          /\ up' = up /\ behind' = behind
      BY <2>4 DEF Concludes, Resynced
    <3>2. Numbered'
      BY <2>1, <3>1 DEF Numbered
    <3>3. pc' \in Stages /\ told' \in Tales /\ open' \in BOOLEAN
      BY <3>1 DEF Stages, Tales
    <3> QED BY <2>1, <2>2, <3>1, <3>2, <3>3, StillShaped
  <2> QED BY <2>1, <2>3, <2>4
<1>7. CASE Resync
  BY <1>2, <1>7 DEF Resync
<1>8. CASE DropHandle
  <2>1. /\ pc' = "idle" /\ up' = up /\ modem' = modem /\ accepted' = accepted /\ job' = job
        /\ told' = told /\ behind' = behind /\ feed' = feed /\ cut' = cut /\ Closes
    BY <1>8 DEF DropHandle, modemVars
  <2>2. WireOK' /\ Collected(raw') /\ open' \in BOOLEAN /\ urcs' \in UrcCounts
    BY <2>1, ClosesShape
  <2>3. Numbered' /\ pc' \in Stages
    BY <2>1 DEF Numbered, Stages
  <2> QED BY <2>1, <2>2, <2>3, StillShaped
<1>9. CASE TakeEvents
  <2> DEFINE t == urcs.gone + feed.queued
  <2>1. /\ feed' = [feed EXCEPT !.queued = 0] /\ urcs' = [urcs EXCEPT !.gone = t]
        /\ up' = up /\ down' = down /\ modem' = modem /\ accepted' = accepted
        /\ open' = open /\ gate' = gate /\ raw' = raw /\ job' = job /\ pc' = pc /\ told' = told
        /\ behind' = behind /\ cut' = cut
    BY <1>9 DEF TakeEvents, lineVars, modemVars, hostVars
  <2>2. t \in Nat /\ 0 \in 0..QueueCap
    BY DialogueAssumption DEF FeedType, UrcCounts
  <2> HIDE DEF t
  <2>3. feed' \in FeedType /\ urcs' \in UrcCounts
    BY <2>1, <2>2 DEF FeedType, UrcCounts
  <2>4. WireOK' /\ Collected(raw') /\ Numbered'
    BY <2>1 DEF WireOK, Started, Numbered
  <2> QED BY <2>1, <2>3, <2>4, StillShaped
<1>10. CASE ModemReads
  <2>1. /\ open' = open /\ gate' = gate /\ raw' = raw /\ job' = job /\ pc' = pc /\ told' = told
        /\ behind' = behind /\ urcs' = urcs /\ cut' = cut /\ feed' = feed
    BY <1>10 DEF ModemReads, hostVars
  <2>2. Turn(Head(up))
    BY <1>10, ModemTurns
  <2>3. /\ up # <<>> /\ up' = Tail(up) /\ WireOK' /\ modem' \in Modems
        /\ accepted' \subseteq accepted \cup (IF Head(up).k = "z" THEN {Head(up).job} ELSE {})
    BY <2>2 DEF Turn
  <2>4. up' \in Seq(UpLines) /\ Range(up') \subseteq Range(up)
    BY <2>3, RangeOfRest
  <2>5. Head(up) \in UpLines /\ Head(up) \in Range(up)
    BY <2>3, RangeOfRest DEF Range
  <2>6. /\ Head(up).job <= job.n
        /\ Head(up).k = "z" => Head(up).job \in 1..MaxJobs
    <3>1. Head(up).job \in 0..MaxJobs
      BY <2>5 DEF UpLines
    <3>2. Head(up).job <= job.n /\ (Head(up).k = "z" => Head(up).job > 0)
      BY <2>5 DEF Numbered
    <3> QED BY <3>1, <3>2
  <2>7. accepted' \subseteq 1..MaxJobs
    BY <2>3, <2>6
  <2>8. Numbered' /\ Collected(raw')
    BY <2>1, <2>3, <2>4, <2>6 DEF Numbered
  <2> QED BY <2>1, <2>3, <2>4, <2>7, <2>8, StillShaped
<1>11. CASE ModemIgnores
  <2>1. /\ open' = open /\ gate' = gate /\ raw' = raw /\ job' = job /\ pc' = pc /\ told' = told
        /\ behind' = behind /\ urcs' = urcs /\ cut' = cut /\ feed' = feed
        /\ down' = down /\ modem' = modem /\ accepted' = accepted
        /\ up # <<>> /\ up' = Tail(up)
    BY <1>11 DEF ModemIgnores, hostVars, modemVars
  <2>2. up' \in Seq(UpLines) /\ Range(up') \subseteq Range(up)
    BY <2>1, RangeOfRest
  <2>3. WireOK' /\ Collected(raw') /\ Numbered'
    BY <2>1, <2>2 DEF WireOK, Started, Numbered
  <2> QED BY <2>1, <2>2, <2>3, StillShaped
<1>12. ASSUME NEW i \in 1..Len(down) + 1, SendUrc(i) \/ SendNote(i)
       PROVE  Shaped'
  <2>1. PICK line \in {Urc, Note} : Emit(i, line)
    BY <1>12 DEF SendUrc, SendNote
  <2>2. /\ open' = open /\ gate' = gate /\ raw' = raw /\ job' = job /\ pc' = pc /\ told' = told
        /\ behind' = behind /\ cut' = cut /\ feed' = feed /\ up' = up
        /\ modem' = modem /\ accepted' = accepted
    BY <2>1 DEF Emit, hostVars, modemVars
  <2>3. WireOK'
    BY <2>1, LineComes
  <2>4. urcs' \in UrcCounts
    BY <1>12 DEF SendUrc, SendNote, UrcCounts
  <2>5. Collected(raw') /\ Numbered'
    BY <2>2 DEF Numbered
  <2> QED BY <2>2, <2>3, <2>4, <2>5, StillShaped
<1>13. CASE Cut
  <2>1. /\ pc' = "idle" /\ told' \in CutOutcomes /\ Closes
        /\ \/ up' = up /\ modem' = modem
           \/ up' = <<>> /\ modem' = [mode |-> "command", junk |-> FALSE]
        /\ cut' \in BOOLEAN /\ accepted' = accepted /\ job' = job /\ behind' = behind
        /\ feed' = feed
    BY <1>13 DEF Cut
  <2>2. WireOK' /\ Collected(raw') /\ open' \in BOOLEAN /\ urcs' \in UrcCounts
    BY <2>1, ClosesShape
  <2>3. up' \in Seq(UpLines) /\ modem' \in Modems
    <3>1. CASE up' = up /\ modem' = modem
      BY <3>1
    <3>2. CASE up' = <<>> /\ modem' = [mode |-> "command", junk |-> FALSE]
      BY <3>2 DEF Modems
    <3> QED BY <2>1, <3>1, <3>2
  <2>4. Numbered'
    BY <2>1 DEF Numbered, Range
  <2>5. told' \in Tales
    BY <2>1 DEF CutOutcomes, Tales
  <2> QED BY <2>1, <2>2, <2>3, <2>4, <2>5, StillShaped DEF Stages
<1>14. CASE UNCHANGED dialogueVars
  BY <1>14 DEF dialogueVars, lineVars, modemVars, hostVars, Shaped, DialogueTypeOK,
               WireOK, Started, Numbered
<1> QED BY <1>1, <1>3, <1>4, <1>5, <1>6, <1>7, <1>8, <1>9, <1>10, <1>11, <1>12, <1>13, <1>14
        DEF DialogueNext
-----------------------------------------------------------------------------
(* Every +GT line is somewhere *)

Counted == urcs.sent = Known + urcs.gone

\* The count is a number.
LEMMA KnownType ==
  ASSUME Shaped
  PROVE  /\ Known \in Nat /\ InFlight \in Nat
         /\ feed.queued \in Nat /\ feed.dropped \in Nat
         /\ urcs.glued \in Nat /\ urcs.gone \in Nat /\ urcs.sent \in Nat
<1>1. Urcs(down) \in Nat /\ Urcs(gate) \in Nat
  BY ShapeParts, UrcsType DEF WireOK
<1>2. InFlight \in Nat
  BY <1>1 DEF InFlight
<1>3. feed.queued \in Nat /\ feed.dropped \in Nat
  BY ShapeParts, DialogueAssumption DEF FeedType
<1>4. urcs.glued \in Nat /\ urcs.gone \in Nat /\ urcs.sent \in Nat
  BY ShapeParts DEF UrcCounts
<1> QED BY <1>2, <1>3, <1>4 DEF Known

\* A +GT line moves from one place to the next, and is in one at a time.
LEMMA StepCounts ==
  Shaped /\ Counted /\ Shaped' /\ [DialogueNext]_dialogueVars => Counted'
<1> SUFFICES ASSUME Shaped, Counted, Shaped', [DialogueNext]_dialogueVars PROVE Counted'
  OBVIOUS
<1>0. Known' \in Nat /\ Known \in Nat /\ InFlight \in Nat
  <2>1. down' \in Seq(DownLines) /\ gate' \in Seq(DownLines)
    BY DEF Shaped, WireOK
  <2>2. Urcs(down') \in Nat /\ Urcs(gate') \in Nat
    BY <2>1, UrcsType
  <2>3. feed'.queued \in Nat /\ feed'.dropped \in Nat /\ urcs'.glued \in Nat
    BY DialogueAssumption DEF Shaped, DialogueTypeOK
  <2>4. Known' \in Nat
    BY <2>2, <2>3 DEF Known, InFlight
  <2> QED BY <2>4, KnownType
<1>1. ASSUME Known' = Known, urcs'.sent = urcs.sent, urcs'.gone = urcs.gone PROVE Counted'
  BY <1>1 DEF Counted
<1>2. ASSUME down' = down, gate' = gate, feed' = feed, urcs' = urcs PROVE Counted'
  BY <1>2 DEF Counted, Known, InFlight
<1>3. ASSUME TakesIn PROVE Counted'
  BY <1>1, <1>3 DEF TakesIn
<1>4. ASSUME NEW line, NEW next, Write(line, next) PROVE Counted'
  BY <1>3, <1>4, ShapeParts, WriteWrites DEF Writes
<1>5. ASSUME Closes, feed' = feed PROVE Counted'
  <2>1. /\ InFlight' = 0 /\ urcs'.sent = urcs.sent /\ urcs'.glued = urcs.glued
        /\ urcs'.gone = urcs.gone + InFlight
    BY <1>5, ClosesShape
  <2> DEFINE q == feed.queued
             x == feed.dropped
             g == urcs.glued
  <2>2. Known' = 0 + q + x + g /\ Known = InFlight + q + x + g
    BY <1>5, <2>1 DEF Known
  <2>3. q \in Nat /\ x \in Nat /\ g \in Nat
    BY KnownType
  <2> HIDE DEF q, x, g
  <2>4. Known' + InFlight = Known
    BY <1>0, <2>2, <2>3
  <2> DEFINE u == urcs.gone
             k == Known
             m == InFlight
  <2>5. urcs.sent = k + u /\ u \in Nat /\ k \in Nat /\ m \in Nat /\ Known' + m = k
    BY <1>0, <2>4, KnownType DEF Counted
  <2> DEFINE j == Known'
  <2>7. j \in Nat /\ j + m = k /\ u \in Nat /\ m \in Nat
    BY <1>0, <2>5
  <2> HIDE DEF u, k, m, j
  <2>8. k + u = j + (u + m)
    BY <2>7
  <2>6. urcs.sent = Known' + (u + m)
    BY <2>5, <2>8 DEF j
  <2> QED BY <2>1, <2>6 DEF Counted, u, m
<1>6. CASE Open
  BY <1>2, <1>6 DEF Open
<1>7. CASE Hello
  BY <1>4, <1>7 DEF Hello
<1>8. ASSUME NEW kind \in {"query", "send"}, Begin(kind)
      PROVE  Counted'
  BY <1>4, <1>8 DEF Begin
<1>9. ASSUME NEW n \in 1..Len(down), NEW half \in BOOLEAN, Read(n, half)
      PROVE  Counted'
  BY <1>3, <1>9, ShapeParts, ReadTakesIn
<1>10. CASE Timeout
  BY <1>2, <1>10 DEF Timeout
<1>11. CASE Resync
  BY <1>4, <1>11 DEF Resync
<1>12. CASE DropHandle
  BY <1>5, <1>12 DEF DropHandle
<1>13. CASE TakeEvents
  <2> DEFINE q == feed.queued
             x == feed.dropped
             g == urcs.glued
             t == urcs.gone + q
  <2>1. /\ feed' = [feed EXCEPT !.queued = 0] /\ urcs' = [urcs EXCEPT !.gone = t]
        /\ InFlight' = InFlight
    BY <1>13 DEF TakeEvents, lineVars, hostVars, InFlight
  <2> HIDE DEF t
  <2>2. /\ feed'.queued = 0 /\ feed'.dropped = x
        /\ urcs'.gone = t /\ urcs'.glued = g /\ urcs'.sent = urcs.sent
    BY <2>1, ShapeParts DEF FeedType, UrcCounts
  <2>3. Known' = InFlight + 0 + x + g /\ Known = InFlight + q + x + g
    BY <2>1, <2>2 DEF Known
  <2>4. q \in Nat /\ x \in Nat /\ g \in Nat /\ urcs.gone \in Nat
    BY KnownType
  <2>5. urcs.sent = Known + urcs.gone /\ t = urcs.gone + q
    BY DEF Counted, t
  <2> HIDE DEF q, x, g
  <2>6. urcs.sent = Known' + t
    BY <1>0, <2>3, <2>4, <2>5
  <2> QED BY <2>2, <2>6 DEF Counted
<1>14. CASE ModemReads
  <2>1. Turn(Head(up))
    BY <1>14, ShapeParts, ModemTurns
  <2>2. InFlight' = InFlight /\ feed' = feed /\ urcs' = urcs
    BY <1>14, <2>1 DEF ModemReads, Turn
  <2> QED BY <1>1, <2>2 DEF Known
<1>15. CASE ModemIgnores
  BY <1>2, <1>15 DEF ModemIgnores, hostVars
<1>16. ASSUME NEW i \in 1..Len(down) + 1, NEW line \in {Urc, Note}, Emit(i, line),
              NEW n \in Nat, n = Urcs(<<line>>),
              urcs'.sent = urcs.sent + n, urcs'.gone = urcs.gone, urcs'.glued = urcs.glued
       PROVE  Counted'
  <2>1. InFlight' = InFlight + n /\ feed' = feed
    BY <1>16, ShapeParts, LineComes DEF Emit
  <2> DEFINE q == feed.queued
             x == feed.dropped
             g == urcs.glued
  <2>2. Known' = (InFlight + n) + q + x + g /\ Known = InFlight + q + x + g
    BY <1>16, <2>1 DEF Known
  <2>3. q \in Nat /\ x \in Nat /\ g \in Nat /\ urcs.gone \in Nat
    BY KnownType
  <2>4. urcs.sent = Known + urcs.gone
    BY DEF Counted
  <2> HIDE DEF q, x, g
  <2>5. urcs.sent + n = Known' + urcs.gone
    BY <1>0, <2>2, <2>3, <2>4
  <2> QED BY <1>16, <2>5 DEF Counted
<1>17. ASSUME NEW i \in 1..Len(down) + 1, SendUrc(i)
       PROVE  Counted'
  <2>1. /\ urcs'.sent = urcs.sent + 1 /\ urcs'.gone = urcs.gone /\ urcs'.glued = urcs.glued
        /\ Emit(i, Urc)
    BY <1>17, ShapeParts DEF SendUrc, UrcCounts
  <2>2. Urcs(<<Urc>>) = 1 /\ 1 \in Nat
    BY UrcsOne, LineKinds
  <2> QED BY <1>16, <2>1, <2>2
<1>18. ASSUME NEW i \in 1..Len(down) + 1, SendNote(i)
       PROVE  Counted'
  <2>1. urcs' = urcs /\ Emit(i, Note) /\ urcs.sent + 0 = urcs.sent
    BY <1>18, KnownType DEF SendNote
  <2>2. Urcs(<<Note>>) = 0 /\ 0 \in Nat
    BY UrcsOne, LineKinds
  <2> QED BY <1>16, <2>1, <2>2
<1>19. CASE Cut
  BY <1>5, <1>19 DEF Cut
<1>20. CASE UNCHANGED dialogueVars
  BY <1>2, <1>20 DEF dialogueVars, lineVars, hostVars
<1> QED BY <1>6, <1>7, <1>8, <1>9, <1>10, <1>11, <1>12, <1>13, <1>14, <1>15, <1>17, <1>18,
           <1>19, <1>20
        DEF DialogueNext
-----------------------------------------------------------------------------
(* No input is left open *)

EndsText(l) == l.k \in {"z", "esc"}

\* What is on its way to a modem in this mode ends its input.
EndsInput(mode, s) ==
  /\ mode = "text" => \E i \in DOMAIN s : EndsText(s[i])
  /\ \A i \in DOMAIN s : s[i].k = "cmgs" => \E j \in DOMAIN s : j > i /\ EndsText(s[j])

Closed == ~cut /\ pc # "prompt" => EndsInput(modem.mode, up)

\* A line that ends the input, last, ends it whatever was before.
LEMMA EndsWithLast ==
  ASSUME NEW S, NEW s \in Seq(S), NEW mode, s # <<>>, EndsText(s[Len(s)])
  PROVE  EndsInput(mode, s)
<1>1. Len(s) \in DOMAIN s /\ DOMAIN s = 1..Len(s) /\ Len(s) \in Nat
  BY LenProperties, EmptySeq
<1>2. ASSUME NEW i \in DOMAIN s, s[i].k = "cmgs" PROVE Len(s) > i
  <2>1. i # Len(s)
    BY <1>2 DEF EndsText
  <2> QED BY <1>1, <2>1
<1> QED BY <1>1, <1>2 DEF EndsInput

\* Another line spoils nothing, unless it asks for text.
LEMMA EndsAfterMore ==
  ASSUME NEW S, NEW s \in Seq(S), NEW mode, NEW l \in S, EndsInput(mode, s), l.k # "cmgs"
  PROVE  EndsInput(mode, Append(s, l))
<1>1. DOMAIN s = 1..Len(s) /\ Len(s) \in Nat
  BY LenProperties
<1>2. /\ DOMAIN Append(s, l) = 1..Len(s) + 1 /\ Append(s, l)[Len(s) + 1] = l
      /\ \A i \in DOMAIN s : i \in DOMAIN Append(s, l) /\ Append(s, l)[i] = s[i]
  BY <1>1, RangeOfMore, LenProperties
<1>3. \A i \in DOMAIN Append(s, l) : i \in DOMAIN s \/ i = Len(s) + 1
  BY <1>1, <1>2
<1> QED BY <1>2, <1>3 DEF EndsInput

\* The modem has taken the first.
LEMMA EndsAfterFirst ==
  ASSUME NEW S, NEW s \in Seq(S), NEW mode, NEW next, s # <<>>, EndsInput(mode, s),
         EndsText(Head(s)) => next # "text",
         next = "text" => mode = "text" \/ Head(s).k = "cmgs"
  PROVE  EndsInput(next, Tail(s))
<1>1. /\ Head(s) = s[1] /\ 1 \in DOMAIN s /\ DOMAIN s = 1..Len(s) /\ Len(s) \in Nat
      /\ DOMAIN Tail(s) = 1..Len(s) - 1
      /\ \A i \in DOMAIN Tail(s) : i + 1 \in DOMAIN s /\ Tail(s)[i] = s[i + 1]
  BY RangeOfRest, LenProperties
<1>2. ASSUME NEW j \in DOMAIN s, j > 1, EndsText(s[j])
      PROVE  j - 1 \in DOMAIN Tail(s) /\ EndsText(Tail(s)[j - 1])
  <2>1. j - 1 \in DOMAIN Tail(s) /\ (j - 1) + 1 = j
    BY <1>1, <1>2
  <2> QED BY <1>1, <1>2, <2>1
<1>3. ASSUME next = "text"
      PROVE  \E j \in DOMAIN Tail(s) : EndsText(Tail(s)[j])
  <2>1. \E j \in DOMAIN s : j > 1 /\ EndsText(s[j])
    <3>1. CASE Head(s).k = "cmgs"
      BY <1>1, <3>1 DEF EndsInput
    <3>2. CASE mode = "text"
      <4>1. PICK j \in DOMAIN s : EndsText(s[j])
        BY <3>2 DEF EndsInput
      <4>2. j # 1
        BY <1>1, <1>3, <4>1
      <4> QED BY <1>1, <4>1, <4>2
    <3> QED BY <1>3, <3>1, <3>2
  <2> QED BY <1>2, <2>1
<1>4. ASSUME NEW i \in DOMAIN Tail(s), Tail(s)[i].k = "cmgs"
      PROVE  \E j \in DOMAIN Tail(s) : j > i /\ EndsText(Tail(s)[j])
  <2>1. PICK j \in DOMAIN s : j > i + 1 /\ EndsText(s[j])
    BY <1>1, <1>4 DEF EndsInput
  <2>2. j > 1 /\ j - 1 > i
    BY <1>1, <2>1
  <2> QED BY <1>2, <2>1, <2>2
<1> QED BY <1>3, <1>4 DEF EndsInput

\* A send that goes on or fails has written the end of its text.
LEMMA FailedEnds ==
  ASSUME Shaped, (\E o : Abandon(o)) \/ SendText, NEW mode
  PROVE  EndsInput(mode, up')
<1>1. up \in Seq(UpLines) /\ DialogueTypeOK
  BY ShapeParts
<1>2. CASE \E o : Abandon(o)
  <2>9. PICK o : Abandon(o)
    BY <1>2
  <2> DEFINE l == Said("esc", "esc")
  <2>1. l \in UpLines /\ l.k = "esc"
    BY <1>1, SaidIsLine DEF Phases
  <2>2. up' = Append(up, l)
    BY <2>9 DEF Abandon
  <2> HIDE DEF l
  <2>3. up' \in Seq(UpLines) /\ up' # <<>> /\ up'[Len(up')] = l
    BY <1>1, <2>1, <2>2, RangeOfMore
  <2> QED BY <2>1, <2>3, EndsWithLast DEF EndsText
<1>3. CASE SendText
  <2> DEFINE two == <<Said("text", "text"), Said("z", "text")>>
  <2>1. Said("z", "text").k = "z" /\ two[2] = Said("z", "text")
    BY <1>1, SaidIsLine DEF Phases
  <2>2. up' = up \o two /\ two \in Seq(UpLines) /\ Len(two) = 2
    BY <1>1, <1>3, SaysText DEF SendText
  <2> HIDE DEF two
  <2>3. /\ up' \in Seq(UpLines) /\ Len(up') = Len(up) + 2 /\ Len(up) \in Nat
        /\ \A i \in 1..Len(up) + 2 : up'[i] = IF i <= Len(up) THEN up[i] ELSE two[i - Len(up)]
    <3>1. /\ up \o two \in Seq(UpLines) /\ Len(up \o two) = Len(up) + Len(two)
          /\ \A i \in 1..Len(up) + Len(two) :
               (up \o two)[i] = IF i <= Len(up) THEN up[i] ELSE two[i - Len(up)]
      BY <1>1, <2>2, ConcatProperties
    <3>2. Len(up) \in Nat
      BY <1>1, LenProperties
    <3> QED BY <2>2, <3>1, <3>2
  <2>4. up'[Len(up')] = two[2] /\ up' # <<>>
    <3>1. Len(up) + 2 \in 1..Len(up) + 2 /\ ~(Len(up) + 2 <= Len(up)) /\ Len(up) + 2 - Len(up) = 2
      BY <2>3
    <3>2. Len(up') # 0
      BY <2>3
    <3> QED BY <2>3, <3>1, <3>2, EmptySeq
  <2> QED BY <2>1, <2>3, <2>4, EndsWithLast DEF EndsText
<1> QED BY <1>2, <1>3

\* No step leaves an input open.
LEMMA StepCloses == Shaped /\ Closed /\ [DialogueNext]_dialogueVars => Closed'
<1> SUFFICES ASSUME Shaped, Closed, [DialogueNext]_dialogueVars PROVE Closed'
  OBVIOUS
<1> USE ShapeParts
<1>1. ASSUME NEW line \in UpLines, line.k # "cmgs", up' = Append(up, line), modem' = modem,
             ~cut', ~cut, pc # "prompt"
      PROVE  EndsInput(modem'.mode, up')
  BY <1>1, EndsAfterMore DEF Closed
<1>2. ASSUME up' = up, modem' = modem, cut' = cut, pc # "prompt"
      PROVE  Closed'
  BY <1>2 DEF Closed
<1>3. CASE Open
  <2>1. /\ up' = Append(up, Said("line", "echo")) /\ modem' = modem /\ cut' = cut /\ pc = "idle"
    BY <1>3 DEF Open, modemVars
  <2> QED BY <1>1, <2>1, SaidIsLine DEF Closed, Phases
<1>4. CASE Hello
  <2>1. up' = Append(up, Said("line", "cmee")) /\ modem' = modem /\ cut' = cut /\ pc = "echo"
    BY <1>4, WriteWrites DEF Hello, modemVars, Writes
  <2> QED BY <1>1, <2>1, SaidIsLine DEF Closed, Phases
<1>5. ASSUME NEW kind \in {"query", "send"}, Begin(kind)
      PROVE  Closed'
  <2> DEFINE line == [k |-> "line", job |-> job.n + 1, to |-> "cmd"]
  <2>1. CASE kind = "send"
    <3>1. pc' = "prompt"
      BY <1>5, <2>1 DEF Begin, Write
    <3> QED BY <3>1 DEF Closed
  <2>2. CASE kind = "query"
    <3>1. /\ up' = Append(up, line) /\ modem' = modem /\ cut' = cut
          /\ pc = "idle" /\ job.n < MaxJobs
      BY <1>5, <2>2 DEF Begin, Write, modemVars
    <3>2. job.n + 1 \in 0..MaxJobs
      BY <3>1, DialogueAssumption
    <3>3. line \in UpLines /\ line.k # "cmgs"
      BY <3>2 DEF UpLines, Phases
    <3> HIDE DEF line
    <3> QED BY <1>1, <3>1, <3>3 DEF Closed
  <2> QED BY <2>1, <2>2
<1>6. ASSUME NEW n \in 1..Len(down), NEW half \in BOOLEAN, Read(n, half)
      PROVE  Closed'
  <2>1. modem' = modem /\ cut' = cut
    BY <1>6 DEF Read, modemVars
  <2>2. PICK r : Receives(r) /\ Consider(r)
    BY <1>6, ReadTakesIn
  <2>3. CASE Abandon("rejected") \/ SendText
    BY <2>3, FailedEnds DEF Closed
  <2>4. CASE up' = up /\ pc # "prompt"
    BY <1>2, <2>1, <2>4
  <2>5. CASE up' = up /\ pc' = pc
    BY <2>1, <2>5 DEF Closed
  <2> QED BY <2>2, <2>3, <2>4, <2>5 DEF Consider, Concludes, Resynced
<1>7. CASE Timeout
  <2>1. modem' = modem /\ cut' = cut
    BY <1>7 DEF Timeout, modemVars
  <2>2. CASE Abandon(Silence)
    BY <2>2, FailedEnds DEF Closed
  <2>3. CASE up' = up /\ pc # "prompt"
    BY <1>2, <2>1, <2>3
  <2> QED BY <1>7, <2>2, <2>3 DEF Timeout, Concludes, Resynced
<1>8. CASE Resync
  <2>1. up' = Append(up, Said("line", "sync")) /\ modem' = modem /\ cut' = cut /\ pc = "settle"
    BY <1>8, WriteWrites DEF Resync, modemVars, Writes
  <2> QED BY <1>1, <2>1, SaidIsLine DEF Closed, Phases
<1>9. CASE TakeEvents
  BY <1>9 DEF TakeEvents, lineVars, modemVars, hostVars, Closed
<1>10. CASE ModemReads
  <2>1. Turn(Head(up)) /\ pc' = pc /\ cut' = cut
    BY <1>10, ModemTurns DEF ModemReads, hostVars
  <2>2. CASE ~cut /\ pc # "prompt"
    <3>1. EndsInput(modem.mode, up) /\ up # <<>> /\ up' = Tail(up)
      BY <2>1, <2>2 DEF Closed, Turn
    <3>2. /\ EndsText(Head(up)) => modem'.mode # "text"
          /\ modem'.mode = "text" => modem.mode = "text" \/ Head(up).k = "cmgs"
      BY <2>1 DEF Turn, EndsText
    <3>3. EndsInput(modem'.mode, Tail(up))
      BY <3>1, <3>2, EndsAfterFirst
    <3> QED BY <3>1, <3>3 DEF Closed
  <2> QED BY <2>1, <2>2 DEF Closed
<1>11. CASE ModemIgnores
  <2>1. /\ modem' = modem /\ pc' = pc /\ cut' = cut /\ up # <<>> /\ up' = Tail(up)
        /\ Head(up).k \in {"line", "cmgs"}
    BY <1>11 DEF ModemIgnores, modemVars, hostVars
  <2>2. CASE ~cut /\ pc # "prompt"
    <3>1. EndsInput(modem.mode, up) /\ ~EndsText(Head(up))
      BY <2>1, <2>2 DEF Closed, EndsText
    <3>2. EndsInput(modem.mode, Tail(up))
      BY <2>1, <3>1, EndsAfterFirst
    <3> QED BY <2>1, <3>2 DEF Closed
  <2> QED BY <2>1, <2>2 DEF Closed
<1>12. ASSUME NEW i \in 1..Len(down) + 1, SendUrc(i) \/ SendNote(i)
       PROVE  Closed'
  BY <1>12 DEF SendUrc, SendNote, Emit, modemVars, hostVars, Closed
<1>13. CASE Cut
  <2>1. CASE cut'
    BY <2>1 DEF Closed
  <2>2. CASE up' = <<>> /\ modem' = [mode |-> "command", junk |-> FALSE]
    BY <2>2 DEF Closed, EndsInput
  <2> QED BY <1>13, <2>1, <2>2 DEF Cut
<1>15. CASE DropHandle
  <2>1. up' = up /\ modem' = modem /\ cut' = cut /\ pc = "failed"
    BY <1>15 DEF DropHandle, modemVars
  <2> QED BY <1>2, <2>1
<1>14. CASE UNCHANGED dialogueVars
  BY <1>14 DEF dialogueVars, lineVars, modemVars, hostVars, Closed
<1> QED BY <1>3, <1>4, <1>5, <1>6, <1>7, <1>8, <1>9, <1>10, <1>11, <1>12, <1>13, <1>14, <1>15
        DEF DialogueNext
-----------------------------------------------------------------------------
(* Answers are the command's own *)

Owned(l) == l.job = job.n /\ l.to = pc

\* What is said beside the answers.
Foreign == {Urc, Note, Rest}

\* What the host has or will get, and what is on the way to the modem, when
\* it waits for the answer of a command that found nothing outstanding.
Pending == raw.lines \cup Arrived
Owns ==
  pc \in {"cmd", "cmee"} /\ ~behind =>
    /\ \A l \in Range(up) : Owned(l)
    /\ \A l \in Pending : l \in Foreign \/ Owned(l)

\* Right after the command was written.
LEMMA FreshLine ==
  ASSUME NEW line, NEW next, Writes(line, next), ~Outstanding
  PROVE  /\ up' = <<line>> /\ Range(up') = {line} /\ Pending' \subseteq Foreign
<1>1. up' = <<line>>
  <2>1. up = <<>> /\ up' = Append(up, line)
    BY DEF Writes, Outstanding
  <2>2. Append(<<>>, line) = <<line>>
    OBVIOUS
  <2> QED BY <2>1, <2>2
<1>2. Range(up') = {line}
  BY <1>1, RangeOfOne
<1>3. Range(gate') \subseteq {Urc}
  <2>1. gate' = <<>> \/ gate' = <<Urc>>
    BY DEF Outstanding
  <2>2. Range(<<>>) = {} /\ Range(<<Urc>>) = {Urc}
    BY RangeOfOne DEF Range
  <2> QED BY <2>1, <2>2
<1>4. Range(down') \subseteq {Rest} /\ raw'.lines = {}
  BY SmallCollections DEF Writes
<1> QED BY <1>1, <1>2, <1>3, <1>4 DEF Pending, Arrived, Foreign

\* A read only moves lines, or forgets them.
LEMMA ReadKeeps ==
  ASSUME Shaped, TakesIn, NEW r, Receives(r), raw' \in {r, Nothing}
  PROVE  Pending' \subseteq Pending \cup Foreign
<1>1. raw'.lines \subseteq raw.lines \cup Arrived
  BY SmallCollections DEF Receives
<1> QED BY <1>1 DEF Pending, Arrived, TakesIn, Foreign

\* What the modem's turn adds.
LEMMA TurnAdds ==
  ASSUME Shaped, NEW t, Turn(t), gate' = gate, raw' = raw
  PROVE  /\ Range(up') \subseteq Range(up) /\ t \in Range(up)
         /\ \A l \in Pending' : l \in Pending \/ (l.job = t.job /\ l.to = t.to)
<1>1. up # <<>> /\ up' = Tail(up) /\ t = Head(up) /\ t \in UpLines
  BY DEF Turn
<1>2. Range(up') \subseteq Range(up) /\ t \in Range(up)
  BY <1>1, ShapeParts, RangeOfRest DEF Range
<1>3. PICK new \in SUBSET AnswersTo(t) : Range(down') = Range(down) \cup new
  BY DEF Turn, Speaks
<1>4. \A l \in new : l.job = t.job /\ l.to = t.to
  BY <1>1, <1>3, AnswersAreLines
<1> QED BY <1>2, <1>3, <1>4 DEF Pending, Arrived

\* A line of the proxy is one of those beside the answers.
LEMMA ProxyAdds ==
  ASSUME Shaped, NEW i \in 1..Len(down) + 1, SendUrc(i) \/ SendNote(i)
  PROVE  /\ job' = job /\ pc' = pc /\ behind' = behind /\ up' = up /\ told' = told
         /\ open' = open /\ accepted' = accepted /\ raw' = raw
         /\ Pending' \subseteq Pending \cup Foreign
<1>1. PICK line \in {Urc, Note} : Emit(i, line)
  BY DEF SendUrc, SendNote
<1>2. /\ job' = job /\ pc' = pc /\ behind' = behind /\ raw' = raw /\ up' = up
      /\ told' = told /\ open' = open /\ accepted' = accepted
  BY <1>1 DEF Emit, hostVars, modemVars
<1>3. Range(down') = Range(down) \cup {line} /\ gate' = gate
  BY <1>1, ShapeParts, LineComes
<1> QED BY <1>1, <1>2, <1>3 DEF Pending, Arrived, Foreign

\* Nothing of another comes between a command and its answer.
LEMMA StepOwns == Shaped /\ Owns /\ [DialogueNext]_dialogueVars => Owns'
<1> SUFFICES ASSUME Shaped, Owns, [DialogueNext]_dialogueVars PROVE Owns'
  OBVIOUS
<1> USE ShapeParts
<1>1. ASSUME job' = job, pc' = pc, behind' = behind,
             Range(up') \subseteq Range(up),
             Pending' \subseteq Pending \cup Foreign
      PROVE  Owns'
  BY <1>1 DEF Owns, Owned, Foreign
<1>2. ASSUME NEW line \in UpLines, NEW next, Writes(line, next), behind' = Outstanding,
             line.job = job'.n /\ line.to = next
      PROVE  Owns'
  <2> SUFFICES ASSUME ~behind'
               PROVE  /\ \A l \in Range(up') : l.job = job'.n /\ l.to = pc'
                      /\ \A l \in Pending' : l \in Foreign
    BY DEF Owns, Owned, Foreign
  <2>1. pc' = next /\ ~Outstanding
    BY <1>2 DEF Writes
  <2> QED BY <1>2, <2>1, FreshLine
<1>3. ASSUME pc' \notin {"cmd", "cmee"} PROVE Owns'
  BY <1>3 DEF Owns
<1>4. CASE Open
  BY <1>3, <1>4 DEF Open
<1>5. CASE Hello
  <2>1. Writes(Said("line", "cmee"), "cmee") /\ job' = job /\ behind' = Outstanding
    BY <1>5, WriteWrites DEF Hello
  <2> QED BY <1>2, <2>1, SaidIsLine DEF Phases
<1>6. ASSUME NEW kind \in {"query", "send"}, Begin(kind)
      PROVE  Owns'
  <2> DEFINE line == [k |-> "line", job |-> job.n + 1, to |-> "cmd"]
  <2>1. CASE kind = "send"
    <3>1. pc' = "prompt"
      BY <1>6, <2>1 DEF Begin, Write
    <3> QED BY <1>3, <3>1
  <2>2. CASE kind = "query"
    <3>1. /\ Write(line, "cmd") /\ job' = [n |-> job.n + 1, kind |-> kind] /\ job.n < MaxJobs
          /\ behind' = Outstanding
      BY <1>6, <2>2 DEF Begin
    <3>2. job.n + 1 \in 0..MaxJobs
      BY <3>1, DialogueAssumption
    <3>3. line \in UpLines /\ line.job = job'.n /\ line.to = "cmd"
      BY <3>1, <3>2 DEF UpLines, Phases
    <3> HIDE DEF line
    <3> QED BY <1>2, <3>1, <3>3, WriteWrites
  <2> QED BY <2>1, <2>2
<1>7. ASSUME NEW n \in 1..Len(down), NEW half \in BOOLEAN, Read(n, half)
      PROVE  Owns'
  <2>1. TakesIn /\ job' = job
    BY <1>7, ReadTakesIn DEF Read
  <2>2. PICK r : Receives(r) /\ Consider(r)
    BY <1>7, ReadTakesIn
  <2>3. CASE pc' \in {"text", "settle", "failed", "idle"}
    BY <1>3, <2>3
  <2>4. CASE raw' = r /\ UNCHANGED <<up, open, pc, told, behind>>
    <3>1. Pending' \subseteq Pending \cup Foreign
      BY <2>1, <2>2, <2>4, ReadKeeps
    <3> QED BY <1>1, <2>1, <2>4, <3>1
  <2> QED BY <2>2, <2>3, <2>4 DEF Consider, SendText, Abandon, Concludes, Resynced
<1>8. CASE Timeout
  BY <1>3, <1>8 DEF Timeout, Abandon, Concludes, Resynced
<1>9. CASE Resync
  BY <1>3, <1>9 DEF Resync, Write
<1>10. CASE TakeEvents
  <2>1. /\ job' = job /\ pc' = pc /\ behind' = behind /\ up' = up
        /\ raw' = raw /\ down' = down /\ gate' = gate
    BY <1>10 DEF TakeEvents, lineVars, hostVars
  <2> QED BY <1>1, <2>1 DEF Pending, Arrived
<1>11. CASE ModemReads
  <2>1. Turn(Head(up)) /\ gate' = gate /\ raw' = raw /\ job' = job /\ pc' = pc /\ behind' = behind
    BY <1>11, ModemTurns DEF ModemReads, hostVars
  <2> DEFINE t == Head(up)
  <2>2. /\ Range(up') \subseteq Range(up) /\ t \in Range(up)
        /\ \A l \in Pending' : l \in Pending \/ (l.job = t.job /\ l.to = t.to)
    BY <2>1, TurnAdds
  <2> HIDE DEF t
  <2> QED BY <2>1, <2>2 DEF Owns, Owned, Foreign
<1>12. CASE ModemIgnores
  <2>1. /\ job' = job /\ pc' = pc /\ behind' = behind /\ raw' = raw /\ down' = down /\ gate' = gate
        /\ up # <<>> /\ up' = Tail(up)
    BY <1>12 DEF ModemIgnores, hostVars
  <2>2. Range(up') \subseteq Range(up)
    BY <2>1, RangeOfRest
  <2> QED BY <1>1, <2>1, <2>2 DEF Pending, Arrived
<1>13. ASSUME NEW i \in 1..Len(down) + 1, SendUrc(i) \/ SendNote(i)
       PROVE  Owns'
  BY <1>1, <1>13, ProxyAdds
<1>14. CASE Cut
  BY <1>3, <1>14 DEF Cut
<1>15. CASE DropHandle
  BY <1>3, <1>15 DEF DropHandle
<1>16. CASE UNCHANGED dialogueVars
  BY <1>16 DEF dialogueVars, lineVars, hostVars, Owns, Owned, Pending, Arrived
<1> QED BY <1>4, <1>5, <1>6, <1>7, <1>8, <1>9, <1>10, <1>11, <1>12, <1>13, <1>14, <1>15, <1>16
        DEF DialogueNext

-----------------------------------------------------------------------------
(* What is reported of a send is true *)

Kinds(k) == \E l \in Pending : l.k = k

\* Nothing that would end the text of the job's message is on its way.
Refused ==
  /\ job.n \notin accepted
  /\ \A l \in Range(up) : l.k = "z" => l.job # job.n

Reports ==
  /\ told = "sent" => pc = "idle" /\ (behind \/ job.n \in accepted)
  /\ told = "rejected" => pc \in {"settle", "sync", "failed", "idle"} /\ (behind \/ Refused)

\* Until the prompt has come the modem has, or has answered, one line.
Asking ==
  pc = "prompt" /\ ~behind =>
    /\ job.n \notin accepted
    /\ up = <<>> \/ \E l : up = <<l>> /\ l.k = "cmgs"
    /\ ~Kinds("ok") /\ ~(Kinds("prompt") /\ Kinds("error"))
    /\ Kinds("prompt") \/ Kinds("error") => up = <<>>

\* Then it has the message, or what is left of it.
Left(s) ==
  \/ s = <<>>
  \/ \E z : s = <<z>> /\ z.k = "z" /\ z.job = job.n
  \/ \E t, z : s = <<t, z>> /\ t.k = "text" /\ z.k = "z" /\ z.job = job.n

Texting ==
  pc = "text" /\ ~behind =>
    /\ Left(up)
    /\ up # <<>> => job.n \notin accepted /\ ~Kinds("ok") /\ ~Kinds("error")
    /\ Kinds("ok") => job.n \in accepted
    /\ Kinds("error") => job.n \notin accepted

Confirmed == Reports /\ Asking /\ Texting

\* Lines of the proxy are no results and no prompts.
LEMMA ForeignKinds ==
  \A l \in Foreign : l.k \notin {"info", "ok", "error", "prompt"}
  BY LineKinds DEF Foreign

\* What a step only takes away or keeps brings no new kind of line.
LEMMA NoNewKinds ==
  ASSUME Pending' \subseteq Pending \cup Foreign, NEW k \in {"ok", "error", "prompt"}
  PROVE  Kinds(k)' => Kinds(k)
  BY ForeignKinds DEF Kinds

\* A failed send leaves ESC on the way; a send that is cut off leaves no more.
LEMMA RefusedStays ==
  ASSUME Shaped, Refused, job' = job, accepted' = accepted,
         Range(up') \subseteq Range(up) \cup {Said("esc", "esc"), Said("line", "sync")}
  PROVE  Refused'
<1>1. Said("esc", "esc").k # "z" /\ Said("line", "sync").k # "z"
  BY ShapeParts, SaidIsLine DEF Phases
<1> QED BY <1>1 DEF Refused

\* The end of a wait that fails.
LEMMA GivesUp ==
  ASSUME Shaped, Confirmed, NEW o \in {"rejected", "unknown"}, Abandon(o),
         job' = job, accepted' = accepted,
         o = "rejected" => behind \/ Refused
  PROVE  Confirmed'
<1>1. pc' = "settle" /\ told' = o /\ behind' = behind
  BY DEF Abandon
<1>2. Range(up') = Range(up) \cup {Said("esc", "esc")}
  BY HostLines
<1>3. o = "rejected" => behind' \/ Refused'
  BY <1>1, <1>2, RefusedStays
<1> QED BY <1>1, <1>3 DEF Confirmed, Reports, Asking, Texting

\* What ends a wait has arrived.
LEMMA Ended ==
  ASSUME NEW r, Receives(r), Finished(r)
  PROVE  /\ r.last.k \in {"ok", "error"} /\ (Accepts(r) <=> r.last.k = "ok")
         /\ Kinds(r.last.k)
<1>1. r.last.k \in {"ok", "error"} /\ r.last # NoLine
  BY DEF Finished, Final, NoLine
<1>2. r.last \in Pending
  BY <1>1 DEF Receives, Collected, Pending
<1> QED BY <1>1, <1>2 DEF Kinds, Accepts

\* A prompt that is refused is answered ERROR.
LEMMA AskRefused ==
  ASSUME Asking, pc = "prompt", ~behind
  PROVE  Refused
<1>1. up = <<>> \/ \E l : up = <<l>> /\ l.k = "cmgs"
  BY DEF Asking
<1>2. \A l \in Range(up) : l.k = "cmgs"
  <2>1. Range(<<>>) = {}
    BY DEF Range
  <2> QED BY <1>1, <2>1, RangeOfOne
<1> QED BY <1>2 DEF Refused, Asking

\* What the caller is told follows from what the modem did with the message.
LEMMA StepConfirms == Shaped /\ Confirmed /\ [DialogueNext]_dialogueVars => Confirmed'
<1> SUFFICES ASSUME Shaped, Confirmed, [DialogueNext]_dialogueVars PROVE Confirmed'
  OBVIOUS
<1> USE ShapeParts
\* Steps that leave the job where it is and bring no result.
<1>1. ASSUME job' = job, pc' = pc, behind' = behind, told' = told,
             accepted' = accepted, up' = up, Pending' \subseteq Pending \cup Foreign
      PROVE  Confirmed'
  <2>1. \A k \in {"ok", "error", "prompt"} : Kinds(k)' => Kinds(k)
    BY <1>1, NoNewKinds
  <2>2. Reports' /\ Asking'
    BY <1>1, <2>1 DEF Confirmed, Reports, Asking, Refused
  <2>3. Texting'
    BY <1>1, <2>1 DEF Confirmed, Texting, Left
  <2> QED BY <2>2, <2>3 DEF Confirmed
\* Steps after which no send is waiting and no result of one is reported.
<1>2. ASSUME pc' \notin {"prompt", "text"}, told' \notin {"sent", "rejected"}
      PROVE  Confirmed'
  BY <1>2 DEF Confirmed, Reports, Asking, Texting
\* Steps of a failed send.
<1>3. ASSUME pc' \in {"sync", "failed", "idle"}, told' = told, told # "sent",
             job' = job, accepted' = accepted, behind' = behind,
             Range(up') \subseteq Range(up) \cup {Said("esc", "esc"), Said("line", "sync")}
      PROVE  Confirmed'
  <2>1. Refused => Refused'
    BY <1>3, RefusedStays
  <2> QED BY <1>3, <2>1 DEF Confirmed, Reports, Asking, Texting
<1>4. CASE Open
  BY <1>2, <1>4 DEF Open
<1>5. CASE Hello
  <2>1. pc' = "cmee" /\ told' = told /\ pc = "echo"
    BY <1>5 DEF Hello, Write
  <2> QED BY <1>2, <2>1 DEF Confirmed, Reports
<1>6. ASSUME NEW kind \in {"query", "send"}, Begin(kind)
      PROVE  Confirmed'
  <2>1. /\ told' = "nothing" /\ job' = [n |-> job.n + 1, kind |-> kind]
        /\ job.n < MaxJobs /\ accepted' = accepted /\ behind' = Outstanding
    BY <1>6 DEF Begin, modemVars
  <2>2. CASE kind = "query"
    <3>1. pc' = "cmd"
      BY <1>6, <2>2 DEF Begin, Write
    <3> QED BY <1>2, <2>1, <3>1
  <2>3. CASE kind = "send"
    <3> DEFINE line == [k |-> "cmgs", job |-> job.n + 1, to |-> "cmd"]
    <3>1. Write(line, "prompt") /\ line.k = "cmgs"
      BY <1>6, <2>3 DEF Begin
    <3> HIDE DEF line
    <3>2. Writes(line, "prompt") /\ pc' = "prompt"
      BY <3>1, WriteWrites DEF Writes
    <3>3. job'.n \notin accepted'
      <4>1. job'.n = job.n + 1 /\ job.n \in Nat
        BY <2>1, JobNumber
      <4>2. \A n \in accepted : n <= job.n /\ n \in Nat
        BY DEF Numbered
      <4> QED BY <2>1, <4>1, <4>2
    <3>4. ~behind' => up' = <<line>> /\ Pending' \subseteq Foreign
      BY <2>1, <3>2, FreshLine
    <3>5. ~behind' => \A k \in {"ok", "error", "prompt"} : ~Kinds(k)'
      BY <3>4, ForeignKinds DEF Kinds
    <3> QED BY <2>1, <3>1, <3>2, <3>3, <3>4, <3>5 DEF Confirmed, Reports, Asking, Texting
  <2> QED BY <2>2, <2>3
<1>7. ASSUME NEW n \in 1..Len(down), NEW half \in BOOLEAN, Read(n, half)
      PROVE  Confirmed'
  <2>1. TakesIn /\ job' = job /\ accepted' = accepted /\ pc \in Waits
    BY <1>7, ReadTakesIn DEF Read, modemVars
  <2>2. PICK r : Receives(r) /\ Consider(r)
    BY <1>7, ReadTakesIn
  <2>3. raw' \in {r, Nothing} => Pending' \subseteq Pending \cup Foreign
    BY <2>1, <2>2, ReadKeeps
  <2>4. CASE pc = "prompt" /\ Prompted(r) /\ SendText /\ raw' = Nothing
    <3> DEFINE t == Said("text", "text")
               z == Said("z", "text")
    <3>1. pc' = "text" /\ told' = told /\ behind' = behind /\ up' = up \o <<t, z>>
      BY <2>4 DEF SendText
    <3>2. t.k = "text" /\ z.k = "z" /\ z.job = job.n
      BY SaidIsLine DEF Phases
    <3> HIDE DEF t, z
    <3>3. ~behind => Kinds("prompt")
      BY <2>2, <2>4 DEF Prompted, IsPrompt, Receives, Kinds, Pending
    <3>4. ~behind => up = <<>> /\ job.n \notin accepted /\ ~Kinds("ok") /\ ~Kinds("error")
      BY <2>4, <3>3 DEF Confirmed, Asking
    <3>5. ~behind => up' = <<t, z>>
      <4>1. <<>> \o <<t, z>> = <<t, z>>
        OBVIOUS
      <4> QED BY <3>1, <3>4, <4>1
    <3>6. ~behind => Left(up)' /\ up' # <<>>
      <4>1. job' = job
        BY <2>1
      <4>2. <<t, z>> # <<>>
        OBVIOUS
      <4>3. Left(<<t, z>>)
        BY <3>2 DEF Left
      <4>4. ~behind => Left(up)'
        BY <3>5, <4>1, <4>3 DEF Left
      <4> QED BY <3>5, <4>2, <4>4
    <3>7. ~behind => ~Kinds("ok")' /\ ~Kinds("error")'
      BY <2>3, <2>4, <3>4, NoNewKinds
    <3>8. Texting'
      BY <2>1, <3>1, <3>4, <3>6, <3>7 DEF Texting
    <3>9. told \notin {"sent", "rejected"}
      BY <2>4 DEF Confirmed, Reports
    <3> QED BY <3>1, <3>8, <3>9 DEF Confirmed, Reports, Asking
  <2>5. CASE pc = "prompt" /\ Finished(r) /\ Abandon("rejected")
    BY <2>1, <2>5, GivesUp, AskRefused DEF Confirmed
  <2>6. CASE pc = "text" /\ Finished(r) /\ Accepts(r) /\ Concludes("sent")
    <3>1. pc' = "idle" /\ told' = "sent" /\ behind' = behind
      BY <2>6 DEF Concludes
    <3>2. Kinds("ok")
      BY <2>2, <2>6, Ended
    <3>3. behind \/ job.n \in accepted
      BY <2>6, <3>2 DEF Confirmed, Texting
    <3> QED BY <2>1, <3>1, <3>3 DEF Confirmed, Reports, Asking, Texting
  <2>7. CASE pc = "text" /\ Finished(r) /\ ~Accepts(r) /\ Abandon("rejected")
    <3>1. Kinds("error")
      BY <2>2, <2>7, Ended
    <3>2. ~behind => job.n \notin accepted /\ up = <<>>
      BY <2>7, <3>1 DEF Confirmed, Texting
    <3>3. Range(<<>>) = {}
      BY DEF Range
    <3>4. behind \/ Refused
      BY <3>2, <3>3 DEF Refused
    <3> QED BY <2>1, <2>7, <3>4, GivesUp
  <2>8. CASE pc = "sync" /\ Resynced
    <3>1. pc' = "failed" /\ up' = up /\ told' = told /\ behind' = behind
      BY <2>8 DEF Resynced
    <3>2. told # "sent"
      BY <2>8 DEF Confirmed, Reports
    <3> QED BY <1>3, <2>1, <3>1, <3>2
  <2>9. CASE pc \in {"cmd", "cmee"} /\ Concludes("answer")
    BY <1>2, <2>9 DEF Concludes
  <2>10. CASE raw' = r /\ UNCHANGED <<up, open, pc, told, behind>>
    BY <1>1, <2>1, <2>3, <2>10
  <2> QED BY <2>2, <2>4, <2>5, <2>6, <2>7, <2>8, <2>9, <2>10 DEF Consider
<1>8. CASE Timeout
  <2>1. job' = job /\ accepted' = accepted
    BY <1>8 DEF Timeout, modemVars
  <2>2. CASE Abandon(Silence)
    BY <2>1, <2>2, GivesUp DEF Silence
  <2>3. CASE pc = "sync" /\ Resynced
    <3>1. pc' = "failed" /\ up' = up /\ told' = told /\ behind' = behind
      BY <2>3 DEF Resynced
    <3>2. told # "sent"
      BY <2>3 DEF Confirmed, Reports
    <3> QED BY <1>3, <2>1, <3>1, <3>2
  <2>4. CASE Concludes("answer")
    BY <1>2, <2>4 DEF Concludes
  <2> QED BY <1>8, <2>2, <2>3, <2>4 DEF Timeout
<1>9. CASE Resync
  <2>1. /\ Writes(Said("line", "sync"), "sync") /\ told' = told /\ pc = "settle"
        /\ job' = job /\ behind' = behind /\ accepted' = accepted
    BY <1>9, WriteWrites DEF Resync, modemVars
  <2>2. pc' = "sync" /\ Range(up') = Range(up) \cup {Said("line", "sync")}
    BY <2>1, SaidIsLine, WriteShape DEF Phases
  <2>3. told # "sent"
    BY <2>1 DEF Confirmed, Reports
  <2> QED BY <1>3, <2>1, <2>2, <2>3
<1>10. CASE TakeEvents
  <2>1. /\ job' = job /\ pc' = pc /\ behind' = behind /\ up' = up /\ told' = told
        /\ raw' = raw /\ down' = down /\ gate' = gate /\ accepted' = accepted
    BY <1>10 DEF TakeEvents, lineVars, hostVars, modemVars
  <2> QED BY <1>1, <2>1 DEF Pending, Arrived
<1>11. CASE ModemReads
  <2> DEFINE t == Head(up)
  <2>1. /\ Turn(t) /\ gate' = gate /\ raw' = raw /\ job' = job /\ pc' = pc /\ behind' = behind
        /\ told' = told
    BY <1>11, ModemTurns DEF ModemReads, hostVars
  <2>2. Range(up') \subseteq Range(up) /\ t \in Range(up) /\ up # <<>> /\ up' = Tail(up)
    BY <2>1, TurnAdds DEF Turn
  <2>0. \A l : up = <<l>> => t = l /\ up' = <<>>
    BY <2>2
  <2>3. \A l, m : up = <<l, m>> => t = l /\ up' = <<m>>
    BY <2>2
  <2> HIDE DEF t
  <2>4. PICK new \in SUBSET AnswersTo(t) : Speaks(t, new)
    BY <2>1 DEF Turn
  <2>5. accepted \subseteq accepted' /\ Pending' = Pending \cup new
    BY <2>1, <2>4 DEF Turn, Pending, Arrived, Speaks
  <2>6. \A k : Kinds(k)' <=> Kinds(k) \/ \E l \in new : l.k = k
    BY <2>5 DEF Kinds
  <2>7. t.k # "z" => accepted' = accepted
    BY <2>1, <2>5 DEF Turn
  <2>8. accepted' \subseteq accepted \cup {t.job}
    BY <2>1 DEF Turn
  <2>9. Reports'
    <3>1. Refused => Refused'
      BY <2>1, <2>2, <2>7, <2>8 DEF Refused
    <3> QED BY <2>1, <2>5, <3>1 DEF Confirmed, Reports
  <2>10. Asking'
    <3> SUFFICES ASSUME pc = "prompt", ~behind
                 PROVE  /\ job.n \notin accepted' /\ up' = <<>>
                        /\ ~Kinds("ok")' /\ ~(Kinds("prompt")' /\ Kinds("error")')
      BY <2>1 DEF Asking
    <3>1. /\ t.k = "cmgs" /\ up' = <<>> /\ job.n \notin accepted
          /\ ~Kinds("ok") /\ ~Kinds("prompt") /\ ~Kinds("error")
      BY <2>2, <2>0 DEF Confirmed, Asking
    <3> QED BY <2>4, <2>6, <2>7, <3>1 DEF Speaks
  <2>11. Texting'
    <3> SUFFICES ASSUME pc = "text", ~behind
                 PROVE  /\ Left(up)'
                        /\ up' # <<>> => job.n \notin accepted' /\ ~Kinds("ok")' /\ ~Kinds("error")'
                        /\ Kinds("ok")' => job.n \in accepted'
                        /\ Kinds("error")' => job.n \notin accepted'
      BY <2>1 DEF Texting
    <3>1. Left(up) /\ job.n \notin accepted /\ ~Kinds("ok") /\ ~Kinds("error")
      BY <2>2 DEF Confirmed, Texting
    <3>2. CASE \E z : up = <<z>> /\ z.k = "z" /\ z.job = job.n
      <4>1. up' = <<>> /\ t.k = "z" /\ t.job = job.n
        BY <2>0, <3>2
      <4>2. Left(up)'
        BY <4>1 DEF Left
      <4>3. Kinds("ok")' => job.n \in accepted'
        BY <2>4, <2>6, <3>1, <4>1 DEF Speaks
      <4>4. Kinds("error")' => job.n \notin accepted'
        BY <2>4, <2>6, <3>1, <4>1 DEF Speaks
      <4> QED BY <4>1, <4>2, <4>3, <4>4
    <3>3. CASE \E a, z : up = <<a, z>> /\ a.k = "text" /\ z.k = "z" /\ z.job = job.n
      <4>1. PICK a, z : up = <<a, z>> /\ a.k = "text" /\ z.k = "z" /\ z.job = job.n
        BY <3>3
      <4>2. up' = <<z>> /\ t.k = "text"
        BY <2>3, <4>1
      <4>3. new = {} /\ accepted' = accepted
        BY <2>4, <2>7, <4>2 DEF Speaks
      <4>4. Left(up)'
        BY <2>1, <4>1, <4>2 DEF Left
      <4> QED BY <2>6, <3>1, <4>3, <4>4
    <3> QED BY <2>2, <3>1, <3>2, <3>3 DEF Left
  <2> QED BY <2>9, <2>10, <2>11 DEF Confirmed
<1>12. CASE ModemIgnores
  <2>1. /\ job' = job /\ pc' = pc /\ behind' = behind /\ raw' = raw /\ down' = down /\ gate' = gate
        /\ told' = told /\ accepted' = accepted /\ up # <<>> /\ up' = Tail(up)
        /\ Head(up).k \in {"line", "cmgs"}
    BY <1>12 DEF ModemIgnores, hostVars, modemVars
  <2>2. Range(up') \subseteq Range(up)
    BY <2>1, RangeOfRest
  <2>3. Pending' = Pending
    BY <2>1 DEF Pending, Arrived
  <2>4. Reports'
    BY <2>1, <2>2 DEF Confirmed, Reports, Refused
  <2>5. Asking'
    <3>1. \A l : up = <<l>> => up' = <<>>
      BY <2>1
    <3> QED BY <2>1, <2>3, <3>1 DEF Confirmed, Asking, Kinds
  <2>6. Texting'
    <3>1. \A l : up = <<l>> => Head(up) = l
      OBVIOUS
    <3>2. \A l, m : up = <<l, m>> => Head(up) = l
      OBVIOUS
    <3>3. ~Left(up)
      BY <2>1, <3>1, <3>2 DEF Left
    <3> QED BY <2>1, <3>3 DEF Confirmed, Texting
  <2> QED BY <2>4, <2>5, <2>6 DEF Confirmed
<1>13. ASSUME NEW i \in 1..Len(down) + 1, SendUrc(i) \/ SendNote(i)
       PROVE  Confirmed'
  BY <1>1, <1>13, ProxyAdds
<1>14. CASE Cut
  <2>1. /\ pc' = "idle" /\ told' \in CutOutcomes /\ job' = job /\ accepted' = accepted
        /\ behind' = behind /\ pc \notin {"idle", "echo", "cmee"}
        /\ up' = up \/ up' = <<>>
    BY <1>14 DEF Cut
  <2>2. Range(up') \subseteq Range(up)
    BY <2>1 DEF Range
  <2>3. Refused => Refused'
    BY <2>1, <2>2 DEF Refused
  <2>4. CASE pc \in {"cmd", "text"}
    BY <1>2, <2>1, <2>4 DEF CutOutcomes
  <2>5. CASE pc = "prompt"
    BY <2>1, <2>3, <2>5, AskRefused DEF CutOutcomes, Confirmed, Reports, Asking, Texting
  <2>6. CASE pc \notin {"cmd", "text", "prompt"}
    <3>1. told' = told
      BY <2>1, <2>6 DEF CutOutcomes
    <3>2. told # "sent"
      BY <2>1 DEF Confirmed, Reports
    <3> QED BY <1>3, <2>1, <2>2, <3>1, <3>2
  <2> QED BY <2>4, <2>5, <2>6
<1>15. CASE DropHandle
  <2>1. /\ pc = "failed" /\ pc' = "idle" /\ told' = told /\ job' = job /\ accepted' = accepted
        /\ behind' = behind /\ up' = up
    BY <1>15 DEF DropHandle, modemVars
  <2>2. told # "sent"
    BY <2>1 DEF Confirmed, Reports
  <2> QED BY <1>3, <2>1, <2>2
<1>16. CASE UNCHANGED dialogueVars
  <2>1. /\ job' = job /\ pc' = pc /\ behind' = behind /\ up' = up /\ told' = told
        /\ raw' = raw /\ down' = down /\ gate' = gate /\ accepted' = accepted
    BY <1>16 DEF dialogueVars, lineVars, hostVars, modemVars
  <2> QED BY <1>1, <2>1 DEF Pending, Arrived
<1> QED BY <1>4, <1>5, <1>6, <1>7, <1>8, <1>9, <1>10, <1>11, <1>12, <1>13, <1>14, <1>15, <1>16
        DEF DialogueNext

-----------------------------------------------------------------------------
(* The theorems *)

DInv == Shaped /\ Counted /\ Closed /\ Owns /\ Confirmed

\* The inductive invariant of the dialogue.
LEMMA DialogueInitial == DialogueInit => DInv
<1> SUFFICES ASSUME DialogueInit PROVE DInv
  OBVIOUS
<1>1. Shaped
  BY InitialShape
<1> USE DEF DialogueInit
<1>2. Counted
  <2>1. Urcs(<<>>) = 0
    <3>1. <<>> \in Seq(DownLines) /\ DOMAIN <<>> = {}
      OBVIOUS
    <3> QED BY <3>1, UrcsNone
  <2>2. InFlight = 0
    BY <2>1 DEF InFlight
  <2> QED BY <2>2 DEF Counted, Known
<1>3. Closed
  BY DEF Closed, EndsInput
<1>4. Owns
  BY DEF Owns
<1>5. Confirmed
  BY DEF Confirmed, Reports, Asking, Texting
<1> QED BY <1>1, <1>2, <1>3, <1>4, <1>5 DEF DInv

LEMMA DialogueInvariance == DialogueSpec => []DInv
<1>1. DInv /\ [DialogueNext]_dialogueVars => DInv'
  BY StepShape, StepCounts, StepCloses, StepOwns, StepConfirms DEF DInv
<1> QED BY DialogueInitial, <1>1, PTL DEF DialogueSpec

\* DialogueTypeOK: the shape of the state, in every state.
THEOREM DialogueTypeCorrect == DialogueSpec => []DialogueTypeOK
<1>1. DInv => DialogueTypeOK
  BY DEF DInv, Shaped
<1> QED BY <1>1, DialogueInvariance, PTL

\* InputIsClosed: no send that is over leaves the modem taking text, however
\* many jobs, faults and +GT lines there are.
THEOREM InputClosed == DialogueSpec => []InputIsClosed
<1>1. DInv => InputIsClosed
  <2> SUFFICES ASSUME DInv, pc = "idle", up = <<>>, modem.mode = "text" PROVE cut
    BY DEF InputIsClosed
  <2>1. DOMAIN up = {}
    OBVIOUS
  <2> QED BY <2>1 DEF DInv, Closed, EndsInput
<1> QED BY <1>1, DialogueInvariance, PTL

\* What a wait takes in while its command has its own answers only.
LEMMA CollectsOwn ==
  ASSUME Shaped, Owns, Collected(raw'), Pending' \subseteq Pending \cup Foreign,
         pc \in {"cmd", "cmee"}, ~behind, NEW l \in raw'.lines \ {Note, Rest}
  PROVE  l.job = job.n /\ l.to = pc
<1>1. l \in Answers /\ l \in Pending'
  BY DEF Collected, Pending
<1>2. l \notin Foreign
  BY <1>1, LineKinds DEF Answers, Foreign
<1>3. l \in Pending
  BY <1>1, <1>2
<1> QED BY <1>2, <1>3 DEF Owns, Owned

\* A step gives a command only lines of its own.
LEMMA StepTakesOwn ==
  ASSUME Shaped, Owns, Shaped', DialogueNext, pc \in {"cmd", "cmee"}, ~behind,
         NEW l \in raw'.lines \ {Note, Rest}
  PROVE  l.job = job.n /\ l.to = pc
<1> USE ShapeParts
<1>1. Collected(raw')
  BY DEF Shaped
<1>2. ASSUME raw' = raw PROVE l.job = job.n /\ l.to = pc
  <2>1. l \in Answers /\ l \in Pending
    BY <1>2 DEF Collected, Pending
  <2>2. l \notin Foreign
    BY <2>1, LineKinds DEF Answers, Foreign
  <2> QED BY <2>1, <2>2 DEF Owns, Owned
<1>3. raw' # Nothing
  BY SmallCollections
<1>4. ASSUME NEW n \in 1..Len(down), NEW half \in BOOLEAN, Read(n, half)
      PROVE  l.job = job.n /\ l.to = pc
  <2>1. TakesIn
    BY <1>4, ReadTakesIn
  <2>2. PICK r : Receives(r) /\ Consider(r)
    BY <1>4, ReadTakesIn
  <2>3. raw' \in {r, Nothing}
    BY <2>2 DEF Consider
  <2>4. Pending' \subseteq Pending \cup Foreign
    BY <2>1, <2>2, <2>3, ReadKeeps
  <2> QED BY <1>1, <2>4, CollectsOwn
<1>5. ASSUME NEW i \in 1..Len(down) + 1, SendUrc(i) \/ SendNote(i)
      PROVE  raw' = raw
  BY <1>5, ProxyAdds
<1>6. ASSUME Open \/ Hello \/ (\E kind \in {"query", "send"} : Begin(kind)) \/ Timeout
             \/ Resync \/ DropHandle \/ Cut
      PROVE  FALSE
  BY <1>3, <1>6 DEF Open, Hello, Begin, Timeout, Resync, DropHandle, Cut, Closes
<1>7. ASSUME TakeEvents \/ ModemReads \/ ModemIgnores PROVE raw' = raw
  BY <1>7 DEF TakeEvents, ModemReads, ModemIgnores, hostVars
<1> QED BY <1>2, <1>4, <1>5, <1>6, <1>7 DEF DialogueNext

\* AnswerIsOwn: a command written when nothing was outstanding is never given
\* a line of another.
THEOREM AnswersOwn == DialogueSpec => AnswerIsOwn
<1>1. DInv /\ DInv' /\ [DialogueNext]_dialogueVars =>
        [(pc \in {"cmd", "cmee"} /\ ~behind) =>
           \A l \in raw'.lines \ {Note, Rest} : l.job = job.n /\ l.to = pc]_dialogueVars
  BY StepTakesOwn DEF DInv
<1> QED BY <1>1, DialogueInvariance, PTL DEF DialogueSpec, AnswerIsOwn

\* SentIsTrue: a message reported as sent is with the modem.
THEOREM SentTrue == DialogueSpec => []SentIsTrue
<1>1. DInv => SentIsTrue
  BY DEF DInv, Confirmed, Reports, SentIsTrue
<1> QED BY <1>1, DialogueInvariance, PTL

\* RejectedIsNotSent: a message reported as rejected is not with the modem
\* and will not be.
THEOREM RejectedNotSent == DialogueSpec => []RejectedIsNotSent
<1>1. DInv => RejectedIsNotSent
  <2> SUFFICES ASSUME DInv, told = "rejected", ~behind
               PROVE  /\ job.n \notin accepted
                      /\ \A i \in DOMAIN up : up[i].k = "z" => up[i].job # job.n
    BY DEF RejectedIsNotSent
  <2>1. Refused
    BY DEF DInv, Confirmed, Reports
  <2>2. \A i \in DOMAIN up : up[i] \in Range(up)
    BY DEF Range
  <2> QED BY <2>1, <2>2 DEF Refused
<1> QED BY <1>1, DialogueInvariance, PTL

\* UrcsAccounted: every +GT line is counted once, and none is in an answer.
THEOREM UrcsCounted == DialogueSpec => []UrcsAccounted
<1>1. DInv => UrcsAccounted
  <2> SUFFICES ASSUME DInv PROVE UrcsAccounted
    OBVIOUS
  <2>1. \A l \in raw.lines : ~IsUrc(l)
    BY LineKinds DEF DInv, Shaped, Collected, Answers
  <2>2. urcs.sent = Known + urcs.gone
    BY DEF DInv, Counted
  <2> DEFINE a == InFlight
             b == feed.queued
             c == feed.dropped
             d == urcs.gone
             e == urcs.glued
  <2>3. a \in Nat /\ b \in Nat /\ c \in Nat /\ d \in Nat /\ e \in Nat
    BY KnownType DEF DInv
  <2>4. urcs.sent = a + b + c + e + d
    BY <2>2 DEF Known
  <2> HIDE DEF a, b, c, d, e
  <2>5. urcs.sent = a + b + c + d + e
    BY <2>3, <2>4
  <2>6. urcs.sent = InFlight + feed.queued + feed.dropped + urcs.gone + urcs.glued
    BY <2>5 DEF a, b, c, d, e
  <2> QED BY <2>1, <2>6 DEF UrcsAccounted
<1> QED BY <1>1, DialogueInvariance, PTL
=============================================================================
