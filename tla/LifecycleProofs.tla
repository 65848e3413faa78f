--------------------------- MODULE LifecycleProofs ---------------------------
(* Proofs about Lifecycle, for any set of processes and of commands and however   *)
(* many of them overlap.  The properties of the socket that ServiceSocket         *)
(* has for starts and closes that do not overlap hold here with nothing assumed   *)
(* about overlaps or backlogs: launchd runs one process of the job at a time      *)
(* (JobInv), which therefore never probes the socket of another that is up.  What *)
(* the commands report is proved after that, however they interleave with launchd *)
(* and publications.                                                              *)
EXTENDS Lifecycle, ServiceSocketProofs

(* Every process but the one launchd runs is gone, and is not told to end. *)
JobInv ==
    /\ job \in {"unloaded", "loaded", "removing"}
    /\ process \in Servers \cup {Nobody}
    /\ doomed \subseteq Servers \cap {process}
    /\ \A s \in Servers : phase[s] # "off" => s = process
    /\ job = "unloaded" => process = Nobody

LifeInv == TypeOK /\ JobInv /\ PhasePath

(* What the socket sees of a process that exits before it begins, and of one     *)
(* that launchd has reaped.                                                      *)
NeverBegun(s) ==
    /\ phase[s] = "off"
    /\ \E how \in {"failed", "died"} : Exit(s, how)
    /\ UNCHANGED <<path, identity>>

Reaped(s) ==
    /\ phase[s] \in {"off"} \cup Over
    /\ phase' = [phase EXCEPT ![s] = "off"]
    /\ identity' = [identity EXCEPT ![s] = NoFile]
    /\ UNCHANGED <<path, listening>>

-----------------------------------------------------------------------------
(* Commands leave the socket and the processes alone. *)
LEMMA CommandsElsewhere ==
    ASSUME NEW c \in Commands, Proceed(c) \/ GiveUp(c) PROVE UNCHANGED vars
BY DEF Proceed, GiveUp, Loaded, CheckArtifact, Connect, Receive, Operate, BootoutReturns, Settle

(* To the socket, every step is a step of ServiceSocket, or of a process that    *)
(* never began or has been reaped.                                               *)
LEMMA SocketStep ==
    ASSUME JobInv, [LifecycleNext]_lifeVars
    PROVE  [Next]_vars \/ \E s \in Servers : NeverBegun(s) \/ Reaped(s)
<1>1. CASE UNCHANGED lifeVars
  BY <1>1 DEF lifeVars
<1>2. CASE Spawn \/ MoveAway \/ Promote \/ \E kind \in Kinds : BeginCommand(kind)
  BY <1>2 DEF Spawn, MoveAway, Promote, BeginCommand
<1>3. CASE Reap
  BY <1>3 DEF Reap, Alive, Reaped, JobInv, vars
<1>4. ASSUME NEW s \in Servers, End(s)
      PROVE  Next \/ NeverBegun(s)
  BY <1>4 DEF End, NeverBegun, Next, ServerStep
<1>5. CASE Obey \/ Kill
  BY <1>4, <1>5 DEF Obey, Kill, JobInv
<1>6. CASE LoadService
  <2>1. process \in Servers
    BY <1>6 DEF LoadService, JobInv
  <2>2. Begin(process) \/ NeverBegun(process)
    BY <1>6 DEF LoadService, NeverBegun
  <2> QED
    BY <2>1, <2>2 DEF Next, ServerStep
<1>7. CASE ServerMoves
  BY <1>7 DEF ServerMoves, StartStep, CloseStep, Next, ServerStep
<1>8. CASE \E c \in Commands : Proceed(c) \/ GiveUp(c)
  BY <1>8, CommandsElsewhere
<1> QED
  BY <1>1, <1>2, <1>3, <1>5, <1>6, <1>7, <1>8 DEF LifecycleNext

(* launchd's rule, that the next process starts when the last one is gone, holds *)
(* through every step of the commands, of the processes and of launchd.          *)
LEMMA JobStep ==
    ASSUME TypeOK, JobInv, [LifecycleNext]_lifeVars
    PROVE  JobInv'
<1> USE LifecycleAssumption DEF TypeOK, JobInv
<1>1. CASE UNCHANGED lifeVars
  BY <1>1 DEF lifeVars, vars, jobVars
<1>2. CASE MoveAway \/ Promote \/ \E kind \in Kinds : BeginCommand(kind)
  BY <1>2 DEF MoveAway, Promote, BeginCommand, vars, jobVars
<1>3. CASE Spawn
  <2>1. process' \in Servers
    BY <1>3 DEF Spawn, Unused
  <2> QED
    BY <1>3, <2>1 DEF Spawn, vars
<1>4. CASE Reap
  BY <1>4 DEF Reap, Alive
<1>5. ASSUME NEW s \in Servers, s = process, End(s)
      PROVE  phase' = [phase EXCEPT ![s] = phase'[s]]
  BY <1>5 DEF End, Terminate, Die, Exit, Goto
<1>6. CASE Obey \/ Kill
  BY <1>5, <1>6 DEF Obey, Kill, jobVars
<1>7. CASE LoadService
  BY <1>7 DEF LoadService, Exit, Begin, Goto
<1>8. CASE ServerMoves
  <2>1. PICK s \in Servers : StartStep(s) \/ CloseStep(s)
    BY <1>8 DEF ServerMoves
  <2>2. phase[s] # "off" /\ \E label : phase' = [phase EXCEPT ![s] = label]
    BY <2>1 DEF StartStep, CloseStep, Exists, Stat, Probe, Unlink, Bind, Listen, Chmod, Identify,
                InstallHandler, CloseExists, CloseStat, CloseUnlink, Exit, Goto
  <2> QED
    BY <1>8, <2>2 DEF ServerMoves, jobVars
<1>9. ASSUME NEW c \in Commands, Operate(c)
      PROVE  JobInv'
  BY <1>9 DEF Operate, Unload, Load, Kick, Restart, vars
<1>10. ASSUME NEW c \in Commands, Proceed(c) \/ GiveUp(c), ~Operate(c)
       PROVE  JobInv'
  BY <1>10 DEF Proceed, GiveUp, Loaded, CheckArtifact, Connect, Receive, BootoutReturns, Settle,
               vars, jobVars
<1> QED
  BY <1>1, <1>2, <1>3, <1>4, <1>6, <1>7, <1>8, <1>9, <1>10 DEF LifecycleNext

(* So at most one process starts or closes, and none while one is serving. *)
LEMMA OneAtATime ==
    ASSUME JobInv
    PROVE  OneBusy /\ \A s \in Servers : Terminate(s) => Busy = {}
BY DEF JobInv, OneBusy, Busy, Starting, Closing, Terminate

(* And a socket that is probed has been left by a process that is gone. *)
LEMMA NobodyListens ==
    ASSUME LifeInv, NEW s \in Servers, Probe(s)
    PROVE  path \notin listening
<1> SUFFICES ASSUME path \in listening PROVE FALSE
  OBVIOUS
<1>1. path \in Servers /\ phase[path] \in {"chmod", "identify", "started", "serving"}
  BY DEF LifeInv, TypeOK, PhasePath
<1>2. phase[s] = "probe" /\ path = s
  BY <1>1 DEF LifeInv, JobInv, Probe
<1> QED
  BY <1>1, <1>2

(* What a process knows of the path, through the steps of the job. *)
LEMMA LifeStep ==
    ASSUME LifeInv, [LifecycleNext]_lifeVars
    PROVE  LifeInv'
<1> USE DEF LifeInv
<1>1. JobInv'
  BY JobStep
<1>2. CASE [Next]_vars
  BY <1>1, <1>2, TypeStep, OneAtATime, NobodyListens, PhasePathStep DEF SerialInv
<1>3. ASSUME NEW s \in Servers, NeverBegun(s) \/ Reaped(s)
      PROVE  TypeOK' /\ PhasePath'
  BY <1>3, PathsAssumption
     DEF NeverBegun, Reaped, Exit, Goto, TypeOK, PhasePath, Over, Starting, Closing, Sockets
<1> QED
  BY <1>1, <1>2, <1>3, SocketStep

(* Both hold in every state. *)
LEMMA LifeInvariant == LifecycleSpec => []LifeInv
<1>1. LifecycleInit => LifeInv
  <2> SUFFICES ASSUME LifecycleInit PROVE LifeInv
    OBVIOUS
  <2> USE LifecycleAssumption, PathsAssumption
  <2>1. CASE Init /\ job = "unloaded" /\ process = Nobody
    BY <2>1, TypeStep DEF LifecycleInit, LifeInv, JobInv, PhasePath, Init, Closing
  <2>2. CASE ~(Init /\ job = "unloaded" /\ process = Nobody)
    <3> DEFINE s == CHOOSE s \in Servers : TRUE
    <3>1. s \in Servers
      OBVIOUS
    <3>2. /\ job = "loaded" /\ process = s /\ doomed = {}
          /\ path = s /\ listening = {s}
          /\ phase = [t \in Servers |-> IF t = s THEN "serving" ELSE "off"]
          /\ identity = [t \in Servers |-> IF t = s THEN s ELSE NoFile]
      BY <2>2 DEF LifecycleInit
    <3> HIDE DEF s
    <3> QED
      BY <3>1, <3>2 DEF LifeInv, JobInv, PhasePath, TypeOK, Sockets, Closing
  <2> QED
    BY <2>1, <2>2
<1> QED
  BY <1>1, LifeStep, PTL DEF LifecycleSpec

-----------------------------------------------------------------------------
(* ServiceReachable under launchd: whatever commands overlap, whatever is killed *)
(* and restarted, a process that serves is what the socket path names.           *)
THEOREM LifecycleReachable == LifecycleSpec => []ServiceReachable
<1>1. LifeInv => ServiceReachable
  BY DEF LifeInv, PhasePath, ServiceReachable
<1> QED
  BY <1>1, LifeInvariant, PTL

(* RefusalJustified under launchd: a process it starts refuses only because of a *)
(* foreign file, never because of what a killed predecessor left.                *)
THEOREM LifecycleRefusals == LifecycleSpec => RefusalJustified
<1>1. ASSUME LifeInv, [LifecycleNext]_lifeVars, NEW s \in Servers
      PROVE  vars' # vars => Justified(s)
  <2>1. CASE [Next]_vars
    BY <1>1, <2>1, JustifiedStep, OneAtATime DEF LifeInv, SerialInv
  <2>2. ASSUME NEW t \in Servers, NeverBegun(t) \/ Reaped(t)
        PROVE  Justified(s)
    BY <1>1, <2>2 DEF NeverBegun, Reaped, Exit, Goto, Justified, LifeInv, TypeOK
  <2> QED
    BY <1>1, <2>1, <2>2, SocketStep DEF LifeInv
<1>2. LifeInv /\ [LifecycleNext]_lifeVars => [\A s \in Servers : Justified(s)]_vars
  BY <1>1
<1> QED
  BY <1>2, LifeInvariant, PTL DEF LifecycleSpec, RefusalJustified, Justified

(* SocketRemoved under launchd: a process that a stop or a restart told to end   *)
(* leaves nothing at the path.                                                   *)
THEOREM LifecycleRemoves == LifecycleSpec => SocketRemoved
<1>1. ASSUME LifeInv, [LifecycleNext]_lifeVars, NEW s \in Servers
      PROVE  vars' # vars => Removed(s)
  <2>1. CASE [Next]_vars
    BY <1>1, <2>1, RemovedStep, OneAtATime DEF LifeInv, SerialInv
  <2>2. ASSUME NEW t \in Servers, NeverBegun(t) \/ Reaped(t)
        PROVE  Removed(s)
    BY <1>1, <2>2 DEF NeverBegun, Reaped, Exit, Goto, Removed, LifeInv, TypeOK, Closing, Over
  <2> QED
    BY <1>1, <2>1, <2>2, SocketStep DEF LifeInv
<1>2. LifeInv /\ [LifecycleNext]_lifeVars => [\A s \in Servers : Removed(s)]_vars
  BY <1>1
<1> QED
  BY <1>2, LifeInvariant, PTL DEF LifecycleSpec, SocketRemoved, Removed

(* ActiveSocketKept under launchd: whatever is started and restarted, with full  *)
(* backlogs or not, the service that is up keeps the path.                       *)
THEOREM LifecycleKeeps == LifecycleSpec => ActiveSocketKept
<1>1. ASSUME LifeInv, [LifecycleNext]_lifeVars, NEW s \in Servers
      PROVE  vars' # vars => PathKept(s)
  <2>1. CASE [Next]_vars
    BY <1>1, <2>1, PathKeptStep, OneAtATime DEF LifeInv, SerialInv
  <2>2. ASSUME NEW t \in Servers, NeverBegun(t) \/ Reaped(t)
        PROVE  PathKept(s)
    BY <1>1, <2>2 DEF NeverBegun, Reaped, PathKept
  <2> QED
    BY <1>1, <2>1, <2>2, SocketStep DEF LifeInv
<1>2. LifeInv /\ [LifecycleNext]_lifeVars => [\A s \in Servers : PathKept(s)]_vars
  BY <1>1
<1> QED
  BY <1>2, LifeInvariant, PTL DEF LifecycleSpec, ActiveSocketKept, PathKept

-----------------------------------------------------------------------------
(* What commands hold in their hand                                             *)

CommandsTyped == command \in [Commands -> CommandStates]

(* The two renames of a publication: the path names the newest version or none.   *)
GraphInv ==
    /\ newest \in 1..MaxVersion /\ artifact \in {0, newest}
    /\ artifact = 0 => newest < MaxVersion

-----------------------------------------------------------------------------
(* Types                                                                        *)

(* The record of a command that has not begun, and what an assignment to one makes. *)
LEMMA NotRunTyped == NotRun \in CommandStates
BY LifecycleAssumption DEF NotRun, CommandStates

(* A command's record stays a command's record, however the command goes on. *)
LEMMA GoesTyped ==
    ASSUME CommandsTyped, NEW c \in Commands, NEW r \in CommandStates, Goes(c, r)
    PROVE  CommandsTyped'
BY DEF CommandsTyped, Goes

LEMMA EndsTyped ==
    ASSUME CommandsTyped, NEW c \in Commands,
           NEW o \in {"running", "started", "stopped", "not_running", "not_ready", "blocked", "no_artifact"},
           Ends(c, o)
    PROVE  CommandsTyped'
<1>1. [NotRun EXCEPT !.at = "done", !.outcome = o] \in CommandStates
  BY NotRunTyped DEF CommandStates
<1> QED
  BY <1>1, GoesTyped DEF Ends

LEMMA PollsTyped ==
    ASSUME CommandsTyped, NEW c \in Commands, NEW label \in {"connect", "settle"},
           NEW victim \in Servers \cup {Nobody}, Polls(c, label, victim)
    PROVE  CommandsTyped'
<1>1. command[c] \in CommandStates
  BY DEF CommandsTyped
<1>2. [command[c] EXCEPT !.at = label, !.polling = TRUE, !.loaded = FALSE, !.peer = victim] \in CommandStates
  BY <1>1 DEF CommandStates
<1> QED
  BY <1>2, GoesTyped DEF Polls

(* Each call a command makes takes it to a state a command may be in. *)
LEMMA ProceedTyped ==
    ASSUME CommandsTyped, process \in Servers \cup {Nobody}, path \notin Servers => path \notin listening,
           NEW c \in Commands, Proceed(c) \/ GiveUp(c)
    PROVE  CommandsTyped'
<1>1. command[c] \in CommandStates
  BY DEF CommandsTyped
<1>2. /\ \A l \in BOOLEAN : [command[c] EXCEPT !.loaded = l] \in CommandStates
      /\ \A s \in Servers \cup {Nobody} : [command[c] EXCEPT !.peer = s] \in CommandStates
      /\ \A r \in CommandStates :
             \A l \in {"print", "connect", "receive", "artifact", "operate", "bootout"} :
                 [r EXCEPT !.at = l] \in CommandStates
  BY <1>1 DEF CommandStates
<1>3. ASSUME Loaded(c) PROVE CommandsTyped'
  <2> DEFINE r == [command[c] EXCEPT !.loaded = (job # "unloaded")]
  <2>1. r \in CommandStates /\ \A l \in {"connect", "artifact", "operate"} : [r EXCEPT !.at = l] \in CommandStates
    BY <1>2
  <2>2. \/ \E o \in {"not_running", "not_ready", "stopped"} : Ends(c, o)
        \/ \E l \in {"connect", "artifact", "operate"} : Goes(c, [r EXCEPT !.at = l])
    BY <1>3, Zenon DEF Loaded
  <2> HIDE DEF r
  <2> QED
    BY <2>1, <2>2, GoesTyped, EndsTyped
<1>4. ASSUME Unanswered(c) PROVE CommandsTyped'
  <2> DEFINE r == [command[c] EXCEPT !.peer = Nobody]
  <2>1. r \in CommandStates /\ \A l \in {"print", "connect", "artifact"} : [r EXCEPT !.at = l] \in CommandStates
    BY <1>2
  <2>2. \/ \E o \in {"not_ready", "stopped"} : Ends(c, o)
        \/ \E l \in {"print", "connect", "artifact"} : Goes(c, [r EXCEPT !.at = l])
    BY <1>4, Zenon DEF Unanswered
  <2> HIDE DEF r
  <2> QED
    BY <2>1, <2>2, GoesTyped, EndsTyped
<1>5. ASSUME Connect(c) PROVE CommandsTyped'
  <2>1. CASE path \in listening
    <3> DEFINE r == [command[c] EXCEPT !.at = "receive", !.peer = path]
    <3>1. r \in CommandStates
      BY <1>1, <2>1 DEF CommandStates
    <3>2. Goes(c, r)
      BY <1>5, <2>1 DEF Connect
    <3> HIDE DEF r
    <3> QED
      BY <3>1, <3>2, GoesTyped
  <2> QED
    BY <1>4, <1>5, <2>1 DEF Connect
<1>6. ASSUME CheckArtifact(c) PROVE CommandsTyped'
  BY <1>1, <1>2, <1>6, GoesTyped, EndsTyped DEF CheckArtifact
<1>7. ASSUME Receive(c) PROVE CommandsTyped'
  BY <1>4, <1>7, EndsTyped DEF Receive, Answers
<1>8. ASSUME Unload(c) PROVE CommandsTyped'
  BY <1>1, <1>2, <1>8, GoesTyped, EndsTyped DEF Unload
<1>9. ASSUME Load(c) \/ Kick(c) \/ Restart(c) PROVE CommandsTyped'
  BY <1>9, PollsTyped, EndsTyped DEF Load, Kick, Restart
<1>10. ASSUME Operate(c) PROVE CommandsTyped'
  BY <1>8, <1>9, <1>10 DEF Operate
<1>11. ASSUME BootoutReturns(c) \/ Settle(c) \/ GiveUp(c) PROVE CommandsTyped'
  BY <1>11, PollsTyped, EndsTyped DEF BootoutReturns, Settle, GiveUp
<1> QED
  BY <1>3, <1>5, <1>6, <1>7, <1>10, <1>11 DEF Proceed

(* So does its beginning. *)
LEMMA BeginTyped ==
    ASSUME CommandsTyped, newest \in 1..MaxVersion, NEW kind \in Kinds, BeginCommand(kind)
    PROVE  CommandsTyped'
<1> DEFINE r == [NotRun EXCEPT !.tool = kind[1], !.action = kind[2],
                               !.since = IF kind[2] = "reload" THEN newest ELSE 0,
                               !.at = IF kind[1] = "skill" /\ kind[2] # "stop" THEN "connect" ELSE "print",
                               !.overlapped = (Underway # {})]
           o(d) == [command[d] EXCEPT !.overlapped = @ \/ d \in Underway]
<1>1. kind[1] \in {"lifecycle", "skill"} /\ kind[2] \in {"start", "stop", "reload", "status"}
  BY LifecycleAssumption DEF AllKinds
<1>2. r \in CommandStates
  <2>1. ASSUME NEW tool \in {"lifecycle", "skill"}, NEW action \in {"start", "stop", "reload", "status"},
               NEW since \in 0..MaxVersion, NEW at \in {"connect", "print"}, NEW overlapped \in BOOLEAN
        PROVE  [NotRun EXCEPT !.tool = tool, !.action = action, !.since = since, !.at = at,
                              !.overlapped = overlapped] \in CommandStates
    BY NotRunTyped DEF CommandStates
  <2>2. (IF kind[2] = "reload" THEN newest ELSE 0) \in 0..MaxVersion
    BY LifecycleAssumption
  <2>3. (IF kind[1] = "skill" /\ kind[2] # "stop" THEN "connect" ELSE "print") \in {"connect", "print"}
    OBVIOUS
  <2>4. (Underway # {}) \in BOOLEAN
    OBVIOUS
  <2> QED
    BY <1>1, <2>1, <2>2, <2>3, <2>4, Zenon
<1>3. ASSUME NEW d \in Commands PROVE o(d) \in CommandStates
  <2>1. ASSUME NEW b \in BOOLEAN PROVE [command[d] EXCEPT !.overlapped = b] \in CommandStates
    BY DEF CommandsTyped, CommandStates
  <2>2. (command[d].overlapped \/ d \in Underway) \in BOOLEAN
    OBVIOUS
  <2> QED
    BY <2>1, <2>2, Zenon
<1>4. command' = [d \in Commands |-> IF d = CHOOSE c \in NotBegun : TRUE THEN r ELSE o(d)]
  BY DEF BeginCommand
<1> HIDE DEF r, o
<1> QED
  BY <1>2, <1>3, <1>4 DEF CommandsTyped

(* The steps that are not a command's leave every command as it was. *)
LEMMA OthersElsewhere ==
    ASSUME [LifecycleNext]_lifeVars, command' # command
    PROVE  \/ \E kind \in Kinds : BeginCommand(kind)
           \/ \E c \in Commands : Proceed(c) \/ GiveUp(c)
BY DEF LifecycleNext, lifeVars, Spawn, Reap, Obey, Kill, LoadService, ServerMoves, MoveAway, Promote

(* The steps of publications; all others leave the artifact as it was. *)
LEMMA GraphStep ==
    ASSUME GraphInv, [LifecycleNext]_lifeVars
    PROVE  GraphInv' /\ newest \in 1..newest'
<1> USE DEF GraphInv
<1>1. CASE UNCHANGED graphVars
  BY <1>1 DEF graphVars
<1>2. CASE MoveAway \/ Promote
  BY <1>2, LifecycleAssumption DEF MoveAway, Promote
<1>3. ASSUME NEW c \in Commands, Proceed(c) \/ GiveUp(c)
      PROVE  UNCHANGED graphVars
  BY <1>3 DEF Proceed, GiveUp, Loaded, CheckArtifact, Connect, Receive, Operate, BootoutReturns, Settle
<1>4. CASE Spawn \/ Reap \/ Obey \/ Kill \/ LoadService \/ ServerMoves
  BY <1>1, <1>4 DEF Spawn, Reap, Obey, Kill, LoadService, ServerMoves, graphVars
<1> QED
  BY <1>1, <1>2, <1>3, <1>4 DEF LifecycleNext, lifeVars, BeginCommand, graphVars

Typed ==
    /\ CommandsTyped
    /\ owed \in BOOLEAN
    /\ kills \in 0..MaxKills
    /\ serves \in [Servers -> 0..MaxVersion]
    /\ witnessed \in [Commands -> SUBSET {"running", "not_ready", "stopped"}]

(* What the commands, the publications and launchd keep stays in its sets. *)
LEMMA TypedStep ==
    ASSUME LifeInv, GraphInv, Typed, [LifecycleNext]_lifeVars
    PROVE  Typed'
<1> USE LifecycleAssumption DEF Typed
<1>1. CommandsTyped'
  <2>1. process \in Servers \cup {Nobody} /\ (path \notin Servers => path \notin listening)
    BY DEF LifeInv, JobInv, TypeOK
  <2>2. CASE command' = command
    BY <2>2 DEF CommandsTyped
  <2> QED
    BY <2>1, <2>2, OthersElsewhere, ProceedTyped, BeginTyped DEF GraphInv
<1>2. witnessed' \in [Commands -> SUBSET {"running", "not_ready", "stopped"}]
  <2>1. Truth \in {"running", "not_ready", "stopped"} /\ Truth' \in {"running", "not_ready", "stopped"}
    BY DEF Truth
  <2>2. CASE Witness
    BY <2>1, <2>2 DEF Witness
  <2> QED
    BY <2>2 DEF LifecycleNext, lifeVars
<1>3. ASSUME NEW c \in Commands, Proceed(c) \/ GiveUp(c)
      PROVE  owed' \in BOOLEAN /\ UNCHANGED <<kills, serves>>
  <2>1. ASSUME Operate(c)
        PROVE  owed' \in BOOLEAN /\ UNCHANGED <<kills, serves>>
    <3>1. owed' \in {owed, TRUE, FALSE, owed \/ ~Alive}
      BY <2>1 DEF Operate, Unload, Load, Kick, Restart
    <3> QED
      BY <2>1, <3>1 DEF Operate
  <2> QED
    BY <1>3, <2>1 DEF Proceed, GiveUp, Loaded, CheckArtifact, Connect, Receive, BootoutReturns, Settle,
                      jobVars
<1>4. CASE Spawn \/ MoveAway \/ Promote \/ \E kind \in Kinds : BeginCommand(kind)
  BY <1>1, <1>2, <1>4 DEF Spawn, MoveAway, Promote, BeginCommand, jobVars
<1>5. CASE Reap
  <2>1. owed' \in BOOLEAN
    BY <1>5, Zenon DEF Reap
  <2>2. serves' \in [Servers -> 0..MaxVersion] /\ kills' = kills
    <3>1. serves' = [serves EXCEPT ![process] = 0] /\ kills' = kills
      BY <1>5, Zenon DEF Reap
    <3>2. serves \in [Servers -> 0..MaxVersion] /\ 0 \in 0..MaxVersion
      OBVIOUS
    <3> HIDE DEF Typed
    <3> QED
      BY <3>1, <3>2
  <2> QED
    BY <1>1, <1>2, <2>1, <2>2
<1>6. CASE Obey \/ Kill
  BY <1>1, <1>2, <1>6 DEF Obey, Kill, jobVars
<1>7. CASE LoadService \/ ServerMoves
  BY <1>1, <1>2, <1>7 DEF LoadService, ServerMoves, jobVars, GraphInv
<1> QED
  BY <1>1, <1>2, <1>3, <1>4, <1>5, <1>6, <1>7 DEF LifecycleNext, lifeVars, jobVars

Base == LifeInv /\ GraphInv /\ Typed

LEMMA BaseInvariant == LifecycleSpec => []Base
<1>1. LifecycleInit => GraphInv /\ Typed
  <2> SUFFICES ASSUME LifecycleInit PROVE GraphInv /\ Typed
    OBVIOUS
  <2>1. serves \in [Servers -> 0..MaxVersion]
    BY LifecycleAssumption DEF LifecycleInit
  <2>2. CommandsTyped
    BY NotRunTyped DEF LifecycleInit, CommandsTyped
  <2>3. witnessed \in [Commands -> SUBSET {"running", "not_ready", "stopped"}]
    BY DEF LifecycleInit
  <2>4. artifact = 1 /\ newest = 1 /\ owed = FALSE /\ kills = 0
    BY DEF LifecycleInit
  <2>5. GraphInv
    BY <2>4, LifecycleAssumption DEF GraphInv
  <2>6. kills \in 0..MaxKills
    BY <2>4, LifecycleAssumption
  <2>7. owed \in BOOLEAN
    BY <2>4, Zenon
  <2> QED
    BY <2>1, <2>2, <2>3, <2>5, <2>6, <2>7 DEF Typed
<1>2. Base /\ [LifecycleNext]_lifeVars => GraphInv' /\ Typed'
  BY GraphStep, TypedStep DEF Base
<1> QED
  BY <1>1, <1>2, LifeInvariant, PTL DEF LifecycleSpec, Base

(* The job, the processes, the publications and the commands stay in their sets  *)
(* (LifecycleTypeOK) through every launchctl call, restart and kill.             *)
THEOREM LifecycleTypeCorrect == LifecycleSpec => []LifecycleTypeOK
<1>1. Base => LifecycleTypeOK
  BY LifecycleAssumption
     DEF Base, LifeInv, JobInv, GraphInv, Typed, CommandsTyped, LifecycleTypeOK
<1> QED
  BY <1>1, BaseInvariant, PTL

-----------------------------------------------------------------------------
(* The steps of the system as one command sees them                             *)

(* A command's step is its own: it is under way, and no other command changes. *)
LEMMA OwnCommand ==
    ASSUME Typed, NEW d \in Commands, Proceed(d) \/ GiveUp(d)
    PROVE  d \in Underway /\ \A c \in Commands \ {d} : command'[c] = command[c]
<1>1. PICK r : Goes(d, r)
  BY Zenon DEF Proceed, GiveUp, Loaded, CheckArtifact, Connect, Receive, Operate, BootoutReturns,
     Settle, Unanswered, Answers, Unload, Load, Kick, Restart, Polls, Ends
<1>2. d \in Underway
  BY DEF Proceed, GiveUp, Loaded, CheckArtifact, Connect, Receive, Operate, BootoutReturns, Settle,
         At, Underway
<1> QED
  BY <1>1, <1>2 DEF Goes, Typed, CommandsTyped

(* A step as a command sees it: nothing, its own, or a beginning. *)
LEMMA CommandStep ==
    ASSUME Typed, [LifecycleNext]_lifeVars, NEW c \in Commands
    PROVE  \/ command'[c] = command[c]
           \/ Proceed(c) \/ GiveUp(c)
           \/ \E kind \in Kinds : BeginCommand(kind)
BY OwnCommand, OthersElsewhere

(* What a beginning makes of a command. *)
Begun(c, kind) ==
    /\ At(c, "idle")
    /\ command'[c].at = IF kind[1] = "skill" /\ kind[2] # "stop" THEN "connect" ELSE "print"
    /\ command'[c].tool = kind[1] /\ command'[c].action = kind[2]
    /\ command'[c].since \in 0..newest
    /\ command'[c].loaded = FALSE /\ command'[c].polling = FALSE /\ command'[c].peer = Nobody
    /\ command'[c].overlapped = (Underway # {})

Marked(c) == command'[c] = [command[c] EXCEPT !.overlapped = @ \/ c \in Underway]

(* One command begins; those under way are marked. *)
LEMMA BeginStep ==
    ASSUME Typed, GraphInv, NEW kind \in Kinds, BeginCommand(kind)
    PROVE  \E e \in Commands : Begun(e, kind) /\ \A c \in Commands \ {e} : Marked(c)
<1> DEFINE r == [NotRun EXCEPT !.tool = kind[1], !.action = kind[2],
                               !.since = IF kind[2] = "reload" THEN newest ELSE 0,
                               !.at = IF kind[1] = "skill" /\ kind[2] # "stop" THEN "connect" ELSE "print",
                               !.overlapped = (Underway # {})]
           o(d) == [command[d] EXCEPT !.overlapped = @ \/ d \in Underway]
           e == CHOOSE d \in NotBegun : TRUE
<1>1. command' = [d \in Commands |-> IF d = e THEN r ELSE o(d)]
  BY DEF BeginCommand
<1>2. e \in NotBegun
  BY DEF BeginCommand
<1>3. e \in Commands /\ At(e, "idle")
  BY <1>2 DEF NotBegun
<1>4. Begun(e, kind)
  <2>1. command'[e] = r
    BY <1>1, <1>3
  <2> QED
    BY <1>3, <2>1 DEF Begun, NotRun, GraphInv
<1>5. ASSUME NEW c \in Commands \ {e} PROVE Marked(c)
  BY <1>1, <1>5, Zenon DEF Marked
<1> HIDE DEF e
<1> QED
  BY <1>3, <1>4, <1>5

(* The fields of a marked command. *)
LEMMA MarkedStep ==
    ASSUME Typed, NEW c \in Commands, Marked(c)
    PROVE  /\ command'[c].at = command[c].at /\ command'[c].tool = command[c].tool
           /\ command'[c].action = command[c].action /\ command'[c].since = command[c].since
           /\ command'[c].loaded = command[c].loaded /\ command'[c].polling = command[c].polling
           /\ command'[c].peer = command[c].peer
           /\ command'[c].overlapped = (command[c].overlapped \/ c \in Underway)
<1>1. command[c] \in CommandStates
  BY DEF Typed, CommandsTyped
<1>2. PICK b : b = (command[c].overlapped \/ c \in Underway)
  OBVIOUS
<1>3. command'[c] = [command[c] EXCEPT !.overlapped = b]
  BY <1>2, Zenon DEF Marked
<1>4. /\ command'[c].at = command[c].at /\ command'[c].tool = command[c].tool
      /\ command'[c].action = command[c].action /\ command'[c].since = command[c].since
      /\ command'[c].loaded = command[c].loaded /\ command'[c].polling = command[c].polling
      /\ command'[c].peer = command[c].peer /\ command'[c].overlapped = b
  BY <1>1, <1>3 DEF CommandStates
<1> QED
  BY <1>2, <1>4, Zenon

(* The steps as they concern the processes of the job. *)
Still == UNCHANGED <<process, phase, serves>> /\ doomed \subseteq doomed'

Spawned ==
    /\ process = Nobody /\ process' \in Servers /\ phase[process'] = "off"
    /\ \A c \in Commands : command[c].peer # process'
    /\ UNCHANGED <<phase, serves, doomed, command>>

Buried ==
    /\ process \in Servers /\ process' = Nobody
    /\ phase[process] \in Over
    /\ phase' = [phase EXCEPT ![process] = "off"]
    /\ serves' = [serves EXCEPT ![process] = 0]
    /\ UNCHANGED command

Moved ==
    /\ process \in Servers
    /\ \E label : label # "off" /\ phase' = [phase EXCEPT ![process] = label]
    /\ phase'[process] = "closing" => phase[process] = "serving"
    /\ \/ phase[process] = "off" /\ artifact # 0 /\ serves' = [serves EXCEPT ![process] = artifact]
       \/ phase'[process] \in Closing \cup Over /\ UNCHANGED serves
       \/ phase[process] \in Starting /\ UNCHANGED serves
    /\ UNCHANGED <<process, doomed, command>>

(* Every step is one of these. *)
LEMMA ProcessStep ==
    ASSUME Base, [LifecycleNext]_lifeVars
    PROVE  Still \/ Spawned \/ Buried \/ Moved
<1> USE DEF Base, LifeInv, JobInv, TypeOK
<1>1. CASE UNCHANGED lifeVars \/ MoveAway \/ Promote \/ \E kind \in Kinds : BeginCommand(kind)
  BY <1>1 DEF lifeVars, MoveAway, Promote, BeginCommand, vars, jobVars, Still
<1>2. ASSUME NEW c \in Commands, Proceed(c) \/ GiveUp(c)
      PROVE  Still
  <2>1. CASE Operate(c)
    BY <2>1 DEF Operate, Unload, Load, Kick, Restart, vars, Still
  <2> QED
    BY <1>2, <2>1 DEF Proceed, GiveUp, Loaded, CheckArtifact, Connect, Receive, BootoutReturns, Settle,
                      vars, jobVars, Still
<1>3. CASE Spawn
  <2>1. process' \in Unused
    BY <1>3 DEF Spawn
  <2> QED
    BY <1>3, <2>1 DEF Spawn, Unused, Spawned, vars
<1>4. CASE Reap
  <2>1. /\ process # Nobody /\ ~Alive /\ process' = Nobody
        /\ phase' = [phase EXCEPT ![process] = "off"] /\ serves' = [serves EXCEPT ![process] = 0]
        /\ UNCHANGED command
    BY <1>4, Zenon DEF Reap
  <2> QED
    BY <2>1 DEF Alive, Buried
<1>5. ASSUME NEW s \in Servers, s = process, End(s), UNCHANGED <<jobVars, command>>
      PROVE  Moved
  BY <1>5 DEF End, Terminate, Die, Exit, Goto, Moved, jobVars, Closing, Over
<1>6. CASE Obey
  BY <1>5, <1>6 DEF Obey, jobVars
<1>7. CASE Kill
  BY <1>5, <1>7 DEF Kill, jobVars
<1>8. CASE LoadService
  BY <1>8 DEF LoadService, Exit, Begin, Goto, Moved, Over
<1>9. CASE ServerMoves
  <2>1. PICK s \in Servers : StartStep(s) \/ CloseStep(s)
    BY <1>9 DEF ServerMoves
  <2>2. /\ phase[s] # "off"
        /\ phase[s] \in Starting \/ phase'[s] \in Closing \cup Over
        /\ phase'[s] # "closing"
        /\ \E label : label # "off" /\ phase' = [phase EXCEPT ![s] = label]
    BY <2>1 DEF StartStep, CloseStep, Exists, Stat, Probe, Unlink, Bind, Listen, Chmod, Identify,
                InstallHandler, CloseExists, CloseStat, CloseUnlink, Exit, Goto, Starting, Closing, Over
  <2> QED
    BY <1>9, <2>2 DEF ServerMoves, jobVars, Moved
<1> QED
  BY <1>1, <1>2, <1>3, <1>4, <1>6, <1>7, <1>8, <1>9 DEF LifecycleNext

-----------------------------------------------------------------------------
(* What the calls of a command make of its record, field by field               *)

Ended(c, outcome) ==
    /\ command'[c].at = "done" /\ command'[c].outcome = outcome
    /\ command'[c].tool = "none" /\ command'[c].action = "none"

Moves(c, label) ==
    /\ command'[c].at = label
    /\ command'[c].tool = command[c].tool /\ command'[c].action = command[c].action
    /\ command'[c].since = command[c].since /\ command'[c].overlapped = command[c].overlapped

Kept(c) == command'[c].loaded = command[c].loaded /\ command'[c].polling = command[c].polling

(* How a command ends, goes on, and begins to wait for an answer. *)
LEMMA EndsStep ==
    ASSUME Typed, NEW c \in Commands, NEW o, Ends(c, o)
    PROVE  Ended(c, o)
BY DEF Ends, Goes, NotRun, Ended, Typed, CommandsTyped

LEMMA GoesStep ==
    ASSUME Typed, NEW c \in Commands, NEW r, Goes(c, r)
    PROVE  command'[c] = r
BY DEF Goes, Typed, CommandsTyped

LEMMA LabelStep ==
    ASSUME Typed, NEW c \in Commands, NEW label, Goes(c, [command[c] EXCEPT !.at = label])
    PROVE  Moves(c, label) /\ Kept(c) /\ command'[c].peer = command[c].peer
<1>1. command'[c] = [command[c] EXCEPT !.at = label] /\ command[c] \in CommandStates
  BY GoesStep DEF Typed, CommandsTyped
<1> QED
  BY <1>1 DEF Moves, Kept, CommandStates

LEMMA PollsStep ==
    ASSUME Typed, NEW c \in Commands, NEW label, NEW victim, Polls(c, label, victim)
    PROVE  /\ Moves(c, label)
           /\ command'[c].polling /\ ~command'[c].loaded /\ command'[c].peer = victim
<1>1. /\ command'[c] = [command[c] EXCEPT !.at = label, !.polling = TRUE, !.loaded = FALSE, !.peer = victim]
      /\ command[c] \in CommandStates
  BY GoesStep DEF Polls, Typed, CommandsTyped
<1> QED
  BY <1>1 DEF Moves, CommandStates

(* launchctl print, and what follows from it. *)
LEMMA LoadedStep ==
    ASSUME Typed, NEW c \in Commands, Loaded(c)
    PROVE  /\ At(c, "print")
           /\ \/ command[c].action = "stop" /\ Ended(c, "not_running")
              \/ /\ command[c].action = "status" /\ command[c].tool = "skill"
                 /\ Ended(c, IF job # "unloaded" THEN "not_ready" ELSE "stopped")
              \/ /\ command'[c].loaded = (job # "unloaded")
                 /\ command'[c].polling = command[c].polling /\ command'[c].peer = command[c].peer
                 /\ \/ command[c].action = "reload" /\ Moves(c, "artifact")
                    \/ /\ command[c].action \in {"start", "status"} /\ command[c].tool = "lifecycle"
                       /\ Moves(c, "connect")
                    \/ /\ command[c].action # "reload" /\ Moves(c, "operate")
                       /\ command[c].action = "stop" => job # "unloaded"
                       /\ ~(command[c].action = "status" /\ command[c].tool \in {"skill", "lifecycle"})
<1> DEFINE r == [command[c] EXCEPT !.loaded = (job # "unloaded")]
<1>1. command[c] \in CommandStates
  BY DEF Typed, CommandsTyped
<1>2. /\ r.loaded = (job # "unloaded") /\ r.polling = command[c].polling /\ r.peer = command[c].peer
      /\ r.tool = command[c].tool /\ r.action = command[c].action
      /\ r.since = command[c].since /\ r.overlapped = command[c].overlapped
      /\ r \in CommandStates
  <2>1. ASSUME NEW b \in BOOLEAN
        PROVE  LET q == [command[c] EXCEPT !.loaded = b]
               IN  /\ q.loaded = b /\ q.polling = command[c].polling /\ q.peer = command[c].peer
                   /\ q.tool = command[c].tool /\ q.action = command[c].action
                   /\ q.since = command[c].since /\ q.overlapped = command[c].overlapped
                   /\ q \in CommandStates
    BY <1>1 DEF CommandStates
  <2> QED
    BY <2>1, Zenon
<1>3. ASSUME NEW label, Goes(c, [r EXCEPT !.at = label])
      PROVE  /\ Moves(c, label)
             /\ command'[c].loaded = r.loaded /\ command'[c].polling = r.polling /\ command'[c].peer = r.peer
  <2> HIDE DEF r
  <2>1. command'[c] = [r EXCEPT !.at = label]
    BY <1>3, GoesStep
  <2> QED
    BY <1>2, <2>1 DEF Moves, CommandStates
<1>4. /\ At(c, "print")
      /\ CASE r.action = "stop" /\ ~r.loaded   -> Ends(c, "not_running")
           [] r.action = "reload"              -> Goes(c, [r EXCEPT !.at = "artifact"])
           [] r.action = "status" /\ r.tool = "skill" ->
                  Ends(c, IF r.loaded THEN "not_ready" ELSE "stopped")
           [] r.action \in {"start", "status"} /\ r.tool = "lifecycle" ->
                  Goes(c, [r EXCEPT !.at = "connect"])
           [] OTHER                            -> Goes(c, [r EXCEPT !.at = "operate"])
  BY DEF Loaded
<1> HIDE DEF r
<1>5. \/ r.action = "stop" /\ ~r.loaded /\ Ends(c, "not_running")
      \/ r.action = "reload" /\ Goes(c, [r EXCEPT !.at = "artifact"])
      \/ r.action = "status" /\ r.tool = "skill" /\ Ends(c, IF r.loaded THEN "not_ready" ELSE "stopped")
      \/ r.action \in {"start", "status"} /\ r.tool = "lifecycle" /\ Goes(c, [r EXCEPT !.at = "connect"])
      \/ /\ r.action # "reload" /\ (r.action = "stop" => r.loaded)
         /\ ~(r.action = "status" /\ r.tool \in {"skill", "lifecycle"})
         /\ Goes(c, [r EXCEPT !.at = "operate"])
  BY <1>4, Zenon
<1> QED
  BY <1>2, <1>3, <1>4, <1>5, EndsStep, Zenon

(* What an unanswered probe leads to. *)
LEMMA UnansweredStep ==
    ASSUME Typed, NEW c \in Commands, Unanswered(c)
    PROVE  \/ /\ Kept(c) /\ command'[c].peer = Nobody
              /\ \/ command[c].polling /\ Moves(c, "connect")
                 \/ ~command[c].polling /\ command[c].tool = "skill" /\ Moves(c, "print")
                 \/ /\ ~command[c].polling /\ command[c].tool # "skill" /\ command[c].action # "status"
                    /\ Moves(c, "artifact")
           \/ /\ ~command[c].polling /\ command[c].tool # "skill" /\ command[c].action = "status"
              /\ Ended(c, IF command[c].loaded THEN "not_ready" ELSE "stopped")
<1> DEFINE r == [command[c] EXCEPT !.peer = Nobody]
<1>1. command[c] \in CommandStates
  BY DEF Typed, CommandsTyped
<1>2. /\ r.loaded = command[c].loaded /\ r.polling = command[c].polling /\ r.peer = Nobody
      /\ r.tool = command[c].tool /\ r.action = command[c].action
      /\ r.since = command[c].since /\ r.overlapped = command[c].overlapped
      /\ r \in CommandStates
  BY <1>1 DEF CommandStates
<1>3. ASSUME NEW label, Goes(c, [r EXCEPT !.at = label])
      PROVE  Moves(c, label) /\ Kept(c) /\ command'[c].peer = Nobody
  <2> HIDE DEF r
  <2>1. command'[c] = [r EXCEPT !.at = label]
    BY <1>3, GoesStep
  <2> QED
    BY <1>2, <2>1 DEF Moves, Kept, CommandStates
<1>4. \/ r.polling /\ Goes(c, [r EXCEPT !.at = "connect"])
      \/ ~r.polling /\ r.tool = "skill" /\ Goes(c, [r EXCEPT !.at = "print"])
      \/ /\ ~r.polling /\ r.tool # "skill"
         /\ IF r.action = "status" THEN Ends(c, IF r.loaded THEN "not_ready" ELSE "stopped")
                                   ELSE Goes(c, [r EXCEPT !.at = "artifact"])
  BY DEF Unanswered
<1> HIDE DEF r
<1> QED
  BY <1>2, <1>3, <1>4, EndsStep, Zenon

(* The first half of a probe. *)
LEMMA ConnectStep ==
    ASSUME Typed, NEW c \in Commands, Connect(c)
    PROVE  \/ path \in listening /\ Moves(c, "receive") /\ Kept(c) /\ command'[c].peer = path
           \/ path \notin listening /\ Unanswered(c)
<1>1. ASSUME Goes(c, [command[c] EXCEPT !.at = "receive", !.peer = path])
      PROVE  Moves(c, "receive") /\ Kept(c) /\ command'[c].peer = path
  <2>1. /\ command'[c] = [command[c] EXCEPT !.at = "receive", !.peer = path]
        /\ command[c] \in CommandStates
    BY <1>1, GoesStep DEF Typed, CommandsTyped
  <2> QED
    BY <2>1 DEF Moves, Kept, CommandStates
<1> QED
  BY <1>1 DEF Connect

(* A command keeps what it is until it is done. *)
LEMMA OwnStep ==
    ASSUME Typed, NEW c \in Commands, Proceed(c) \/ GiveUp(c)
    PROVE  (\E label : label # "done" /\ Moves(c, label)) \/ (\E o : Ended(c, o))
<1>1. CASE Loaded(c)
  BY <1>1, LoadedStep
<1>2. ASSUME Unanswered(c)
      PROVE  (\E label : label # "done" /\ Moves(c, label)) \/ (\E o : Ended(c, o))
  BY <1>2, UnansweredStep
<1>3. CASE Connect(c)
  BY <1>2, <1>3, ConnectStep
<1>4. CASE Receive(c) \/ BootoutReturns(c) \/ GiveUp(c)
  BY <1>2, <1>4, EndsStep DEF Receive, Answers, BootoutReturns, GiveUp
<1>5. CASE CheckArtifact(c) \/ Settle(c)
  BY <1>5, EndsStep, LabelStep, PollsStep DEF CheckArtifact, Settle
<1>6. CASE Operate(c)
  BY <1>6, EndsStep, LabelStep, PollsStep DEF Operate, Unload, Load, Kick, Restart
<1> QED
  BY <1>1, <1>3, <1>4, <1>5, <1>6 DEF Proceed

-----------------------------------------------------------------------------
(* Reload                                                                       *)

Up(s) == phase[s] \notin {"off"} \cup Closing \cup Over

(* The process that could answer next has an artifact no older than version v. *)
FreshUp(v) == process # Nobody /\ Up(process) => serves[process] >= v

(* What a reload relies on, at each of its steps after the operation. *)
Relies(c) ==
    /\ command[c].since <= newest
    /\ At(c, "connect") \/ At(c, "receive") => command[c].polling /\ FreshUp(command[c].since)
    /\ At(c, "receive") =>
           /\ command[c].peer \in Servers
           /\ IF phase[command[c].peer] = "off"
              THEN process # command[c].peer
              ELSE serves[command[c].peer] >= command[c].since
    /\ At(c, "settle") =>
           FreshUp(command[c].since) \/ (process \in doomed /\ command[c].peer = process)

ReloadInv == \A c \in Commands : command[c].action = "reload" => Relies(c)

(* No step but that of a command makes what a reload relies on untrue. *)
LEMMA FreshStays ==
    ASSUME Base, [LifecycleNext]_lifeVars, NEW v \in 0..newest
    PROVE  /\ FreshUp(v) => (process' # Nobody /\ Up(process)' => serves'[process'] >= v)
           /\ process \in doomed => \/ process' # Nobody /\ Up(process)' => serves'[process'] >= v
                                    \/ process' = process /\ process \in doomed'
           /\ \A s \in Servers :
                 (/\ \E c \in Commands : command[c].peer = s
                  /\ IF phase[s] = "off" THEN process # s ELSE serves[s] >= v)
                     => IF phase'[s] = "off" THEN process' # s ELSE serves'[s] >= v
<1> USE DEF Base, LifeInv, JobInv, TypeOK, GraphInv, Typed, FreshUp, Up
<1>1. CASE Still
  BY <1>1 DEF Still
<1>2. CASE Spawned
  BY <1>2, LifecycleAssumption DEF Spawned
<1>3. CASE Buried
  BY <1>3, LifecycleAssumption DEF Buried, Over
<1>4. CASE Moved
  BY <1>4, LifecycleAssumption DEF Moved, Starting, Closing, Over
<1> QED
  BY <1>1, <1>2, <1>3, <1>4, ProcessStep

(* A reload's own steps, when the pause is long enough: it is done, or goes on   *)
(* with the same version in mind, and knows what it relies on there.             *)
ReloadGoesOn(c) ==
    \/ \E label \in {"artifact", "operate"} : Moves(c, label)
    \/ Moves(c, "connect") /\ command'[c].polling /\ FreshUp(command[c].since)
    \/ /\ Moves(c, "receive") /\ command'[c].polling /\ FreshUp(command[c].since)
       /\ command'[c].peer = path /\ path \in listening
    \/ /\ Moves(c, "settle") /\ command'[c].peer = process
       /\ process = Nobody \/ process \in doomed'

ReloadEnds(c) ==
    \E o : Ended(c, o) /\ (o = "started" => serves[command[c].peer] >= command[c].since)

LEMMA ReloadOwnStep ==
    ASSUME Base, ReloadInv, SleepSuffices, NEW c \in Commands, command[c].action = "reload",
           Proceed(c) \/ GiveUp(c)
    PROVE  UNCHANGED <<phase, process, serves, newest>> /\ (ReloadGoesOn(c) \/ ReloadEnds(c))
<1> USE DEF Base, At
<1>0. UNCHANGED <<phase, process, serves, newest>>
  BY DEF Proceed, GiveUp, Loaded, CheckArtifact, Connect, Receive, Operate, BootoutReturns, Settle,
         Unload, Load, Kick, Restart, vars, jobVars, graphVars
<1> SUFFICES ReloadGoesOn(c) \/ ReloadEnds(c)
  BY <1>0
<1>1. CASE Loaded(c)
  BY <1>1, LoadedStep DEF ReloadGoesOn, ReloadEnds
<1>2. CASE CheckArtifact(c)
  BY <1>2, LabelStep, EndsStep DEF CheckArtifact, ReloadGoesOn, ReloadEnds
<1>3. ASSUME Unanswered(c), command[c].polling, FreshUp(command[c].since)
      PROVE  ReloadGoesOn(c)
  BY <1>3, UnansweredStep DEF ReloadGoesOn, Kept
<1>4. CASE Connect(c)
  <2>1. command[c].polling /\ FreshUp(command[c].since)
    BY <1>4 DEF Connect, ReloadInv, Relies
  <2> QED
    BY <1>3, <1>4, <2>1, ConnectStep DEF ReloadGoesOn, Kept
<1>5. CASE Receive(c)
  <2>1. command[c].polling /\ FreshUp(command[c].since)
    BY <1>5 DEF Receive, ReloadInv, Relies
  <2>2. ASSUME phase[command[c].peer] \in {"serving", "closing"}, Answers(c)
        PROVE  ReloadEnds(c)
    <3>1. serves[command[c].peer] >= command[c].since
      BY <1>5, <2>2 DEF Receive, ReloadInv, Relies
    <3> QED
      BY <2>2, <3>1, EndsStep DEF Answers, ReloadEnds
  <2> QED
    BY <1>3, <1>5, <2>1, <2>2 DEF Receive
<1>6. CASE Operate(c)
  <2>1. CASE Load(c)
    BY <1>6, <2>1, PollsStep, EndsStep DEF Load, LifeInv, JobInv, ReloadGoesOn, ReloadEnds, FreshUp
  <2>2. CASE Restart(c)
    BY <1>6, <2>2, PollsStep, EndsStep DEF Restart, LifeInv, JobInv, ReloadGoesOn, ReloadEnds
  <2> QED
    BY <1>6, <2>1, <2>2 DEF Operate
<1>7. CASE Settle(c)
  <2>1. FreshUp(command[c].since)
    BY <1>7 DEF Settle, ReloadInv, Relies, FreshUp, Up
  <2> QED
    BY <1>7, <2>1, PollsStep DEF Settle, ReloadGoesOn
<1>8. CASE BootoutReturns(c) \/ GiveUp(c)
  BY <1>8, EndsStep DEF BootoutReturns, GiveUp, ReloadEnds
<1> QED
  BY <1>1, <1>2, <1>4, <1>5, <1>6, <1>7, <1>8 DEF Proceed

(* So no step makes a reload rely on something untrue. *)
LEMMA ReloadStep ==
    ASSUME Base, ReloadInv, SleepSuffices, [LifecycleNext]_lifeVars
    PROVE  ReloadInv'
<1> SUFFICES ASSUME NEW c \in Commands, command'[c].action = "reload"
             PROVE  Relies(c)'
  BY DEF ReloadInv
<1>1. Typed /\ GraphInv /\ GraphInv' /\ newest \in 1..newest' /\ command[c] \in CommandStates
  BY GraphStep DEF Base, Typed, CommandsTyped
<1>2. ASSUME command'[c].since = command[c].since, command'[c].at = command[c].at,
             command'[c].polling = command[c].polling, command'[c].peer = command[c].peer,
             command[c].action = "reload"
      PROVE  Relies(c)'
  <2>1. command[c].since \in 0..newest /\ Relies(c)
    BY <1>1, <1>2 DEF ReloadInv, Relies, GraphInv, CommandStates
  <2> DEFINE v == command[c].since
             s == command[c].peer
  <2>2. v \in 0..newest /\ (s \in Servers => \E d \in Commands : command[d].peer = s)
    BY <2>1
  <2>3. (At(c, "connect") \/ At(c, "receive"))' => command'[c].polling /\ FreshUp(command[c].since)'
    BY <1>2, <2>1, <2>2, FreshStays DEF Relies, At, FreshUp, Up
  <2>4. At(c, "receive") => s \in Servers /\ IF phase'[s] = "off" THEN process' # s ELSE serves'[s] >= v
    BY <2>1, <2>2, FreshStays DEF Relies
  <2>5. At(c, "settle") => \/ process' # Nobody /\ Up(process)' => serves'[process'] >= v
                           \/ process' \in doomed' /\ s = process'
    BY <2>1, <2>2, FreshStays DEF Relies
  <2>6. command'[c].since <= newest'
    <3>1. newest' \in Int /\ newest \in Int /\ newest <= newest' /\ v \in Int /\ v <= newest
      BY <1>1, <2>1, LifecycleAssumption DEF GraphInv
    <3> QED
      BY <1>2, <3>1
  <2>7. At(c, "settle")' => FreshUp(command[c].since)' \/ (process' \in doomed' /\ command'[c].peer = process')
    BY <1>2, <2>5 DEF At, FreshUp, Up
  <2>8. At(c, "receive")' =>
            /\ command'[c].peer \in Servers
            /\ IF phase'[command'[c].peer] = "off"
               THEN process' # command'[c].peer
               ELSE serves'[command'[c].peer] >= command'[c].since
    BY <1>2, <2>4 DEF At
  <2> QED
    BY <2>3, <2>6, <2>7, <2>8, Zenon DEF Relies
<1>3. CASE Proceed(c) \/ GiveUp(c)
  <2>1. command[c].action = "reload"
    BY <1>1, <1>3, OwnStep DEF Moves, Ended
  <2>2. UNCHANGED <<phase, process, serves, newest>> /\ ReloadGoesOn(c)
    BY <1>3, <2>1, ReloadOwnStep DEF ReloadEnds, Ended
  <2>3. path \in listening => path \in Servers /\ phase[path] # "off" /\ process = path /\ Up(path)
    BY PathsAssumption DEF Base, LifeInv, JobInv, TypeOK, PhasePath, Up, Closing, Over
  <2>4. command[c].since <= newest
    BY <2>1 DEF ReloadInv, Relies
  <2> QED
    BY <1>1, <2>2, <2>3, <2>4, LifecycleAssumption DEF ReloadGoesOn, Moves, Relies, At, FreshUp, Up
<1>4. ASSUME NEW kind \in Kinds, BeginCommand(kind)
      PROVE  Relies(c)'
  <2>1. CASE Begun(c, kind)
    <3>1. kind \in AllKinds /\ newest' = newest
      BY <1>4, LifecycleAssumption DEF BeginCommand, graphVars
    <3> QED
      BY <1>1, <2>1, <3>1 DEF Begun, Relies, At, AllKinds, GraphInv
  <2>2. CASE Marked(c)
    BY <1>1, <1>2, <2>2, MarkedStep
  <2> QED
    BY <1>1, <1>4, <2>1, <2>2, BeginStep
<1> QED
  BY <1>1, <1>2, <1>3, <1>4, CommandStep

(* A reload that reports a start was answered by a process with the artifact     *)
(* current when the reload began, or a later one (ReloadServesNew), if its pause *)
(* outlasts the listening of the process it had restarted.                       *)
THEOREM ReloadsServeNew ==
    ASSUME SleepSuffices
    PROVE  LifecycleSpec => ReloadServesNew
<1>1. LifecycleInit => ReloadInv
  BY DEF LifecycleInit, ReloadInv, NotRun
<1>2. Base /\ ReloadInv /\ [LifecycleNext]_lifeVars => ReloadInv'
  BY ReloadStep
<1>3. ASSUME Base, ReloadInv, [LifecycleNext]_lifeVars, NEW c \in Commands,
             Finishes(c), command[c].action = "reload", command'[c].outcome = "started"
      PROVE  serves[command[c].peer] >= command[c].since
  <2>1. CASE Proceed(c) \/ GiveUp(c)
    BY <1>3, <2>1, ReloadOwnStep DEF ReloadGoesOn, ReloadEnds, Moves, Ended, Finishes
  <2>2. ASSUME NEW kind \in Kinds, BeginCommand(kind)
        PROVE  FALSE
    <3>1. Begun(c, kind) \/ Marked(c)
      BY <1>3, <2>2, BeginStep DEF Base
    <3>2. command'[c].at \in {"connect", "print", command[c].at}
      BY <1>3, <3>1, MarkedStep DEF Begun, Base
    <3> QED
      BY <1>3, <3>2 DEF Finishes
  <2> QED
    BY <1>3, <2>1, <2>2, CommandStep DEF Finishes, Base
<1>4. Base /\ ReloadInv /\ [LifecycleNext]_lifeVars =>
          [\A c \in Commands : Finishes(c) /\ command[c].action = "reload" /\ command'[c].outcome = "started"
               => serves[command[c].peer] >= command[c].since]_lifeVars
  BY <1>3
<1> QED
  BY <1>1, <1>2, <1>4, BaseInvariant, PTL DEF LifecycleSpec, ReloadServesNew

-----------------------------------------------------------------------------
(* Operations that fit the job's state                                          *)

(* The command has read whether the job is loaded, and is to act on it. *)
Knows(c) ==
    \/ At(c, "operate") \/ At(c, "artifact")
    \/ (At(c, "connect") \/ At(c, "receive")) /\ command[c].tool = "lifecycle" /\ ~command[c].polling

(* Only commands change what the job is, except that a removed job goes: so what *)
(* a command that nothing overlaps has read stays true.                          *)
OverlapInv ==
    /\ \A c, d \in Underway : c # d => command[c].overlapped
    /\ job = "removing" => \E c \in Commands : At(c, "bootout")
    /\ \A c \in Underway : command[c].tool \in {"lifecycle", "skill"}
    /\ \A c \in Commands :
           /\ Knows(c) /\ ~command[c].overlapped =>
                  IF command[c].loaded THEN job = "loaded" ELSE job = "unloaded"
           /\ command[c].action = "stop" =>
                  /\ command[c].at \in {"print", "operate", "bootout"}
                  /\ At(c, "operate") => command[c].loaded

(* The steps that change what the job is. *)
LEMMA JobChange ==
    ASSUME [LifecycleNext]_lifeVars, job' # job
    PROVE  \/ job = "removing" /\ job' = "unloaded" /\ UNCHANGED command
           \/ \E c \in Commands : Operate(c)
<1>1. ASSUME NEW c \in Commands, Proceed(c) \/ GiveUp(c), ~Operate(c)
      PROVE  FALSE
  BY <1>1 DEF Proceed, GiveUp, Loaded, CheckArtifact, Connect, Receive, BootoutReturns, Settle, jobVars
<1>2. CASE Reap
  <2>1. job' = IF job = "removing" THEN "unloaded" ELSE job
    BY <1>2, Zenon DEF Reap
  <2>2. UNCHANGED command
    BY <1>2, Zenon DEF Reap
  <2> QED
    BY <2>1, <2>2
<1> QED
  BY <1>1, <1>2 DEF LifecycleNext, lifeVars, jobVars, Spawn, Obey, Kill, LoadService, ServerMoves,
                    MoveAway, Promote, BeginCommand

(* Without an overlap, a command's own step keeps what it has read true, and its *)
(* operation is not refused.                                                     *)
LEMMA KnowsStep ==
    ASSUME Typed, OverlapInv, job \in {"unloaded", "loaded", "removing"},
           NEW c \in Commands, ~command[c].overlapped, Proceed(c) \/ GiveUp(c)
    PROVE  /\ Knows(c)' => IF command'[c].loaded THEN job' = "loaded" ELSE job' = "unloaded"
           /\ ~Ended(c, "blocked")
<1> USE DEF At
<1>1. CASE Loaded(c)
  <2>1. c \in Underway
    BY <1>1, LoadedStep DEF Underway
  <2>2. job # "removing"
    BY <1>1, <2>1, LoadedStep DEF OverlapInv, Underway
  <2>3. job' = job
    BY <1>1 DEF Loaded, jobVars
  <2> QED
    BY <1>1, <2>2, <2>3, LoadedStep DEF Knows, Moves, Ended
<1>2. ASSUME Unanswered(c), UNCHANGED job, At(c, "connect") \/ At(c, "receive")
      PROVE  /\ Knows(c)' => IF command'[c].loaded THEN job' = "loaded" ELSE job' = "unloaded"
             /\ ~Ended(c, "blocked")
  <2>1. command[c].tool \in {"lifecycle", "skill"}
    BY <1>2 DEF OverlapInv, Underway
  <2> QED
    BY <1>2, <2>1, UnansweredStep DEF OverlapInv, Knows, Moves, Ended, Kept
<1>3. CASE Connect(c)
  <2>1. UNCHANGED job /\ At(c, "connect")
    BY <1>3 DEF Connect, jobVars
  <2> QED
    BY <1>2, <1>3, <2>1, ConnectStep DEF OverlapInv, Knows, Moves, Ended, Kept
<1>4. CASE Receive(c)
  <2>1. UNCHANGED job /\ At(c, "receive")
    BY <1>4 DEF Receive, jobVars
  <2>2. ASSUME Answers(c)
        PROVE  ~Knows(c)' /\ ~Ended(c, "blocked")
    BY <2>2, EndsStep DEF Answers, Knows, Ended
  <2> QED
    BY <1>2, <1>4, <2>1, <2>2 DEF Receive
<1>5. CASE CheckArtifact(c)
  <2>1. UNCHANGED job /\ At(c, "artifact")
    BY <1>5 DEF CheckArtifact, jobVars
  <2> QED
    BY <1>5, <2>1, LabelStep, EndsStep DEF CheckArtifact, OverlapInv, Knows, Moves, Ended, Kept
<1>6. CASE Operate(c)
  <2>1. /\ IF command[c].loaded THEN job = "loaded" ELSE job = "unloaded"
        /\ command[c].action = "stop" => command[c].loaded
    BY <1>6 DEF Operate, OverlapInv, Knows
  <2>2. CASE Unload(c) /\ command[c].action = "stop"
    BY <2>1, <2>2, LabelStep DEF Unload, Knows, Moves, Ended
  <2>3. CASE Load(c) /\ ~command[c].loaded
    BY <2>1, <2>3, PollsStep DEF Load, Knows, Moves, Ended
  <2>4. CASE Restart(c) /\ command[c].loaded
    BY <2>1, <2>4, PollsStep DEF Restart, Knows, Moves, Ended
  <2>5. CASE Kick(c) /\ command[c].loaded
    BY <2>1, <2>5, PollsStep DEF Kick, Knows, Moves, Ended
  <2> QED
    BY <1>6, <2>2, <2>3, <2>4, <2>5 DEF Operate
<1>7. CASE BootoutReturns(c) \/ GiveUp(c)
  BY <1>7, EndsStep DEF BootoutReturns, GiveUp, Knows, Ended
<1>8. CASE Settle(c)
  BY <1>8, PollsStep DEF Settle, Knows, Moves, Ended
<1> QED
  BY <1>1, <1>3, <1>4, <1>5, <1>6, <1>7, <1>8 DEF Proceed

(* A stop unloads a job it has found loaded, and does nothing else. *)
LEMMA StopStep ==
    ASSUME Typed, OverlapInv, NEW c \in Commands, command[c].action = "stop", Proceed(c) \/ GiveUp(c)
    PROVE  \/ \E o : Ended(c, o)
           \/ Moves(c, "bootout")
           \/ Moves(c, "operate") /\ command'[c].loaded
<1>1. command[c].at \in {"print", "operate", "bootout"}
  BY DEF OverlapInv
<1>2. CASE Loaded(c)
  BY <1>2, LoadedStep
<1>3. CASE Operate(c)
  BY <1>3, LabelStep, EndsStep DEF Operate, Unload, OverlapInv
<1>4. CASE BootoutReturns(c)
  BY <1>4, EndsStep DEF BootoutReturns
<1> QED
  BY <1>1, <1>2, <1>3, <1>4 DEF Proceed, GiveUp, CheckArtifact, Connect, Receive, Settle, At

(* What a command that nothing overlaps knows stays true through every step. *)
LEMMA OverlapStep ==
    ASSUME Base, OverlapInv, [LifecycleNext]_lifeVars
    PROVE  OverlapInv'
<1> USE DEF Base
<1>0. job \in {"unloaded", "loaded", "removing"}
  BY DEF LifeInv, JobInv
<1>1. CASE UNCHANGED command
  <2>1. job' = job \/ (job = "removing" /\ job' = "unloaded")
    <3>1. ASSUME NEW c \in Commands, Operate(c) PROVE FALSE
      <4>1. command[c].at # command'[c].at
        BY <3>1, OwnStep, LabelStep, PollsStep, EndsStep
           DEF Proceed, Operate, Unload, Load, Kick, Restart, At, Moves, Ended
      <4> QED
        BY <1>1, <4>1
    <3> QED
      BY <3>1, JobChange
  <2>2. ASSUME NEW c \in Commands, Knows(c), ~command[c].overlapped
        PROVE  job # "removing"
    BY <2>2 DEF OverlapInv, Knows, At, Underway
  <2> QED
    BY <1>1, <2>1, <2>2 DEF OverlapInv, Knows, At, Underway
<1>2. ASSUME NEW d \in Commands, Proceed(d) \/ GiveUp(d)
      PROVE  OverlapInv'
  <2>1. d \in Underway /\ \A c \in Commands \ {d} : command'[c] = command[c]
    BY <1>2, OwnCommand
  <2>2. \/ \E o : Ended(d, o)
        \/ /\ \E label : Moves(d, label)
           /\ command'[d].overlapped = command[d].overlapped /\ command'[d].tool = command[d].tool
    BY <1>2, OwnStep DEF Moves
  <2>3. Underway' \subseteq Underway
    BY <2>1 DEF Underway
  <2>4. \A c, e \in Underway' : c # e => command'[c].overlapped
    BY <2>1, <2>2, <2>3 DEF OverlapInv, Underway, Ended
  <2>5. \A c \in Underway' : command'[c].tool \in {"lifecycle", "skill"}
    BY <2>1, <2>2, <2>3 DEF OverlapInv, Underway, Ended
  <2>6. job' = "removing" => \E c \in Commands : At(c, "bootout")'
    <3>1. CASE At(d, "bootout")
      <4>1. job # "removing" /\ job' = job
        BY <1>2, <3>1 DEF Proceed, GiveUp, Loaded, CheckArtifact, Connect, Receive, Operate,
                          BootoutReturns, Settle, At, jobVars
      <4> QED
        BY <4>1
    <3>2. CASE ~At(d, "bootout") /\ job = "removing"
      BY <2>1, <3>2 DEF OverlapInv, At
    <3>3. CASE job # "removing" /\ job' = "removing"
      <4>1. Unload(d) /\ job = "loaded"
        BY <1>2, <3>3 DEF Proceed, GiveUp, Loaded, CheckArtifact, Connect, Receive, Operate,
                          BootoutReturns, Settle, Unload, Load, Kick, Restart, jobVars
      <4>2. command'[d].at = "bootout"
        BY <4>1, LabelStep DEF Unload, Moves
      <4> QED
        BY <4>2 DEF At
    <3> QED
      BY <3>1, <3>2, <3>3
  <2>7. ASSUME NEW c \in Commands
        PROVE  /\ Knows(c)' /\ ~command'[c].overlapped =>
                      IF command'[c].loaded THEN job' = "loaded" ELSE job' = "unloaded"
               /\ command'[c].action = "stop" =>
                      /\ command'[c].at \in {"print", "operate", "bootout"}
                      /\ At(c, "operate")' => command'[c].loaded
    <3>1. CASE c = d
      <4>1. command'[d].action = "stop" =>
                /\ command'[d].at \in {"print", "operate", "bootout"}
                /\ At(d, "operate")' => command'[d].loaded
        BY <1>0, <1>2, <2>2, StopStep DEF Ended, Moves, At
      <4>2. Knows(d)' /\ ~command'[d].overlapped => ~command[d].overlapped
        BY <2>2 DEF Knows, At, Ended
      <4> QED
        BY <1>0, <1>2, <3>1, <4>1, <4>2, KnowsStep
    <3>2. CASE c # d
      <4>1. command'[c] = command[c]
        BY <2>1, <3>2
      <4>2. Knows(c) => c \in Underway
        BY DEF Knows, At, Underway
      <4> QED
        BY <2>1, <3>2, <4>1, <4>2 DEF OverlapInv, Knows, At
    <3> QED
      BY <3>1, <3>2
  <2> QED
    BY <2>4, <2>5, <2>6, <2>7 DEF OverlapInv
<1>3. ASSUME NEW kind \in Kinds, BeginCommand(kind)
      PROVE  OverlapInv'
  <2>1. PICK e \in Commands : Begun(e, kind) /\ \A c \in Commands \ {e} : Marked(c)
    BY <1>3, BeginStep
  <2>2. kind \in AllKinds /\ job' = job
    BY <1>3, LifecycleAssumption DEF BeginCommand, jobVars
  <2>3. ASSUME NEW c \in Commands \ {e}
        PROVE  /\ command'[c].at = command[c].at /\ command'[c].tool = command[c].tool
               /\ command'[c].action = command[c].action
               /\ command'[c].loaded = command[c].loaded /\ command'[c].polling = command[c].polling
               /\ command'[c].overlapped = (command[c].overlapped \/ c \in Underway)
    BY <2>1, MarkedStep
  <2>4. e \notin Underway /\ Underway' \subseteq Underway \cup {e}
    BY <2>1, <2>3 DEF Begun, Underway, At
  <2>5. \A c, d \in Underway' : c # d => command'[c].overlapped
    <3>1. ASSUME NEW c \in Underway', c # e
          PROVE  command'[c].overlapped
      BY <2>3, <2>4, <3>1 DEF Underway
    <3>2. ASSUME NEW d \in Underway', d # e
          PROVE  command'[e].overlapped
      BY <2>1, <2>4, <3>2 DEF Begun
    <3> QED
      BY <3>1, <3>2
  <2>6. job' = "removing" => \E c \in Commands : At(c, "bootout")'
    BY <2>1, <2>2, <2>3 DEF OverlapInv, At, Begun
  <2>7. \A c \in Underway' : command'[c].tool \in {"lifecycle", "skill"}
    BY <2>1, <2>2, <2>3, <2>4 DEF OverlapInv, Begun, AllKinds, Underway
  <2>8. ASSUME NEW c \in Commands
        PROVE  /\ Knows(c)' /\ ~command'[c].overlapped =>
                      IF command'[c].loaded THEN job' = "loaded" ELSE job' = "unloaded"
               /\ command'[c].action = "stop" =>
                      /\ command'[c].at \in {"print", "operate", "bootout"}
                      /\ At(c, "operate")' => command'[c].loaded
    <3>1. CASE c = e
      BY <2>1, <2>2, <3>1 DEF Begun, Knows, At, AllKinds
    <3>2. CASE c # e
      BY <2>2, <2>3, <3>2 DEF OverlapInv, Knows, At
    <3> QED
      BY <3>1, <3>2
  <2> QED
    BY <2>5, <2>6, <2>7, <2>8 DEF OverlapInv
<1> QED
  BY <1>1, <1>2, <1>3, OthersElsewhere

(* run_launchd_action and service.py call launchctl with the operation that fits *)
(* the job's state (BlockedOnlyIfOvertaken): one is refused only to a command    *)
(* that another one has overlapped.                                              *)
THEOREM BlockedOnlyOvertaken == LifecycleSpec => BlockedOnlyIfOvertaken
<1>1. LifecycleInit => OverlapInv
  BY DEF LifecycleInit, OverlapInv, NotRun, Knows, At, Underway
<1>2. Base /\ OverlapInv /\ [LifecycleNext]_lifeVars => OverlapInv'
  BY OverlapStep
<1>3. ASSUME Base, OverlapInv, [LifecycleNext]_lifeVars, NEW c \in Commands,
             Finishes(c), command'[c].outcome = "blocked", ~command[c].overlapped
      PROVE  FALSE
  <2>1. CASE Proceed(c) \/ GiveUp(c)
    <3>1. ~Ended(c, "blocked")
      BY <1>3, <2>1, KnowsStep DEF Base, LifeInv, JobInv
    <3>2. Ended(c, "blocked")
      BY <1>3, <2>1, OwnStep DEF Base, Ended, Moves, Finishes
    <3> QED
      BY <3>1, <3>2
  <2>2. ASSUME NEW kind \in Kinds, BeginCommand(kind)
        PROVE  FALSE
    BY <1>3, <2>2, BeginStep, MarkedStep DEF Base, Begun, Finishes
  <2> QED
    BY <1>3, <2>1, <2>2, CommandStep DEF Finishes, Base
<1>4. Base /\ OverlapInv /\ [LifecycleNext]_lifeVars =>
          [\A c \in Commands : Finishes(c) /\ command'[c].outcome = "blocked" => command[c].overlapped]_lifeVars
  BY <1>3
<1> QED
  BY <1>1, <1>2, <1>4, BaseInvariant, PTL DEF LifecycleSpec, BlockedOnlyIfOvertaken

-----------------------------------------------------------------------------
(* What status says                                                             *)

(* What a status command under way may still say has been true while it ran. *)
StatusKnows(c) ==
    /\ command[c].at \in {"print", "connect", "receive"} /\ ~command[c].polling
    /\ command[c].tool \in {"lifecycle", "skill"}
    /\ command[c].tool = "lifecycle" /\ ~At(c, "print") =>
           IF command[c].loaded THEN job # "unloaded" \/ "not_ready" \in witnessed[c]
                                ELSE "stopped" \in witnessed[c]
    /\ command[c].tool = "skill" /\ At(c, "print") => job = "unloaded" \/ "not_ready" \in witnessed[c]
    /\ At(c, "receive") =>
           /\ command[c].peer \in Servers
           /\ phase[command[c].peer] = "off" => process # command[c].peer
           /\ phase[command[c].peer] \in {"serving", "closing"} => "running" \in witnessed[c]
           /\ command[c].peer \notin listening => "not_ready" \in witnessed[c]

StatusInv == \A c \in Commands : command[c].action = "status" => StatusKnows(c)

(* The service answers while the process of the job serves, and then only. *)
LEMMA TruthIs ==
    ASSUME LifeInv
    PROVE  /\ Truth = "running" <=> \E s \in Servers : phase[s] = "serving"
           /\ Truth = "stopped" <=> job = "unloaded"
           /\ process = Nobody \/ phase[process] # "serving" => Truth # "running"
           /\ path \notin listening => Truth # "running"
           /\ Truth \in {"running", "not_ready", "stopped"}
BY LifecycleAssumption DEF LifeInv, JobInv, PhasePath, TypeOK, Truth, Answering

(* What a step shows of the service when the job, or a process, comes or goes. *)
LEMMA TruthStep ==
    ASSUME Base, LifeInv', [LifecycleNext]_lifeVars
    PROVE  /\ job # "unloaded" /\ job' = "unloaded" => Truth = "not_ready"
           /\ job = "unloaded" /\ job' # "unloaded" => Truth' = "not_ready"
           /\ \A s \in Servers :
                 /\ phase[s] \notin {"serving", "closing"} /\ phase'[s] \in {"serving", "closing"}
                        => Truth' = "running"
                 /\ s \in listening /\ s \notin listening' => Truth' = "not_ready"
<1> USE DEF Base
<1>1. /\ Truth' = "running" <=> \E s \in Servers : phase'[s] = "serving"
      /\ Truth' = "stopped" <=> job' = "unloaded"
      /\ Truth' \in {"running", "not_ready", "stopped"}
  BY LifecycleAssumption DEF LifeInv, JobInv, PhasePath, TypeOK, Truth, Answering
<1>2. ASSUME job # "unloaded", job' = "unloaded"
      PROVE  Truth = "not_ready"
  <2>1. process' = Nobody
    BY <1>2 DEF LifeInv, JobInv
  <2>2. process = Nobody \/ phase[process] # "serving"
    BY <2>1, ProcessStep, LifecycleAssumption DEF Still, Spawned, Buried, Moved, Over
  <2> QED
    BY <1>2, <2>2, TruthIs
<1>3. ASSUME job = "unloaded", job' # "unloaded"
      PROVE  Truth' = "not_ready"
  <2>1. process = Nobody /\ \A s \in Servers : phase[s] = "off"
    BY <1>3, LifecycleAssumption DEF LifeInv, JobInv
  <2>2. UNCHANGED phase
    BY <2>1, ProcessStep, LifecycleAssumption DEF Still, Spawned, Buried, Moved
  <2> QED
    BY <1>1, <1>3, <2>1, <2>2
<1>4. ASSUME NEW s \in Servers, phase[s] \notin {"serving", "closing"}, phase'[s] \in {"serving", "closing"}
      PROVE  Truth' = "running"
  <2>1. CASE Moved
    BY <1>1, <1>4, <2>1 DEF Moved, LifeInv, TypeOK
  <2> QED
    BY <1>4, <2>1, ProcessStep DEF Still, Spawned, Buried, LifeInv, TypeOK
<1>5. ASSUME NEW s \in Servers, s \in listening, s \notin listening'
      PROVE  Truth' = "not_ready"
  <2>1. s = process /\ phase[s] \notin {"off"} \cup Over /\ phase'[s] # "serving"
    BY <1>5 DEF LifeInv, JobInv, PhasePath, Over
  <2>2. phase' # phase
    BY <1>5 DEF LifeInv, PhasePath
  <2>3. CASE Moved
    <3>1. process' = process /\ \A t \in Servers : phase'[t] # "serving"
      BY <2>1, <2>3 DEF Moved, LifeInv, JobInv
    <3>2. job' # "unloaded"
      BY <2>1, <3>1, LifecycleAssumption DEF LifeInv, JobInv
    <3> QED
      BY <1>1, <3>1, <3>2
  <2> QED
    BY <2>1, <2>2, <2>3, ProcessStep, LifecycleAssumption DEF Still, Spawned, Buried
<1> QED
  BY <1>2, <1>3, <1>4, <1>5

(* What a status command's own step makes of it; o is what it says at its end. *)
LEMMA StatusOwnStep ==
    ASSUME Base, StatusInv, Witness, NEW c \in Commands, command[c].action = "status",
           Proceed(c) \/ GiveUp(c)
    PROVE  \/ \E o \in witnessed'[c] : Ended(c, o)
           \/ StatusKnows(c)' /\ command'[c].action = "status"
<1> USE DEF Base, At
<1>1. /\ StatusKnows(c) /\ command[c] \in CommandStates
      /\ witnessed'[c] = witnessed[c] \cup {Truth, Truth'}
  BY DEF StatusInv, Witness, Typed, CommandsTyped
<1>2. command[c].at \in {"print", "connect", "receive"} /\ ~command[c].polling
  BY <1>1 DEF StatusKnows
<1>3. CASE Loaded(c)
  <2>1. UNCHANGED job
    BY <1>3 DEF Loaded, jobVars
  <2>2. CASE command[c].tool = "skill" /\ Ended(c, IF job # "unloaded" THEN "not_ready" ELSE "stopped")
    BY <1>1, <1>2, <1>3, <2>2, TruthIs, LoadedStep DEF StatusKnows
  <2>3. CASE /\ command'[c].loaded = (job # "unloaded")
             /\ command'[c].polling = command[c].polling /\ command'[c].peer = command[c].peer
             /\ command[c].tool = "lifecycle" /\ Moves(c, "connect")
    BY <1>1, <1>2, <2>1, <2>3, TruthIs DEF StatusKnows, Moves
  <2> QED
    BY <1>1, <1>3, <2>2, <2>3, LoadedStep DEF StatusKnows
<1>4. ASSUME Unanswered(c), UNCHANGED job, At(c, "connect") \/ At(c, "receive"),
             "not_ready" \in witnessed'[c] \/ job = "unloaded"
      PROVE  \/ \E o \in witnessed'[c] : Ended(c, o)
             \/ StatusKnows(c)' /\ command'[c].action = "status"
  <2>1. CASE command[c].tool = "skill"
    BY <1>1, <1>2, <1>4, <2>1, UnansweredStep DEF StatusKnows, Moves, Kept
  <2>2. CASE command[c].tool = "lifecycle"
    BY <1>1, <1>2, <1>4, <2>2, UnansweredStep DEF StatusKnows
  <2> QED
    BY <1>1, <2>1, <2>2 DEF StatusKnows
<1>5. CASE Connect(c)
  <2>1. UNCHANGED <<job, phase, process, listening>>
    BY <1>5 DEF Connect, vars, jobVars
  <2>2. CASE path \in listening /\ Moves(c, "receive") /\ Kept(c) /\ command'[c].peer = path
    <3>1. path \in Servers /\ phase[path] \notin {"off", "closing"}
      BY <2>2, PathsAssumption DEF LifeInv, TypeOK, PhasePath
    <3>2. phase[path] = "serving" => Truth = "running"
      BY <3>1, TruthIs
    <3> QED
      BY <1>1, <1>2, <1>5, <2>1, <2>2, <3>1, <3>2 DEF Connect, StatusKnows, Moves, Kept
  <2>3. CASE path \notin listening /\ Unanswered(c)
    BY <1>1, <1>4, <1>5, <2>1, <2>3, TruthIs DEF Connect
  <2> QED
    BY <1>5, <2>2, <2>3, ConnectStep
<1>6. CASE Receive(c)
  <2>1. UNCHANGED job
    BY <1>6 DEF Receive, jobVars
  <2>2. ASSUME phase[command[c].peer] \in {"serving", "closing"}, Answers(c)
        PROVE  \E o \in witnessed'[c] : Ended(c, o)
    BY <1>1, <1>2, <1>6, <2>2, EndsStep DEF Receive, Answers, StatusKnows
  <2>3. ASSUME command[c].peer \notin listening
        PROVE  "not_ready" \in witnessed'[c]
    BY <1>1, <1>6, <2>3 DEF Receive, StatusKnows
  <2> QED
    BY <1>4, <1>6, <2>1, <2>2, <2>3 DEF Receive
<1> QED
  BY <1>2, <1>3, <1>5, <1>6
     DEF Proceed, GiveUp, CheckArtifact, Operate, BootoutReturns, Settle

(* No step makes a status command know something that has not been so. *)
LEMMA StatusStep ==
    ASSUME Base, LifeInv', StatusInv, [LifecycleNext]_lifeVars
    PROVE  StatusInv'
<1> SUFFICES ASSUME NEW c \in Commands, command'[c].action = "status"
             PROVE  StatusKnows(c)'
  BY DEF StatusInv
<1> USE DEF Base
<1>1. CASE UNCHANGED lifeVars
  BY <1>1 DEF StatusInv, StatusKnows, lifeVars, vars, jobVars, At
<1>2. ASSUME command'[c].at = command[c].at, command'[c].tool = command[c].tool,
             command'[c].loaded = command[c].loaded, command'[c].polling = command[c].polling,
             command'[c].peer = command[c].peer, command[c].action = "status", Witness
      PROVE  StatusKnows(c)'
  <2>1. StatusKnows(c)
    BY <1>2 DEF StatusInv
  <2>2. witnessed'[c] = witnessed[c] \cup {Truth, Truth'}
    BY <1>2 DEF Witness
  <2>3. At(c, "receive") => command[c].peer \in Servers
    BY <2>1 DEF StatusKnows
  <2>4. ASSUME command[c].peer \in Servers, phase[command[c].peer] = "off" => process # command[c].peer
        PROVE  phase'[command[c].peer] = "off" => process' # command[c].peer
    <3>1. 0 \in 0..newest /\ serves[command[c].peer] >= 0
      BY <2>4, LifecycleAssumption DEF GraphInv, Typed
    <3> QED
      BY <2>4, <3>1, FreshStays
  <2> QED
    BY <1>2, <2>1, <2>2, <2>3, <2>4, TruthStep DEF StatusKnows, At
<1>3. CASE Witness /\ (Proceed(c) \/ GiveUp(c))
  BY <1>3, OwnStep, StatusOwnStep DEF Moves, Ended
<1>4. ASSUME Witness, NEW kind \in Kinds, BeginCommand(kind)
      PROVE  StatusKnows(c)'
  <2>1. CASE Begun(c, kind)
    <3>1. kind \in AllKinds
      BY LifecycleAssumption
    <3> QED
      BY <2>1, <3>1 DEF Begun, StatusKnows, At, AllKinds
  <2>2. CASE Marked(c)
    BY <1>2, <1>4, <2>2, MarkedStep
  <2> QED
    BY <1>4, <2>1, <2>2, BeginStep
<1> QED
  BY <1>1, <1>2, <1>3, <1>4, CommandStep DEF LifecycleNext

(* What status answers (StatusWasTrue), lifecycle and skill alike, was the state *)
(* of the service at some moment while it ran: no reading of the job and of the  *)
(* socket, taken apart, add up to a state that never was.                        *)
THEOREM StatusesWereTrue == LifecycleSpec => StatusWasTrue
<1>1. LifecycleInit => StatusInv
  BY DEF LifecycleInit, StatusInv, NotRun
<1>2. Base /\ LifeInv' /\ StatusInv /\ [LifecycleNext]_lifeVars => StatusInv'
  BY StatusStep
<1>3. ASSUME Base, StatusInv, [LifecycleNext]_lifeVars, NEW c \in Commands,
             Finishes(c), command[c].action = "status"
      PROVE  command'[c].outcome \in witnessed'[c]
  <2>1. Witness
    BY <1>3 DEF LifecycleNext, lifeVars, Finishes
  <2>2. CASE Proceed(c) \/ GiveUp(c)
    BY <1>3, <2>1, <2>2, StatusOwnStep DEF Ended, StatusKnows, Finishes, At
  <2>3. ASSUME NEW kind \in Kinds, BeginCommand(kind)
        PROVE  FALSE
    BY <1>3, <2>3, BeginStep, MarkedStep DEF Base, Begun, Finishes
  <2> QED
    BY <1>3, <2>2, <2>3, CommandStep DEF Finishes, Base
<1>4. Base /\ StatusInv /\ [LifecycleNext]_lifeVars =>
          [\A c \in Commands : Finishes(c) /\ command[c].action = "status"
               => command'[c].outcome \in witnessed'[c]]_lifeVars
  BY <1>3
<1> QED
  BY <1>1, <1>2, <1>4, BaseInvariant, PTL DEF LifecycleSpec, StatusWasTrue, Base
=============================================================================
