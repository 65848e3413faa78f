------------------------------ MODULE Lifecycle ------------------------------
(* The service as a launchd job, and the commands that start, stop, reload and   *)
(* query it: run_launchd_action of rpc/launchd.py ("lifecycle" commands) and     *)
(* skills/query-graph-api/scripts/service.py ("skill" commands).  Commands       *)
(* overlap each other, publications, restarts by launchd and kills; every        *)
(* launchctl call and every half of a probe is a step of its own.  The processes *)
(* launchd runs are those of ServiceSocket, step by step.                        *)
EXTENDS ServiceSocket

CONSTANTS Commands,      \* commands, each run once
          Kinds,         \* the kinds of commands that are run: <<tool, action>>
          Nobody,        \* no process
          SleepSuffices, \* reload's pause is enough for the old process to stop listening
          MaxOverlap,    \* bound: commands under way at once
          MaxKills,      \* bound: processes killed from outside
          MaxVersion     \* bound: the last version published

AllKinds == ({"lifecycle"} \X {"start", "stop", "reload", "status"})
                \cup ({"skill"} \X {"start", "stop", "status"})

ASSUME LifecycleAssumption ==
    /\ Kinds \subseteq AllKinds
    /\ Nobody \notin Servers /\ Servers # {}
    /\ SleepSuffices \in BOOLEAN
    /\ MaxOverlap \in Nat /\ MaxKills \in Nat /\ MaxVersion \in Nat \ {0}

VARIABLES
    job,       \* the job in launchd: "unloaded", "loaded", "removing"
    process,   \* the process launchd runs for it
    owed,      \* launchd is to start a process for the job
    doomed,    \* processes launchd has told to end
    artifact,  \* the version the current-artifact path holds; 0 while it names nothing
    newest,    \* the version published last
    serves,    \* serves[s]: the version server process s has loaded
    command,   \* command[c]: how far command c is and what it has read
    witnessed, \* history: the states the service had while c, a status, ran
    kills

jobVars   == <<job, process, owed, doomed, serves>>
graphVars == <<artifact, newest>>
lifeVars  == <<vars, jobVars, graphVars, command, witnessed, kills>>

NotRun == [at |-> "idle", tool |-> "none", action |-> "none", loaded |-> FALSE, polling |-> FALSE,
           peer |-> Nobody, since |-> 0, overlapped |-> FALSE, outcome |-> "none"]

(* nothing is loaded yet, or a service is up *)
LifecycleInit ==
    /\ artifact = 1 /\ newest = 1 /\ owed = FALSE /\ doomed = {} /\ kills = 0
    /\ command = [c \in Commands |-> NotRun]
    /\ witnessed = [c \in Commands |-> {}]
    /\ \/ Init /\ job = "unloaded" /\ process = Nobody /\ serves = [s \in Servers |-> 0]
       \/ LET s == CHOOSE s \in Servers : TRUE IN
              /\ job = "loaded" /\ process = s
              /\ path = s /\ listening = {s}
              /\ phase = [t \in Servers |-> IF t = s THEN "serving" ELSE "off"]
              /\ identity = [t \in Servers |-> IF t = s THEN s ELSE NoFile]
              /\ serves = [t \in Servers |-> IF t = s THEN 1 ELSE 0]

Alive == process # Nobody /\ phase[process] \notin Over
Answering == \E s \in Servers : phase[s] = "serving" /\ path = s

-----------------------------------------------------------------------------
(* launchd.  It runs one process of the job at a time: the next one is started   *)
(* when the last one is gone.                                                    *)

(* the names of processes that nothing refers to any more; which one the next     *)
(* process gets means nothing                                                     *)
Unused == {s \in Servers : phase[s] = "off" /\ path # s /\ \A c \in Commands : command[c].peer # s}

Spawn ==
    /\ job = "loaded" /\ owed /\ process = Nobody /\ Unused # {}
    /\ process' = CHOOSE s \in Unused : TRUE
    /\ owed' = FALSE
    /\ UNCHANGED <<vars, job, doomed, serves, graphVars, command, kills>>

(* KeepAlive.SuccessfulExit = FALSE: a process is replaced unless it closed in   *)
(* order.  A job that is being removed is gone with its process.                 *)
Reap ==
    /\ process # Nobody /\ ~Alive
    /\ process' = Nobody
    /\ job' = IF job = "removing" THEN "unloaded" ELSE job
    /\ owed' = (job = "loaded" /\ (owed \/ phase[process] # "ended"))
    /\ doomed' = doomed \ {process}
    /\ phase' = [phase EXCEPT ![process] = "off"]
    /\ identity' = [identity EXCEPT ![process] = NoFile]
    /\ serves' = [serves EXCEPT ![process] = 0]
    /\ UNCHANGED <<path, listening, graphVars, command, kills>>

End(s) == Terminate(s) \/ Die(s) \/ (phase[s] = "off" /\ Exit(s, "died") /\ UNCHANGED <<path, identity>>)

(* SIGTERM, or SIGKILL when that takes too long *)
Obey ==
    /\ \E s \in doomed : End(s)
    /\ UNCHANGED <<jobVars, graphVars, command, kills>>

(* a signal from elsewhere, or a crash *)
Kill ==
    /\ kills < MaxKills /\ kills' = kills + 1
    /\ process # Nobody /\ End(process)
    /\ UNCHANGED <<jobVars, graphVars, command>>

-----------------------------------------------------------------------------
(* The server process: _run of rpc/server.py loads the artifact, then takes the  *)
(* socket path.                                                                  *)

LoadService ==
    /\ process # Nobody /\ phase[process] = "off"
    /\ IF artifact = 0
       THEN /\ Exit(process, "failed")
            /\ UNCHANGED <<path, identity, serves>>
       ELSE /\ Begin(process)
            /\ serves' = [serves EXCEPT ![process] = artifact]
    /\ UNCHANGED <<job, process, owed, doomed, graphVars, command, kills>>

StartStep(s) == \/ Exists(s) \/ Stat(s) \/ Probe(s) \/ Unlink(s) \/ Bind(s)
                \/ Listen(s) \/ Chmod(s) \/ Identify(s) \/ InstallHandler(s)
CloseStep(s) == CloseExists(s) \/ CloseStat(s) \/ CloseUnlink(s)

ServerMoves ==
    /\ \E s \in Servers : StartStep(s) \/ CloseStep(s)
    /\ UNCHANGED <<jobVars, graphVars, command, kills>>

(* The two renames of a publication; ArtifactStore has the whole of it. *)
MoveAway ==
    /\ artifact # 0 /\ newest < MaxVersion
    /\ artifact' = 0
    /\ UNCHANGED <<newest, vars, jobVars, command, kills>>
Promote ==
    /\ artifact = 0
    /\ newest' = newest + 1 /\ artifact' = newest + 1
    /\ UNCHANGED <<vars, jobVars, command, kills>>

-----------------------------------------------------------------------------
(* Commands                                                                      *)

Goes(c, r) == command' = [command EXCEPT ![c] = r]
Ends(c, outcome) == Goes(c, [NotRun EXCEPT !.at = "done", !.outcome = outcome])
At(c, label) == command[c].at = label
NotBegun == {c \in Commands : At(c, "idle")}
Underway == {c \in Commands : command[c].at \notin {"idle", "done"}}

(* a skill's start and status probe before they ask launchd *)
BeginCommand(kind) ==
    /\ NotBegun # {} /\ Cardinality(Underway) < MaxOverlap
    /\ command' = [d \in Commands |->
           IF d = CHOOSE c \in NotBegun : TRUE
           THEN [NotRun EXCEPT !.tool = kind[1], !.action = kind[2],
                               !.since = IF kind[2] = "reload" THEN newest ELSE 0,
                               !.at = IF kind[1] = "skill" /\ kind[2] # "stop" THEN "connect" ELSE "print",
                               !.overlapped = (Underway # {})]
           ELSE [command[d] EXCEPT !.overlapped = @ \/ d \in Underway]]
    /\ UNCHANGED <<vars, jobVars, graphVars, kills>>

(* _loaded: launchctl print *)
Loaded(c) ==
    LET r == [command[c] EXCEPT !.loaded = (job # "unloaded")]
    IN  /\ At(c, "print")
        /\ CASE r.action = "stop" /\ ~r.loaded   -> Ends(c, "not_running")
             [] r.action = "reload"              -> Goes(c, [r EXCEPT !.at = "artifact"])
             [] r.action = "status" /\ r.tool = "skill" ->
                    Ends(c, IF r.loaded THEN "not_ready" ELSE "stopped")
             [] r.action \in {"start", "status"} /\ r.tool = "lifecycle" ->
                    Goes(c, [r EXCEPT !.at = "connect"])
             [] OTHER                            -> Goes(c, [r EXCEPT !.at = "operate"])
        /\ UNCHANGED <<vars, jobVars, graphVars, kills>>

(* CurrentArtifactStore.load before anything is started or restarted *)
CheckArtifact(c) ==
    /\ At(c, "artifact")
    /\ IF artifact = 0 THEN Ends(c, "no_artifact") ELSE Goes(c, [command[c] EXCEPT !.at = "operate"])
    /\ UNCHANGED <<vars, jobVars, graphVars, kills>>

(* what a probe without an answer leads to *)
Unanswered(c) ==
    LET r == [command[c] EXCEPT !.peer = Nobody]
    IN  \/ r.polling /\ Goes(c, [r EXCEPT !.at = "connect"])
        \/ ~r.polling /\ r.tool = "skill" /\ Goes(c, [r EXCEPT !.at = "print"])
        \/ /\ ~r.polling /\ r.tool # "skill"
           /\ IF r.action = "status" THEN Ends(c, IF r.loaded THEN "not_ready" ELSE "stopped")
                                     ELSE Goes(c, [r EXCEPT !.at = "artifact"])

(* socket_answers: client.call connects, and waits for a line without a timeout *)
Connect(c) ==
    /\ At(c, "connect")
    /\ IF path \in listening
       THEN Goes(c, [command[c] EXCEPT !.at = "receive", !.peer = path])
       ELSE Unanswered(c)
    /\ UNCHANGED <<vars, jobVars, graphVars, kills>>

Answers(c) == Ends(c, IF command[c].polling THEN "started" ELSE "running")

(* Mutated form: a connection is taken for an answer. *)
ReceiveUnread(c) ==
    /\ At(c, "receive")
    /\ Answers(c)
    /\ UNCHANGED <<vars, jobVars, graphVars, kills>>

(* The process answers once its loop runs.  close() cuts the connections it has   *)
(* registered; one accepted just before may still be answered.                    *)
Receive(c) ==
    LET s == command[c].peer
    IN  /\ At(c, "receive")
        /\ \/ /\ phase[s] \in {"serving", "closing"}
              /\ Answers(c)
           \/ s \notin listening /\ Unanswered(c)
        /\ UNCHANGED <<vars, jobVars, graphVars, kills>>

(* A launchctl operation that does not fit the job's state fails.                 *)
Polls(c, label, victim) ==
    Goes(c, [command[c] EXCEPT !.at = label, !.polling = TRUE, !.loaded = FALSE, !.peer = victim])

(* launchctl bootstrap *)
Load(c) ==
    /\ IF job = "unloaded"
       THEN job' = "loaded" /\ owed' = TRUE
            /\ Polls(c, IF command[c].action = "reload" THEN "settle" ELSE "connect", Nobody)
       ELSE Ends(c, "blocked") /\ UNCHANGED <<job, owed>>
    /\ UNCHANGED <<process, doomed>>

(* launchctl kickstart *)
Kick(c) ==
    /\ IF job = "loaded"
       THEN owed' = (owed \/ ~Alive) /\ Polls(c, "connect", Nobody)
       ELSE Ends(c, "blocked") /\ UNCHANGED owed
    /\ UNCHANGED <<job, process, doomed>>

(* launchctl kickstart -k *)
Restart(c) ==
    /\ IF job = "loaded"
       THEN /\ owed' = TRUE
            /\ doomed' = doomed \cup ({process} \ {Nobody})
            /\ Polls(c, "settle", process)
       ELSE Ends(c, "blocked") /\ UNCHANGED <<owed, doomed>>
    /\ UNCHANGED <<job, process>>

(* Mutated form: the job is gone before its process is. *)
UnloadAtOnce(c) ==
    /\ IF job = "loaded"
       THEN /\ job' = "unloaded" /\ process' = Nobody /\ owed' = FALSE
            /\ doomed' = doomed \cup ({process} \ {Nobody})
            /\ Goes(c, [command[c] EXCEPT !.at = "bootout"])
       ELSE Ends(c, "blocked") /\ UNCHANGED <<job, process, owed, doomed>>

(* launchctl bootout *)
Unload(c) ==
    /\ IF job = "loaded"
       THEN /\ job' = IF process = Nobody THEN "unloaded" ELSE "removing"
            /\ owed' = FALSE
            /\ doomed' = doomed \cup ({process} \ {Nobody})
            /\ Goes(c, [command[c] EXCEPT !.at = "bootout"])
       ELSE Ends(c, "blocked") /\ UNCHANGED <<job, owed, doomed>>
    /\ UNCHANGED process

(* Mutated form: a reload starts the job if it does not run, and no more. *)
OperateWithoutRestart(c) ==
    /\ At(c, "operate")
    /\ \/ command[c].action = "stop" /\ Unload(c)
       \/ command[c].action # "stop" /\ ~command[c].loaded /\ Load(c)
       \/ command[c].action # "stop" /\ command[c].loaded /\ Kick(c)
    /\ UNCHANGED <<vars, serves, graphVars, kills>>

(* Mutated form: a start does not look whether the job is loaded. *)
OperateUnlooked(c) ==
    /\ At(c, "operate")
    /\ \/ command[c].action = "stop" /\ Unload(c)
       \/ command[c].action = "reload" /\ Restart(c)
       \/ command[c].action = "start" /\ Load(c)
    /\ UNCHANGED <<vars, serves, graphVars, kills>>

Operate(c) ==
    /\ At(c, "operate")
    /\ \/ command[c].action = "stop" /\ Unload(c)
       \/ command[c].action # "stop" /\ ~command[c].loaded /\ Load(c)
       \/ command[c].action = "reload" /\ command[c].loaded /\ Restart(c)
       \/ command[c].action = "start" /\ command[c].loaded /\ Kick(c)
    /\ UNCHANGED <<vars, serves, graphVars, kills>>

(* bootout returns when the job is gone *)
BootoutReturns(c) ==
    /\ At(c, "bootout") /\ job # "removing"
    /\ Ends(c, "stopped")
    /\ UNCHANGED <<vars, jobVars, graphVars, kills>>

(* reload sleeps for 0.2 s *)
Settle(c) ==
    /\ At(c, "settle")
    /\ SleepSuffices /\ command[c].peer \in doomed => phase[command[c].peer] \in Closing \cup Over
    /\ Polls(c, "connect", Nobody)
    /\ UNCHANGED <<vars, jobVars, graphVars, kills>>

(* the deadline of a start or reload, between two probes *)
GiveUp(c) ==
    /\ At(c, "connect") /\ command[c].polling
    /\ Ends(c, "not_ready")
    /\ UNCHANGED <<vars, jobVars, graphVars, kills>>

Proceed(c) == \/ Loaded(c) \/ CheckArtifact(c) \/ Connect(c) \/ Receive(c)
              \/ Operate(c) \/ BootoutReturns(c) \/ Settle(c)

-----------------------------------------------------------------------------
(* the state of the service, as status names it *)
Truth == IF Answering THEN "running" ELSE IF job # "unloaded" THEN "not_ready" ELSE "stopped"

Witness == witnessed' = [c \in Commands |->
               IF command[c].action = "status" THEN witnessed[c] \cup {Truth, Truth'} ELSE {}]

LifecycleNext ==
    /\ \/ Spawn \/ Reap \/ Obey \/ Kill
       \/ LoadService \/ ServerMoves
       \/ MoveAway \/ Promote
       \/ \E kind \in Kinds : BeginCommand(kind)
       \/ \E c \in Commands : Proceed(c) \/ GiveUp(c)
    /\ Witness

(* Processes and commands run, launchd does what it owes, a publication goes on   *)
(* to its second rename.  Nobody has to give a command, publish, or kill.         *)
LifecycleFairness ==
    /\ WF_lifeVars(Spawn /\ Witness)
    /\ WF_lifeVars(Reap /\ Witness) /\ WF_lifeVars(Obey /\ Witness)
    /\ WF_lifeVars(LoadService /\ Witness) /\ WF_lifeVars(ServerMoves /\ Witness)
    /\ WF_lifeVars(Promote /\ Witness)
    /\ \A c \in Commands : WF_lifeVars(Proceed(c) /\ Witness)

LifecycleSpec == LifecycleInit /\ [][LifecycleNext]_lifeVars /\ LifecycleFairness

-----------------------------------------------------------------------------
(* Properties.  Those of ServiceSocket that speak of starts and closes that do    *)
(* not overlap are to hold here without a bound on overlaps.                      *)

CommandStates ==
    [at : {"idle", "print", "connect", "receive", "artifact", "operate", "bootout", "settle", "done"},
     tool : {"none", "lifecycle", "skill"}, action : {"none", "start", "stop", "reload", "status"},
     loaded : BOOLEAN, polling : BOOLEAN, peer : Servers \cup {Nobody}, since : 0..MaxVersion,
     overlapped : BOOLEAN,
     outcome : {"none", "running", "started", "stopped", "not_running", "not_ready", "blocked", "no_artifact"}]

(* The variables stay in the sets their comments give. *)
LifecycleTypeOK ==
    /\ TypeOK
    /\ job \in {"unloaded", "loaded", "removing"}
    /\ process \in Servers \cup {Nobody}
    /\ owed \in BOOLEAN
    /\ doomed \subseteq Servers
    /\ artifact \in 0..MaxVersion /\ newest \in 1..MaxVersion /\ kills \in 0..MaxKills
    /\ serves \in [Servers -> 0..MaxVersion]
    /\ command \in [Commands -> CommandStates]
    /\ witnessed \in [Commands -> SUBSET {"running", "not_ready", "stopped"}]

Finishes(c) == command[c].at # "done" /\ command'[c].at = "done"

(* "reload    # after publishing a new artifact": the answer that lets a reload   *)
(* say started is that of a process with the artifact current when it began, or   *)
(* a later one.                                                                   *)
ReloadServesNew ==
    [][\A c \in Commands : Finishes(c) /\ command[c].action = "reload" /\ command'[c].outcome = "started"
           => serves[command[c].peer] >= command[c].since]_lifeVars

(* What status says, from two questions asked at different times, was so at some  *)
(* moment while it ran, whatever else ran.                                        *)
StatusWasTrue ==
    [][\A c \in Commands : Finishes(c) /\ command[c].action = "status"
           => command'[c].outcome \in witnessed'[c]]_lifeVars

(* "invokes only the launchctl operation the job's loaded state requires": one    *)
(* that fails has been overtaken by another command since the state was read.     *)
BlockedOnlyIfOvertaken ==
    [][\A c \in Commands : Finishes(c) /\ command'[c].outcome = "blocked" => command[c].overlapped]_lifeVars

(* "while it is started, launchd restarts it after an unexpected failure": what   *)
(* a killed process leaves behind does not keep the next one from serving.  Only  *)
(* a foreign file does, or a process that was asked to end and ended in order.    *)
LoadedServes ==
    (job = "loaded" /\ path # Other) ~> (Answering \/ job # "loaded" \/ (process = Nobody /\ ~owed))
=============================================================================
