---------------------------- MODULE ServiceSocket ----------------------------
(* How processes of rpc/server.py take, hold and give up the service's socket    *)
(* path: _prepare_socket_path, GraphUnixServer.start, _run and close.  Every     *)
(* system call is a step of its own, so two processes may interleave between the *)
(* look at the path and the unlink, bind or chmod that relies on it.  A process  *)
(* may be killed, or receive SIGTERM, between any two steps.                     *)
EXTENDS Integers, FiniteSets

CONSTANTS Servers,  \* server processes; process s binds one socket, also called s
          Stale,    \* a socket left behind by a process of the past
          Other,    \* a regular file, or a socket of another user
          NoFile,   \* nothing
          MayFill,  \* the sockets whose backlog of connections may be full for a while
          MaxBusy   \* bound: processes starting or closing at once

ASSUME PathsAssumption ==
    /\ Stale \notin {Other, NoFile} /\ Other # NoFile
    /\ Servers \cap {Stale, Other, NoFile} = {}
    /\ MayFill \subseteq Servers
    /\ MaxBusy \in Nat

VARIABLES
    path,      \* what the socket path names
    phase,     \* phase[s]: where process s is
    listening, \* the sockets that accept connections
    identity   \* identity[s]: the socket s takes for its own (device and inode)

vars == <<path, phase, listening, identity>>

Starting == {"exists", "stat", "probe", "unlink", "bind", "listen", "chmod", "identify", "started"}
Closing  == {"closing", "closeStat", "closeUnlink"}
Over     == {"refused", "failed", "ended", "died"}

Init ==
    /\ path \in {NoFile, Stale, Other}
    /\ phase = [s \in Servers |-> "off"]
    /\ listening = {}
    /\ identity = [s \in Servers |-> NoFile]

Busy == {s \in Servers : phase[s] \in Starting \cup Closing}
Goto(s, label) == phase' = [phase EXCEPT ![s] = label]

(* The process of s exits, and its listening socket is closed with it. *)
Exit(s, how) ==
    /\ Goto(s, how)
    /\ listening' = listening \ {s}

-----------------------------------------------------------------------------
(* _prepare_socket_path                                                         *)

Begin(s) ==
    /\ phase[s] = "off"
    /\ Cardinality(Busy) < MaxBusy
    /\ Goto(s, "exists")
    /\ UNCHANGED <<path, listening, identity>>

Exists(s) ==
    /\ phase[s] = "exists"
    /\ Goto(s, IF path = NoFile THEN "bind" ELSE "stat")
    /\ UNCHANGED <<path, listening, identity>>

(* stat() raises when the path has gone; only an own socket may be replaced *)
Stat(s) ==
    /\ phase[s] = "stat"
    /\ Goto(s, IF path \in {NoFile, Other} THEN "refused" ELSE "probe")
    /\ UNCHANGED <<path, listening, identity>>

(* Mutated form: every socket is taken for one of a service that is up. *)
ProbeRefusing(s) ==
    /\ phase[s] = "probe"
    /\ Goto(s, "refused")
    /\ UNCHANGED <<path, listening, identity>>

(* connect() is refused unless the socket listens, and fails if nothing is there; *)
(* of a socket that listens and whose backlog is full it is refused too, or times *)
(* out, and either is taken for nobody listening                                  *)
Probe(s) ==
    /\ phase[s] = "probe"
    /\ \/ path \in listening /\ Goto(s, "refused")
       \/ path \notin listening \ MayFill /\ Goto(s, "unlink")
    /\ UNCHANGED <<path, listening, identity>>

Unlink(s) ==
    /\ phase[s] = "unlink"
    /\ path' = NoFile
    /\ Goto(s, IF path = NoFile THEN "refused" ELSE "bind")
    /\ UNCHANGED <<listening, identity>>

-----------------------------------------------------------------------------
(* GraphUnixServer.start, and _run up to add_signal_handler                     *)

Bind(s) ==
    /\ phase[s] = "bind"
    /\ IF path = NoFile
       THEN path' = s /\ Goto(s, "listen")
       ELSE Goto(s, "refused") /\ UNCHANGED path
    /\ UNCHANGED <<listening, identity>>

(* Mutated form: it listens on the identity that is only read later. *)
ListenOnIdentity(s) ==
    /\ phase[s] = "listen"
    /\ listening' = listening \cup {identity[s]}
    /\ Goto(s, "chmod")
    /\ UNCHANGED <<path, identity>>

Listen(s) ==
    /\ phase[s] = "listen"
    /\ listening' = listening \cup {s}
    /\ Goto(s, "chmod")
    /\ UNCHANGED <<path, identity>>

(* chmod() and stat() of what the path names by now raise when that is nothing *)
Chmod(s) ==
    /\ phase[s] = "chmod"
    /\ IF path = NoFile THEN Exit(s, "failed") ELSE Goto(s, "identify") /\ UNCHANGED listening
    /\ UNCHANGED <<path, identity>>

Identify(s) ==
    /\ phase[s] = "identify"
    /\ IF path = NoFile
       THEN Exit(s, "failed") /\ UNCHANGED identity
       ELSE /\ identity' = [identity EXCEPT ![s] = path]
            /\ Goto(s, "started")
            /\ UNCHANGED listening
    /\ UNCHANGED path

InstallHandler(s) ==
    /\ phase[s] = "started"
    /\ Goto(s, "serving")
    /\ UNCHANGED <<path, listening, identity>>

-----------------------------------------------------------------------------
(* close(); the clients still served meanwhile are GraphServer's subject        *)

(* SIGTERM: the listening socket is closed.  From Python 3.13 on, asyncio also   *)
(* removes the socket then, if the path still names it.                          *)
Terminate(s) ==
    /\ phase[s] = "serving"
    /\ Cardinality(Busy) < MaxBusy
    /\ Exit(s, "closing")
    /\ \/ UNCHANGED path
       \/ path = s /\ path' = NoFile
    /\ UNCHANGED identity

CloseExists(s) ==
    /\ phase[s] = "closing"
    /\ Goto(s, IF path = NoFile THEN "ended" ELSE "closeStat")
    /\ UNCHANGED <<path, listening, identity>>

(* Mutated form: the identity of what is at the path is not compared. *)
CloseStatReversed(s) ==
    /\ phase[s] = "closeStat"
    /\ Goto(s, IF path = NoFile THEN "failed"
               ELSE IF path # identity[s] THEN "closeUnlink" ELSE "ended")
    /\ UNCHANGED <<path, listening, identity>>

CloseStat(s) ==
    /\ phase[s] = "closeStat"
    /\ Goto(s, IF path = NoFile THEN "failed"
               ELSE IF path = identity[s] THEN "closeUnlink" ELSE "ended")
    /\ UNCHANGED <<path, listening, identity>>

CloseUnlink(s) ==
    /\ phase[s] = "closeUnlink"
    /\ path' = NoFile
    /\ Goto(s, IF path = NoFile THEN "failed" ELSE "ended")
    /\ UNCHANGED <<listening, identity>>

(* SIGKILL or a crash at any time; SIGTERM while no handler is installed *)
Die(s) ==
    /\ phase[s] \notin Over \cup {"off"}
    /\ Exit(s, "died")
    /\ UNCHANGED <<path, identity>>

-----------------------------------------------------------------------------
ServerStep(s) ==
    \/ Begin(s) \/ Exists(s) \/ Stat(s) \/ Probe(s) \/ Unlink(s)
    \/ Bind(s) \/ Listen(s) \/ Chmod(s) \/ Identify(s) \/ InstallHandler(s)
    \/ Terminate(s) \/ CloseExists(s) \/ CloseStat(s) \/ CloseUnlink(s) \/ Die(s)

Next == \E s \in Servers : ServerStep(s)

Spec == Init /\ [][Next]_vars

-----------------------------------------------------------------------------
(* Properties.  All but TypeOK and OtherKept are about starts and closes that do *)
(* not overlap, MaxBusy = 1, and backlogs that are not full.  launchd, which runs *)
(* one process of the job at once, makes up for both.                            *)

Sockets == Servers \cup {Stale}

(* The variables stay in the sets their comments give. *)
TypeOK ==
    /\ path \in Sockets \cup {Other, NoFile}
    /\ phase \in [Servers -> {"off", "serving"} \cup Starting \cup Closing \cup Over]
    /\ listening \subseteq Servers
    /\ identity \in [Servers -> Sockets \cup {Other, NoFile}]

(* A service that is up can be reached: the path names its socket, whatever      *)
(* starts, closes and kills of others went before.  So no two are up at once.    *)
ServiceReachable == \A s \in Servers : phase[s] = "serving" => path = s /\ s \in listening

(* A start is refused only because of a file that is not this user's socket, or  *)
(* because a service is up: no leftover of a killed one needs manual removal.    *)
RefusalJustified ==
    [][\A s \in Servers : phase[s] # "refused" /\ phase'[s] = "refused" =>
           path = Other \/ \E t \in Servers : phase[t] = "serving" /\ path = t]_vars

(* "on SIGTERM the service closes and removes its socket", and no other one: a   *)
(* process that was up and has closed in order has left nothing at the path.     *)
SocketRemoved ==
    [][\A s \in Servers : phase[s] \in Closing /\ phase'[s] \in {"ended", "failed"} =>
           phase'[s] = "ended" /\ path' = NoFile]_vars

(* "server replaced a non-socket path" must not happen: what is not this user's  *)
(* socket stays where it is.                                                     *)
OtherKept == [][path = Other => path' = Other]_vars

(* "test_second_singleton_cannot_replace_active_socket": while a service is up,  *)
(* the start of another one does not remove its socket from the path.            *)
ActiveSocketKept ==
    [][\A s \in Servers : phase[s] = "serving" /\ phase'[s] = "serving" /\ path = s => path' = s]_vars
=============================================================================
