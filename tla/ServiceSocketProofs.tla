------------------------- MODULE ServiceSocketProofs -------------------------
(* Proofs about ServiceSocket for any set of processes.  The theorems about      *)
(* reachability, refusals and closing assume MaxBusy = 1, starts and closes that *)
(* do not overlap, and MayFill = {}, backlogs that are not full; the SocketRace  *)
(* configuration shows why starts must not.                                      *)
EXTENDS ServiceSocket, FiniteSetTheorems, TLAPS

(* At most one process starts or closes. *)
OneBusy == \A s, t \in Servers : s \in Busy /\ t \in Busy => s = t

(* What listens, and what the path names, by the phase of a process. *)
PhasePath ==
    \A s \in Servers :
        /\ s \in listening <=> phase[s] \in {"chmod", "identify", "started", "serving"}
        /\ phase[s] \in {"listen", "chmod", "identify", "started", "serving"} => path = s
        /\ phase[s] = "stat" => path # NoFile
        /\ phase[s] = "probe" => path \notin {NoFile, Other}
        /\ phase[s] = "unlink" => path \notin {NoFile, Other} \cup listening
        /\ phase[s] = "bind" => path = NoFile
        /\ phase[s] = "closing" => path \in {s, NoFile}
        /\ phase[s] \in {"closeStat", "closeUnlink"} => path = s
        /\ phase[s] \in {"started", "serving"} \cup Closing => identity[s] = s

SerialInv == TypeOK /\ OneBusy /\ PhasePath

(* What is not this user's socket keeps every process from getting past stat().  *)
OtherInv ==
    path = Other => \A s \in Servers : phase[s] \in {"off", "exists", "stat"} \cup Over

-----------------------------------------------------------------------------
(* The initial values and every step are of the declared types. *)
LEMMA TypeStep == (Init => TypeOK) /\ (TypeOK /\ [Next]_vars => TypeOK')
<1> USE PathsAssumption
<1>1. Init => TypeOK
  BY DEF Init, TypeOK, Sockets
<1>2. TypeOK /\ [Next]_vars => TypeOK'
  <2> SUFFICES ASSUME TypeOK, [Next]_vars PROVE TypeOK'
    OBVIOUS
  <2> USE DEF TypeOK, Sockets, Goto, Exit, Starting, Closing, Over
  <2>1. CASE UNCHANGED vars
    BY <2>1 DEF vars
  <2>2. ASSUME NEW s \in Servers, Begin(s) \/ Exists(s) \/ Stat(s) \/ Probe(s) \/ Unlink(s)
        PROVE  TypeOK'
    BY <2>2 DEF Begin, Exists, Stat, Probe, Unlink
  <2>3. ASSUME NEW s \in Servers, Bind(s) \/ Listen(s) \/ Chmod(s) \/ Identify(s) \/ InstallHandler(s)
        PROVE  TypeOK'
    BY <2>3 DEF Bind, Listen, Chmod, Identify, InstallHandler
  <2>4. ASSUME NEW s \in Servers,
               Terminate(s) \/ CloseExists(s) \/ CloseStat(s) \/ CloseUnlink(s) \/ Die(s)
        PROVE  TypeOK'
    BY <2>4 DEF Terminate, CloseExists, CloseStat, CloseUnlink, Die
  <2> QED
    BY <2>1, <2>2, <2>3, <2>4 DEF Next, ServerStep
<1> QED
  BY <1>1, <1>2

(* The state variables of the socket protocol stay in their sets (TypeOK), with *)
(* any number of processes starting and closing at once.                        *)
THEOREM TypeCorrect == Spec => []TypeOK
BY TypeStep, PTL DEF Spec

(* Whatever processes overlap, a start never unlinks what is not this user's     *)
(* socket (OtherKept): _prepare_socket_path raises before it probes.             *)
THEOREM OthersKept == Spec => OtherKept
<1>1. Init => OtherInv
  BY DEF Init, OtherInv
<1>2. TypeOK /\ OtherInv /\ [Next]_vars => OtherInv' /\ (path = Other => path' = Other)
  <2> SUFFICES ASSUME TypeOK, OtherInv, [Next]_vars
               PROVE  OtherInv' /\ (path = Other => path' = Other)
    OBVIOUS
  <2> USE PathsAssumption DEF TypeOK, OtherInv, Goto, Exit, Starting, Closing, Over, Sockets
  <2>1. CASE UNCHANGED vars
    BY <2>1 DEF vars
  <2>2. ASSUME NEW s \in Servers, Begin(s) \/ Exists(s) \/ Stat(s) \/ Probe(s) \/ Unlink(s)
        PROVE  OtherInv' /\ (path = Other => path' = Other)
    BY <2>2 DEF Begin, Exists, Stat, Probe, Unlink
  <2>3. ASSUME NEW s \in Servers, Bind(s) \/ Listen(s) \/ Chmod(s) \/ Identify(s) \/ InstallHandler(s)
        PROVE  OtherInv' /\ (path = Other => path' = Other)
    BY <2>3 DEF Bind, Listen, Chmod, Identify, InstallHandler
  <2>4. ASSUME NEW s \in Servers,
               Terminate(s) \/ CloseExists(s) \/ CloseStat(s) \/ CloseUnlink(s) \/ Die(s)
        PROVE  OtherInv' /\ (path = Other => path' = Other)
    BY <2>4 DEF Terminate, CloseExists, CloseStat, CloseUnlink, Die
  <2> QED
    BY <2>1, <2>2, <2>3, <2>4 DEF Next, ServerStep
<1>3. TypeOK /\ OtherInv /\ [Next]_vars => [path = Other => path' = Other]_vars
  BY <1>2
<1> QED
  BY <1>1, <1>2, <1>3, TypeCorrect, PTL DEF Spec, OtherKept

-----------------------------------------------------------------------------
(* Serial starts and closes                                                     *)

(* With MaxBusy = 1, what may begin or be closed begins when nothing is busy. *)
LEMMA NothingBusy ==
    ASSUME MaxBusy = 1, IsFiniteSet(Servers), Cardinality(Busy) < MaxBusy
    PROVE  Busy = {}
<1>1. IsFiniteSet(Busy)
  BY FS_Subset DEF Busy
<1> QED
  BY <1>1, FS_CardinalityType, FS_EmptySet

(* One process at a time starts or closes, initially and after every step. *)
LEMMA OneBusyStep ==
    ASSUME MaxBusy = 1, IsFiniteSet(Servers), TypeOK, OneBusy, [Next]_vars
    PROVE  OneBusy'
<1> USE DEF TypeOK, OneBusy, Busy, Goto, Exit, Starting, Closing, Over
<1>1. CASE UNCHANGED vars
  BY <1>1 DEF vars
<1>2. ASSUME NEW s \in Servers, Begin(s) \/ Terminate(s)
      PROVE  OneBusy'
  <2>1. Busy = {}
    BY <1>2, NothingBusy DEF Begin, Terminate
  <2> QED
    BY <1>2, <2>1 DEF Begin, Terminate
<1>3. ASSUME NEW s \in Servers, Exists(s) \/ Stat(s) \/ Probe(s) \/ Unlink(s) \/ Bind(s) \/ Listen(s)
      PROVE  OneBusy'
  BY <1>3 DEF Exists, Stat, Probe, Unlink, Bind, Listen
<1>4. ASSUME NEW s \in Servers, Chmod(s) \/ Identify(s) \/ InstallHandler(s) \/ CloseExists(s)
                                \/ CloseStat(s) \/ CloseUnlink(s) \/ Die(s)
      PROVE  OneBusy'
  BY <1>4 DEF Chmod, Identify, InstallHandler, CloseExists, CloseStat, CloseUnlink, Die
<1> QED
  BY <1>1, <1>2, <1>3, <1>4 DEF Next, ServerStep

(* What a process knows of the path stays true while others stand still or die. *)
LEMMA PhasePathStep ==
    ASSUME SerialInv, [Next]_vars,
           \A s \in Servers : Terminate(s) => Busy = {},
           \A s \in Servers : Probe(s) => path \notin listening \cap MayFill
    PROVE  PhasePath'
<1> USE PathsAssumption DEF SerialInv, TypeOK, OneBusy, PhasePath, Busy, Goto, Exit,
                            Starting, Closing, Over, Sockets
<1>1. CASE UNCHANGED vars
  BY <1>1 DEF vars
<1>2. ASSUME NEW s \in Servers, Begin(s)
      PROVE  PhasePath'
  BY <1>2 DEF Begin
<1>3. ASSUME NEW s \in Servers, Exists(s)
      PROVE  PhasePath'
  BY <1>3 DEF Exists
<1>4. ASSUME NEW s \in Servers, Stat(s)
      PROVE  PhasePath'
  BY <1>4 DEF Stat
<1>5. ASSUME NEW s \in Servers, Probe(s)
      PROVE  PhasePath'
  BY <1>5 DEF Probe
<1>6. ASSUME NEW s \in Servers, Unlink(s)
      PROVE  PhasePath'
  BY <1>6 DEF Unlink
<1>7. ASSUME NEW s \in Servers, Bind(s)
      PROVE  PhasePath'
  BY <1>7 DEF Bind
<1>8. ASSUME NEW s \in Servers, Listen(s) \/ Chmod(s)
      PROVE  PhasePath'
  BY <1>8 DEF Listen, Chmod
<1>9. ASSUME NEW s \in Servers, Identify(s) \/ InstallHandler(s)
      PROVE  PhasePath'
  BY <1>9 DEF Identify, InstallHandler
<1>10. ASSUME NEW s \in Servers, Terminate(s)
       PROVE  PhasePath'
  <2>1. Busy = {}
    BY <1>10
  <2> QED
    BY <1>10, <2>1 DEF Terminate
<1>11. ASSUME NEW s \in Servers, CloseExists(s) \/ CloseStat(s)
       PROVE  PhasePath'
  BY <1>11 DEF CloseExists, CloseStat
<1>12. ASSUME NEW s \in Servers, CloseUnlink(s)
       PROVE  PhasePath'
  BY <1>12 DEF CloseUnlink
<1>13. ASSUME NEW s \in Servers, Die(s)
       PROVE  PhasePath'
  BY <1>13 DEF Die
<1> QED
  BY <1>1, <1>2, <1>3, <1>4, <1>5, <1>6, <1>7, <1>8, <1>9, <1>10, <1>11, <1>12, <1>13
     DEF Next, ServerStep

(* The invariant of serial starts and closes. *)
LEMMA Serial ==
    ASSUME MaxBusy = 1, IsFiniteSet(Servers), MayFill = {}
    PROVE  Spec => []SerialInv
<1>1. Init => OneBusy /\ PhasePath
  BY PathsAssumption DEF Init, OneBusy, PhasePath, Busy, Starting, Closing
<1>2. Init => SerialInv
  BY <1>1, TypeStep DEF SerialInv
<1>3. \A s \in Servers : Terminate(s) => Busy = {}
  BY NothingBusy DEF Terminate
<1>4. SerialInv /\ [Next]_vars => SerialInv'
  BY <1>3, TypeStep, OneBusyStep, PhasePathStep DEF SerialInv
<1> QED
  BY <1>2, <1>4, PTL DEF Spec

(* A service that is up is what the socket path names and accepts connections    *)
(* (ServiceReachable), so two are never up at once.                              *)
THEOREM Reachable ==
    ASSUME MaxBusy = 1, IsFiniteSet(Servers), MayFill = {}
    PROVE  Spec => []ServiceReachable
<1>1. SerialInv => ServiceReachable
  BY DEF SerialInv, PhasePath, ServiceReachable
<1> QED
  BY <1>1, Serial, PTL

(* What RefusalJustified and SocketRemoved say of one step of process s. *)
Justified(s) ==
    phase[s] # "refused" /\ phase'[s] = "refused" =>
        path = Other \/ \E t \in Servers : phase[t] = "serving" /\ path = t
Removed(s) ==
    phase[s] \in Closing /\ phase'[s] \in {"ended", "failed"} => phase'[s] = "ended" /\ path' = NoFile

(* No step refuses a start without a reason. *)
LEMMA JustifiedStep ==
    ASSUME SerialInv, Next, NEW s \in Servers
    PROVE  Justified(s)
<1> SUFFICES ASSUME phase[s] # "refused", phase'[s] = "refused"
             PROVE  path = Other \/ \E t \in Servers : phase[t] = "serving" /\ path = t
  BY DEF Justified
<1> USE DEF SerialInv, TypeOK, Goto, Exit
<1>1. Stat(s) \/ Probe(s) \/ Unlink(s) \/ Bind(s)
  BY DEF Next, ServerStep, Begin, Exists, Stat, Probe, Unlink, Bind, Listen, Chmod, Identify,
         InstallHandler, Terminate, CloseExists, CloseStat, CloseUnlink, Die
<1>2. CASE Stat(s)
  BY <1>2 DEF Stat, PhasePath
<1>3. CASE Probe(s)
  <2>1. path \in listening /\ path \in Servers /\ phase[s] = "probe"
    BY <1>3 DEF Probe
  <2>2. phase[path] \in {"chmod", "identify", "started", "serving"}
    BY <2>1 DEF PhasePath
  <2>3. phase[path] \notin Starting
    BY <2>1, <2>2 DEF OneBusy, Busy, Starting, Closing
  <2> QED
    BY <2>1, <2>2, <2>3 DEF Starting
<1>4. CASE Unlink(s) \/ Bind(s)
  BY <1>4 DEF Unlink, Bind, PhasePath
<1> QED
  BY <1>1, <1>2, <1>3, <1>4

(* No step of a closing process ends it with its socket left. *)
LEMMA RemovedStep ==
    ASSUME SerialInv, Next, NEW s \in Servers
    PROVE  Removed(s)
<1> SUFFICES ASSUME phase[s] \in Closing, phase'[s] \in {"ended", "failed"}
             PROVE  phase'[s] = "ended" /\ path' = NoFile
  BY DEF Removed
<1> USE PathsAssumption DEF SerialInv, TypeOK, Goto, Exit, Closing
<1>1. CloseExists(s) \/ CloseStat(s) \/ CloseUnlink(s)
  BY DEF Next, ServerStep, Begin, Exists, Stat, Probe, Unlink, Bind, Listen, Chmod, Identify,
         InstallHandler, Terminate, CloseExists, CloseStat, CloseUnlink, Die
<1> QED
  BY <1>1 DEF CloseExists, CloseStat, CloseUnlink, PhasePath

(* _prepare_socket_path refuses a start only for a foreign file or a service     *)
(* that is up (RefusalJustified): a killed one's leftover never stops a start.   *)
THEOREM RefusalsJustified ==
    ASSUME MaxBusy = 1, IsFiniteSet(Servers), MayFill = {}
    PROVE  Spec => RefusalJustified
<1>1. SerialInv /\ [Next]_vars => [\A s \in Servers : Justified(s)]_vars
  BY JustifiedStep
<1> QED
  BY <1>1, Serial, PTL DEF Spec, RefusalJustified, Justified

(* close() after SIGTERM ends in order with nothing left at the path             *)
(* (SocketRemoved): exists, stat and unlink find the closing process's socket.   *)
THEOREM SocketsRemoved ==
    ASSUME MaxBusy = 1, IsFiniteSet(Servers), MayFill = {}
    PROVE  Spec => SocketRemoved
<1>1. SerialInv /\ [Next]_vars => [\A s \in Servers : Removed(s)]_vars
  BY RemovedStep
<1> QED
  BY <1>1, Serial, PTL DEF Spec, SocketRemoved, Removed

(* What ActiveSocketKept says of one step about process s. *)
PathKept(s) == phase[s] = "serving" /\ phase'[s] = "serving" /\ path = s => path' = s

(* No step takes the path from a service that goes on serving. *)
LEMMA PathKeptStep ==
    ASSUME SerialInv, Next, NEW s \in Servers
    PROVE  PathKept(s)
<1> SUFFICES ASSUME phase[s] = "serving", phase'[s] = "serving", path = s, path' # s
             PROVE  FALSE
  BY DEF PathKept
<1> USE PathsAssumption DEF SerialInv, TypeOK, PhasePath
<1>1. PICK t \in Servers : Unlink(t) \/ Bind(t) \/ Terminate(t) \/ CloseUnlink(t)
  BY DEF Next, ServerStep, Begin, Exists, Stat, Probe, Unlink, Bind, Listen, Chmod, Identify,
         InstallHandler, Terminate, CloseExists, CloseStat, CloseUnlink, Die
<1>2. s \in listening
  OBVIOUS
<1>3. CASE Unlink(t)
  BY <1>2, <1>3 DEF Unlink
<1>4. CASE Bind(t)
  BY <1>4 DEF Bind
<1>5. CASE Terminate(t)
  BY <1>5 DEF Terminate, Exit, Goto
<1>6. CASE CloseUnlink(t)
  BY <1>6 DEF CloseUnlink
<1> QED
  BY <1>1, <1>3, <1>4, <1>5, <1>6

(* Nobody takes the path from a service that is up (ActiveSocketKept): what      *)
(* _prepare_socket_path unlinks has been found not to listen.                    *)
THEOREM ActiveKept ==
    ASSUME MaxBusy = 1, IsFiniteSet(Servers), MayFill = {}
    PROVE  Spec => ActiveSocketKept
<1>1. SerialInv /\ [Next]_vars => [\A s \in Servers : PathKept(s)]_vars
  BY PathKeptStep
<1> QED
  BY <1>1, Serial, PTL DEF Spec, ActiveSocketKept, PathKept
=============================================================================
