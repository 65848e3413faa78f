----------------------------- MODULE ServiceSetup -----------------------------
(* What rpc/launchd.py sets up: the property list of the service home, and the    *)
(* commands that act on the job it names.  launchd knows a job by its label and   *)
(* keeps it as the property list was when it was loaded.  Lifecycle has the       *)
(* commands in detail, with one job that is set up once; here the property list   *)
(* changes, and so may the label, the socket and the artifact.                    *)
EXTENDS Naturals

CONSTANTS Maintainers,    \* who gives commands, each one after another
          Configurations, \* [label, socket, artifact]: what setup may be told
          Loadable        \* the artifacts that load

VARIABLES
    plist,      \* the property list: a configuration, or NotSetUp or Partial
    jobs,       \* the configurations of the jobs that are loaded
    operator,   \* operator[o]: the command o gives, or gave last
    disturbed   \* history: since nothing ran last, a setup changed the list of a job or of a command

setupVars == <<plist, jobs, operator, disturbed>>

Unset    == [label |-> "none", socket |-> "none", artifact |-> "none"]
NotSetUp == [Unset EXCEPT !.label = "not set up"]
Partial  == [Unset EXCEPT !.label = "partial"]
AtRest   == [at |-> "over", action |-> "none", list |-> Unset, loaded |-> FALSE, alone |-> FALSE, outcome |-> "none"]

SetupInit == /\ plist = NotSetUp /\ jobs = {} /\ disturbed = FALSE
             /\ operator = [o \in Maintainers |-> AtRest]
(* where nothing is set up *)
SetupIdle == SetupInit

UnderWay == {o \in Maintainers : operator[o].at # "over"}
Goes(o, changed)  == operator' = [operator EXCEPT ![o] = changed]
Ends(o, outcome)  == Goes(o, [operator[o] EXCEPT !.at = "over", !.list = Unset, !.loaded = FALSE, !.outcome = outcome])
Takes(o, command) ==   \* a command begins; of what others said nothing is known to hold any more
    operator' = [p \in Maintainers |->
        IF p = o THEN [command EXCEPT !.alone = (UnderWay = {})]
        ELSE IF p \in UnderWay THEN [operator[p] EXCEPT !.alone = FALSE] ELSE AtRest]

LoadedAs(label) == {j \in jobs : j.label = label}
(* a service on the socket may answer, or not yet *)
MayAnswer(socket) == \E j \in jobs : j.socket = socket /\ j.artifact \in Loadable

-----------------------------------------------------------------------------
(* setup: the artifact must load; the list is emptied, and then written *)
BeginSetup(o) ==
    /\ o \notin UnderWay
    /\ \E told \in Configurations :
           Takes(o, [AtRest EXCEPT !.action = "setup", !.list = told,
                        !.at = IF told.artifact \in Loadable THEN "empty" ELSE "over"])
    /\ UNCHANGED <<plist, jobs>>
EmptyList(o) ==
    /\ operator[o].at = "empty"
    /\ plist' = Partial
    /\ Goes(o, [operator[o] EXCEPT !.at = "write"])
    /\ UNCHANGED jobs
(* over the text of another setup it leaves what is longer *)
WriteList(o) ==
    /\ operator[o].at = "write"
    /\ \/ plist' = operator[o].list
       \/ plist # Partial /\ plist' = Partial
    /\ Ends(o, "set_up")
    /\ UNCHANGED jobs

(* killed before the list was written *)
KillSetup(o) ==
    /\ operator[o].at = "write"
    /\ Ends(o, "killed")
    /\ UNCHANGED <<plist, jobs>>

-----------------------------------------------------------------------------
(* another command takes from the list what it acts on; half a list does not parse *)
BeginAction(o, action) ==
    /\ o \notin UnderWay
    /\ Takes(o, [AtRest EXCEPT !.action = action, !.list = plist,
                    !.at = IF plist \in {NotSetUp, Partial} THEN "over" ELSE "print"])
    /\ UNCHANGED <<plist, jobs>>

(* Mutated form: the job asked for is the one with the default label. *)
AskDefaultLabel(o) ==
    /\ operator[o].at = "print"
    /\ Goes(o, [operator[o] EXCEPT !.loaded = (LoadedAs("default") # {}), !.at = "probe"])
    /\ UNCHANGED <<plist, jobs>>

(* _loaded: launchctl print of the list's label *)
AskLoaded(o) ==
    /\ operator[o].at = "print"
    /\ Goes(o, [operator[o] EXCEPT !.loaded = (LoadedAs(operator[o].list.label) # {}), !.at = "probe"])
    /\ UNCHANGED <<plist, jobs>>

(* status and start probe the socket of the list first; stop and reload do not *)
ProbeFirst(o) ==
    /\ operator[o].at = "probe"
    /\ LET r == operator[o]
       IN  \/ r.action \in {"status", "start"} /\ MayAnswer(r.list.socket) /\ Ends(o, "running")
           \/ r.action = "status" /\ Ends(o, IF r.loaded THEN "starting_or_failing" ELSE "stopped")
           \/ r.action = "stop" /\ ~r.loaded /\ Ends(o, "not_running")
           \/ r.action = "stop" /\ r.loaded /\ Goes(o, [r EXCEPT !.at = "operate"])
           \/ /\ r.action \in {"start", "reload"}
              /\ IF r.list.artifact \in Loadable THEN Goes(o, [r EXCEPT !.at = "operate"]) ELSE Ends(o, "failed")
    /\ UNCHANGED <<plist, jobs>>

(* The operation the loaded state asked for.  bootstrap reads the list anew, as   *)
(* it is by now; an operation that does not fit the job fails.                    *)
Operate(o) ==
    /\ operator[o].at = "operate"
    /\ LET r    == operator[o]
           mine == LoadedAs(r.list.label)
       IN  \/ /\ r.action = "stop"
              /\ jobs' = jobs \ mine
              /\ Ends(o, IF mine = {} THEN "failed" ELSE "stopped")
           \/ /\ r.action # "stop" /\ r.loaded
              /\ IF mine = {} THEN Ends(o, "failed") ELSE Goes(o, [r EXCEPT !.at = "poll"])
              /\ UNCHANGED jobs
           \/ /\ r.action # "stop" /\ ~r.loaded
              /\ IF plist = Partial \/ LoadedAs(plist.label) # {}
                 THEN Ends(o, "failed") /\ UNCHANGED jobs
                 ELSE Goes(o, [r EXCEPT !.at = "poll"]) /\ jobs' = jobs \cup {plist}
    /\ UNCHANGED plist

(* the probes until the deadline *)
Poll(o) ==
    /\ operator[o].at = "poll"
    /\ \/ MayAnswer(operator[o].list.socket) /\ Ends(o, "started")
       \/ Ends(o, "not_ready")
    /\ UNCHANGED <<plist, jobs>>

(* logging out unloads the jobs, and what commands said holds no longer *)
LogOut ==
    /\ jobs # {}
    /\ jobs' = {}
    /\ operator' = [o \in Maintainers |-> IF o \in UnderWay THEN [operator[o] EXCEPT !.alone = FALSE] ELSE AtRest]
    /\ UNCHANGED plist

History == disturbed' =
    /\ jobs' # {} \/ UnderWay' # {}
    /\ disturbed \/ (plist' # plist /\ (jobs # {} \/ \E o \in UnderWay : operator[o].action # "setup"))

SetupNext ==
    /\ \/ \E o \in Maintainers :
              \/ BeginSetup(o) \/ EmptyList(o) \/ WriteList(o) \/ KillSetup(o)
              \/ \E action \in {"start", "stop", "reload", "status"} : BeginAction(o, action)
              \/ AskLoaded(o) \/ ProbeFirst(o) \/ Operate(o) \/ Poll(o)
       \/ LogOut
    /\ History

-----------------------------------------------------------------------------
(* As long as nobody sets the service up anew while it runs or while a command    *)
(* reads the list, one service runs at most, as the list says, with an artifact   *)
(* that loads; and of a command during which nothing else happened it is true     *)
(* what it said: after "stopped" or "not_running" no service is left, and after   *)
(* "started" or "running" there is one.                                           *)
OneServiceAsSetUp ==
    ~disturbed =>
        /\ jobs \subseteq {plist} /\ \A j \in jobs : j.artifact \in Loadable
        /\ \A o \in Maintainers \ UnderWay : operator[o].alone =>
               /\ operator[o].outcome \in {"stopped", "not_running"} => jobs = {}
               /\ operator[o].outcome \in {"started", "running"} => jobs = {plist}
=============================================================================
