---------------------------- MODULE ArtifactStore ----------------------------
(* Publication and loading of the current artifact, as store/snapshot_store.py  *)
(* does it on a file system.  Several `publish` calls (processes) and several   *)
(* loaders (the service, a lifecycle command, another publisher's pre-check)    *)
(* share one path, the target.  Every file-system call is a step of its own, so *)
(* calls interleave between an exists() and the rename or read that relies on   *)
(* it.  Renames may fail, and a publisher may be killed between two steps.      *)
EXTENDS Integers, FiniteSets

CONSTANTS Calls,       \* publish calls; call c builds, stages and promotes directory c
          Loaders,     \* processes that load whatever the target path holds
          Old,         \* an artifact published before the first call
          Foreign,     \* a directory that is not an artifact (it has no nodes.json)
          PlainFile,   \* a regular file
          NoDir,       \* nothing
          Version,     \* Version[d]: the build time, to the second, in artifact d
          MaxActive,   \* bound: publish calls in flight at once
          FaultPoints, \* the steps whose system call may fail
          MaxFaults,   \* bound: failing system calls in a behaviour
          MaxCrashes   \* bound: killed publishers in a behaviour

Artifacts == Calls \cup {Old, Foreign}
Entries   == Artifacts \cup {PlainFile}
Readers   == Calls \cup Loaders
Stages    == {"write", "validate", "move", "promote", "restore", "clean", "drop"}

ASSUME EntriesAssumption ==
    /\ Old \notin {Foreign, PlainFile, NoDir}
    /\ Foreign \notin {PlainFile, NoDir}
    /\ PlainFile # NoDir
    /\ Calls \cap {Old, Foreign, PlainFile, NoDir} = {}
    /\ Calls \cap Loaders = {}

ASSUME BoundsAssumption ==
    /\ FaultPoints \subseteq Stages
    /\ MaxActive \in Nat /\ MaxFaults \in Nat /\ MaxCrashes \in Nat

VARIABLES
    target,    \* what the current-artifact path names
    files,     \* files[d]: how many of nodes, edges, annotations directory d holds
    staging,   \* the calls whose candidate directory exists under its own name
    backup,    \* backup[c]: the directory c has moved to its `.previous-` name
    pc,        \* pc[c]: where publish call c is
    read,      \* read[r]: the progress of the load r runs
    latest,    \* history: the entry most recently put in service
    faults, crashes

vars == <<target, files, staging, backup, pc, read, latest, faults, crashes>>

Working  == {"kind", "precheck", "loading", "staging", "writing", "validating",
             "swap", "moving", "promoting", "restoring", "cleaning", "dropping"}
Terminal == {"published", "raised", "refused", "failed", "crashed"}

NotReading == [at |-> "idle", nodes |-> NoDir, edges |-> NoDir, annotations |-> NoDir]
StartRead  == [NotReading EXCEPT !.at = "nodes"]

Init ==
    /\ target \in {NoDir, Old, Foreign, PlainFile}
    /\ \E n \in {2, 3} : files = [d \in Artifacts |-> IF d = Old THEN n ELSE 0]
    /\ staging = {}
    /\ backup = [c \in Calls |-> NoDir]
    /\ pc = [c \in Calls |-> "idle"]
    /\ read = [r \in Readers |-> NotReading]
    /\ latest = target
    /\ faults = 0
    /\ crashes = 0

MayFail(stage) == stage \in FaultPoints /\ faults < MaxFaults

-----------------------------------------------------------------------------
(* SnapshotStore.load: three files, each opened through the path anew.          *)

Holds(n) == target \in Artifacts /\ files[target] >= n

ReadStep(r, next) == read' = [read EXCEPT ![r] = next]

ReadNodes(r) ==
    /\ read[r].at = "nodes"
    /\ IF Holds(1)
       THEN ReadStep(r, [read[r] EXCEPT !.at = "edges", !.nodes = target])
       ELSE ReadStep(r, [read[r] EXCEPT !.at = "failed"])

ReadEdges(r) ==
    /\ read[r].at = "edges"
    /\ IF Holds(2) /\ Version[target] = Version[read[r].nodes]
       THEN ReadStep(r, [read[r] EXCEPT !.at = "annotations?", !.edges = target])
       ELSE ReadStep(r, [read[r] EXCEPT !.at = "failed"])

(* GraphSnapshot.model_validate accepts what one build wrote; whether it accepts *)
(* parts of two builds depends on their records.                                 *)
Accepts(got) ==
    IF got.nodes = got.edges /\ got.annotations \in {got.nodes, NoDir}
    THEN {"done"} ELSE {"done", "failed"}

Finish(r, got) == \E at \in Accepts(got) : ReadStep(r, [got EXCEPT !.at = at])

AnnotationsExist(r) ==
    /\ read[r].at = "annotations?"
    /\ IF Holds(3) THEN ReadStep(r, [read[r] EXCEPT !.at = "annotations"])
                   ELSE Finish(r, read[r])

(* Mutated form: annotations.json is read without comparing its version. *)
ReadAnnotationsUnchecked(r) ==
    /\ read[r].at = "annotations"
    /\ IF Holds(3)
       THEN Finish(r, [read[r] EXCEPT !.annotations = target])
       ELSE ReadStep(r, [read[r] EXCEPT !.at = "failed"])

ReadAnnotations(r) ==
    /\ read[r].at = "annotations"
    /\ IF Holds(3) /\ Version[target] = Version[read[r].nodes]
       THEN Finish(r, [read[r] EXCEPT !.annotations = target])
       ELSE ReadStep(r, [read[r] EXCEPT !.at = "failed"])

LoadStep(r) ==
    /\ \/ ReadNodes(r) \/ ReadEdges(r) \/ AnnotationsExist(r) \/ ReadAnnotations(r)
    /\ UNCHANGED <<target, files, staging, backup, pc, latest, faults, crashes>>

(* load_service, launchd's check before a start: a load that may run at any time *)
BeginLoad(l) ==
    /\ read[l].at \in {"idle", "done", "failed"}
    /\ ReadStep(l, StartRead)
    /\ UNCHANGED <<target, files, staging, backup, pc, latest, faults, crashes>>

-----------------------------------------------------------------------------
(* CurrentArtifactStore.publish                                                 *)

Goto(c, label) == pc' = [pc EXCEPT ![c] = label]
Fault(stage) == MayFail(stage) /\ faults' = faults + 1
Active == {c \in Calls : pc[c] \in Working}

(* publish starts: `target.exists() and not target.is_dir()` asks exists() first *)
Begin(c) ==
    /\ pc[c] = "idle"
    /\ Cardinality(Active) < MaxActive
    /\ Goto(c, IF target = NoDir THEN "precheck" ELSE "kind")
    /\ UNCHANGED <<target, files, staging, backup, read, latest, faults, crashes>>

(* is_dir() is false for a file, and for a directory moved away since exists() *)
CheckKind(c) ==
    /\ pc[c] = "kind"
    /\ Goto(c, IF target \in Artifacts THEN "precheck" ELSE "refused")
    /\ UNCHANGED <<target, files, staging, backup, read, latest, faults, crashes>>

Precheck(c) ==
    /\ pc[c] = "precheck"
    /\ IF target = NoDir
       THEN Goto(c, "staging") /\ UNCHANGED read
       ELSE Goto(c, "loading") /\ ReadStep(c, StartRead)
    /\ UNCHANGED <<target, files, staging, backup, latest, faults, crashes>>

(* Mutated form: what stands at the target is replaced without being loadable. *)
PrecheckResultIgnored(c) ==
    /\ pc[c] = "loading"
    /\ read[c].at \in {"done", "failed"}
    /\ Goto(c, "staging")
    /\ ReadStep(c, NotReading)
    /\ UNCHANGED <<target, files, staging, backup, latest, faults, crashes>>

PrecheckResult(c) ==
    /\ pc[c] = "loading"
    /\ read[c].at \in {"done", "failed"}
    /\ Goto(c, IF read[c].at = "done" THEN "staging" ELSE "refused")
    /\ ReadStep(c, NotReading)
    /\ UNCHANGED <<target, files, staging, backup, latest, faults, crashes>>

MakeStaging(c) ==
    /\ pc[c] = "staging"
    /\ staging' = staging \cup {c}
    /\ Goto(c, "writing")
    /\ UNCHANGED <<target, files, backup, read, latest, faults, crashes>>

(* Mutated forms of WriteFile: a write too many, a failed write that does not    *)
(* abandon the candidate.                                                        *)
WriteFileOnceMore(c) ==
    /\ pc[c] = "writing"
    /\ files' = [files EXCEPT ![c] = @ + 1]
    /\ Goto(c, IF files[c] = 3 THEN "validating" ELSE "writing")
    /\ UNCHANGED <<target, staging, backup, read, latest, faults, crashes>>

WriteFileIgnoringErrors(c) ==
    /\ pc[c] = "writing"
    /\ \/ /\ files' = [files EXCEPT ![c] = @ + 1]
          /\ Goto(c, IF files[c] + 1 = 3 THEN "validating" ELSE "writing")
          /\ UNCHANGED faults
       \/ /\ Fault("write")
          /\ Goto(c, "swap")
          /\ UNCHANGED files
    /\ UNCHANGED <<target, staging, backup, read, latest, crashes>>

(* _write_snapshot_directory: nodes.json, edges.json, annotations.json, in order *)
WriteFile(c) ==
    /\ pc[c] = "writing"
    /\ \/ /\ files' = [files EXCEPT ![c] = @ + 1]
          /\ Goto(c, IF files[c] + 1 = 3 THEN "validating" ELSE "writing")
          /\ UNCHANGED faults
       \/ /\ Fault("write")
          /\ Goto(c, "cleaning")
          /\ UNCHANGED files
    /\ UNCHANGED <<target, staging, backup, read, latest, crashes>>

(* the candidate is private to c, so reloading it is one step; a load does not  *)
(* need annotations.json                                                        *)
Validate(c) ==
    /\ pc[c] = "validating"
    /\ \/ files[c] >= 2 /\ Goto(c, "swap") /\ UNCHANGED faults
       \/ Fault("validate") /\ Goto(c, "cleaning")
    /\ UNCHANGED <<target, files, staging, backup, read, latest, crashes>>

Swap(c) ==
    /\ pc[c] = "swap"
    /\ Goto(c, IF target = NoDir THEN "promoting" ELSE "moving")
    /\ UNCHANGED <<target, files, staging, backup, read, latest, faults, crashes>>

(* Mutated form: the current directory is deleted to make room. *)
MoveCurrentAway(c) ==
    /\ pc[c] = "moving"
    /\ target # NoDir
    /\ target' = NoDir
    /\ Goto(c, "promoting")
    /\ UNCHANGED <<files, staging, backup, read, latest, faults, crashes>>

(* os.replace(target, backup) fails when another publisher has moved the target *)
MoveCurrent(c) ==
    /\ pc[c] = "moving"
    /\ \/ /\ target # NoDir
          /\ backup' = [backup EXCEPT ![c] = target]
          /\ target' = NoDir
          /\ Goto(c, "promoting")
          /\ UNCHANGED faults
       \/ /\ \/ target = NoDir /\ UNCHANGED faults
             \/ Fault("move")
          /\ Goto(c, "cleaning")
          /\ UNCHANGED <<target, backup>>
    /\ UNCHANGED <<files, staging, read, latest, crashes>>

(* os.replace(staging, target) fails on a directory another publisher promoted *)
Promote(c) ==
    /\ pc[c] = "promoting"
    /\ \/ /\ target = NoDir
          /\ target' = c
          /\ latest' = c
          /\ staging' = staging \ {c}
          /\ Goto(c, IF backup[c] = NoDir THEN "published" ELSE "dropping")
          /\ UNCHANGED faults
       \/ /\ \/ target # NoDir /\ UNCHANGED faults
             \/ Fault("promote")
          /\ Goto(c, IF backup[c] = NoDir THEN "cleaning" ELSE "restoring")
          /\ UNCHANGED <<target, latest, staging>>
    /\ UNCHANGED <<files, backup, read, crashes>>

(* Mutated form: the handler of a failed promotion only raises. *)
RestoreNothing(c) ==
    /\ pc[c] = "restoring"
    /\ Goto(c, "cleaning")
    /\ UNCHANGED <<target, files, staging, backup, read, latest, faults, crashes>>

(* os.replace(backup, target), in the handler of the failed promotion *)
Restore(c) ==
    /\ pc[c] = "restoring"
    /\ \/ /\ target = NoDir
          /\ target' = backup[c]
          /\ latest' = backup[c]
          /\ backup' = [backup EXCEPT ![c] = NoDir]
          /\ UNCHANGED faults
       \/ /\ \/ target # NoDir /\ UNCHANGED faults
             \/ Fault("restore")
          /\ UNCHANGED <<target, backup, latest>>
    /\ Goto(c, "cleaning")
    /\ UNCHANGED <<files, staging, read, crashes>>

(* the finally clause of a call that did not promote *)
CleanStaging(c) ==
    /\ pc[c] = "cleaning"
    /\ \/ staging' = staging \ {c} /\ UNCHANGED faults
       \/ Fault("clean") /\ UNCHANGED staging
    /\ Goto(c, "failed")
    /\ UNCHANGED <<target, files, backup, read, latest, crashes>>

(* shutil.rmtree(backup): when it fails publish raises, though c is in service *)
DropBackup(c) ==
    /\ pc[c] = "dropping"
    /\ \/ /\ backup' = [backup EXCEPT ![c] = NoDir]
          /\ Goto(c, "published")
          /\ UNCHANGED faults
       \/ Fault("drop") /\ Goto(c, "raised") /\ UNCHANGED backup
    /\ UNCHANGED <<target, files, staging, read, latest, crashes>>

(* the publisher's process is killed: nothing cleans up after it *)
Crash(c) ==
    /\ pc[c] \in Working
    /\ crashes < MaxCrashes
    /\ crashes' = crashes + 1
    /\ Goto(c, "crashed")
    /\ ReadStep(c, NotReading)
    /\ UNCHANGED <<target, files, staging, backup, latest, faults>>

-----------------------------------------------------------------------------
PublishStep(c) ==
    \/ CheckKind(c) \/ Precheck(c) \/ LoadStep(c) \/ PrecheckResult(c)
    \/ MakeStaging(c) \/ WriteFile(c) \/ Validate(c) \/ Swap(c)
    \/ MoveCurrent(c) \/ Promote(c) \/ Restore(c) \/ CleanStaging(c) \/ DropBackup(c)

Next ==
    \/ \E c \in Calls : Begin(c) \/ PublishStep(c) \/ Crash(c)
    \/ \E l \in Loaders : BeginLoad(l) \/ LoadStep(l)

(* A call once begun runs on; nobody has to begin one, and crashes are not fair. *)
Fairness == \A c \in Calls : WF_vars(PublishStep(c))

Spec == Init /\ [][Next]_vars /\ Fairness

-----------------------------------------------------------------------------
(* Properties                                                                   *)

ReadStates == {"idle", "nodes", "edges", "annotations?", "annotations", "done", "failed"}

Loads == [at : ReadStates, nodes : Artifacts \cup {NoDir}, edges : Artifacts \cup {NoDir},
          annotations : Artifacts \cup {NoDir}]

(* The variables stay in the sets their comments give. *)
TypeOK ==
    /\ target \in Entries \cup {NoDir}
    /\ latest \in Entries \cup {NoDir}
    /\ files \in [Artifacts -> 0..3]
    /\ staging \subseteq Calls
    /\ backup \in [Calls -> Entries \cup {NoDir}]
    /\ pc \in [Calls -> {"idle"} \cup Working \cup Terminal]
    /\ read \in [Readers -> Loads]
    /\ faults \in Nat /\ crashes \in Nat

(* publish promotes only a candidate it wrote whole and reloaded, so whichever   *)
(* calls interleave, fail or are killed, no call's partial directory is current. *)
CurrentIsComplete == target \in Calls => files[target] = 3

(* Call c has put its candidate in service: what is under its backup name is    *)
(* being deleted, or was when c was killed.                                      *)
Promoted(c) ==
    \/ pc[c] \in {"dropping", "published", "raised"}
    \/ pc[c] = "crashed" /\ files[c] = 3 /\ c \notin staging

(* Entry d can still be brought back: it is current, or it waits under the       *)
(* backup name of a call that has not begun to delete it.                        *)
Safe(d) == target = d \/ \E c \in Calls : backup[c] = d /\ ~Promoted(c)

(* Once something has stood at the target path, a complete entry is there or     *)
(* under a backup nobody deletes: publish gives up the previous artifact only    *)
(* when another one has taken its place.                                         *)
ArtifactSurvives == latest # NoDir => \E d \in Entries : Safe(d)

(* publish refuses to replace what it cannot load, even while other publishers   *)
(* move the target between its checks and its renames.                           *)
ForeignUntouched == [][(target \in {Foreign, PlainFile}) => UNCHANGED target]_vars

(* load compares each file's version with that of nodes.json: when builds have   *)
(* different build times, a load that overlaps replacements and yet succeeds     *)
(* took every file it read from one directory.                                   *)
LoadsOneBuild ==
    \A r \in Readers : read[r].at = "done" =>
        /\ read[r].edges = read[r].nodes
        /\ read[r].annotations \in {read[r].nodes, NoDir}

(* "no replacement exposes a mixture of files from different builds" and the     *)
(* directory is replaced "as one unit": a successful load has every file of the  *)
(* artifact whose nodes.json it read.                                            *)
LoadsWholeArtifact ==
    \A r \in Readers : read[r].at = "done" =>
        /\ read[r].edges = read[r].nodes
        /\ read[r].annotations = (IF files[read[r].nodes] = 3 THEN read[r].nodes ELSE NoDir)

(* A call that failed and has not put back the artifact it moved away was        *)
(* overtaken: another artifact was put in service after that one.                *)
OrphansAreSuperseded ==
    \A c \in Calls : pc[c] = "failed" /\ backup[c] # NoDir => latest # backup[c]

(* The window between the two renames of publish closes: with a restore that     *)
(* works, an empty target path is filled again, unless the call that moved the   *)
(* last artifact in service away has been killed.                                *)
TargetReturns ==
    (target = NoDir /\ latest # NoDir) ~>
        \/ target # NoDir
        \/ \E c \in Calls : pc[c] = "crashed" /\ backup[c] = latest

-----------------------------------------------------------------------------
(* What the safety properties rest on: the parts of an inductive invariant.      *)

BeforeStaging == {"idle", "kind", "precheck", "loading", "staging", "refused"}
HasStaging    == {"writing", "validating", "swap", "moving", "promoting", "restoring", "cleaning"}
BeforeMove    == {"writing", "validating", "swap", "moving"}
CompleteStage == {"validating", "swap", "moving", "promoting", "restoring", "dropping",
                  "published", "raised"}

(* How far a call is tells what it has written, staged and moved away. *)
PhaseInv ==
    \A c \in Calls :
        /\ pc[c] \in BeforeStaging => files[c] = 0 /\ c \notin staging /\ backup[c] = NoDir
        /\ pc[c] \in HasStaging => c \in staging
        /\ pc[c] \in BeforeMove => backup[c] = NoDir
        /\ pc[c] = "writing" => files[c] <= 2
        /\ pc[c] \in CompleteStage => files[c] = 3
        /\ pc[c] \in {"dropping", "published", "raised"} => c \notin staging
        /\ pc[c] \in {"restoring", "dropping"} => backup[c] # NoDir

(* A directory bears one name, and a candidate its final one only once promoted. *)
PlacementInv ==
    /\ \A c \in Calls : (target = c \/ \E q \in Calls : backup[q] = c) => Promoted(c) /\ files[c] = 3
    /\ target # NoDir => latest = target /\ \A q \in Calls : backup[q] # target
    /\ \A p, q \in Calls : backup[p] = backup[q] => p = q \/ backup[p] = NoDir

(* What cannot be loaded stops every call before it stages anything. *)
ForeignInv ==
    /\ files[Foreign] = 0
    /\ \A c \in Calls : backup[c] \notin {Foreign, PlainFile}
    /\ target \in {Foreign, PlainFile} =>
           \A c \in Calls : /\ pc[c] \in (BeforeStaging \ {"staging"}) \cup {"crashed"}
                            /\ read[c].at \in {"idle", "nodes", "failed"}

(* What a load in progress has accepted so far came from one directory. *)
LoadInv ==
    \A r \in Readers :
        /\ read[r].at \in {"nodes", "edges", "annotations?", "annotations"} =>
               read[r].annotations = NoDir
        /\ read[r].at \in {"edges", "annotations?", "annotations"} => read[r].nodes \in Artifacts
        /\ read[r].at \in {"annotations?", "annotations", "done"} => read[r].edges = read[r].nodes

-----------------------------------------------------------------------------
(* Publication is CurrentArtifact, with what the target names for the current    *)
(* artifact: between the two renames, and after a replacement cut off there,     *)
(* nothing is current.                                                           *)

(* How far a call has come with its promise: it is lost when it ends with an     *)
(* artifact moved away that it has not put back.                                 *)
Outcome(c) ==
    IF Promoted(c) THEN "published"
    ELSE IF pc[c] \in {"refused", "cleaning", "failed", "crashed"}
         THEN IF backup[c] = NoDir THEN "failed" ELSE "lost"
         ELSE IF backup[c] = NoDir THEN "pending" ELSE "replacing"

Register == INSTANCE CurrentArtifact WITH
    Entries <- {Old, Foreign, PlainFile},
    Replaceable <- Calls \cup {Old},
    Nothing <- NoDir,
    current <- target,
    outcome <- [c \in Calls |-> Outcome(c)],
    withdrawn <- [c \in Calls |-> IF Promoted(c) THEN NoDir ELSE backup[c]],
    mishaps <- <<faults, crashes>>

(* Every step of publish is a step of CurrentArtifact or invisible in it: only   *)
(* an empty target is filled, with the call's own artifact or with what that     *)
(* call moved away; a failing call gives up what it moved away only in the step  *)
(* in which it is killed or the restore fails, or when another artifact stands   *)
(* there.                                                                        *)
ImplementsRegister == Register!Spec

(* "A failed validation, build, or replacement leaves the existing current       *)
(* artifact unchanged" (project_metadata/product/non_functional.md:16): once no  *)
(* call is in flight, the target names what was last in service.                 *)
FailureKeepsCurrent == Active = {} => target = latest
=============================================================================
