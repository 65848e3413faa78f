------------------------- MODULE ArtifactStoreProofs -------------------------
(* Safety of ArtifactStore for any number of publishers, loaders, failures and  *)
(* kills.  The inductive invariant is the conjunction of TypeOK, PhaseInv and    *)
(* PlacementInv, with ForeignInv and LoadInv beside it.                          *)
EXTENDS ArtifactStore, FiniteSetTheorems, TLAPS

(* The actions of a publish call, a load step apart. *)
CallAction(c) ==
    \/ Begin(c) \/ CheckKind(c) \/ Precheck(c) \/ PrecheckResult(c)
    \/ MakeStaging(c) \/ WriteFile(c) \/ Validate(c) \/ Swap(c)
    \/ MoveCurrent(c) \/ Promote(c) \/ Restore(c) \/ CleanStaging(c) \/ DropBackup(c)
    \/ Crash(c)

(* A step is an action of one call, a step of one load, or none. *)
LEMMA StepCases ==
    ASSUME [Next]_vars
    PROVE  \/ \E c \in Calls : CallAction(c)
           \/ \E r \in Readers : LoadStep(r)
           \/ \E l \in Loaders : BeginLoad(l)
           \/ UNCHANGED vars
BY DEF Next, PublishStep, CallAction, Readers

(* A load's next record is one of Loads, so `read` stays a function to Loads. *)
LEMMA LoadStepType ==
    ASSUME TypeOK, NEW r \in Readers, LoadStep(r)
    PROVE  TypeOK'
<1> SUFFICES read' \in [Readers -> Loads]
  BY DEF LoadStep, TypeOK
<1>1. ASSUME NEW next \in Loads, ReadStep(r, next)
      PROVE  read' \in [Readers -> Loads]
  BY <1>1 DEF ReadStep, TypeOK
<1>2. read[r] \in Loads
  BY DEF TypeOK
<1>3. \A at \in ReadStates : [read[r] EXCEPT !.at = at] \in Loads
  BY <1>2 DEF Loads
<1>4. ASSUME NEW got \in Loads, Finish(r, got)
      PROVE  read' \in [Readers -> Loads]
  <2>1. PICK at \in ReadStates : ReadStep(r, [got EXCEPT !.at = at])
    BY <1>4 DEF Finish, Accepts, ReadStates
  <2>2. [got EXCEPT !.at = at] \in Loads
    BY DEF Loads
  <2> QED BY <1>1, <2>1, <2>2
<1>5. Holds(1) \/ Holds(2) \/ Holds(3) => target \in Artifacts
  BY DEF Holds
<1>6. ASSUME NEW next \in Loads,
             \/ ReadStep(r, next) \/ Finish(r, next)
             \/ \E at \in ReadStates : ReadStep(r, [read[r] EXCEPT !.at = at])
      PROVE  read' \in [Readers -> Loads]
  BY <1>1, <1>3, <1>4, <1>6
<1>7. CASE ReadNodes(r)
  <2>1. CASE Holds(1)
    <3>1. [read[r] EXCEPT !.at = "edges", !.nodes = target] \in Loads
      BY <1>2, <1>5, <2>1 DEF Loads, ReadStates
    <3> QED BY <1>6, <1>7, <2>1, <3>1 DEF ReadNodes
  <2>2. CASE ~Holds(1)
    BY <1>2, <1>6, <1>7, <2>2 DEF ReadNodes, ReadStates
  <2> QED BY <2>1, <2>2
<1>8. CASE ReadEdges(r)
  <2>1. CASE Holds(2) /\ Version[target] = Version[read[r].nodes]
    <3>1. [read[r] EXCEPT !.at = "annotations?", !.edges = target] \in Loads
      BY <1>2, <1>5, <2>1 DEF Loads, ReadStates
    <3> QED BY <1>6, <1>8, <2>1, <3>1 DEF ReadEdges
  <2>2. CASE ~(Holds(2) /\ Version[target] = Version[read[r].nodes])
    BY <1>2, <1>6, <1>8, <2>2 DEF ReadEdges, ReadStates
  <2> QED BY <2>1, <2>2
<1>9. CASE AnnotationsExist(r)
  BY <1>2, <1>6, <1>9 DEF AnnotationsExist, ReadStates
<1>10. CASE ReadAnnotations(r)
  <2>1. CASE Holds(3) /\ Version[target] = Version[read[r].nodes]
    <3>1. [read[r] EXCEPT !.annotations = target] \in Loads
      BY <1>2, <1>5, <2>1 DEF Loads
    <3> QED BY <1>6, <1>10, <2>1, <3>1 DEF ReadAnnotations
  <2>2. CASE ~(Holds(3) /\ Version[target] = Version[read[r].nodes])
    BY <1>2, <1>6, <1>10, <2>2 DEF ReadAnnotations, ReadStates
  <2> QED BY <2>1, <2>2
<1> QED BY <1>7, <1>8, <1>9, <1>10 DEF LoadStep

(* The two records a load starts from are progress records of a load. *)
LEMMA InitialRecords == NotReading \in Loads /\ StartRead \in Loads
BY DEF NotReading, StartRead, Loads, ReadStates

(* files[c] stays in 0..3 because a call that is still writing has a file to write. *)
LEMMA TypeStep == TypeOK /\ PhaseInv /\ [Next]_vars => TypeOK'
<1> SUFFICES ASSUME TypeOK, PhaseInv, [Next]_vars PROVE TypeOK'
  OBVIOUS
<1> USE DEF TypeOK, Goto, Fault, MayFail
<1>1. ASSUME NEW c \in Calls, CallAction(c) PROVE TypeOK'
  <2> USE DEF Entries, Artifacts, Readers, Working, Terminal
  <2>1. CASE Begin(c)           BY <2>1 DEF Begin
  <2>2. CASE CheckKind(c)       BY <2>2 DEF CheckKind
  <2>3. CASE Precheck(c)        BY <2>3, InitialRecords DEF Precheck, ReadStep
  <2>4. CASE PrecheckResult(c)  BY <2>4, InitialRecords DEF PrecheckResult, ReadStep
  <2>5. CASE MakeStaging(c)     BY <2>5 DEF MakeStaging
  <2>6. CASE WriteFile(c)
    <3>1. files[c] \in 0..2
      BY <2>6 DEF WriteFile, PhaseInv
    <3> QED BY <2>6, <3>1 DEF WriteFile
  <2>7. CASE Validate(c)        BY <2>7 DEF Validate
  <2>8. CASE Swap(c)            BY <2>8 DEF Swap
  <2>9. CASE MoveCurrent(c)     BY <2>9 DEF MoveCurrent
  <2>10. CASE Promote(c)        BY <2>10 DEF Promote
  <2>11. CASE Restore(c)        BY <2>11 DEF Restore
  <2>12. CASE CleanStaging(c)   BY <2>12 DEF CleanStaging
  <2>13. CASE DropBackup(c)     BY <2>13 DEF DropBackup
  <2>14. CASE Crash(c)          BY <2>14, InitialRecords DEF Crash, ReadStep
  <2> QED
    BY <1>1, <2>1, <2>2, <2>3, <2>4, <2>5, <2>6, <2>7, <2>8, <2>9, <2>10, <2>11, <2>12,
       <2>13, <2>14 DEF CallAction
<1>2. ASSUME NEW r \in Readers, LoadStep(r) PROVE TypeOK'
  BY <1>2, LoadStepType
<1>3. ASSUME NEW l \in Loaders, BeginLoad(l) PROVE TypeOK'
  BY <1>3, InitialRecords DEF BeginLoad, ReadStep, Readers
<1>4. CASE UNCHANGED vars
  BY <1>4 DEF vars
<1> QED BY <1>1, <1>2, <1>3, <1>4, StepCases

(* Everything but `read` is left alone by loads. *)
LEMMA LoadFrame ==
    ASSUME \/ \E r \in Readers : LoadStep(r)
           \/ \E l \in Loaders : BeginLoad(l)
           \/ UNCHANGED vars
    PROVE  UNCHANGED <<target, files, staging, backup, pc, latest>>
BY DEF LoadStep, BeginLoad, vars

(* One action of a call moves that call from phase to phase and no other call. *)
LEMMA PhaseStep == TypeOK /\ PhaseInv /\ [Next]_vars => PhaseInv'
<1> SUFFICES ASSUME TypeOK, PhaseInv, [Next]_vars PROVE PhaseInv'
  OBVIOUS
<1> USE EntriesAssumption DEF PhaseInv, BeforeStaging, HasStaging, BeforeMove, CompleteStage
<1>1. ASSUME NEW c \in Calls, CallAction(c) PROVE PhaseInv'
  <2> USE DEF TypeOK, Goto, Entries, Artifacts
  <2>1. CASE Begin(c)            BY <2>1 DEF Begin
  <2>2. CASE CheckKind(c)        BY <2>2 DEF CheckKind
  <2>3. CASE Precheck(c)         BY <2>3 DEF Precheck
  <2>4. CASE PrecheckResult(c)   BY <2>4 DEF PrecheckResult
  <2>5. CASE MakeStaging(c)      BY <2>5 DEF MakeStaging
  <2>6. CASE WriteFile(c)        BY <2>6 DEF WriteFile
  <2>7. CASE Validate(c)         BY <2>7 DEF Validate
  <2>8. CASE Swap(c)             BY <2>8 DEF Swap
  <2>9. CASE MoveCurrent(c)      BY <2>9 DEF MoveCurrent
  <2>10. CASE Promote(c)         BY <2>10 DEF Promote
  <2>11. CASE Restore(c)         BY <2>11 DEF Restore
  <2>12. CASE CleanStaging(c)    BY <2>12 DEF CleanStaging
  <2>13. CASE DropBackup(c)      BY <2>13 DEF DropBackup
  <2>14. CASE Crash(c)           BY <2>14 DEF Crash
  <2> QED
    BY <1>1, <2>1, <2>2, <2>3, <2>4, <2>5, <2>6, <2>7,
       <2>8, <2>9, <2>10, <2>11, <2>12, <2>13, <2>14 DEF CallAction
<1>2. CASE UNCHANGED <<target, files, staging, backup, pc, latest>>
  BY <1>2
<1> QED BY <1>1, <1>2, StepCases, LoadFrame

Frame == <<target, files, staging, backup, pc, latest>>

(* Renames keep one name per directory: each moves to a name that is free, and   *)
(* frees the one it had.                                                         *)
LEMMA PlacementStep == TypeOK /\ PhaseInv /\ PlacementInv /\ [Next]_vars => PlacementInv'
<1> SUFFICES ASSUME TypeOK, PhaseInv, PlacementInv, [Next]_vars PROVE PlacementInv'
  OBVIOUS
<1> USE EntriesAssumption DEF PlacementInv, Promoted
<1>1. ASSUME NEW c \in Calls, CallAction(c) PROVE PlacementInv'
  <2> USE DEF TypeOK, PhaseInv, BeforeStaging, HasStaging, BeforeMove, CompleteStage, Goto
  <2>1. CASE Begin(c)          BY <2>1 DEF Begin
  <2>2. CASE CheckKind(c)      BY <2>2 DEF CheckKind
  <2>3. CASE Precheck(c)       BY <2>3 DEF Precheck
  <2>4. CASE PrecheckResult(c) BY <2>4 DEF PrecheckResult
  <2>5. CASE MakeStaging(c)    BY <2>5 DEF MakeStaging
  <2>6. CASE WriteFile(c)
    <3>1. ~Promoted(c)
      BY <2>6 DEF WriteFile
    <3>2. \A d \in Calls \ {c} : files'[d] = files[d] /\ (Promoted(d) => Promoted(d)')
      BY <2>6 DEF WriteFile, Artifacts
    <3>3. UNCHANGED <<target, latest, backup>>
      BY <2>6 DEF WriteFile
    <3> QED BY <3>1, <3>2, <3>3
  <2>7. CASE Validate(c)       BY <2>7 DEF Validate
  <2>8. CASE Swap(c)           BY <2>8 DEF Swap
  <2>9. CASE MoveCurrent(c)    BY <2>9 DEF MoveCurrent
  <2>10. CASE Promote(c)       BY <2>10 DEF Promote
  <2>11. CASE Restore(c)       BY <2>11 DEF Restore
  <2>12. CASE CleanStaging(c)  BY <2>12 DEF CleanStaging
  <2>13. CASE DropBackup(c)    BY <2>13 DEF DropBackup
  <2>14. CASE Crash(c)         BY <2>14 DEF Crash
  <2> QED
    BY <1>1, <2>1, <2>2, <2>3, <2>4, <2>5, <2>6, <2>7,
       <2>8, <2>9, <2>10, <2>11, <2>12, <2>13, <2>14 DEF CallAction
<1>2. CASE UNCHANGED Frame
  BY <1>2 DEF Frame
<1> QED BY <1>1, <1>2, StepCases, LoadFrame DEF Frame

(* An entry is given up only by a call that has put its own in service.          *)
LEMMA SurvivalStep ==
    TypeOK /\ PhaseInv /\ PlacementInv /\ ArtifactSurvives /\ [Next]_vars => ArtifactSurvives'
<1> SUFFICES ASSUME TypeOK, PhaseInv, PlacementInv, ArtifactSurvives, [Next]_vars
             PROVE  ArtifactSurvives'
  OBVIOUS
<1> USE EntriesAssumption DEF ArtifactSurvives, Safe, Promoted
<1>1. ASSUME NEW c \in Calls, CallAction(c) PROVE ArtifactSurvives'
  <2> USE DEF TypeOK, PhaseInv, BeforeStaging, HasStaging, BeforeMove, CompleteStage, Goto,
              Entries, Artifacts
  <2>1. CASE Begin(c)          BY <2>1 DEF Begin
  <2>2. CASE CheckKind(c)      BY <2>2 DEF CheckKind
  <2>3. CASE Precheck(c)       BY <2>3 DEF Precheck
  <2>4. CASE PrecheckResult(c) BY <2>4 DEF PrecheckResult
  <2>5. CASE MakeStaging(c)    BY <2>5 DEF MakeStaging
  <2>6. CASE WriteFile(c)      BY <2>6 DEF WriteFile
  <2>7. CASE Validate(c)       BY <2>7 DEF Validate
  <2>8. CASE Swap(c)           BY <2>8 DEF Swap
  <2>9. CASE MoveCurrent(c)    BY <2>9 DEF MoveCurrent
  <2>10. CASE Promote(c)       BY <2>10 DEF Promote
  <2>11. CASE Restore(c)       BY <2>11 DEF Restore
  <2>12. CASE CleanStaging(c)  BY <2>12 DEF CleanStaging
  <2>13. CASE DropBackup(c)    BY <2>13 DEF DropBackup
  <2>14. CASE Crash(c)
    <3>1. \A d \in Calls : ~Promoted(d) => ~Promoted(d)'
      BY <2>14 DEF Crash, Working
    <3>2. UNCHANGED <<target, latest, backup>>
      BY <2>14 DEF Crash
    <3> QED BY <3>1, <3>2
  <2> QED
    BY <1>1, <2>1, <2>2, <2>3, <2>4, <2>5, <2>6, <2>7,
       <2>8, <2>9, <2>10, <2>11, <2>12, <2>13, <2>14 DEF CallAction
<1>2. CASE UNCHANGED Frame
  BY <1>2 DEF Frame
<1> QED BY <1>1, <1>2, StepCases, LoadFrame DEF Frame

(* While something that cannot be loaded stands at the target, no call gets past *)
(* its check, so no rename is enabled.                                           *)
LEMMA ForeignStep ==
    TypeOK /\ PhaseInv /\ ForeignInv /\ [Next]_vars
        => ForeignInv' /\ ((target \in {Foreign, PlainFile}) => UNCHANGED target)
<1> SUFFICES ASSUME TypeOK, PhaseInv, ForeignInv, [Next]_vars
             PROVE  ForeignInv' /\ ((target \in {Foreign, PlainFile}) => UNCHANGED target)
  OBVIOUS
<1> USE EntriesAssumption DEF ForeignInv, BeforeStaging
<1>1. ASSUME NEW c \in Calls, CallAction(c)
      PROVE  ForeignInv' /\ ((target \in {Foreign, PlainFile}) => UNCHANGED target)
  <2> USE DEF TypeOK, PhaseInv, BeforeMove, CompleteStage, Goto, Artifacts, Readers,
              ReadStep, StartRead, NotReading
  <2>1. CASE Begin(c)          BY <2>1 DEF Begin
  <2>2. CASE CheckKind(c)      BY <2>2 DEF CheckKind
  <2>3. CASE Precheck(c)       BY <2>3 DEF Precheck
  <2>4. CASE PrecheckResult(c) BY <2>4 DEF PrecheckResult
  <2>5. CASE MakeStaging(c)    BY <2>5 DEF MakeStaging
  <2>6. CASE WriteFile(c)      BY <2>6 DEF WriteFile
  <2>7. CASE Validate(c)       BY <2>7 DEF Validate
  <2>8. CASE Swap(c)           BY <2>8 DEF Swap
  <2>9. CASE MoveCurrent(c)    BY <2>9 DEF MoveCurrent
  <2>10. CASE Promote(c)       BY <2>10 DEF Promote
  <2>11. CASE Restore(c)       BY <2>11 DEF Restore
  <2>12. CASE CleanStaging(c)  BY <2>12 DEF CleanStaging
  <2>13. CASE DropBackup(c)    BY <2>13 DEF DropBackup
  <2>14. CASE Crash(c)         BY <2>14 DEF Crash
  <2> QED
    BY <1>1, <2>1, <2>2, <2>3, <2>4, <2>5, <2>6, <2>7,
       <2>8, <2>9, <2>10, <2>11, <2>12, <2>13, <2>14 DEF CallAction
<1>2. ASSUME NEW r \in Readers, LoadStep(r) PROVE ForeignInv' /\ UNCHANGED target
  <2>1. UNCHANGED <<target, files, backup, pc>>
    BY <1>2 DEF LoadStep
  <2>2. ASSUME target \in {Foreign, PlainFile}, NEW c \in Calls
        PROVE  read'[c].at \in {"idle", "nodes", "failed"}
    <3>1. ~Holds(1)
      BY <2>2 DEF Holds, Artifacts, TypeOK
    <3>2. CASE r = c
      BY <1>2, <2>2, <3>1, <3>2 DEF LoadStep, ReadNodes, ReadEdges, AnnotationsExist,
         ReadAnnotations, ReadStep, TypeOK, Loads
    <3>3. CASE r # c
      <4>1. \E next : ReadStep(r, next)
        BY <1>2 DEF LoadStep, ReadNodes, ReadEdges, AnnotationsExist, ReadAnnotations, Finish
      <4> QED BY <2>2, <3>3, <4>1 DEF ReadStep, TypeOK, Readers
    <3> QED BY <3>2, <3>3
  <2> QED BY <2>1, <2>2
<1>3. ASSUME NEW l \in Loaders, BeginLoad(l) PROVE ForeignInv' /\ UNCHANGED target
  BY <1>3 DEF BeginLoad, ReadStep, TypeOK, Readers
<1>4. CASE UNCHANGED vars
  BY <1>4 DEF vars
<1> QED BY <1>1, <1>2, <1>3, <1>4, StepCases

(* Builds with different build times: what the version check can tell apart.     *)
VersionsDiffer == \A d, e \in Artifacts : Version[d] = Version[e] => d = e

(* Each file a load accepts after nodes.json has its version, so it comes from    *)
(* the same directory, and a step of anything else leaves the load as it is.      *)
LEMMA LoadInvStep ==
    ASSUME VersionsDiffer
    PROVE  TypeOK /\ LoadInv /\ LoadsOneBuild /\ [Next]_vars => LoadInv' /\ LoadsOneBuild'
<1> SUFFICES ASSUME TypeOK, LoadInv, LoadsOneBuild, [Next]_vars
             PROVE  LoadInv' /\ LoadsOneBuild'
  OBVIOUS
<1> DEFINE Good(got) ==
      /\ got.at \in {"nodes", "edges", "annotations?", "annotations"} => got.annotations = NoDir
      /\ got.at \in {"edges", "annotations?", "annotations"} => got.nodes \in Artifacts
      /\ got.at \in {"annotations?", "annotations", "done"} => got.edges = got.nodes
      /\ got.at = "done" => got.annotations \in {got.nodes, NoDir}
<1>1. \A r \in Readers : Good(read[r])
  BY DEF LoadInv, LoadsOneBuild
<1>2. (\A r \in Readers : Good(read'[r])) => LoadInv' /\ LoadsOneBuild'
  BY DEF LoadInv, LoadsOneBuild
<1>3. Good(NotReading) /\ Good(StartRead)
  BY DEF NotReading, StartRead
<1>4. ASSUME NEW r \in Readers, NEW got, Good(got), ReadStep(r, got)
      PROVE  \A s \in Readers : Good(read'[s])
  BY <1>1, <1>4 DEF ReadStep, TypeOK
<1>5. ASSUME NEW r \in Readers, LoadStep(r) PROVE \A s \in Readers : Good(read'[s])
  <2> DEFINE got == read[r]
  <2>1. got \in Loads /\ Good(got)
    BY <1>1 DEF TypeOK
  <2>2. Good([got EXCEPT !.at = "failed"])
    BY <2>1 DEF Loads
  <2>3. Holds(1) \/ Holds(2) \/ Holds(3) => target \in Artifacts
    BY DEF Holds
  <2>4. CASE ReadNodes(r)
    <3>1. got.at = "nodes"
      BY <2>4 DEF ReadNodes
    <3>2. Holds(1) => Good([got EXCEPT !.at = "edges", !.nodes = target])
      BY <2>1, <2>3, <3>1 DEF Loads
    <3>3. \E next : Good(next) /\ ReadStep(r, next)
      BY <2>2, <2>4, <3>2 DEF ReadNodes
    <3> QED BY <1>4, <3>3
  <2>5. CASE ReadEdges(r)
    <3>1. got.at = "edges"
      BY <2>5 DEF ReadEdges
    <3>2. ASSUME Holds(2), Version[target] = Version[got.nodes]
          PROVE  Good([got EXCEPT !.at = "annotations?", !.edges = target])
      <4>1. target = got.nodes
        BY <2>1, <2>3, <3>1, <3>2 DEF VersionsDiffer
      <4> QED BY <2>1, <3>1, <4>1 DEF Loads
    <3>3. \E next : Good(next) /\ ReadStep(r, next)
      BY <2>2, <2>5, <3>2 DEF ReadEdges
    <3> QED BY <1>4, <3>3
  <2>6. CASE AnnotationsExist(r)
    <3>1. got.at = "annotations?"
      BY <2>6 DEF AnnotationsExist
    <3>2. /\ Good([got EXCEPT !.at = "annotations"])
          /\ Good([got EXCEPT !.at = "done"])
      BY <2>1, <3>1 DEF Loads
    <3>3. \E next : Good(next) /\ ReadStep(r, next)
      BY <2>2, <2>6, <3>2 DEF AnnotationsExist, Finish, Accepts
    <3> QED BY <1>4, <3>3
  <2>7. CASE ReadAnnotations(r)
    <3>1. got.at = "annotations"
      BY <2>7 DEF ReadAnnotations
    <3>2. ASSUME Holds(3), Version[target] = Version[got.nodes],
                 Finish(r, [got EXCEPT !.annotations = target])
          PROVE  \E next : Good(next) /\ ReadStep(r, next)
      <4> DEFINE whole == [got EXCEPT !.annotations = target]
      <4>1. target = got.nodes
        BY <2>1, <2>3, <3>1, <3>2 DEF VersionsDiffer
      <4>2. Good([whole EXCEPT !.at = "done"]) /\ Good([whole EXCEPT !.at = "failed"])
        BY <2>1, <3>1, <4>1 DEF Loads
      <4>3. \E at \in {"done", "failed"} : ReadStep(r, [whole EXCEPT !.at = at])
        BY <3>2 DEF Finish, Accepts
      <4> QED BY <4>2, <4>3
    <3>3. \E next : Good(next) /\ ReadStep(r, next)
      BY <2>2, <2>7, <3>2 DEF ReadAnnotations
    <3> QED BY <1>4, <3>3
  <2> QED BY <1>5, <2>4, <2>5, <2>6, <2>7 DEF LoadStep
<1>6. ASSUME NEW c \in Calls, CallAction(c) PROVE \A s \in Readers : Good(read'[s])
  <2>1. \/ UNCHANGED read
        \/ ReadStep(c, StartRead)
        \/ ReadStep(c, NotReading)
    BY <1>6 DEF CallAction, Begin, CheckKind, Precheck, PrecheckResult, MakeStaging, WriteFile,
       Validate, Swap, MoveCurrent, Promote, Restore, CleanStaging, DropBackup, Crash
  <2>2. c \in Readers
    BY DEF Readers
  <2>3. CASE UNCHANGED read
    BY <1>1, <2>3
  <2>4. CASE ReadStep(c, StartRead)
    BY <1>3, <1>4, <2>2, <2>4
  <2>5. CASE ReadStep(c, NotReading)
    BY <1>3, <1>4, <2>2, <2>5
  <2> QED BY <2>1, <2>3, <2>4, <2>5
<1>7. ASSUME NEW l \in Loaders, BeginLoad(l) PROVE \A s \in Readers : Good(read'[s])
  BY <1>3, <1>4, <1>7 DEF BeginLoad, Readers
<1>8. CASE UNCHANGED vars
  BY <1>1, <1>2, <1>8 DEF vars
<1> QED BY <1>2, <1>5, <1>6, <1>7, <1>8, StepCases

(* The inductive invariant of publication. *)
PublishInv == TypeOK /\ PhaseInv /\ PlacementInv /\ ArtifactSurvives /\ ForeignInv

(* Nothing is staged, moved away or read before the first call begins. *)
LEMMA PublishInvInit == Init => PublishInv
<1> SUFFICES ASSUME Init PROVE PublishInv
  OBVIOUS
<1> USE EntriesAssumption DEF Init, Artifacts, Entries
<1>1. TypeOK
  BY InitialRecords DEF TypeOK
<1>2. PhaseInv
  BY DEF PhaseInv, BeforeStaging, HasStaging, BeforeMove, CompleteStage
<1>3. PlacementInv
  BY DEF PlacementInv
<1>4. ArtifactSurvives
  BY DEF ArtifactSurvives, Safe
<1>5. ForeignInv
  BY DEF ForeignInv, BeforeStaging, NotReading, Readers
<1> QED BY <1>1, <1>2, <1>3, <1>4, <1>5 DEF PublishInv

(* The five parts hold together in every reachable state: each step of a publish  *)
(* call preserves its part with the help of the others.                           *)
THEOREM PublishInvariant == Spec => []PublishInv
<1>1. PublishInv /\ [Next]_vars => PublishInv'
  BY TypeStep, PhaseStep, PlacementStep, SurvivalStep, ForeignStep DEF PublishInv
<1> QED BY PublishInvInit, <1>1, PTL DEF Spec

(* The variables stay in their sets, for every number of calls and loaders and   *)
(* every bound.                                                                  *)
THEOREM TypeCorrect == Spec => []TypeOK
<1>1. PublishInv => TypeOK
  BY DEF PublishInv
<1> QED BY <1>1, PublishInvariant, PTL

(* However many publishers overlap, fail or are killed, a published artifact or  *)
(* the one before it can always be brought back.                                 *)
THEOREM Survival == Spec => []ArtifactSurvives
<1>1. PublishInv => ArtifactSurvives
  BY DEF PublishInv
<1> QED BY <1>1, PublishInvariant, PTL

(* What a call has put at the target is a whole artifact. *)
THEOREM Completeness == Spec => []CurrentIsComplete
<1>1. PublishInv => CurrentIsComplete
  BY DEF PublishInv, PlacementInv, CurrentIsComplete
<1> QED BY <1>1, PublishInvariant, PTL

(* publish never moves or replaces what it cannot load. *)
THEOREM ForeignKept == Spec => ForeignUntouched
<1>1. PublishInv /\ [Next]_vars => [(target \in {Foreign, PlainFile}) => UNCHANGED target]_vars
  BY ForeignStep DEF PublishInv
<1> QED BY <1>1, PublishInvariant, PTL DEF Spec, ForeignUntouched

(* When no two builds have the same build time, no load returns a mixture.       *)
THEOREM NoMixedLoads == ASSUME VersionsDiffer PROVE Spec => []LoadsOneBuild
<1>1. Init => LoadInv /\ LoadsOneBuild
  BY DEF Init, LoadInv, LoadsOneBuild, NotReading
<1>2. TypeOK /\ LoadInv /\ LoadsOneBuild /\ [Next]_vars => LoadInv' /\ LoadsOneBuild'
  BY LoadInvStep, VersionsDiffer
<1>3. Spec => [](LoadInv /\ LoadsOneBuild)
  BY <1>1, <1>2, TypeCorrect, PTL DEF Spec
<1> QED BY <1>3, PTL

-----------------------------------------------------------------------------
(* Overlapping publishers, with a restore that can only fail because another     *)
(* artifact is in service.                                                       *)

OrphanInv ==
    \A c \in Calls : pc[c] \in {"cleaning", "failed"} /\ backup[c] # NoDir => latest # backup[c]

(* With no failing restore a call keeps its backup only when the target was taken *)
(* by another call, whose artifact is then the latest; later ones are newer still.*)
LEMMA OrphanStep ==
    ASSUME "restore" \notin FaultPoints
    PROVE  PublishInv /\ OrphanInv /\ [Next]_vars => OrphanInv'
<1> SUFFICES ASSUME PublishInv, OrphanInv, [Next]_vars PROVE OrphanInv'
  OBVIOUS
<1> USE DEF OrphanInv
<1>1. ASSUME NEW c \in Calls, CallAction(c) PROVE OrphanInv'
  <2> USE DEF PublishInv, TypeOK, PhaseInv, PlacementInv, Promoted, BeforeStaging, BeforeMove,
              Goto, Fault, MayFail, Working
  <2>1. CASE Begin(c)          BY <2>1 DEF Begin
  <2>2. CASE CheckKind(c)      BY <2>2 DEF CheckKind
  <2>3. CASE Precheck(c)       BY <2>3 DEF Precheck
  <2>4. CASE PrecheckResult(c) BY <2>4 DEF PrecheckResult
  <2>5. CASE MakeStaging(c)    BY <2>5 DEF MakeStaging
  <2>6. CASE WriteFile(c)      BY <2>6 DEF WriteFile
  <2>7. CASE Validate(c)       BY <2>7 DEF Validate
  <2>8. CASE Swap(c)           BY <2>8 DEF Swap
  <2>9. CASE MoveCurrent(c)    BY <2>9 DEF MoveCurrent
  <2>10. CASE Promote(c)       BY <2>10 DEF Promote
  <2>11. CASE Restore(c)       BY <2>11 DEF Restore
  <2>12. CASE CleanStaging(c)  BY <2>12 DEF CleanStaging
  <2>13. CASE DropBackup(c)    BY <2>13 DEF DropBackup
  <2>14. CASE Crash(c)         BY <2>14 DEF Crash
  <2> QED
    BY <1>1, <2>1, <2>2, <2>3, <2>4, <2>5, <2>6, <2>7,
       <2>8, <2>9, <2>10, <2>11, <2>12, <2>13, <2>14 DEF CallAction
<1>2. CASE UNCHANGED Frame
  BY <1>2 DEF Frame
<1> QED BY <1>1, <1>2, StepCases, LoadFrame DEF Frame

(* A failed call that could not put the artifact back was overtaken. *)
THEOREM Superseded ==
    ASSUME "restore" \notin FaultPoints
    PROVE  Spec => []OrphansAreSuperseded
<1>1. Init => OrphanInv
  BY DEF Init, OrphanInv
<1>2. PublishInv /\ OrphanInv /\ [Next]_vars => OrphanInv'
  BY OrphanStep
<1>3. OrphanInv => OrphansAreSuperseded
  BY DEF OrphanInv, OrphansAreSuperseded
<1> QED BY <1>1, <1>2, <1>3, PublishInvariant, PTL DEF Spec

-----------------------------------------------------------------------------
(* With a restore that works and nobody killed, failing calls keep what is in    *)
(* service.                                                                      *)

(* An empty target is one call's open window: what was last in service lies      *)
(* under the backup name of a call between its two renames.                      *)
WindowInv ==
    target = NoDir /\ latest # NoDir =>
        \E c \in Calls : pc[c] \in {"promoting", "restoring"} /\ backup[c] = latest

(* The call that opened the window stays in it until the target is filled.       *)
LEMMA WindowStep ==
    ASSUME "restore" \notin FaultPoints, MaxCrashes = 0
    PROVE  PublishInv /\ WindowInv /\ [Next]_vars => WindowInv'
<1> SUFFICES ASSUME PublishInv, WindowInv, [Next]_vars PROVE WindowInv'
  OBVIOUS
<1> USE DEF WindowInv
<1>1. ASSUME NEW c \in Calls, CallAction(c) PROVE WindowInv'
  <2> USE EntriesAssumption DEF PublishInv, TypeOK, PhaseInv, PlacementInv, BeforeStaging, BeforeMove,
          Goto, Fault, MayFail
  <2>1. CASE Begin(c)          BY <2>1 DEF Begin
  <2>2. CASE CheckKind(c)      BY <2>2 DEF CheckKind
  <2>3. CASE Precheck(c)       BY <2>3 DEF Precheck
  <2>4. CASE PrecheckResult(c) BY <2>4 DEF PrecheckResult
  <2>5. CASE MakeStaging(c)    BY <2>5 DEF MakeStaging
  <2>6. CASE WriteFile(c)      BY <2>6 DEF WriteFile
  <2>7. CASE Validate(c)       BY <2>7 DEF Validate
  <2>8. CASE Swap(c)           BY <2>8 DEF Swap
  <2>9. CASE MoveCurrent(c)    BY <2>9 DEF MoveCurrent
  <2>10. CASE Promote(c)       BY <2>10 DEF Promote
  <2>11. CASE Restore(c)       BY <2>11 DEF Restore
  <2>12. CASE CleanStaging(c)  BY <2>12 DEF CleanStaging
  <2>13. CASE DropBackup(c)    BY <2>13 DEF DropBackup
  <2>14. CASE Crash(c)         BY <2>14, BoundsAssumption DEF Crash
  <2> QED
    BY <1>1, <2>1, <2>2, <2>3, <2>4, <2>5, <2>6, <2>7,
       <2>8, <2>9, <2>10, <2>11, <2>12, <2>13, <2>14 DEF CallAction
<1>2. CASE UNCHANGED Frame
  BY <1>2 DEF Frame
<1> QED BY <1>1, <1>2, StepCases, LoadFrame DEF Frame

(* Whoever overlaps and fails, once no call is in flight the target names what    *)
(* was last in service: a kill or a failing restore is what it takes to leave    *)
(* nothing current.                                                              *)
THEOREM FailuresKeepCurrent ==
    ASSUME "restore" \notin FaultPoints, MaxCrashes = 0
    PROVE  Spec => []FailureKeepsCurrent
<1>1. Init => WindowInv
  BY DEF Init, WindowInv
<1>2. PublishInv /\ WindowInv /\ [Next]_vars => WindowInv'
  BY WindowStep
<1>3. PublishInv /\ WindowInv => FailureKeepsCurrent
  BY DEF PublishInv, PlacementInv, WindowInv, FailureKeepsCurrent, Active, Working
<1> QED BY <1>1, <1>2, <1>3, PublishInvariant, PTL DEF Spec

-----------------------------------------------------------------------------
(* Publication implements CurrentArtifact.                                       *)

(* The variables of CurrentArtifact, as the store's state determines them. *)
Outcomes == [c \in Calls |-> Outcome(c)]
InHand(c) == IF Promoted(c) THEN NoDir ELSE backup[c]
Withdrawn == [c \in Calls |-> InHand(c)]
Promise == <<target, Outcomes, Withdrawn>>

(* The initial target is the initial current artifact, and no call has ended. *)
LEMMA RegisterInit == Init => Register!Init
BY EntriesAssumption DEF Init, Register!Init, Outcome, Promoted

(* A step that changes the outcome of one call, as an action of CurrentArtifact   *)
(* does, is a step of CurrentArtifact.                                            *)
LEMMA RegisterMove ==
    ASSUME NEW c \in Calls,
           \A q \in Calls \ {c} : Outcome(q)' = Outcome(q) /\ InHand(q)' = InHand(q),
           \/ /\ Outcome(c) = "pending" /\ Outcome(c)' = "replacing"
              /\ target \in Calls \cup {Old} /\ target' = NoDir /\ InHand(c)' = target
           \/ /\ Outcome(c) \in {"pending", "replacing"} /\ Outcome(c)' = "published"
              /\ target = NoDir /\ target' = c /\ InHand(c)' = NoDir
           \/ /\ Outcome(c) = "replacing" /\ Outcome(c)' = "failed"
              /\ target = NoDir /\ target' = InHand(c) /\ InHand(c)' = NoDir
           \/ /\ Outcome(c) = "replacing" /\ Outcome(c)' = "lost"
              /\ target # NoDir \/ <<faults, crashes>>' # <<faults, crashes>>
              /\ target' = target /\ InHand(c)' = InHand(c)
           \/ /\ Outcome(c) = "pending" /\ Outcome(c)' = "failed"
              /\ target' = target /\ InHand(c)' = InHand(c)
    PROVE  Register!Next
<1>1. Outcomes[c] = Outcome(c) /\ Withdrawn[c] = InHand(c)
  BY DEF Outcomes, Withdrawn
<1>2. /\ Outcomes' = [Outcomes EXCEPT ![c] = Outcome(c)']
      /\ Withdrawn' = [Withdrawn EXCEPT ![c] = InHand(c)']
  BY DEF Outcomes, Withdrawn
<1>3. InHand(c)' = InHand(c) => Withdrawn' = Withdrawn
  BY DEF Withdrawn
<1> QED
  BY <1>1, <1>2, <1>3
     DEF Register!Next, Register!Withdraw, Register!Publish, Register!PutBack, Register!Lose,
         Register!Fail, Register!Ends, Outcomes, Withdrawn, InHand

(* The renames are Withdraw, Publish and PutBack, the step in which a call gives  *)
(* up is Fail or Lose, and every other step leaves CurrentArtifact as it is.      *)
LEMMA RegisterStep == PublishInv /\ [Next]_vars => [Register!Next]_Promise
<1> SUFFICES ASSUME PublishInv, [Next]_vars
             PROVE  Register!Next \/ UNCHANGED Promise
  OBVIOUS
<1>1. ASSUME NEW c \in Calls, CallAction(c)
      PROVE  Register!Next \/ UNCHANGED Promise
  <2> DEFINE OthersKeep == \A q \in Calls \ {c} : Outcome(q)' = Outcome(q) /\ InHand(q)' = InHand(q)
             Keeps == target' = target /\ InHand(c)' = InHand(c)
             Fails == Outcome(c) = "pending" /\ Outcome(c)' = "failed" /\ Keeps
             Loses == /\ Outcome(c) = "replacing" /\ Outcome(c)' = "lost" /\ Keeps
                      /\ target # NoDir \/ <<faults, crashes>>' # <<faults, crashes>>
             Idles == Outcome(c)' = Outcome(c) /\ Keeps
  <2>0. CASE OthersKeep /\ Idles
    BY <2>0 DEF Promise, Outcomes, Withdrawn
  <2>f. CASE OthersKeep /\ Fails
    BY <2>f, RegisterMove
  <2>l. CASE OthersKeep /\ Loses
    BY <2>l, RegisterMove
  <2> USE EntriesAssumption DEF PublishInv, TypeOK, PhaseInv, PlacementInv, Promoted, Goto,
          BeforeStaging, HasStaging, BeforeMove, CompleteStage, Artifacts, Outcome, InHand
  <2>1. CASE Begin(c)          BY <2>0, <2>1 DEF Begin
  <2>2. CASE CheckKind(c)
    <3>1. OthersKeep /\ (Fails \/ Idles)
      BY <2>2 DEF CheckKind
    <3> QED BY <2>0, <2>f, <3>1
  <2>3. CASE Precheck(c)       BY <2>0, <2>3 DEF Precheck
  <2>4. CASE PrecheckResult(c)
    <3>1. OthersKeep /\ (Fails \/ Idles)
      BY <2>4 DEF PrecheckResult
    <3> QED BY <2>0, <2>f, <3>1
  <2>5. CASE MakeStaging(c)    BY <2>0, <2>5 DEF MakeStaging
  <2>6. CASE WriteFile(c)
    <3>1. OthersKeep /\ (Fails \/ Idles)
      BY <2>6 DEF WriteFile
    <3> QED BY <2>0, <2>f, <3>1
  <2>7. CASE Validate(c)
    <3>1. OthersKeep /\ (Fails \/ Idles)
      BY <2>7 DEF Validate
    <3> QED BY <2>0, <2>f, <3>1
  <2>8. CASE Swap(c)           BY <2>0, <2>8 DEF Swap
  <2>9. CASE MoveCurrent(c)
    <3>1. CASE target # NoDir /\ backup' = [backup EXCEPT ![c] = target] /\ target' = NoDir
      <4>1. target \in Calls \cup {Old}
        BY <2>9, <3>1 DEF MoveCurrent, ForeignInv, Entries
      <4>2. OthersKeep /\ Outcome(c) = "pending" /\ Outcome(c)' = "replacing" /\ InHand(c)' = target
        BY <2>9, <3>1 DEF MoveCurrent
      <4> QED BY <3>1, <4>1, <4>2, RegisterMove
    <3>2. CASE UNCHANGED <<target, backup>> /\ pc'[c] = "cleaning"
      <4>1. OthersKeep /\ Fails
        BY <2>9, <3>2 DEF MoveCurrent
      <4> QED BY <2>f, <4>1
    <3> QED BY <2>9, <3>1, <3>2 DEF MoveCurrent
  <2>10. CASE Promote(c)
    <3>1. CASE target = NoDir /\ target' = c
      <4>1. /\ OthersKeep /\ Outcome(c) \in {"pending", "replacing"}
            /\ Outcome(c)' = "published" /\ InHand(c)' = NoDir
        BY <2>10, <3>1 DEF Promote
      <4> QED BY <3>1, <4>1, RegisterMove
    <3>2. CASE UNCHANGED <<target, latest, staging>>
      <4>1. OthersKeep /\ (Fails \/ Idles)
        BY <2>10, <3>2 DEF Promote
      <4> QED BY <2>0, <2>f, <4>1
    <3> QED BY <2>10, <3>1, <3>2 DEF Promote
  <2>11. CASE Restore(c)
    <3>1. CASE target = NoDir /\ target' = backup[c] /\ backup' = [backup EXCEPT ![c] = NoDir]
      <4>1. /\ OthersKeep /\ Outcome(c) = "replacing" /\ Outcome(c)' = "failed"
            /\ target' = InHand(c) /\ InHand(c)' = NoDir
        BY <2>11, <3>1 DEF Restore
      <4> QED BY <3>1, <4>1, RegisterMove
    <3>2. CASE /\ UNCHANGED <<target, backup, latest>>
               /\ target # NoDir \/ faults' = faults + 1
      <4>1. OthersKeep /\ Loses
        BY <2>11, <3>2 DEF Restore
      <4> QED BY <2>l, <4>1
    <3> QED BY <2>11, <3>1, <3>2 DEF Restore, Fault
  <2>12. CASE CleanStaging(c)
    <3>1. OthersKeep /\ Idles
      BY <2>12 DEF CleanStaging
    <3> QED BY <2>0, <3>1
  <2>13. CASE DropBackup(c)    BY <2>0, <2>13 DEF DropBackup
  <2>14. CASE Crash(c)
    <3>1. OthersKeep
      BY <2>14 DEF Crash
    <3>2. Fails \/ Loses \/ Idles
      BY <2>14 DEF Crash, Working
    <3> HIDE DEF OthersKeep, Fails, Loses, Idles
    <3> QED BY <2>0, <2>f, <2>l, <3>1, <3>2
  <2> QED
    BY <1>1, <2>1, <2>2, <2>3, <2>4, <2>5, <2>6, <2>7,
       <2>8, <2>9, <2>10, <2>11, <2>12, <2>13, <2>14 DEF CallAction
<1>2. CASE UNCHANGED Frame
  BY <1>2 DEF Frame, Promise, Outcomes, Withdrawn, InHand, Outcome, Promoted
<1> QED BY <1>1, <1>2, StepCases, LoadFrame DEF Frame

(* However many publishers overlap, fail or are killed, the target changes as    *)
(* CurrentArtifact says: it is emptied of what is replaceable, filled by the     *)
(* call that publishes or puts back, and what a call moved away is lost to it    *)
(* only with a kill, a failing restore, or another artifact in its place.        *)
THEOREM Refinement == Spec => ImplementsRegister
<1>1. Spec => Register!Init /\ [][Register!Next]_Promise
  BY PublishInvariant, RegisterInit, RegisterStep, PTL DEF Spec
<1> QED
  BY <1>1, PTL
     DEF ImplementsRegister, Register!Spec, Register!promise, Promise, Outcomes, Withdrawn, InHand
===============================================================================
