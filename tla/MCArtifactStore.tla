--------------------------- MODULE MCArtifactStore ---------------------------
(* TLC instances of ArtifactStore. *)
EXTENDS ArtifactStore, TLC

CONSTANTS c1, c2, c3, l1

(* every build in a second of its own *)
DistinctVersions == [d \in Calls \cup {Old, Foreign} |-> d]

(* every build in the same second *)
SameVersion == [d \in Calls \cup {Old, Foreign} |-> Old]

AllStages == Stages
HandledStages == Stages \ {"restore"}
NoStages == {}

Symmetry == Permutations(Calls)
=============================================================================
