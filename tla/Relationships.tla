---------------------------- MODULE Relationships ----------------------------
(* The published graph: what model/derivation.py and model/relationship.py make  *)
(* of the entity definitions.  A graph is the sequence of the definitions in the *)
(* ascending order of their keys (dataset, logical entity, columns); a           *)
(* definition is its position in it, so the order of keys is that of positions.  *)
EXTENDS Integers, Sequences, FiniteSets, SequencesExt, Derivation

VARIABLE graph  \* the graph of the loaded snapshot; nothing changes it

(* of the claims of a definition, navigation looks at unique *)
Definitions == DOMAIN graph
Node(d)     == graph[d].node

(* PathGraph.on_dataset: the definitions of dataset n, in order *)
OnDataset(n) == SelectSeq([d \in Definitions |-> d], LAMBDA d : Node(d) = n)

(* the first few of some definitions in the order of their keys *)
FirstOf(definitions, few) == {d \in definitions : Cardinality({e \in definitions : e < d}) < few}

Related(a, b) == a # b /\ Joinable(graph[a], graph[b])

(* edge_id_for, canonicalize: a relationship is named by its endpoints in order; *)
(* edge IDs are compared as such pairs                                           *)
EdgeId(a, b) == IF a <= b THEN <<a, b>> ELSE <<b, a>>
EdgeLess(e, f) == e[1] < f[1] \/ (e[1] = f[1] /\ e[2] < f[2])

(* of the directed edge from a to b *)
Multiplicity(a, b) == DerivedMultiplicity(graph[a], graph[b])
Multiplicities == ({"one", "many"} \X {"one", "many"}) \cup {<<"unknown", "unknown">>}

(* PathGraph.edges: where the directed edges leaving definition a lead, in the   *)
(* order of their edge IDs                                                       *)
Targets(a) == SelectSeq([d \in Definitions |-> d], LAMBDA d : Related(a, d))

(* the edge IDs of the snapshot *)
EdgeIds == {e \in Definitions \X Definitions : e[1] < e[2] /\ Related(e[1], e[2])}

(* and in order *)
Edges == FlattenSeq([a \in Definitions |->
    LET after == SelectSeq(Targets(a), LAMBDA b : a < b)
    IN  [i \in DOMAIN after |-> EdgeId(a, after[i])]])
=============================================================================
