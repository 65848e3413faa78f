------------------------------ MODULE AkgExport ------------------------------
(* akg/export.py: what the Markdown of an AKG document calls the datasets, and    *)
(* how many components it counts, by joining the ends of one directed edge after  *)
(* another in a forest whose paths are halved whenever a root is looked for.      *)
(*                                                                                *)
(* A document is a record [datasets, called, edges]: the nodes of its datasets,   *)
(* the full name of every node as the sequence of its parts, and the sequence of  *)
(* its directed edges as pairs of nodes, from one of the datasets to any node.    *)
EXTENDS Naturals, SequencesExt

CONSTANT Exported   \* the documents that are exported

ASSUME ExportAssumption == \A doc \in Exported :
    IsFiniteSet(doc.datasets) /\ doc.edges \in Seq(doc.datasets \X DOMAIN doc.called)

VARIABLE export
(* how far the export is (at), the document, the edges left to be joined, the     *)
(* forest, where the search for a root has got, and the root of the edge's end    *)

NoNode   == "no node"
NoExport == [at |-> "over", doc |-> [datasets |-> {}, called |-> <<>>, edges |-> <<>>],
             left |-> <<>>, parent |-> <<>>, walk |-> NoNode, root |-> NoNode, count |-> 0]

ExportInit == \E doc \in Exported :
    export = [NoExport EXCEPT !.at = "take", !.doc = doc, !.left = doc.edges,
                              !.parent = [n \in doc.datasets |-> n]]
ExportIdle == export = NoExport

-----------------------------------------------------------------------------
(* _aliases, of the datasets and of the nodes that edges lead to besides: the     *)
(* last part of the name where no other node has it, or else all of the name.  A  *)
(* node that is not a dataset of the document is called by its ID.                *)
Named(doc) == doc.datasets \cup {doc.edges[i][2] : i \in DOMAIN doc.edges}
Short(doc, n) == <<Last(doc.called[n])>>

Alias(doc, n) ==
    IF \E m \in Named(doc) \ {n} : Short(doc, m) = Short(doc, n) THEN doc.called[n] ELSE Short(doc, n)

-----------------------------------------------------------------------------
(* _component_count: the next edge, unless it leads out of the document *)
TakeEdge ==
    /\ export.at = "take" /\ export.left # <<>>
    /\ LET end == Head(export.left)[2]
       IN  export' = IF end \in export.doc.datasets
                     THEN [export EXCEPT !.at = "end", !.walk = end]
                     ELSE [export EXCEPT !.left = Tail(@)]

(* root: one step towards it, which leaves the node its grandparent's child *)
Climb ==
    /\ export.at \in {"end", "start"} /\ export.parent[export.walk] # export.walk
    /\ LET grandparent == export.parent[export.parent[export.walk]]
       IN  export' = [export EXCEPT !.parent[export.walk] = grandparent, !.walk = grandparent]

(* the root of the edge's end is found; that of its start is looked for *)
Turn ==
    /\ export.at = "end" /\ export.parent[export.walk] = export.walk
    /\ export' = [export EXCEPT !.at = "start", !.root = export.walk, !.walk = Head(export.left)[1]]

(* Mutated form: the start itself is moved below the root, not its own root. *)
MeetFromStart ==
    /\ export.at = "start" /\ export.parent[export.walk] = export.walk
    /\ export' = [export EXCEPT !.at = "take", !.parent[Head(export.left)[1]] = export.root,
                                !.left = Tail(@), !.walk = NoNode, !.root = NoNode]

Meet ==
    /\ export.at = "start" /\ export.parent[export.walk] = export.walk
    /\ export' = [export EXCEPT !.at = "take", !.parent[export.walk] = export.root,
                                !.left = Tail(@), !.walk = NoNode, !.root = NoNode]

(* the roots that are left are counted *)
Count ==
    /\ export.at = "take" /\ export.left = <<>>
    /\ export' = [export EXCEPT !.at = "over", !.count = Cardinality({n \in DOMAIN export.parent : export.parent[n] = n})]

ExportNext == TakeEdge \/ Climb \/ Turn \/ Meet \/ Count

-----------------------------------------------------------------------------
(* the components of a document: its smallest sets of datasets that no edge leaves *)
Apart(doc, part) == \A i \in DOMAIN doc.edges :
    LET ends == ToSet(doc.edges[i]) IN ends \subseteq doc.datasets => ends \subseteq part \/ ends \cap part = {}
Components(doc) == {part \in (SUBSET doc.datasets) \ {{}} :
    Apart(doc, part) /\ ~\E less \in (SUBSET part) \ {{}, part} : Apart(doc, less)}

(* The export counts the components there are, whatever the order and direction   *)
(* of the edges, and calls no two nodes by one name unless they have one name in  *)
(* full: a short name of one is never the full name of another.                   *)
ExportReads ==
    LET doc == export.doc
    IN  /\ export.at = "over" => export.count = Cardinality(Components(doc))
        /\ \A m, n \in Named(doc) : Alias(doc, m) = Alias(doc, n) => doc.called[m] = doc.called[n]
=============================================================================
