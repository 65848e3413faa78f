------------------------------- MODULE Lookups -------------------------------
(* Detail of one object by its ID: get_identity, get_dataset, get_relationship   *)
(* of service/read.py with the parameter checks of service/contracts.py and the  *)
(* error codes of rpc/protocol.py.  The definitions of these graphs have all     *)
(* their claims, and the columns that tell those of one dataset and entity apart.*)
EXTENDS Relationships

CONSTANTS LookupGraphs,  \* the graphs to look in
          LookupRequests \* records of RelationshipRequests, IdentityRequests, DatasetRequests

Unnamed  == 0  \* a parameter that the caller left out
Universes == {"complete", "partial", "unknown"}

RelationshipRequests == [method : {"get_relationship"}, edge : Nat \X Nat, from : Nat, columns : Nat]
IdentityRequests == [method : {"get_identity"}, identity : Nat, universes : SUBSET Universes, limit : Nat \ {0}]
DatasetRequests  == [method : {"get_dataset"}, node : Nat]

ASSUME LookupAssumption ==
    /\ LookupRequests \subseteq RelationshipRequests \cup IdentityRequests \cup DatasetRequests
    /\ \A g \in LookupGraphs : g \in Seq(ToSet(g))

VARIABLES
    detail, \* the request under way
    reply   \* "idle", "pending", an error, or what was found

lookupVars == <<detail, reply>>

-----------------------------------------------------------------------------
(* Stored relationships and the directed edges that show them                   *)

Claims(a, b) == [multiplicity |-> Multiplicity(a, b),
                 existence    |-> DerivedMatchExistence(graph[a], graph[b])]

(* canonicalize: the ends of a relationship are in the order of their keys, its  *)
(* claims with them                                                              *)
Stored(e) == [a |-> e[1], b |-> e[2], aToB |-> Claims(e[1], e[2]), bToA |-> Claims(e[2], e[1])]

(* Mutated form: the direction is told by the dataset it leaves, as              *)
(* JoinRelationship.direction_from does.                                         *)
FromAByDataset(r, source) == Node(source) = Node(r.a)

(* DirectedEdge._from_a *)
FromA(r, source) == source = r.a

(* DirectedEdge, directed_edge_from *)
DirectedEdge(r, source) ==
    [source   |-> source,
     target   |-> IF source = r.a THEN r.b ELSE r.a,
     outgoing |-> IF FromA(r, source) THEN r.aToB ELSE r.bToA,
     reverse  |-> IF FromA(r, source) THEN r.bToA ELSE r.aToB]

(* directed_edges_by_dataset *)
DirectedEdgesOf(n) ==
    UNION {{DirectedEdge(Stored(e), d) : d \in {d \in {e[1], e[2]} : Node(d) = n}} : e \in EdgeIds}

-----------------------------------------------------------------------------
(* Lookups                                                                      *)

NotFound == [error |-> "RESOURCE_NOT_FOUND"]
Invalid  == [error |-> "INVALID_PARAMS"]
Waiting  == [error |-> "none"]
NoEdge   == [error |-> "no endpoint was named"]

LookupIdle == detail = [method |-> "none"] /\ reply = Waiting
LookupInit == graph \in LookupGraphs /\ detail \in LookupRequests /\ reply = Waiting

Asked(method) == reply = Waiting /\ detail.method = method
Reply(what)  == reply' = what /\ UNCHANGED <<graph, detail>>

ColumnsAlone == detail.columns # Unnamed /\ detail.from = Unnamed

(* _edge_from: the ends that the caller may mean *)
MeantEnds == {d \in {detail.edge[1], detail.edge[2]} :
            Node(d) = detail.from /\ detail.columns \in {Unnamed, graph[d].columns}}

(* parameters that are checked before anything is looked up *)
RefuseRelationship ==
    /\ Asked("get_relationship")
    /\ ColumnsAlone
    /\ Reply(Invalid)

MissRelationship ==
    /\ Asked("get_relationship")
    /\ ~ColumnsAlone /\ detail.edge \notin EdgeIds
    /\ Reply(NotFound)

RelationshipReply(edge) ==
    LET r == Stored(detail.edge)
    IN  [relationship |-> r, edge |-> edge, definitions |-> {r.a, r.b}, datasets |-> {Node(r.a), Node(r.b)}]

(* without an endpoint: the relationship alone *)
ReadRelationship ==
    /\ Asked("get_relationship")
    /\ detail.edge \in EdgeIds
    /\ detail.from = Unnamed /\ ~ColumnsAlone
    /\ Reply(RelationshipReply(NoEdge))

(* with one: no end, or both, may lie there *)
ReadRelationshipFrom ==
    /\ Asked("get_relationship")
    /\ detail.edge \in EdgeIds
    /\ detail.from # Unnamed
    /\ IF Cardinality(MeantEnds) = 1
       THEN \E d \in MeantEnds : Reply(RelationshipReply(DirectedEdge(Stored(detail.edge), d)))
       ELSE Reply(Invalid)

(* the logical entities and datasets of the snapshot are those with definitions, *)
(* here                                                                          *)
IdentityIds == {graph[d].identity : d \in Definitions}
NodeIds     == {Node(d) : d \in Definitions}

MissObject ==
    /\ \/ Asked("get_identity") /\ detail.identity \notin IdentityIds
       \/ Asked("get_dataset") /\ detail.node \notin NodeIds
    /\ Reply(NotFound)

Matching == {d \in Definitions : graph[d].identity = detail.identity /\ graph[d].universe \in detail.universes}

(* the universe filter applies before the limit *)
ReadIdentity ==
    LET selected == FirstOf(Matching, detail.limit)
    IN  /\ Asked("get_identity") /\ detail.identity \in IdentityIds
        /\ Reply([definitions |-> selected, datasets |-> {Node(d) : d \in selected},
                   truncated   |-> Cardinality(Matching) > detail.limit])

ReadDataset ==
    /\ Asked("get_dataset") /\ detail.node \in NodeIds
    /\ Reply([definitions |-> {d \in Definitions : Node(d) = detail.node}])

LookupNext ==
    \/ RefuseRelationship \/ MissRelationship \/ ReadRelationship \/ ReadRelationshipFrom
    \/ MissObject \/ ReadIdentity \/ ReadDataset

-----------------------------------------------------------------------------
(* Properties                                                                   *)

(* the pairs <<source, target>> of related definitions that a caller who names   *)
(* this relationship and these ends may mean                                     *)
Meant == {p \in Definitions \X Definitions :
    /\ Related(p[1], p[2]) /\ EdgeId(p[1], p[2]) = detail.edge
    /\ detail.from \in {Unnamed, Node(p[1])}
    /\ detail.columns \in {Unnamed, graph[p[1]].columns}}

(* the end that was named, or none or both *)
DirectionShown ==
    /\ reply = Invalid <=> Cardinality(Meant) # 1
    /\ reply # Invalid => \A p \in Meant :
           /\ reply.edge = [source |-> p[1], target |-> p[2],
                            outgoing |-> Claims(p[1], p[2]), reverse |-> Claims(p[2], p[1])]
           /\ reply.edge \in DirectedEdgesOf(detail.from)

ClaimsShown == \A p \in Meant :
    {reply.relationship.aToB, reply.relationship.bToA} = {Claims(p[1], p[2]), Claims(p[2], p[1])}

IdentityShown ==
    LET all == {d \in Definitions : graph[d].identity = detail.identity /\ graph[d].universe \in detail.universes}
    IN  /\ reply.definitions \subseteq all
        /\ \A d, e \in reply.definitions : d # e => EdgeId(d, e) \in EdgeIds
        /\ reply.truncated <=> reply.definitions # all
        /\ reply.truncated => Cardinality(reply.definitions) = detail.limit
        /\ \A d \in all \ reply.definitions : \A e \in reply.definitions : e < d

DatasetShown == \A d \in reply.definitions :
    {e.target : e \in {e \in DirectedEdgesOf(detail.node) : e.source = d}} = {t \in Definitions : Related(d, t)}

(* A directed edge read by the ID of its relationship and where it starts is the *)
(* one that navigation shows there, with the claims derived from its own source  *)
(* to its own target and back, on the same dataset too; it is refused exactly    *)
(* when no or both directions are meant.  An entity's definitions are all those  *)
(* of the universes asked for unless the reply is truncated, each a neighbour of *)
(* all the others; from each definition of a dataset a directed edge leads to    *)
(* every definition that it is related to, on the same dataset too.              *)
LookedUpAsShown ==
    reply \notin {Waiting, NotFound} =>
        /\ detail.method = "get_relationship" =>
               IF detail.from # Unnamed THEN DirectionShown ELSE (reply # Invalid => ClaimsShown)
        /\ detail.method = "get_identity" => IdentityShown
        /\ detail.method = "get_dataset" => DatasetShown
=============================================================================
