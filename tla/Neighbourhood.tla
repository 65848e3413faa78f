---------------------------- MODULE Neighbourhood ----------------------------
(* Datasets around some seeds and the directed edges that leave them: expand of  *)
(* query/neighbourhood.py, called by GraphReadService.expand_subgraph and        *)
(* get_edges.  Datasets are reached level by level; what is returned is then     *)
(* capped twice, by datasets and by directed edges of an entity definition.      *)
EXTENDS Relationships

CONSTANTS NeighbourGraphs,  \* the graphs to expand in
          NeighbourRequests \* records [seeds, depth, maxNodes, limit, identity, columns, referencedOnly]

ASSUME NeighbourAssumption ==
    /\ \A g \in NeighbourGraphs : g \in Seq(ToSet(g)) /\ \A d \in DOMAIN g : g[d].node \in Int
    /\ \A q \in NeighbourRequests :
           /\ q.seeds \in SUBSET Int /\ IsFiniteSet(q.seeds) /\ q.seeds # {}
           /\ q.depth \in Nat /\ q.maxNodes \in Nat \ {0} /\ q.limit \in Nat \ {0}
           /\ q.identity \in Int /\ q.columns \in Int /\ q.referencedOnly \in BOOLEAN
           /\ q.referencedOnly => q.depth = 1  \* get_edges

VARIABLES
    query,    \* the request under way
    phase,    \* "idle", "growing", "listed", "refused"
    distance, \* of each dataset reached, from the nearest seed
    frontier, \* the datasets reached at the last level
    depth,    \* how many levels were expanded
    view      \* the answer: datasets, their edge groups, and whether it is truncated

neighbourVars == <<query, phase, distance, frontier, depth, view>>

-----------------------------------------------------------------------------
(* Directed edges                                                               *)

(* directed_edges_by_dataset: where the directed edges that leave definition a   *)
(* lead; in the order of DirectedEdge.sort_key they are in that of positions     *)
Leaving(a) == {b \in Definitions : Related(a, b)}

NotNamed == 0  \* the identity or the columns of a request that names none

(* _definition_filter: what get_edges is asked for; columns name a definition *)
Matched(a) == query.identity \in {NotNamed, graph[a].identity} /\ query.columns \in {NotNamed, a}

(* the definitions that dataset n is left from *)
Followed(n) == {a \in Definitions : Node(a) = n /\ Matched(a) /\ Leaving(a) # {}}

Neighbours(n) == UNION {{Node(b) : b \in Leaving(a)} : a \in Followed(n)}

-----------------------------------------------------------------------------
(* What is returned                                                             *)

(* Mutated form: datasets are ordered by name alone. *)
NearerByName(m, n) == m < n

Nearer(m, n) == distance[m] < distance[n] \/ (distance[m] = distance[n] /\ m < n)

(* the first max_nodes of the datasets reached *)
Selected == {n \in DOMAIN distance :
    Cardinality({m \in DOMAIN distance : Nearer(m, n)}) < query.maxNodes}

(* group_edges: of the edges that leave definition a, the first few whose        *)
(* targets are kept                                                              *)
Group(a, kept) ==
    [source  |-> a, count |-> Cardinality(Leaving(a)),
     targets |-> FirstOf({b \in Leaving(a) : Node(b) \in kept}, query.limit)]

Groups(n, kept) == {Group(a, kept) : a \in Followed(n)}

GroupTruncated(g) == Cardinality(g.targets) < g.count

CapsOmit(groups) ==
    \/ Selected # DOMAIN distance
    \/ \E n \in DOMAIN groups : \E g \in groups[n] : GroupTruncated(g)

(* the datasets to which listed edges lead *)
ListedTargets(groups) ==
    {Node(b) : b \in UNION {UNION {g.targets : g \in groups[n]} : n \in DOMAIN groups}}

(* the answer; its lists are in the order of Nearer and of positions *)
Presented ==
    LET expanded == {n \in Selected : distance[n] < query.depth}
        groups   == [n \in expanded |-> Groups(n, Selected)]
        named    == query.seeds \cup ListedTargets(groups)
    IN  [datasets  |-> {n \in Selected : query.referencedOnly => n \in named},
         groups    |-> groups,
         truncated |-> CapsOmit(groups)]

-----------------------------------------------------------------------------
(* expand                                                                       *)

NoView  == [datasets |-> {}, groups |-> <<>>, truncated |-> FALSE]
NoQuery == [seeds |-> {}, depth |-> 0, maxNodes |-> 1, limit |-> 1,
            identity |-> NotNamed, columns |-> NotNamed, referencedOnly |-> FALSE]

NeighbourFresh(label, q) ==
    /\ query = q
    /\ phase = label
    /\ distance = [n \in q.seeds |-> 0]
    /\ frontier = q.seeds
    /\ depth = 0
    /\ view = NoView

NeighbourIdle == NeighbourFresh("idle", NoQuery)
NeighbourInit == graph \in NeighbourGraphs /\ \E q \in NeighbourRequests : NeighbourFresh("asked", q)

TooManySeeds == Cardinality(query.seeds) > query.maxNodes

NothingMatched ==
    query.identity # NotNamed /\ \A n \in query.seeds : \A a \in Definitions : Node(a) = n => ~Matched(a)

(* expand_subgraph has no room for its seeds, or get_edges is asked for          *)
(* definitions that the dataset does not have                                    *)
Refuse ==
    /\ phase = "asked"
    /\ \/ TooManySeeds
       \/ NothingMatched
    /\ phase' = "refused"
    /\ UNCHANGED <<graph, query, distance, frontier, depth, view>>

ExpandLevel ==
    LET following == (UNION {Neighbours(n) : n \in frontier}) \ DOMAIN distance
    IN  /\ phase = "asked"
        /\ ~TooManySeeds /\ ~NothingMatched
        /\ depth < query.depth
        /\ depth' = depth + 1
        /\ distance' = [n \in DOMAIN distance \cup following |-> IF n \in following THEN depth + 1 ELSE distance[n]]
        /\ frontier' = following
        /\ UNCHANGED <<graph, query, phase, view>>

(* the caps are applied and the answer is made *)
Present ==
    /\ phase = "asked"
    /\ ~TooManySeeds /\ ~NothingMatched
    /\ depth = query.depth
    /\ phase' = "listed"
    /\ view' = Presented
    /\ UNCHANGED <<graph, query, distance, frontier, depth>>

NeighbourNext == Refuse \/ ExpandLevel \/ Present

NeighbourSpec == NeighbourInit /\ [][NeighbourNext]_<<graph, neighbourVars>>

-----------------------------------------------------------------------------
(* Reference                                                                    *)

(* datasets at most n relationships away from the seeds; a definition that is    *)
(* not matched is followed from nowhere                                          *)
Within[n \in Nat] ==
    IF n = 0 THEN query.seeds
    ELSE Within[n - 1] \cup {Node(b) : b \in {b \in Definitions :
             \E a \in Definitions : Node(a) \in Within[n - 1] /\ Matched(a) /\ Related(a, b)}}

Closer(n, d) == \E k \in 0..(d - 1) : n \in Within[k]

(* the directed edges that leave dataset n and match what is asked for *)
EdgesFrom(n) == {e \in Definitions \X Definitions :
    Node(e[1]) = n /\ Matched(e[1]) /\ Related(e[1], e[2])}

Listed   == phase = "listed"
Shown    == view.datasets
Expanded == DOMAIN view.groups
EdgesShown(n) == UNION {{<<g.source, b>> : b \in g.targets} : g \in view.groups[n]}

-----------------------------------------------------------------------------
(* Properties                                                                   *)

(* "max_nodes caps datasets in that order": the cap never leaves out a seed or   *)
(* all the datasets through which one that is returned was reached, and the      *)
(* distance of a returned dataset is the true one.  "A directed edge whose       *)
(* target is omitted is not listed", and with referencedOnly a dataset is        *)
(* returned only for an edge that leads to it.                                   *)
CappedStaysNear ==
    Listed =>
        LET targets == {Node(e[2]) : e \in UNION {EdgesShown(n) : n \in Expanded}} IN
        /\ targets \subseteq Shown
        /\ query.referencedOnly => Shown \subseteq query.seeds \cup targets
        /\ query.seeds \subseteq Shown
        /\ \A n \in Shown : n \in Within[distance[n]] /\ ~Closer(n, distance[n])
        /\ \A n \in Shown \ query.seeds : \E m \in Expanded \cap Shown :
               /\ distance[m] = distance[n] - 1
               /\ \E e \in EdgesFrom(m) : Node(e[2]) = n

(* "truncated reports whether either cap omitted anything": exactly the answers  *)
(* that are not truncated hold every dataset up to the depth and both directed   *)
(* edges of a relationship between two expanded datasets, or of one with itself. *)
WholeUnlessTruncated ==
    Listed =>
        (view.truncated <=>
            ~(/\ Shown = Within[query.depth]
              /\ \A n \in Shown : Closer(n, query.depth) =>
                     n \in Expanded /\ EdgesShown(n) = EdgesFrom(n)))
=============================================================================
