--------------------------- MODULE ConnectingTree ---------------------------
(* The subgraph that connects some datasets: connecting_tree of                  *)
(* query/connecting.py, called by GraphReadService.find_connecting_subgraph.     *)
(* Regions grow around the terminals, level by level; the cheapest boundary edge *)
(* between every two regions is a candidate, and Kruskal's algorithm chooses     *)
(* among the candidates.                                                         *)
EXTENDS Relationships

CONSTANTS TreeGraphs,  \* the graphs to connect datasets of
          TerminalSets \* the sets of datasets to connect

ASSUME TerminalsAssumption == \A t \in TerminalSets : IsFiniteSet(t) /\ Cardinality(t) >= 2

VARIABLES
    terminals, \* the datasets to connect
    level,     \* the distance of the frontier from the terminals
    region,    \* what the regions have become; a level's frontier is region.reached
    tree       \* the answer: its status, nodes and edges

treeVars == <<terminals, level, region, tree>>

-----------------------------------------------------------------------------
(* Regions                                                                      *)

(* GraphReadIndex.adjacency: the relationships with an endpoint on dataset n, in *)
(* the order of their edge IDs                                                   *)
Touches(e, n)  == n \in {Node(e[1]), Node(e[2])}
Opposite(e, n) == IF Node(e[1]) = n THEN Node(e[2]) ELSE Node(e[1])
Adjacency(n)   == SelectSeq(Edges, LAMBDA e : Touches(e, n))

(* A record of regions: the terminal that owns each dataset reached and its      *)
(* distance, the dataset and the edge it was reached by, the candidates by the   *)
(* pair of regions they join, and the datasets reached at this level, in order.  *)
Seeds(ts) == [owner       |-> [t \in ts |-> t],
              distance    |-> [t \in ts |-> 0],
              predecessor |-> <<>>,
              candidates  |-> <<>>,
              reached     |-> SortSeq(SetToSeq(ts), <)]

(* Mutated form: candidates are compared by their edge IDs alone. *)
CandidateLessById(c, d) == EdgeLess(c.edge, d.edge)

CandidateLess(c, d) == c.cost < d.cost \/ (c.cost = d.cost /\ EdgeLess(c.edge, d.edge))

(* one edge of the dataset under visit: it reaches a new dataset, or it may be   *)
(* the best boundary edge yet between two regions                                *)
Follow(r, current, e) ==
    LET other == Opposite(e, current)
        pair  == {r.owner[current], r.owner[other]}
        candidate == [cost |-> r.distance[current] + 1 + r.distance[other], edge |-> e]
    IN  IF other \notin DOMAIN r.owner
        THEN [r EXCEPT !.owner       = (other :> r.owner[current]) @@ @,
                       !.distance    = (other :> r.distance[current] + 1) @@ @,
                       !.predecessor = (other :> <<current, e>>) @@ @,
                       !.reached     = Append(@, other)]
        ELSE IF /\ r.owner[other] # r.owner[current]
                /\ pair \in DOMAIN r.candidates => CandidateLess(candidate, r.candidates[pair])
        THEN [r EXCEPT !.candidates = (pair :> candidate) @@ @]
        ELSE r

Visit(r, current) == FoldLeft(LAMBDA q, e : Follow(q, current, e), r, Adjacency(current))

(* one level: every dataset of the frontier is visited *)
Grow(r) == FoldLeft(Visit, [r EXCEPT !.reached = <<>>], r.reached)

-----------------------------------------------------------------------------
(* The tree                                                                     *)

Unbounded == 2 * Len(graph) + 1  \* more than any candidate costs

(* DisjointSets.join: part maps a terminal to the name of the set it is in *)
Merge(part, pair) ==
    LET names == {part[t] : t \in pair}
        kept  == CHOOSE s \in names : TRUE
    IN  [t \in DOMAIN part |-> IF part[t] \in names THEN kept ELSE part[t]]

(* _spanning_boundaries: the cheapest candidates, up to a cost, each of which    *)
(* joins what the cheaper ones have not                                          *)
Kruskal(r, limit) ==
    LET Open(k) == {p \in DOMAIN r.candidates :
            r.candidates[p].cost <= limit /\ Cardinality({k.part[t] : t \in p}) = 2}
        Cheapest(pairs) == CHOOSE p \in pairs : \A q \in pairs \ {p} :
            CandidateLess(r.candidates[p], r.candidates[q])
        Join(k, p) == [chosen |-> k.chosen \cup {r.candidates[p].edge}, part |-> Merge(k.part, p)]
        After[n \in Nat] ==
            IF n = 0 THEN [chosen |-> {}, part |-> [t \in terminals |-> t]]
            ELSE LET k == After[n - 1] IN IF Open(k) = {} THEN k ELSE Join(k, Cheapest(Open(k)))
    IN  After[Cardinality(terminals) - 1].chosen

Spans(boundaries) == Cardinality(boundaries) = Cardinality(terminals) - 1

(* the edges by which dataset n was reached from its terminal *)
Chain(r, n) ==
    LET To[m \in DOMAIN r.owner] ==
            IF m \in terminals THEN {} ELSE {r.predecessor[m][2]} \cup To[r.predecessor[m][1]]
    IN  To[n]

Ends(edges) == UNION {{Node(e[1]), Node(e[2])} : e \in edges}

(* the boundary edges with the chains back to their terminals *)
TreeOf(r, boundaries) ==
    LET edges == boundaries \cup UNION {Chain(r, n) : n \in Ends(boundaries)}
    IN  [status |-> "completed", nodes |-> terminals \cup Ends(edges), edges |-> edges]

-----------------------------------------------------------------------------
(* connecting_tree                                                              *)

Growing      == [status |-> "growing", nodes |-> {}, edges |-> {}]
Disconnected == [status |-> "disconnected", nodes |-> terminals, edges |-> {}]

TreeFresh(status, ts) ==
    /\ terminals = ts
    /\ level = 0
    /\ region = Seeds(ts)
    /\ tree = [status |-> status, nodes |-> {}, edges |-> {}]

TreeIdle == TreeFresh("idle", {})
TreeInit == graph \in TreeGraphs /\ \E ts \in TerminalSets : TreeFresh("growing", ts)

(* an edge not seen yet has both ends beyond this level *)
FinalCost == 2 * level + 2

(* Mutated form: whether the terminals are spanned is asked after every dataset. *)
GrowLevelEagerly ==
    LET Part(n) == FoldLeft(Visit, [region EXCEPT !.reached = <<>>], SubSeq(region.reached, 1, n))
        spanning == {n \in DOMAIN region.reached : Spans(Kruskal(Part(n), FinalCost))}
        n == CHOOSE m \in spanning : \A o \in spanning : m <= o
    IN  /\ tree = Growing
        /\ region.reached # <<>>
        /\ level' = level + 1
        /\ IF spanning = {}
           THEN region' = Grow(region) /\ UNCHANGED tree
           ELSE region' = Part(n) /\ tree' = TreeOf(Part(n), Kruskal(Part(n), FinalCost))
        /\ UNCHANGED <<graph, terminals>>

GrowLevel ==
    LET grown      == Grow(region)
        boundaries == Kruskal(grown, FinalCost)
    IN  /\ tree = Growing
        /\ region.reached # <<>>
        /\ region' = grown
        /\ level' = level + 1
        /\ tree' = IF Spans(boundaries) THEN TreeOf(grown, boundaries) ELSE tree
        /\ UNCHANGED <<graph, terminals>>

(* the frontier is empty: every candidate is final *)
ChooseAtEnd ==
    LET boundaries == Kruskal(region, Unbounded)
    IN  /\ tree = Growing
        /\ region.reached = <<>>
        /\ tree' = IF Spans(boundaries) THEN TreeOf(region, boundaries) ELSE Disconnected
        /\ UNCHANGED <<graph, terminals, level, region>>

TreeNext == GrowLevel \/ ChooseAtEnd

TreeSpec == TreeInit /\ [][TreeNext]_<<graph, treeVars>>

-----------------------------------------------------------------------------
(* Reference                                                                    *)

Datasets == {Node(d) : d \in Definitions} \cup terminals
EdgeSet  == ToSet(Edges)

(* the datasets that the given edges and datasets connect with those of seeds *)
Connected(seeds, nodes, edges) ==
    LET Reach[n \in Nat] ==
            IF n = 0 THEN seeds
            ELSE LET before == Reach[n - 1]
                 IN  before \cup {m \in nodes : \E e \in edges : \E b \in before : {m, b} = {Node(e[1]), Node(e[2])}}
    IN  Reach[Cardinality(nodes)]

OneTerminal == {CHOOSE t \in terminals : TRUE}
Connects(nodes) == terminals \subseteq Connected(OneTerminal, nodes, EdgeSet)

(* the number of edges of a smallest tree that connects the terminals *)
SteinerCost ==
    LET sizes == {Cardinality(nodes) : nodes \in {s \in SUBSET Datasets : terminals \subseteq s /\ Connects(s)}}
    IN  (CHOOSE m \in sizes : \A n \in sizes : m <= n) - 1

(* the regions grown until the frontier is empty, without the early stop *)
FullRun ==
    LET After[n \in Nat] == IF n = 0 THEN Seeds(terminals) ELSE Grow(After[n - 1])
    IN  After[Cardinality(Datasets)]

Completed == tree.status = "completed"

-----------------------------------------------------------------------------
(* Properties                                                                   *)

(* "if they already span the terminals the full run would pick the same tree":   *)
(* candidates found at later levels never change the tree.                       *)
EarlyStopAgrees == Completed => tree = TreeOf(FullRun, Kruskal(FullRun, Unbounded))

(* "the union is already a tree with only terminal leaves": boundary edges and   *)
(* chains of different regions never close a cycle, and connect all terminals.   *)
(* Terminals are called disconnected only if they are.                           *)
TreeOrDisconnected ==
    /\ tree.status = "disconnected" => ~Connects(Datasets)
    /\ Completed =>
        /\ terminals \subseteq tree.nodes
        /\ Cardinality(tree.edges) = Cardinality(tree.nodes) - 1
        /\ Connected(OneTerminal, tree.nodes, tree.edges) = tree.nodes
        /\ \A n \in tree.nodes \ terminals :
               Cardinality({e \in tree.edges : Touches(e, n)}) >= 2

(* Mehlhorn's bound: the tree costs at most 2 (1 - 1/n) of a smallest one for n  *)
(* terminals; for two of them it is a shortest path.                             *)
WithinTwiceSteiner ==
    Completed =>
        LET n == Cardinality(terminals)
        IN  n * Cardinality(tree.edges) <= 2 * (n - 1) * SteinerCost
=============================================================================
