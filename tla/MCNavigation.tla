---------------------------- MODULE MCNavigation ----------------------------
(* TLC instances of Navigation.                                                  *)
EXTENDS Navigation

Def(n, i, u) == [node |-> n, identity |-> i, unique |-> u]

(* Graphs of links, each with a logical entity of its own that joins two of the  *)
(* datasets 1..size.  A link is <<n, m, c>> with n < m; c tells parallel links   *)
(* apart.  Entities of later links come first, so that no order is the order of  *)
(* the datasets.  The side of the lower dataset is not unique.                   *)
Entity(l) == 100 * (9 - l[1]) + 10 * (9 - l[2]) + l[3]
OnLink(n, l) == Def(n, Entity(l), IF n = l[1] THEN "many" ELSE "one")

LinksGraph(size, links) ==
    LET On(n) == {l \in links : n \in {l[1], l[2]}}
        Sorted(n) == SetToSortSeq(On(n), LAMBDA l, m : Entity(l) < Entity(m))
        Of(n) == [i \in DOMAIN Sorted(n) |-> OnLink(n, Sorted(n)[i])]
    IN  FlattenSeq([n \in 1..size |-> Of(n)])

AllLinks(size) == {<<l[1], l[2], 1>> : l \in {p \in (1..size) \X (1..size) : p[1] < p[2]}}
Subsets(links, sizes) == {ls \in SUBSET links : Cardinality(ls) \in sizes}

(* four datasets with two pairs that may be linked twice *)
PairGraphs == {LinksGraph(4, ls) : ls \in Subsets(AllLinks(4) \cup {<<1, 2, 2>>, <<2, 3, 2>>}, {4, 5})}

(* six definitions on four datasets, of two logical entities in every way: all   *)
(* definitions of one entity are related, on the same dataset too                *)
SharedGraphs ==
    LET nodes == <<1, 2, 2, 3, 3, 4>>
        Sorted(ids) == ids[2] <= ids[3] /\ ids[4] <= ids[5]
    IN  {[d \in 1..6 |-> Def(nodes[d], ids[d], IF d % 2 = 0 THEN "one" ELSE "many")] :
            ids \in {f \in [1..6 -> {1, 2}] : Sorted(f)}}

Request(from, to, k, maxEdges, allowed) ==
    [from |-> from, to |-> to, k |-> k, maxEdges |-> maxEdges, allowed |-> allowed]

Narrowing == {<<"many", "one">>, <<"one", "one">>}

SearchGraphs   == PairGraphs \cup SharedGraphs
PathSearches   == {Request(1, 4, k, 4, allowed) : k \in {1, 3}, allowed \in {Multiplicities, Narrowing}}
                      \cup {Request(2, 2, 2, 3, Multiplicities)}

(* rings of seven datasets with a chord: regions meet two levels out *)
RingGraphs ==
    LET Ring == {l \in AllLinks(7) : l[2] = l[1] + 1 \/ <<l[1], l[2]>> = <<1, 7>>}
    IN  {LinksGraph(7, Ring \cup {chord}) : chord \in AllLinks(7)}

ConnectGraphs == {LinksGraph(5, ls) : ls \in Subsets(AllLinks(5), {4, 5})} \cup SharedGraphs \cup RingGraphs
SomeTerminals == {{1, 2}, {1, 2, 3}, {1, 3, 5}, {2, 3, 4}, {1, 2, 4, 5}}

(* expansions of expand_subgraph, then of get_edges *)
Expansion(seeds, reach, maxNodes, limit) ==
    [seeds |-> seeds, depth |-> reach, maxNodes |-> maxNodes, limit |-> limit,
     identity |-> NotNamed, columns |-> NotNamed, referencedOnly |-> FALSE]
EdgesRequest(n, limit, identity, columns) ==
    [seeds |-> {n}, depth |-> 1, maxNodes |-> 100, limit |-> limit,
     identity |-> identity, columns |-> columns, referencedOnly |-> TRUE]

Expansions ==
    {Expansion(seeds, d, max, limit) :
        seeds \in {{1}, {3}, {2, 4}}, d \in 0..2, max \in {1, 3, 100}, limit \in {1, 100}}
    \cup {EdgesRequest(n, limit, i, NotNamed) : n \in {2, 3}, limit \in {1, 2, 100}, i \in {NotNamed, 1, 2}}
    \cup {EdgesRequest(2, limit, 1, 2) : limit \in {1, 100}}

RingGraphs5 ==
    LET Ring == {l \in AllLinks(5) : l[2] = l[1] + 1 \/ <<l[1], l[2]>> = <<1, 5>>}
    IN  {LinksGraph(5, links) : links \in {Ring} \cup {Ring \ {l} : l \in Ring}}
ExpandGraphs == SharedGraphs \cup RingGraphs5

(* From dataset 1 to 4 there are a direct path and four of three edges.          *)
LostGraph == <<Def(1, 1, "many"), Def(2, 2, "many"), Def(2, 2, "one"), Def(2, 1, "one"),
               Def(3, 2, "many"), Def(3, 1, "one"), Def(4, 1, "one")>>

LostGraphs    == {LostGraph}
LostRequests  == {Request(1, 4, k, 4, Multiplicities) : k \in {1, 2, 6}}
NoSets == {}

-----------------------------------------------------------------------------
(* lookups: two definitions on each of two datasets, of one entity or of two     *)
Full(n, i, columns, u, one) ==
    [node |-> n, identity |-> i, columns |-> columns, universe |-> u, unique |-> one,
     total |-> "yes", conforms |-> IF n = 1 THEN "yes" ELSE "unknown"]
DetailGraphs ==
    {<<Full(1, i[1], 1, u[1], o[1]), Full(1, i[2], 2, u[2], o[2]),
       Full(2, i[3], 1, u[3], o[3]), Full(2, i[4], 3, "partial", "one")>> :
        i \in {<<1, 1, 1, 1>>, <<1, 1, 1, 2>>, <<1, 2, 1, 2>>},
        u \in [1..3 -> {"complete", "partial"}], o \in [1..3 -> {"one", "many"}]}

Detail(e, from, columns) == [method |-> "get_relationship", edge |-> e, from |-> from, columns |-> columns]
DetailRequests ==
    {Detail(e, from, columns) : e \in {<<1, 2>>, <<1, 3>>, <<2, 4>>}, from \in 0..2, columns \in 0..3}
    \cup {[method |-> "get_identity", identity |-> i, universes |-> us, limit |-> limit] :
              i \in 1..3, us \in {{"partial"}, Universes}, limit \in {1, 2, 100}}
    \cup {[method |-> "get_dataset", node |-> n] : n \in 1..3}

-----------------------------------------------------------------------------
(* searches: the words 1 order, 2 orders, 3 sale, 4 sales, 5 tbd                 *)
SomeBegins == {<<w, w>> : w \in 1..5} \cup {<<1, 2>>, <<3, 4>>}
SomeTokens == [order |-> <<1>>, Orders |-> <<2>>, sale |-> <<3>>, SalesOrders |-> <<4, 2>>,
               tbd |-> <<5>>, dash |-> <<>>]
SomePlaceholders == {<<5>>}

Names == {<<"SalesOrders">>, <<"order", "sale">>, <<"sale", "dash", "order">>}
Notes == {<<"tbd">>, <<"order", "tbd">>, <<"SalesOrders">>}
OneIdentity(name, note) ==
    [key |-> 1, id |-> <<"order">>, name |-> name, description |-> note, synonyms |-> <<<<"tbd">>>>]
OneColumn(k, name, note) ==
    [key |-> k, name |-> name, description |-> note, values |-> note, synonyms |-> <<>>]
OneDefinition(k, columns, expressions) ==
    [key |-> k, identity |-> <<"order">>, columns |-> columns, expressions |-> expressions,
     metadata |-> <<<<"sale">>>>]
OneDataset(k, name, qualified, note, definitions, columns) ==
    [key |-> k, id |-> qualified, name |-> name, qualified |-> qualified, description |-> note,
     schema |-> <<"dash">>, synonyms |-> <<>>, tags |-> <<<<"sale">>>>, accessor |-> <<<<"order">>>>,
     definitions |-> definitions, columns |-> columns]

SomeCatalogs ==
    {[identities |-> <<OneIdentity(n, note)>>,
      datasets   |-> <<OneDataset(1, n, q, note,
                           <<OneDefinition(2, <<q>>, <<>>), OneDefinition(1, <<n>>, <<n>>)>>,
                           <<OneColumn(2, <<"Orders">>, note), OneColumn(1, n, <<"tbd">>)>>),
                       OneDataset(2, m, n, <<"tbd">>, <<>>, <<OneColumn(3, <<"Orders">>, note)>>)>>] :
        n, m, q \in Names, note \in Notes}
ASSUME CatalogsAssumption == KeysDiffer

Find(text, limit) == [query |-> text, kinds |-> Kinds, limit |-> limit]
SomeSearches ==
    {Find(q, limit) : limit \in {1, 50},
        q \in {<<"order">>, <<"sale", "order">>, <<"SalesOrders">>, <<"order", "sale", "order">>, <<"tbd">>}}
    \cup {Find(<<"dash">>, 1), [Find(<<"sale">>, 1) EXCEPT !.kinds = {"dataset", "column"}]}

-----------------------------------------------------------------------------
(* joins                                                                        *)

Claimed(n, u, one, t, c) ==
    [node |-> n, identity |-> 1, universe |-> u, unique |-> one, total |-> t, conforms |-> c]

(* two definitions of one entity: every claim of the one, and of the other those *)
(* that count for a target *)
ClaimsOn(n, totals, conforming) ==
    {d \in {Claimed(n, u, one, t, c) : u \in {"complete", "partial", "unknown"}, one \in {"one", "many", "unknown"},
                                       t \in totals, c \in conforming} : Accepted(d)}
PairJoins == {<<d, e>> : d \in ClaimsOn(1, {"yes", "no", "unknown"}, {"yes", "no", "unknown"}),
                         e \in ClaimsOn(2, {"unknown"}, {"unknown"})}

(* three definitions, two of them on one dataset: joins that leave it through    *)
(* another definition than they arrived on                                       *)
ChainOf(n) == {Claimed(n, u, one, "yes", "unknown") : u \in {"complete", "unknown"}, one \in {"one", "many"}}
ChainGraphs == {<<d, e, f>> : d \in ChainOf(1), e \in ChainOf(2), f \in ChainOf(2)}

SomeJoins == PairJoins \cup ChainGraphs
SomeRows  == {{1, 2}}
=============================================================================
