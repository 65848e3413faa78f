--------------------------- MODULE NavigationProofs ---------------------------
(* Proofs about the requests to a loaded snapshot and the joins that follow      *)
(* them, for any graphs, requests and datasets.  Joins: narrow joins have at     *)
(* most one record, sure joins have at least one, and the sentences that say so  *)
(* are true.  Lookups: they show what navigation shows.  Expansion: what is      *)
(* shown is near and closed, and whole unless it is called truncated.  Search:   *)
(* an answer holds the best matches.                                             *)
EXTENDS Navigation, SequenceLemmas

-----------------------------------------------------------------------------
(* A set of numbers has a least. *)
LEMMA LeastIn ==
    ASSUME NEW S \in SUBSET Nat, S # {}
    PROVE  Least(S) \in S /\ \A i \in S : Least(S) <= i
BY HasLeast DEF Least

-----------------------------------------------------------------------------
(* Joins: one directed edge                                                     *)

(* The claims stay true, for nothing changes the datasets. *)
WorldOK ==
    /\ joinGraph \in JoinGraphs
    /\ ClaimsHold

JoinInv == JoinTypeOK /\ WorldOK /\ NarrowJoinsNeverFanOut /\ SureJoinsMatch

(* A unique target has at most one match for each record: UniqueHolds is enough  *)
(* for the second half of DerivedMultiplicity.                                   *)
LEMMA OneMatch ==
    ASSUME NEW a \in DOMAIN joinGraph, NEW b \in DOMAIN joinGraph, NEW r, ClaimsHold,
           DerivedMultiplicity(joinGraph[a], joinGraph[b])[2] = "one"
    PROVE  \A s, t \in Matches(a, r, b) : s = t
<1>1. joinGraph[b].unique = "one"
  BY DEF DerivedMultiplicity
<1>2. UniqueHolds(b)
  BY DEF ClaimsHold
<1>3. QED
  BY <1>1, <1>2 DEF Matches, UniqueHolds

(* Keys that are contained are keys of the other end: a conforming definition    *)
(* has only keys of the population, and a complete one has all of them.          *)
LEMMA ContainedKeys ==
    ASSUME NEW a \in DOMAIN joinGraph, NEW b \in DOMAIN joinGraph, ClaimsHold,
           Joinable(joinGraph[a], joinGraph[b]), Contained(joinGraph[a], joinGraph[b]) = "yes"
    PROVE  KeysOf(a) \subseteq KeysOf(b)
<1>1. Conforming(joinGraph[a]) = "yes" /\ joinGraph[b].universe = "complete"
  BY DEF Contained
<1>2. KeysOf(a) \subseteq PopulationOf(a)
  <2>1. CASE joinGraph[a].universe = "complete"
    BY <2>1 DEF ClaimsHold, UniverseHolds
  <2>2. CASE joinGraph[a].universe # "complete"
    BY <1>1, <2>2 DEF ClaimsHold, ConformsHolds, Conforming
  <2>3. QED
    BY <2>1, <2>2
<1>3. KeysOf(b) = PopulationOf(b)
  BY <1>1 DEF ClaimsHold, UniverseHolds
<1>4. PopulationOf(a) = PopulationOf(b)
  BY DEF PopulationOf, Joinable
<1>5. QED
  BY <1>2, <1>3, <1>4

(* Where the match exists always, every record has one. *)
LEMMA AlwaysMatches ==
    ASSUME NEW a \in DOMAIN joinGraph, NEW b \in DOMAIN joinGraph, ClaimsHold,
           Joinable(joinGraph[a], joinGraph[b]),
           DerivedMatchExistence(joinGraph[a], joinGraph[b]) = "always",
           NEW r \in RowsOf(a)
    PROVE  Matches(a, r, b) # {}
<1>1. joinGraph[a].total = "yes" /\ Contained(joinGraph[a], joinGraph[b]) = "yes"
  BY DEF DerivedMatchExistence
<1>2. key[a][r] # Null
  BY <1>1 DEF ClaimsHold, TotalHolds
<1>3. key[a][r] \in KeysOf(a)
  BY <1>2 DEF KeysOf
<1>4. key[a][r] \in KeysOf(b)
  BY <1>1, <1>3, ContainedKeys
<1>5. PICK s \in RowsOf(b) : key[b][s] = key[a][r]
  BY <1>4 DEF KeysOf
<1>6. s \in Matches(a, r, b)
  BY <1>2, <1>5 DEF Matches
<1>7. QED
  BY <1>6

-----------------------------------------------------------------------------
(* Joins: however many                                                          *)

(* the claims of the datasets hold from the beginning *)
LEMMA InitJoinInv == JoinInit => JoinInv
  BY DEF JoinInit, JoinInv, JoinTypeOK, WorldOK, NarrowJoinsNeverFanOut, SureJoinsMatch

(* an edge more keeps what was promised *)
LEMMA NextJoinInv == JoinInv /\ [JoinNext]_joinVars => JoinInv'
<1> SUFFICES ASSUME JoinInv, [JoinNext]_joinVars PROVE JoinInv'
  OBVIOUS
<1>1. CASE UNCHANGED joinVars
  BY <1>1 DEF JoinInv, JoinTypeOK, WorldOK, NarrowJoinsNeverFanOut, SureJoinsMatch, ClaimsHold,
     UniverseHolds, UniqueHolds, TotalHolds, ConformsHolds, KeysOf, PopulationOf, RowsOf, joinVars, world
<1>2. CASE JoinNext
  <2>1. PICK a, b \in DOMAIN joinGraph : JoinAlong(a, b)
    BY <1>2 DEF JoinNext
  <2>2. WorldOK'
    BY <2>1 DEF JoinInv, WorldOK, JoinAlong, world, ClaimsHold, UniverseHolds, UniqueHolds,
       TotalHolds, ConformsHolds, KeysOf, PopulationOf, RowsOf
  <2>3. JoinTypeOK'
    <3>1. at' \in JoinDatasets
      BY <2>1, JoinAssumption DEF JoinInv, WorldOK, JoinAlong
    <3>2. joined' \subseteq rows'[at']
      BY <2>1 DEF JoinAlong, Matches, RowsOf, world
    <3>3. QED
      BY <2>1, <3>1, <3>2 DEF JoinInv, JoinTypeOK, JoinAlong
  <2>4. NarrowJoinsNeverFanOut'
    <3>1. SUFFICES ASSUME narrow', NEW s \in joined', NEW t \in joined' PROVE s = t
      BY DEF NarrowJoinsNeverFanOut
    <3>2. narrow /\ DerivedMultiplicity(joinGraph[a], joinGraph[b])[2] = "one"
      BY <2>1, <3>1 DEF JoinAlong
    <3>3. PICK r \in joined : s \in Matches(a, r, b)
      BY <2>1 DEF JoinAlong
    <3>4. PICK q \in joined : t \in Matches(a, q, b)
      BY <2>1 DEF JoinAlong
    <3>5. r = q
      BY <3>2 DEF JoinInv, NarrowJoinsNeverFanOut
    <3>6. QED
      BY <3>2, <3>3, <3>4, <3>5, OneMatch DEF JoinInv, WorldOK
  <2>5. SureJoinsMatch'
    <3>1. SUFFICES ASSUME sure' PROVE joined' # {}
      BY DEF SureJoinsMatch
    <3>2. sure /\ DerivedMatchExistence(joinGraph[a], joinGraph[b]) = "always"
      BY <2>1, <3>1 DEF JoinAlong
    <3>3. PICK r \in joined : TRUE
      BY <3>2 DEF JoinInv, SureJoinsMatch
    <3>4. r \in RowsOf(a)
      BY <2>1 DEF JoinInv, JoinTypeOK, JoinAlong, RowsOf
    <3>5. Matches(a, r, b) # {}
      BY <2>1, <3>2, <3>4, AlwaysMatches DEF JoinInv, WorldOK, JoinAlong
    <3>6. QED
      BY <2>1, <3>5 DEF JoinAlong
  <2>6. QED
    BY <2>2, <2>3, <2>4, <2>5 DEF JoinInv
<1>3. QED
  BY <1>1, <1>2

(* Nothing is joined in the behaviours of the requests.  *)
LEMMA JoinsOrNone ==
    /\ Init => JoinInit \/ JoinIdle
    /\ [Next]_navigationVars => [JoinNext]_joinVars
    /\ JoinIdle /\ [JoinNext]_joinVars => JoinIdle'
<1>1. Init => JoinInit \/ JoinIdle
  BY DEF Init
<1>2. [Next]_navigationVars => [JoinNext]_joinVars
  BY DEF Next, navigationVars
<1>3. JoinIdle /\ [JoinNext]_joinVars => JoinIdle'
  BY DEF JoinIdle, JoinNext, joinVars, world
<1> QED
  BY <1>1, <1>2, <1>3

(* the invariant of every behaviour, with joins or without *)
LEMMA JoinInvariant == Spec => [](JoinInv \/ JoinIdle)
<1>1. Init => JoinInv \/ JoinIdle
  BY JoinsOrNone, InitJoinInv
<1>2. (JoinInv \/ JoinIdle) /\ [Next]_navigationVars => (JoinInv \/ JoinIdle)'
  BY JoinsOrNone, NextJoinInv
<1> QED
  BY <1>1, <1>2, PTL DEF Spec

(* However many directed edges are followed, in any graph and over any datasets  *)
(* of which its claims are true, edges whose derived multiplicity ends in "one"  *)
(* lead a record to at most one record.                                          *)
THEOREM NarrowJoins == Spec => []NarrowJoinsNeverFanOut
<1>1. JoinInv \/ JoinIdle => NarrowJoinsNeverFanOut
  BY DEF JoinInv, JoinIdle, NarrowJoinsNeverFanOut
<1>2. QED
  BY <1>1, JoinInvariant, PTL

(* Edges whose derived match existence is always lead every record to one. *)
THEOREM SureJoins == Spec => []SureJoinsMatch
<1>1. JoinInv \/ JoinIdle => SureJoinsMatch
  BY DEF JoinInv, JoinIdle, SureJoinsMatch
<1>2. QED
  BY <1>1, JoinInvariant, PTL

(* Whatever the claims, the sentences about a directed edge count right. *)
LEMMA SentenceTrue ==
    ASSUME NEW a \in DOMAIN joinGraph, NEW b \in DOMAIN joinGraph, ClaimsHold,
           Joinable(joinGraph[a], joinGraph[b]),
           NEW m, m = DerivedMultiplicity(joinGraph[a], joinGraph[b]),
           NEW e, e = DerivedMatchExistence(joinGraph[a], joinGraph[b])
    PROVE  /\ \A r \in RowsOf(a) : Counted(Count(m, e), Matches(a, r, b))
           /\ Ending(e) = "every row does" => \A r \in RowsOf(a) : Matches(a, r, b) # {}
<1>1. e = "always" => \A r \in RowsOf(a) : Matches(a, r, b) # {}
  BY AlwaysMatches
<1>2. ASSUME NEW r \in RowsOf(a) PROVE Counted(Count(m, e), Matches(a, r, b))
  <2>1. m[2] = "one" => \A s, t \in Matches(a, r, b) : s = t
    BY OneMatch
  <2>2. Count(m, e) \in {"exactly one", "at most one"} => m[2] = "one"
    BY DEF Count
  <2>3. Count(m, e) \in {"exactly one", "one or more"} => e = "always"
    BY DEF Count
  <2>4. QED
    BY <1>1, <2>1, <2>2, <2>3 DEF Counted
<1>3. Ending(e) = "every row does" => e = "always"
  BY DEF Ending
<1>4. QED
  BY <1>1, <1>2, <1>3

(* In any graph and over any datasets of which its claims are true, the number   *)
(* of matches that the Markdown of an AKG document gives a directed edge is true *)
(* of every row, and so is "every row does" where it says that.  Of the words    *)
(* "some match none" nothing is proved: no claim, as read here, implies them.    *)
THEOREM TrueSentences == Spec => []SentencesHold
<1>1. JoinInv => SentencesHold
  BY SentenceTrue DEF JoinInv, WorldOK, SentencesHold
<1>2. JoinIdle => SentencesHold
  <2>1. JoinIdle => DOMAIN joinGraph = {}
    BY DEF JoinIdle
  <2> QED
    BY <2>1 DEF SentencesHold
<1> QED
  BY <1>1, <1>2, JoinInvariant, PTL

-----------------------------------------------------------------------------
(* Lookups: the first few of some definitions                                   *)

(* Each rank below the number of the definitions is that of one of them. *)
LEMMA Ranked ==
    ASSUME NEW S \in SUBSET Int, IsFiniteSet(S)
    PROVE  LET n       == Cardinality(S)
               rank[d \in S] == Cardinality({e \in S : e < d})
           IN  /\ n \in Nat
               /\ rank \in Injection(S, 0..(n - 1)) /\ rank \in Surjection(S, 0..(n - 1))
               /\ \A d, e \in S : d < e => rank[d] < rank[e]
<1> DEFINE n == Cardinality(S)
           rank == [d \in S |-> Cardinality({e \in S : e < d})]
           R == {p \in S \X S : p[1] < p[2]}
<1>1. \A d, e \in S : <<d, e>> \in R <=> d < e
  OBVIOUS
<1> HIDE DEF R
<1>2. TotalOrder(R, S)
  BY <1>1 DEF TotalOrder, PartialOrder
<1>3. \A d \in S : {e \in S : <<e, d>> \in R} = {e \in S : e < d}
  BY <1>1
<1>4. rank = [d \in S |-> Cardinality({e \in S : <<e, d>> \in R})]
  BY <1>3
<1>5. n \in Nat /\ rank \in Injection(S, 0..(n - 1)) /\ rank \in Surjection(S, 0..(n - 1))
  <2> HIDE DEF rank
  <2> QED
    BY <1>2, <1>4, OneForEachRank
<1>6. \A d, e \in S : d < e => rank[d] < rank[e]
  <2>1. \A d, e \in S : <<d, e>> \in R =>
            Cardinality({c \in S : <<c, d>> \in R}) < Cardinality({c \in S : <<c, e>> \in R})
    BY <1>2, FewerBefore DEF TotalOrder
  <2>2. \A d \in S : rank[d] = Cardinality({c \in S : <<c, d>> \in R})
    BY <1>3
  <2> HIDE DEF rank
  <2> SUFFICES ASSUME NEW d \in S, NEW e \in S, d < e PROVE rank[d] < rank[e]
    OBVIOUS
  <2>3. Cardinality({c \in S : <<c, d>> \in R}) < Cardinality({c \in S : <<c, e>> \in R})
    BY <1>1, <2>1
  <2> QED
    BY <2>2, <2>3
<1> QED
  BY <1>5, <1>6

(* what FirstOf takes, and what it leaves *)
LEMMA FirstFew ==
    ASSUME NEW S \in SUBSET Int, IsFiniteSet(S), NEW few \in Nat
    PROVE  /\ FirstOf(S, few) \subseteq S
           /\ \A d \in S \ FirstOf(S, few) : \A e \in FirstOf(S, few) : e < d
           /\ Cardinality(S) > few <=> FirstOf(S, few) # S
           /\ Cardinality(S) > few => Cardinality(FirstOf(S, few)) = few
<1> DEFINE n == Cardinality(S)
           rank == [d \in S |-> Cardinality({e \in S : e < d})]
           first == FirstOf(S, few)
<1>1. /\ n \in Nat
      /\ rank \in Injection(S, 0..(n - 1)) /\ rank \in Surjection(S, 0..(n - 1))
      /\ \A d, e \in S : d < e => rank[d] < rank[e]
  BY Ranked
<1>2. first = {d \in S : rank[d] < few}
  BY DEF FirstOf
<1> HIDE DEF n, rank, first
<1>3. /\ \A d \in S : rank[d] \in 0..(n - 1)
      /\ \A d, e \in S : rank[d] = rank[e] => d = e
      /\ \A i \in 0..(n - 1) : \E d \in S : rank[d] = i
  BY <1>1 DEF Injection, IsInjective, Surjection
<1>4. ASSUME NEW d \in S \ first, NEW e \in first
      PROVE  e < d
  <2>1. rank[e] < few /\ ~(rank[d] < few) /\ rank[d] \in Int /\ rank[e] \in Int
    BY <1>1, <1>2, <1>3, <1>4
  <2>2. d # e /\ ~(d < e)
    BY <1>1, <1>2, <1>4, <2>1
  <2>3. d \in Int /\ e \in Int
    BY <1>2, <1>4
  <2> QED
    BY <2>2, <2>3
<1>5. ASSUME ~(n > few)
      PROVE  first = S
  <2>1. ASSUME NEW d \in S
        PROVE  rank[d] < few
    <3>1. rank[d] \in 0..(n - 1)
      BY <1>3
    <3> QED
      BY <1>1, <1>5, <3>1
  <2> QED
    BY <1>2, <2>1
<1>6. ASSUME n > few
      PROVE  first # S /\ Cardinality(first) = few
  <2>1. few \in 0..(n - 1) /\ 0..(few - 1) \subseteq 0..(n - 1)
    BY <1>1, <1>6
  <2>2. first # S
    <3>1. PICK d \in S : rank[d] = few
      BY <1>3, <2>1
    <3> QED
      BY <1>2, <3>1
  <2> DEFINE part == [d \in first |-> rank[d]]
  <2>3. \A d \in first : rank[d] \in 0..(few - 1)
    BY <1>1, <1>2, <1>3
  <2>4. part \in Injection(first, 0..(few - 1))
    BY <1>2, <1>3, <2>3 DEF Injection, IsInjective
  <2>5. part \in Surjection(first, 0..(few - 1))
    <3>1. ASSUME NEW i \in 0..(few - 1)
          PROVE  \E d \in first : part[d] = i
      <4>1. PICK d \in S : rank[d] = i
        BY <1>3, <2>1
      <4> QED
        BY <1>2, <4>1
    <3> QED
      BY <2>3, <3>1 DEF Surjection
  <2>6. IsFiniteSet(0..(few - 1)) /\ Cardinality(0..(few - 1)) = few
    BY FS_Interval
  <2> HIDE DEF part
  <2>7. Cardinality(first) = few
    BY <2>4, <2>5, <2>6, FS_Injection
  <2> QED
    BY <2>2, <2>7
<1> QED
  BY <1>2, <1>4, <1>5, <1>6 DEF first, n

-----------------------------------------------------------------------------
(* Lookups: relationships and their directions                                  *)

(* a request, if there is one, is of a graph of definitions in order *)
LookupTyped == detail.method = "none" \/ (graph \in LookupGraphs /\ detail \in LookupRequests)

LEMMA DefinitionsOrdered ==
    ASSUME LookupTyped, detail.method # "none"
    PROVE  Definitions \in SUBSET Int /\ IsFiniteSet(Definitions)
<1>1. graph \in Seq(ToSet(graph))
  BY LookupAssumption DEF LookupTyped
<1>2. Definitions = 1..Len(graph) /\ Len(graph) \in Nat
  BY <1>1, LenProperties DEF Definitions
<1> QED
  BY <1>2, FS_Interval

(* the other end of a relationship *)
Other(e, d) == IF d = e[1] THEN e[2] ELSE e[1]

(* Two related definitions have one relationship, from either end. *)
LEMMA RelatedBothWays ==
    ASSUME Definitions \in SUBSET Int, NEW a \in Definitions, NEW b \in Definitions, Related(a, b)
    PROVE  /\ Related(b, a) /\ a # b /\ EdgeId(a, b) = EdgeId(b, a) /\ EdgeId(a, b) \in EdgeIds
           /\ Other(EdgeId(a, b), a) = b /\ a \in {EdgeId(a, b)[1], EdgeId(a, b)[2]}
<1>1. a \in Int /\ b \in Int /\ a # b /\ Related(b, a)
  BY DEF Related, Joinable
<1>2. CASE a < b
  BY <1>1, <1>2 DEF EdgeId, EdgeIds, Other
<1>3. CASE b < a
  BY <1>1, <1>3 DEF EdgeId, EdgeIds, Other
<1> QED
  BY <1>1, <1>2, <1>3

(* an edge ID is that of its ends, and shows the claims of either direction *)
LEMMA EdgeShown ==
    ASSUME Definitions \in SUBSET Int, NEW e \in EdgeIds, NEW d \in {e[1], e[2]}
    PROVE  /\ d \in Definitions /\ Other(e, d) \in Definitions
           /\ Related(d, Other(e, d)) /\ EdgeId(d, Other(e, d)) = e
           /\ DirectedEdge(Stored(e), d) =
                  [source |-> d, target |-> Other(e, d),
                   outgoing |-> Claims(d, Other(e, d)), reverse |-> Claims(Other(e, d), d)]
           /\ {Claims(e[1], e[2]), Claims(e[2], e[1])} = {Claims(d, Other(e, d)), Claims(Other(e, d), d)}
<1>1. /\ e = <<e[1], e[2]>> /\ e[1] \in Definitions /\ e[2] \in Definitions /\ e[1] < e[2]
      /\ e[1] \in Int /\ e[2] \in Int /\ Related(e[1], e[2]) /\ Related(e[2], e[1])
  <2>1. e \in Definitions \X Definitions /\ e[1] < e[2] /\ Related(e[1], e[2])
    BY DEF EdgeIds
  <2>2. e = <<e[1], e[2]>> /\ e[1] \in Definitions /\ e[2] \in Definitions
    BY <2>1
  <2>3. Related(e[2], e[1])
    BY <2>1 DEF Related, Joinable
  <2> QED
    BY <2>1, <2>2, <2>3
<1>2. e[1] # e[2] /\ e[1] <= e[2] /\ ~(e[2] <= e[1])
  BY <1>1
<1>3. CASE d = e[1]
  BY <1>1, <1>2, <1>3 DEF Other, EdgeId, DirectedEdge, Stored, FromA
<1>4. CASE d = e[2]
  BY <1>1, <1>2, <1>4 DEF Other, EdgeId, DirectedEdge, Stored, FromA
<1> QED
  BY <1>3, <1>4

(* The directions that a caller may mean are the ends that it may mean. *)
LEMMA MeantByEnds ==
    ASSUME Definitions \in SUBSET Int, detail.edge \in EdgeIds, detail.from # Unnamed
    PROVE  /\ \A p \in Meant : p[1] \in MeantEnds /\ p = <<p[1], Other(detail.edge, p[1])>>
           /\ \A d \in MeantEnds : <<d, Other(detail.edge, d)>> \in Meant
           /\ Cardinality(Meant) = 1 <=> Cardinality(MeantEnds) = 1
<1> DEFINE e == detail.edge
<1>1. ASSUME NEW p \in Meant
      PROVE  p[1] \in MeantEnds /\ p = <<p[1], Other(e, p[1])>>
  <2>1. /\ p = <<p[1], p[2]>> /\ p[1] \in Definitions /\ p[2] \in Definitions
        /\ Related(p[1], p[2]) /\ EdgeId(p[1], p[2]) = e
        /\ detail.from = Node(p[1]) /\ detail.columns \in {Unnamed, graph[p[1]].columns}
    BY DEF Meant
  <2>2. Other(e, p[1]) = p[2] /\ p[1] \in {e[1], e[2]}
    BY <2>1, RelatedBothWays
  <2> QED
    BY <2>1, <2>2 DEF MeantEnds
<1>2. ASSUME NEW d \in MeantEnds
      PROVE  <<d, Other(e, d)>> \in Meant
  <2>1. d \in {e[1], e[2]} /\ Node(d) = detail.from /\ detail.columns \in {Unnamed, graph[d].columns}
    BY DEF MeantEnds
  <2>2. d \in Definitions /\ Other(e, d) \in Definitions /\ Related(d, Other(e, d)) /\ EdgeId(d, Other(e, d)) = e
    BY <2>1, EdgeShown
  <2> QED
    BY <2>1, <2>2 DEF Meant
<1>3. IsFiniteSet(MeantEnds) /\ IsFiniteSet(Meant)
  <2>1. \A x, y : IsFiniteSet({x, y})
    <3> TAKE x, y
    <3>1. IsFiniteSet({x} \cup {y})
      BY FS_Singleton, FS_AddElement
    <3>2. {x, y} = {x} \cup {y}
      OBVIOUS
    <3> QED
      BY <3>1, <3>2
  <2>2. MeantEnds \subseteq {e[1], e[2]}
    BY DEF MeantEnds
  <2>3. Meant \subseteq {<<e[1], Other(e, e[1])>>, <<e[2], Other(e, e[2])>>}
    BY <1>1, <2>2
  <2> HIDE DEF e
  <2> QED
    BY <2>1, <2>2, <2>3, FS_Subset
<1>4. (\E p : Meant = {p}) <=> (\E d : MeantEnds = {d})
  <2>1. ASSUME NEW p, Meant = {p}
        PROVE  MeantEnds = {p[1]}
    <3>1. p[1] \in MeantEnds
      BY <1>1, <2>1
    <3>2. ASSUME NEW d \in MeantEnds
          PROVE  d = p[1]
      <4>1. <<d, Other(e, d)>> = p
        BY <1>2, <2>1
      <4> QED
        BY <4>1
    <3> QED
      BY <3>1, <3>2
  <2>2. ASSUME NEW d, MeantEnds = {d}
        PROVE  Meant = {<<d, Other(e, d)>>}
    <3>1. <<d, Other(e, d)>> \in Meant
      BY <1>2, <2>2
    <3>2. \A p \in Meant : p = <<d, Other(e, d)>>
      BY <1>1, <2>2
    <3> QED
      BY <3>1, <3>2
  <2> QED
    BY <2>1, <2>2
<1> QED
  BY <1>1, <1>2, <1>3, <1>4, FS_Singleton

(* Read from an end that it may mean, a relationship is the directed edge there. *)
LEMMA DirectionRead ==
    ASSUME Definitions \in SUBSET Int, detail.edge \in EdgeIds, detail.from # Unnamed,
           Cardinality(MeantEnds) = 1, NEW d \in MeantEnds, NEW p \in Meant
    PROVE  LET shown == DirectedEdge(Stored(detail.edge), d)
           IN  /\ shown = [source |-> p[1], target |-> p[2],
                           outgoing |-> Claims(p[1], p[2]), reverse |-> Claims(p[2], p[1])]
               /\ shown \in DirectedEdgesOf(detail.from)
<1> DEFINE e == detail.edge
<1>1. d = p[1] /\ p = <<p[1], Other(e, p[1])>>
  <2>1. p[1] \in MeantEnds /\ p = <<p[1], Other(e, p[1])>> /\ Cardinality(Meant) = 1
    BY MeantByEnds
  <2>2. \E x : MeantEnds = {x}
    <3>1. IsFiniteSet(MeantEnds)
      <4>1. MeantEnds \in SUBSET {e[1], e[2]}
        BY DEF MeantEnds
      <4>2. IsFiniteSet({e[1]} \cup {e[2]}) /\ {e[1], e[2]} = {e[1]} \cup {e[2]}
        BY FS_Singleton, FS_AddElement
      <4> QED
        BY <4>1, <4>2, FS_Subset
    <3> QED
      BY <3>1, FS_Singleton
  <2> QED
    BY <2>1, <2>2
<1>2. d \in {e[1], e[2]} /\ Node(d) = detail.from
  BY DEF MeantEnds
<1>3. DirectedEdge(Stored(e), d) = [source |-> d, target |-> Other(e, d),
          outgoing |-> Claims(d, Other(e, d)), reverse |-> Claims(Other(e, d), d)]
  BY <1>2, EdgeShown
<1>4. DirectedEdge(Stored(e), d) \in DirectedEdgesOf(detail.from)
  BY <1>2 DEF DirectedEdgesOf
<1>5. d = p[1] /\ Other(e, d) = p[2]
  <2>1. p[2] = Other(e, p[1])
    BY <1>1
  <2> QED
    BY <1>1, <2>1
<1> QED
  BY <1>3, <1>4, <1>5

(* A relationship's claims are those of any direction that is meant. *)
LEMMA ClaimsRead ==
    ASSUME Definitions \in SUBSET Int, detail.edge \in EdgeIds, NEW p \in Meant
    PROVE  {Claims(detail.edge[1], detail.edge[2]), Claims(detail.edge[2], detail.edge[1])}
               = {Claims(p[1], p[2]), Claims(p[2], p[1])}
<1> DEFINE e == detail.edge
<1>1. p[1] \in Definitions /\ p[2] \in Definitions /\ Related(p[1], p[2]) /\ EdgeId(p[1], p[2]) = e
  BY DEF Meant
<1>2. Other(e, p[1]) = p[2] /\ p[1] \in {e[1], e[2]}
  BY <1>1, RelatedBothWays
<1> QED
  BY <1>2, EdgeShown

(* the directed edges of a dataset lead to all that its definitions relate to *)
LEMMA EdgesOfDataset ==
    ASSUME Definitions \in SUBSET Int, NEW d \in Definitions
    PROVE  {e.target : e \in {e \in DirectedEdgesOf(Node(d)) : e.source = d}} = {t \in Definitions : Related(d, t)}
<1> DEFINE edges == {e \in DirectedEdgesOf(Node(d)) : e.source = d}
<1>1. ASSUME NEW x \in edges
      PROVE  x.target \in Definitions /\ Related(d, x.target)
  <2>1. PICK e \in EdgeIds : \E s \in {e[1], e[2]} : x = DirectedEdge(Stored(e), s)
    BY DEF DirectedEdgesOf
  <2>2. PICK s \in {e[1], e[2]} : x = DirectedEdge(Stored(e), s)
    BY <2>1
  <2>3. /\ Other(e, s) \in Definitions /\ Related(s, Other(e, s))
        /\ x = [source |-> s, target |-> Other(e, s),
                outgoing |-> Claims(s, Other(e, s)), reverse |-> Claims(Other(e, s), s)]
    BY <2>2, EdgeShown
  <2>4. x.source = s /\ x.target = Other(e, s) /\ x.source = d
    BY <2>3
  <2> QED
    BY <2>3, <2>4
<1>2. ASSUME NEW t \in Definitions, Related(d, t)
      PROVE  \E x \in edges : x.target = t
  <2> DEFINE e == EdgeId(d, t)
             x == DirectedEdge(Stored(e), d)
  <2>1. e \in EdgeIds /\ Other(e, d) = t /\ d \in {e[1], e[2]}
    BY <1>2, RelatedBothWays
  <2> HIDE DEF e
  <2>2. x = [source |-> d, target |-> t, outgoing |-> Claims(d, t), reverse |-> Claims(t, d)]
    BY <2>1, EdgeShown
  <2>3. x \in DirectedEdgesOf(Node(d))
    BY <2>1 DEF DirectedEdgesOf
  <2> QED
    BY <2>2, <2>3
<1> QED
  BY <1>1, <1>2

-----------------------------------------------------------------------------
(* Lookups: every reply shows what navigation shows                             *)

(* What the property looks at but the reply is settled by graph and request. *)
LEMMA LookupFrame ==
    ASSUME UNCHANGED <<graph, detail>>
    PROVE  /\ Definitions' = Definitions /\ EdgeIds' = EdgeIds /\ Meant' = Meant
           /\ \A a, b : Related(a, b)' <=> Related(a, b)
           /\ \A a, b : Claims(a, b)' = Claims(a, b)
           /\ DirectedEdgesOf(detail.from)' = DirectedEdgesOf(detail.from)
           /\ DirectedEdgesOf(detail.node)' = DirectedEdgesOf(detail.node)
<1>1. Definitions' = Definitions
  BY DEF Definitions
<1>2. \A n : Node(n)' = Node(n)
  BY DEF Node
<1>3. \A a, b : Related(a, b)' <=> Related(a, b)
  BY DEF Related
<1>4. \A a, b : Claims(a, b)' = Claims(a, b)
  BY DEF Claims, Multiplicity
<1>5. EdgeIds' = EdgeIds
  BY <1>1, <1>3 DEF EdgeIds
<1>6. Meant' = Meant
  BY <1>1, <1>2, <1>3 DEF Meant
<1>7. \A e, d : DirectedEdge(Stored(e), d)' = DirectedEdge(Stored(e), d)
  BY <1>4 DEF DirectedEdge, Stored, FromA
<1>8. /\ DirectedEdgesOf(detail.from)' = DirectedEdgesOf(detail.from)
      /\ DirectedEdgesOf(detail.node)' = DirectedEdgesOf(detail.node)
  BY <1>2, <1>5, <1>7 DEF DirectedEdgesOf
<1> QED
  BY <1>1, <1>3, <1>4, <1>5, <1>6, <1>8

LookupInv == LookupTyped /\ LookedUpAsShown

LEMMA InitLookupInv == Init => LookupInv
<1>1. Init => LookupInit \/ LookupIdle
  BY DEF Init
<1> QED
  BY <1>1 DEF LookupInit, LookupIdle, LookupInv, LookupTyped, LookedUpAsShown

(* No request changes the graph, and no other request touches a lookup. *)
LEMMA LookupStep ==
    ASSUME [Next]_navigationVars
    PROVE  UNCHANGED <<graph, detail>> /\ (LookupNext \/ UNCHANGED reply)
<1>1. CASE PathNext /\ UNCHANGED lookupVars
  <2>1. PathNext => UNCHANGED graph
    BY DEF PathNext, First, BeginRound, Spur, EndRound, EndLoop, Cancel, Answer
  <2> QED
    BY <1>1, <2>1 DEF lookupVars
<1>2. CASE TreeNext /\ UNCHANGED lookupVars
  <2>1. TreeNext => UNCHANGED graph
    BY DEF TreeNext, GrowLevel, ChooseAtEnd
  <2> QED
    BY <1>2, <2>1 DEF lookupVars
<1>3. CASE NeighbourNext /\ UNCHANGED lookupVars
  <2>1. NeighbourNext => UNCHANGED graph
    BY DEF NeighbourNext, Refuse, ExpandLevel, Present
  <2> QED
    BY <1>3, <2>1 DEF lookupVars
<1>4. CASE LookupNext
  <2>1. LookupNext => UNCHANGED <<graph, detail>>
    BY DEF LookupNext, RefuseRelationship, MissRelationship, ReadRelationship, ReadRelationshipFrom,
           MissObject, ReadIdentity, ReadDataset, Reply
  <2> QED
    BY <1>4, <2>1
<1>5. CASE UNCHANGED <<graph, lookupVars>>
  BY <1>5 DEF lookupVars
<1> QED
  BY <1>1, <1>2, <1>3, <1>4, <1>5 DEF Next, navigationVars

(* errors are no relationships *)
LEMMA RepliesDiffer ==
    /\ Waiting # NotFound /\ Waiting # Invalid /\ NotFound # Invalid
    /\ \A edge : RelationshipReply(edge) # Invalid
<1>1. Waiting.error = "none" /\ NotFound.error = "RESOURCE_NOT_FOUND" /\ Invalid.error = "INVALID_PARAMS"
  BY DEF Waiting, NotFound, Invalid
<1>2. DOMAIN Invalid = {"error"}
  BY DEF Invalid
<1>3. \A edge : "edge" \in DOMAIN RelationshipReply(edge)
  BY DEF RelationshipReply
<1> QED
  BY <1>1, <1>2, <1>3

LEMMA NextLookupInv == LookupInv /\ [Next]_navigationVars => LookupInv'
<1> SUFFICES ASSUME LookupInv, [Next]_navigationVars
             PROVE  LookupInv'
  OBVIOUS
<1>1. UNCHANGED <<graph, detail>> /\ (LookupNext \/ UNCHANGED reply)
  BY LookupStep
<1>2. LookupTyped'
  BY <1>1 DEF LookupInv, LookupTyped
<1> SUFFICES LookedUpAsShown'
  BY <1>2 DEF LookupInv
<1>3. CASE UNCHANGED reply
  BY <1>1, <1>3, LookupFrame
     DEF LookupInv, LookedUpAsShown, DirectionShown, ClaimsShown, IdentityShown, DatasetShown
<1>4. ASSUME LookupNext
      PROVE  detail.method # "none" /\ Definitions \in SUBSET Int /\ IsFiniteSet(Definitions)
  <2>1. detail.method # "none"
    BY <1>4 DEF LookupNext, RefuseRelationship, MissRelationship, ReadRelationship, ReadRelationshipFrom,
               MissObject, ReadIdentity, ReadDataset, Asked
  <2> QED
    BY <2>1, DefinitionsOrdered DEF LookupInv
<1>5. CASE RefuseRelationship
  <2>1. detail'.method = "get_relationship" /\ detail'.from = Unnamed /\ reply' = Invalid
    BY <1>5 DEF RefuseRelationship, Asked, ColumnsAlone, Reply
  <2> QED
    BY <2>1, RepliesDiffer DEF LookedUpAsShown
<1>6. CASE MissRelationship \/ MissObject
  <2>1. reply' = NotFound
    BY <1>6 DEF MissRelationship, MissObject, Reply
  <2> QED
    BY <2>1 DEF LookedUpAsShown
<1>7. CASE ReadRelationship
  <2>1. /\ detail.method = "get_relationship" /\ detail.edge \in EdgeIds /\ detail.from = Unnamed
        /\ reply' = RelationshipReply(NoEdge)
    BY <1>7 DEF ReadRelationship, Asked, Reply
  <2>2. /\ reply'.relationship.aToB = Claims(detail.edge[1], detail.edge[2])
        /\ reply'.relationship.bToA = Claims(detail.edge[2], detail.edge[1])
    BY <2>1 DEF RelationshipReply, Stored
  <2>3. ClaimsShown'
    BY <1>1, <1>4, <1>7, <2>1, <2>2, ClaimsRead, LookupFrame DEF ClaimsShown, LookupNext
  <2> QED
    BY <1>1, <2>1, <2>3 DEF LookedUpAsShown
<1>8. CASE ReadRelationshipFrom
  <2>1. detail.method = "get_relationship" /\ detail.edge \in EdgeIds /\ detail.from # Unnamed
    BY <1>8 DEF ReadRelationshipFrom, Asked
  <2>2. Cardinality(Meant) = 1 <=> Cardinality(MeantEnds) = 1
    BY <1>4, <1>8, <2>1, MeantByEnds DEF LookupNext
  <2>3. CASE Cardinality(MeantEnds) = 1
    <3>1. PICK d \in MeantEnds : reply' = RelationshipReply(DirectedEdge(Stored(detail.edge), d))
      BY <1>8, <2>3 DEF ReadRelationshipFrom, Reply
    <3> DEFINE shown == DirectedEdge(Stored(detail.edge), d)
    <3>2. reply' # Invalid /\ reply'.edge = shown
      BY <3>1, RepliesDiffer DEF RelationshipReply
    <3>3. ASSUME NEW p \in Meant
          PROVE  /\ shown = [source |-> p[1], target |-> p[2],
                             outgoing |-> Claims(p[1], p[2]), reverse |-> Claims(p[2], p[1])]
                 /\ shown \in DirectedEdgesOf(detail.from)
      BY <1>4, <1>8, <2>1, <2>3, DirectionRead DEF LookupNext
    <3> HIDE DEF shown
    <3>4. DirectionShown'
      BY <1>1, <2>2, <2>3, <3>2, <3>3, LookupFrame DEF DirectionShown
    <3> QED
      BY <1>1, <2>1, <3>4 DEF LookedUpAsShown
  <2>4. CASE Cardinality(MeantEnds) # 1
    <3>1. reply' = Invalid
      BY <1>8, <2>4 DEF ReadRelationshipFrom, Reply
    <3>2. DirectionShown'
      BY <1>1, <2>2, <2>4, <3>1, LookupFrame DEF DirectionShown
    <3> QED
      BY <1>1, <2>1, <3>2 DEF LookedUpAsShown
  <2> QED
    BY <2>3, <2>4
<1>9. CASE ReadIdentity
  <2> DEFINE few   == detail.limit
             first == FirstOf(Matching, few)
  <2>1. /\ detail.method = "get_identity"
        /\ reply'.definitions = first /\ reply'.truncated = (Cardinality(Matching) > few)
    BY <1>9 DEF ReadIdentity, Asked, Reply
  <2>2. few \in Nat
    BY <1>4, <1>9, <2>1, LookupAssumption
       DEF LookupNext, LookupInv, LookupTyped, RelationshipRequests, IdentityRequests, DatasetRequests
  <2>3. Matching \in SUBSET Int /\ IsFiniteSet(Matching) /\ Matching \subseteq Definitions
    <3>1. Matching \in SUBSET Definitions
      BY DEF Matching
    <3> QED
      BY <1>4, <1>9, <3>1, FS_Subset DEF LookupNext
  <2>4. /\ first \subseteq Matching
        /\ \A d \in Matching \ first : \A e \in first : e < d
        /\ Cardinality(Matching) > few <=> first # Matching
        /\ Cardinality(Matching) > few => Cardinality(first) = few
    BY <2>2, <2>3, FirstFew
  <2>5. ASSUME NEW d \in Matching, NEW e \in Matching, d # e
        PROVE  EdgeId(d, e) \in EdgeIds
    <3>1. d \in Definitions /\ e \in Definitions /\ Related(d, e)
      BY <2>3, <2>5 DEF Matching, Related, Joinable
    <3> QED
      BY <1>4, <1>9, <3>1, RelatedBothWays DEF LookupNext
  <2>6. Matching = {d \in Definitions' : graph'[d].identity = detail'.identity /\ graph'[d].universe \in detail'.universes}
    BY <1>1, LookupFrame DEF Matching
  <2>7. EdgeIds' = EdgeIds
    BY <1>1, LookupFrame
  <2> HIDE DEF first
  <2>8. IdentityShown'
    BY <1>1, <2>1, <2>4, <2>5, <2>6, <2>7 DEF IdentityShown
  <2> QED
    BY <1>1, <2>1, <2>8 DEF LookedUpAsShown
<1>10. CASE ReadDataset
  <2>1. detail.method = "get_dataset" /\ reply'.definitions = {d \in Definitions : Node(d) = detail.node}
    BY <1>10 DEF ReadDataset, Asked, Reply
  <2>2. \A d \in reply'.definitions :
            {e.target : e \in {e \in DirectedEdgesOf(detail.node) : e.source = d}} = {t \in Definitions : Related(d, t)}
    BY <1>4, <1>10, <2>1, EdgesOfDataset DEF LookupNext
  <2>3. DatasetShown'
    BY <1>1, <2>2, LookupFrame DEF DatasetShown
  <2> QED
    BY <1>1, <2>1, <2>3 DEF LookedUpAsShown
<1> QED
  BY <1>1, <1>3, <1>5, <1>6, <1>7, <1>8, <1>9, <1>10 DEF LookupNext

(* On any snapshot, what a caller reads by ID is what navigation shows: the      *)
(* directed edge from the end that it named, or a refusal when that is no end or *)
(* both; the first definitions of an entity, told to be all or not; and the      *)
(* directed edges of a dataset, those that stay on it included.                  *)
THEOREM LookupsAsShown == Spec => []LookedUpAsShown
<1>1. LookupInv => LookedUpAsShown
  BY DEF LookupInv
<1> QED
  BY <1>1, InitLookupInv, NextLookupInv, PTL DEF Spec
-----------------------------------------------------------------------------
(* Numbers: what is built step by step                                          *)

Repeatable(S, step, s0) == step \in [S -> S] /\ s0 \in S
Repeated(S, step, s0) == {f \in [Nat -> S] : f[0] = s0 /\ \A n \in Nat : f[n + 1] = step[f[n]]}

(* What a step makes of s0, then of that, is made for every number of steps.     *)
LEMMA Repeats ==
    ASSUME NEW S, NEW step, NEW s0, Repeatable(S, step, s0)
    PROVE  Repeated(S, step, s0) # {}
<1> SUFFICES \E f \in [Nat -> S] : f[0] = s0 /\ \A n \in Nat : f[n + 1] = step[f[n]]
  BY DEF Repeated
<1> step \in [S -> S] /\ s0 \in S
  BY DEF Repeatable
<1> DEFINE Upto(n) == {g \in [0..n -> S] : g[0] = s0 /\ \A i \in 0..(n - 1) : g[i + 1] = step[g[i]]}
           A == {n \in Nat : \E g : g \in Upto(n)}
           B == {n \in Nat : \A g, h \in Upto(n) : g[n] = h[n]}
           Part(g, n) == [i \in 0..n |-> g[i]]
<1>1. ASSUME NEW n \in Nat, NEW g \in Upto(n + 1)
      PROVE  Part(g, n) \in Upto(n) /\ g[n + 1] = step[Part(g, n)[n]]
  <2>1. \A i \in 0..(n - 1) : i \in 0..n /\ i + 1 \in 0..n /\ i \in 0..(n + 1) /\ i \in 0..((n + 1) - 1)
    OBVIOUS
  <2>2. \A i \in 0..n : i \in 0..(n + 1)
    OBVIOUS
  <2>3. 0 \in 0..n /\ n \in 0..n /\ n \in 0..((n + 1) - 1)
    OBVIOUS
  <2> QED
    BY <2>1, <2>2, <2>3
<1>2. Nat \subseteq A
  <2>1. 0 \in A
    <3>1. [i \in 0..0 |-> s0] \in Upto(0)
      OBVIOUS
    <3> QED
      BY <3>1
  <2>2. ASSUME NEW n \in Nat, n \in A
        PROVE  n + 1 \in A
    <3>1. PICK g : g \in Upto(n)
      BY <2>2
    <3> DEFINE h == [i \in 0..(n + 1) |-> IF i <= n THEN g[i] ELSE step[g[n]]]
    <3>2. h \in [0..(n + 1) -> S]
      BY <3>1
    <3>3. h[0] = s0
      BY <3>1
    <3>4. ASSUME NEW i \in 0..((n + 1) - 1)
          PROVE  h[i + 1] = step[h[i]]
      <4>1. h[i] = g[i] /\ i \in 0..(n + 1) /\ i + 1 \in 0..(n + 1)
        OBVIOUS
      <4>2. CASE i = n
        BY <4>1, <4>2
      <4>3. CASE i # n
        BY <3>1, <4>1, <4>3
      <4> QED
        BY <4>2, <4>3
    <3>5. h \in Upto(n + 1)
      BY <3>2, <3>3, <3>4
    <3> HIDE DEF h, Upto
    <3> QED
      BY <3>5
  <2> HIDE DEF A
  <2> QED
    BY <2>1, <2>2, Reaches
<1>3. Nat \subseteq B
  <2>1. 0 \in B
    OBVIOUS
  <2>2. ASSUME NEW n \in Nat, n \in B
        PROVE  n + 1 \in B
    <3> SUFFICES ASSUME NEW g \in Upto(n + 1), NEW h \in Upto(n + 1)
                 PROVE  g[n + 1] = h[n + 1]
      OBVIOUS
    <3>1. Part(g, n) \in Upto(n) /\ g[n + 1] = step[Part(g, n)[n]]
      BY <1>1
    <3>2. Part(h, n) \in Upto(n) /\ h[n + 1] = step[Part(h, n)[n]]
      BY <1>1
    <3> HIDE DEF Upto, Part
    <3>3. Part(g, n)[n] = Part(h, n)[n]
      BY <2>2, <3>1, <3>2
    <3> QED
      BY <3>1, <3>2, <3>3
  <2> HIDE DEF B
  <2> QED
    BY <2>1, <2>2, Reaches
<1> DEFINE Nth(n) == CHOOSE g : g \in Upto(n)
           f == [n \in Nat |-> Nth(n)[n]]
<1>4. \A n \in Nat : Nth(n) \in Upto(n)
  BY <1>2
<1>5. ASSUME NEW n \in Nat
      PROVE  f[n + 1] = step[f[n]]
  <2> DEFINE g == Nth(n + 1)
  <2>1. g \in Upto(n + 1)
    <3>1. \A m \in Nat : Nth(m) \in Upto(m)
      BY <1>4
    <3> HIDE DEF Upto, Nth
    <3> QED
      BY <3>1
  <2> HIDE DEF g
  <2>2. Part(g, n) \in Upto(n) /\ g[n + 1] = step[Part(g, n)[n]]
    BY <1>1, <2>1
  <2> HIDE DEF Upto, Part
  <2>3. Part(g, n)[n] = Nth(n)[n]
    BY <1>3, <1>4, <2>2
  <2> QED
    BY <2>2, <2>3 DEF g
<1>6. f[0] = s0
  <2>1. Nth(0)[0] = s0
    BY <1>4
  <2> QED
    BY <2>1
<1>7. f \in [Nat -> S]
  <2>1. \A n \in Nat : Nth(n)[n] \in S
    <3> TAKE n \in Nat
    <3>1. Nth(n) \in [0..n -> S]
      BY <1>4
    <3> QED
      BY <3>1
  <2> QED
    BY <2>1
<1> HIDE DEF f
<1> QED
  BY <1>5, <1>6, <1>7

-----------------------------------------------------------------------------
(* Expansion: datasets by level                                                 *)

(* the reference, a level at a time *)
LEMMA WithinLevels ==
    /\ Within = [n \in Nat |-> Within[n]]
    /\ Within[0] = query.seeds
    /\ \A n \in Nat : Within[n + 1] = Within[n] \cup UNION {Neighbours(m) : m \in Within[n]}
<1> DEFINE Near(W) == {Node(b) : b \in {b \in Definitions :
                           \E a \in Definitions : Node(a) \in W /\ Matched(a) /\ Related(a, b)}}
           reach == SUBSET (query.seeds \cup {Node(b) : b \in Definitions})
           grow == [W \in reach |-> W \cup Near(W)]
<1>1. \A W : Near(W) = UNION {Neighbours(m) : m \in W}
  BY DEF Neighbours, Followed, Leaving
<1>2. grow \in [reach -> reach] /\ query.seeds \in reach
  OBVIOUS
<1>3. PICK f \in [Nat -> reach] : f[0] = query.seeds /\ \A n \in Nat : f[n + 1] = grow[f[n]]
  <2>1. Repeatable(reach, grow, query.seeds)
    BY <1>2 DEF Repeatable
  <2> HIDE DEF Near, grow, reach
  <2>2. Repeated(reach, grow, query.seeds) # {}
    BY <2>1, Repeats
  <2> QED
    BY <2>2 DEF Repeated
<1>4. f = [n \in Nat |-> IF n = 0 THEN query.seeds ELSE f[n - 1] \cup Near(f[n - 1])]
  <2>1. ASSUME NEW n \in Nat, n # 0
        PROVE  f[n] = f[n - 1] \cup Near(f[n - 1])
    <3>1. n - 1 \in Nat /\ (n - 1) + 1 = n
      BY <2>1
    <3>2. f[n] = grow[f[n - 1]] /\ f[n - 1] \in reach
      BY <1>3, <3>1
    <3> QED
      BY <3>2
  <2> HIDE DEF Near, reach, grow
  <2> QED
    BY <1>3, <2>1
<1>5. Within = [n \in Nat |-> IF n = 0 THEN query.seeds ELSE Within[n - 1] \cup Near(Within[n - 1])]
  BY <1>4 DEF Within
<1>6. Within[0] = query.seeds
  BY <1>5
<1>7. ASSUME NEW n \in Nat
      PROVE  Within[n + 1] = Within[n] \cup Near(Within[n])
  <2>1. n + 1 \in Nat /\ n + 1 # 0 /\ (n + 1) - 1 = n
    OBVIOUS
  <2> HIDE DEF Near
  <2> QED
    BY <1>5, <2>1
<1>8. Within = [n \in Nat |-> Within[n]]
  BY <1>5
<1> HIDE DEF Near
<1> QED
  BY <1>1, <1>6, <1>7, <1>8

(* No request changes it. *)
LEMMA WithinKept ==
    UNCHANGED <<graph, query>> =>
        /\ Definitions' = Definitions /\ Within' = Within
        /\ \A n : Neighbours(n)' = Neighbours(n) /\ Followed(n)' = Followed(n)
<1> SUFFICES ASSUME UNCHANGED <<graph, query>>
             PROVE  /\ Definitions' = Definitions /\ Within' = Within
                    /\ \A n : Neighbours(n)' = Neighbours(n) /\ Followed(n)' = Followed(n)
  OBVIOUS
<1>1. Definitions' = Definitions /\ \A n : Node(n)' = Node(n) /\ Leaving(n)' = Leaving(n) /\ Matched(n)' = Matched(n)
  BY DEF Definitions, Node, Leaving, Related, Matched
<1>2. \A n : Neighbours(n)' = Neighbours(n) /\ Followed(n)' = Followed(n)
  BY <1>1 DEF Neighbours, Followed
<1>3. /\ Within = [n \in Nat |-> Within[n]] /\ Within[0] = query.seeds
      /\ \A n \in Nat : Within[n + 1] = Within[n] \cup UNION {Neighbours(m) : m \in Within[n]}
  BY WithinLevels
<1>4. /\ Within' = [n \in Nat |-> Within'[n]] /\ Within'[0] = query'.seeds
      /\ \A n \in Nat : Within'[n + 1] = Within'[n] \cup UNION {Neighbours(m)' : m \in Within'[n]}
  <2>1. (/\ Within = [n \in Nat |-> Within[n]]
         /\ Within[0] = query.seeds
         /\ \A n \in Nat : Within[n + 1] = Within[n] \cup UNION {Neighbours(m) : m \in Within[n]})'
    BY WithinLevels, PTL
  <2> QED
    BY <2>1
<1> DEFINE T == {n \in Nat : Within'[n] = Within[n]}
<1>5. 0 \in T
  BY <1>3, <1>4
<1>6. ASSUME NEW n \in Nat, n \in T
      PROVE  n + 1 \in T
  <2>1. Within'[n] = Within[n]
    BY <1>6
  <2>2. UNION {Neighbours(m)' : m \in Within'[n]} = UNION {Neighbours(m) : m \in Within[n]}
    BY <1>2, <2>1
  <2> QED
    <3>1. Within[n + 1] = Within[n] \cup UNION {Neighbours(m) : m \in Within[n]}
      BY <1>3
    <3>2. Within'[n + 1] = Within'[n] \cup UNION {Neighbours(m)' : m \in Within'[n]}
      BY <1>4
    <3>3. Within'[n + 1] = Within[n + 1]
      BY <2>1, <2>2, <3>1, <3>2, Zenon
    <3> QED
      BY <3>3
<1> HIDE DEF T
<1>7. Nat \subseteq T
  BY <1>5, <1>6, Reaches
<1>8. Within' = Within
  BY <1>3, <1>4, <1>7 DEF T
<1> QED
  BY <1>1, <1>2, <1>8

(* What is reached after so many levels is what is within that many              *)
(* relationships, at its true distance; the next level starts from the farthest. *)
Reached ==
    /\ depth \in 0..query.depth
    /\ DOMAIN distance \in SUBSET Int /\ IsFiniteSet(DOMAIN distance)
    /\ \A n \in DOMAIN distance : distance[n] \in 0..depth
    /\ \A k \in 0..depth : Within[k] = {n \in DOMAIN distance : distance[n] <= k}
    /\ frontier = {n \in DOMAIN distance : distance[n] = depth}

NeighbourInv ==
    /\ phase # "idle" => graph \in NeighbourGraphs /\ query \in NeighbourRequests /\ Reached
    /\ Listed => depth = query.depth /\ ~TooManySeeds /\ view = Presented

(* no other request touches an expansion *)
LEMMA ExpansionStep ==
    ASSUME [Next]_navigationVars
    PROVE  UNCHANGED graph /\ (NeighbourNext \/ UNCHANGED neighbourVars)
<1>1. UNCHANGED graph
  BY LookupStep
<1> QED
  BY <1>1 DEF Next, navigationVars, neighbourVars

(* names of datasets and definitions are finitely many numbers *)
LEMMA GraphFinite ==
    ASSUME graph \in NeighbourGraphs
    PROVE  /\ Definitions \in SUBSET Int /\ IsFiniteSet(Definitions)
           /\ {Node(b) : b \in Definitions} \in SUBSET Int
           /\ \A T \in SUBSET {Node(b) : b \in Definitions} : IsFiniteSet(T)
<1>1. graph \in Seq(ToSet(graph)) /\ \A d \in Definitions : Node(d) \in Int
  BY NeighbourAssumption DEF Definitions, Node
<1>2. Definitions = 1..Len(graph) /\ Len(graph) \in Nat
  BY <1>1, LenProperties DEF Definitions
<1>3. IsFiniteSet(Definitions)
  BY <1>2, FS_Interval
<1> DEFINE names == {Node(b) : b \in Definitions}
           name  == [b \in Definitions |-> Node(b)]
<1>4. name \in Surjection(Definitions, names)
  BY DEF Surjection
<1> HIDE DEF name
<1>5. IsFiniteSet(names)
  BY <1>3, <1>4, FS_Surjection
<1>6. \A T \in SUBSET names : IsFiniteSet(T)
  BY <1>5, FS_Subset
<1> QED
  BY <1>1, <1>2, <1>3, <1>6

LEMMA InitNeighbourInv == Init => NeighbourInv
<1>1. NeighbourIdle => NeighbourInv
  BY DEF NeighbourIdle, NeighbourFresh, NeighbourInv, Listed
<1>2. ASSUME NeighbourInit
      PROVE  NeighbourInv
  <2>1. PICK q \in NeighbourRequests : NeighbourFresh("asked", q)
    BY <1>2 DEF NeighbourInit
  <2>2. /\ query = q /\ phase = "asked" /\ distance = [n \in q.seeds |-> 0]
        /\ frontier = q.seeds /\ depth = 0 /\ graph \in NeighbourGraphs
    BY <1>2, <2>1 DEF NeighbourInit, NeighbourFresh
  <2>3. q.seeds \in SUBSET Int /\ IsFiniteSet(q.seeds) /\ q.depth \in Nat
    BY NeighbourAssumption
  <2>4. Within[0] = q.seeds
    BY <2>2, WithinLevels
  <2>5. Reached
    BY <2>2, <2>3, <2>4 DEF Reached
  <2> QED
    BY <2>2, <2>5 DEF NeighbourInv, Listed
<1> QED
  BY <1>1, <1>2 DEF Init

(* A level more: the datasets next to the last level, but for those that were    *)
(* reached.  Those next to an earlier level were.                                *)
LEMMA LevelAdded ==
    ASSUME NeighbourInv, ExpandLevel
    PROVE  Reached'
<1> DEFINE following == (UNION {Neighbours(n) : n \in frontier}) \ DOMAIN distance
<1>1. /\ phase = "asked" /\ depth < query.depth /\ depth' = depth + 1
      /\ distance' = [n \in DOMAIN distance \cup following |-> IF n \in following THEN depth + 1 ELSE distance[n]]
      /\ frontier' = following /\ UNCHANGED <<graph, query>>
  BY DEF ExpandLevel
<1>2. graph \in NeighbourGraphs /\ query.depth \in Nat /\ Reached
  BY <1>1, NeighbourAssumption DEF NeighbourInv
<1>3. Within' = Within
  BY <1>1, WithinKept
<1>4. following \in SUBSET Int /\ IsFiniteSet(following)
  <2>1. following \in SUBSET {Node(b) : b \in Definitions}
    BY DEF Neighbours, Leaving
  <2> HIDE DEF following
  <2> QED
    BY <1>2, <2>1, GraphFinite
<1>5. /\ DOMAIN distance' = DOMAIN distance \cup following
      /\ \A n \in following : distance'[n] = depth + 1
      /\ \A n \in DOMAIN distance : distance'[n] = distance[n]
  BY <1>1
<1>6. /\ depth \in Nat /\ DOMAIN distance \in SUBSET Int /\ IsFiniteSet(DOMAIN distance)
      /\ \A n \in DOMAIN distance : distance[n] \in 0..depth
      /\ \A k \in 0..depth : Within[k] = {n \in DOMAIN distance : distance[n] <= k}
      /\ frontier = {n \in DOMAIN distance : distance[n] = depth}
  BY <1>2 DEF Reached
<1>7. Within[depth] = DOMAIN distance
  BY <1>6
<1>8. Within[depth + 1] = DOMAIN distance \cup following
  <2>1. ASSUME NEW n \in DOMAIN distance, n \notin frontier
        PROVE  Neighbours(n) \subseteq DOMAIN distance
    <3>1. distance[n] \in Nat /\ distance[n] + 1 \in 0..depth /\ distance[n] \in 0..depth
      BY <1>6, <2>1
    <3>2. n \in Within[distance[n]]
      BY <1>6, <3>1
    <3>3. Neighbours(n) \subseteq Within[distance[n] + 1]
      <4>1. Within[distance[n] + 1]
                = Within[distance[n]] \cup UNION {Neighbours(m) : m \in Within[distance[n]]}
        BY <3>1, WithinLevels
      <4> HIDE DEF following
      <4> QED
        BY <3>2, <4>1
    <3>4. Within[distance[n] + 1] \subseteq DOMAIN distance
      BY <1>6, <3>1
    <3> QED
      BY <3>3, <3>4
  <2>2. frontier \subseteq DOMAIN distance
    BY <1>6
  <2>3. Within[depth + 1] = DOMAIN distance \cup UNION {Neighbours(n) : n \in DOMAIN distance}
    BY <1>6, <1>7, WithinLevels
  <2> QED
    BY <2>1, <2>2, <2>3
<1>9. following \cap DOMAIN distance = {}
  OBVIOUS
<1> HIDE DEF following
<1>10. ASSUME NEW k \in 0..(depth + 1)
       PROVE  Within[k] = {n \in DOMAIN distance' : distance'[n] <= k}
  <2>1. CASE k = depth + 1
    BY <1>5, <1>6, <1>8, <2>1
  <2>2. CASE k # depth + 1
    <3>1. k \in 0..depth /\ ~(depth + 1 <= k)
      BY <1>6, <2>2
    <3>2. Within[k] = {n \in DOMAIN distance : distance[n] <= k}
      BY <1>6, <3>1
    <3> QED
      BY <1>5, <3>1, <3>2
  <2> QED
    BY <2>1, <2>2
<1>11. DOMAIN distance' \in SUBSET Int /\ IsFiniteSet(DOMAIN distance')
  <2>1. IsFiniteSet(DOMAIN distance \cup following)
    BY <1>4, <1>6, FS_Union
  <2>2. DOMAIN distance \cup following \in SUBSET Int
    BY <1>4, <1>6
  <2> QED
    BY <1>5, <2>1, <2>2
<1>12. \A n \in DOMAIN distance' : distance'[n] \in 0..(depth + 1)
  BY <1>5, <1>6
<1>13. frontier' = {n \in DOMAIN distance' : distance'[n] = depth + 1}
  BY <1>1, <1>5, <1>6
<1>14. depth' \in 0..query'.depth
  BY <1>1, <1>2, <1>6
<1> QED
  BY <1>1, <1>3, <1>10, <1>11, <1>12, <1>13, <1>14 DEF Reached

LEMMA NextNeighbourInv == NeighbourInv /\ [Next]_navigationVars => NeighbourInv'
<1> SUFFICES ASSUME NeighbourInv, [Next]_navigationVars
             PROVE  NeighbourInv'
  OBVIOUS
<1>1. UNCHANGED graph /\ (NeighbourNext \/ UNCHANGED neighbourVars)
  BY ExpansionStep
<1>2. ASSUME UNCHANGED <<graph, query, distance, frontier, depth>>
      PROVE  (Reached' <=> Reached) /\ Presented' = Presented /\ (TooManySeeds' <=> TooManySeeds)
  <2>1. Reached' <=> Reached
    BY <1>2, WithinKept DEF Reached
  <2>2. /\ Selected' = Selected
        /\ \A n, kept : Groups(n, kept)' = Groups(n, kept)
    <3>1. \A m, n : Nearer(m, n)' <=> Nearer(m, n)
      BY <1>2 DEF Nearer
    <3>2. Selected' = Selected
      BY <1>2, <3>1 DEF Selected
    <3>3. \A b : Node(b)' = Node(b)
      BY <1>2 DEF Node
    <3>4. \A a : Leaving(a)' = Leaving(a)
      BY <1>2, WithinKept DEF Leaving, Related
    <3>5. \A a, kept : Group(a, kept)' = Group(a, kept)
      BY <1>2, <3>3, <3>4 DEF Group
    <3> QED
      BY <1>2, <3>2, <3>5, WithinKept DEF Groups
  <2> DEFINE expanded == {n \in Selected : distance[n] < query.depth}
             grouped  == [n \in expanded |-> Groups(n, Selected)]
  <2>3. grouped' = grouped
    BY <1>2, <2>2
  <2>4. ListedTargets(grouped)' = ListedTargets(grouped) /\ CapsOmit(grouped)' = CapsOmit(grouped)
    <3> HIDE DEF grouped
    <3>1. ListedTargets(grouped)' = ListedTargets(grouped)
      BY <1>2, <2>3 DEF ListedTargets, Node
    <3>2. CapsOmit(grouped)' = CapsOmit(grouped)
      BY <1>2, <2>2, <2>3 DEF CapsOmit
    <3> QED
      BY <3>1, <3>2
  <2>5. Presented' = Presented
    <3>1. Presented = [datasets  |-> {n \in Selected : query.referencedOnly => n \in query.seeds \cup ListedTargets(grouped)},
                       groups    |-> grouped,
                       truncated |-> CapsOmit(grouped)]
      BY DEF Presented
    <3>2. Presented' = [datasets  |-> {n \in Selected' : query'.referencedOnly => n \in query'.seeds \cup ListedTargets(grouped)'},
                        groups    |-> grouped',
                        truncated |-> CapsOmit(grouped)']
      BY DEF Presented
    <3> HIDE DEF grouped
    <3> QED
      BY <1>2, <2>2, <2>3, <2>4, <3>1, <3>2
  <2> QED
    BY <1>2, <2>1, <2>5 DEF TooManySeeds
<1>3. CASE UNCHANGED neighbourVars
  BY <1>1, <1>2, <1>3 DEF NeighbourInv, neighbourVars, Listed
<1>4. CASE Refuse
  BY <1>2, <1>4 DEF NeighbourInv, Refuse, Listed
<1>5. CASE ExpandLevel
  <2>1. Reached'
    BY <1>5, LevelAdded
  <2> QED
    BY <1>5, <2>1 DEF NeighbourInv, ExpandLevel, Listed
<1>6. CASE Present
  BY <1>2, <1>6 DEF NeighbourInv, Present, Listed
<1> QED
  BY <1>1, <1>3, <1>4, <1>5, <1>6 DEF NeighbourNext

-----------------------------------------------------------------------------
(* Expansion: what the caps leave                                               *)

(* The cap on datasets leaves out no dataset that comes before one it keeps, and *)
(* no seed, for there is room for the seeds.                                     *)
LEMMA NearestKept ==
    ASSUME NeighbourInv, Listed
    PROVE  /\ Selected \subseteq DOMAIN distance
           /\ query.seeds = {n \in DOMAIN distance : distance[n] = 0}
           /\ query.seeds \subseteq Selected
           /\ \A n \in Selected : \A m \in DOMAIN distance : distance[m] < distance[n] => m \in Selected
<1>1. /\ query \in NeighbourRequests /\ Reached /\ ~TooManySeeds
      /\ query.depth \in Nat /\ query.maxNodes \in Nat \ {0} /\ IsFiniteSet(query.seeds)
  BY NeighbourAssumption DEF NeighbourInv, Listed
<1>2. /\ DOMAIN distance \in SUBSET Int /\ IsFiniteSet(DOMAIN distance)
      /\ \A n \in DOMAIN distance : distance[n] \in Nat
  BY <1>1 DEF Reached
<1>3. query.seeds = {n \in DOMAIN distance : distance[n] = 0}
  <2>1. 0 \in 0..depth
    BY <1>1 DEF Reached
  <2>2. Within[0] = {n \in DOMAIN distance : distance[n] <= 0}
    BY <1>1, <2>1 DEF Reached
  <2> QED
    BY <1>2, <2>2, WithinLevels
<1> DEFINE before(n) == {m \in DOMAIN distance : Nearer(m, n)}
<1>4. \A n : IsFiniteSet(before(n)) /\ Cardinality(before(n)) \in Nat
  BY <1>2, FS_Subset, FS_CardinalityType
<1>5. ASSUME NEW n \in Selected, NEW m \in DOMAIN distance, distance[m] < distance[n]
      PROVE  m \in Selected
  <2>1. before(m) \in SUBSET before(n)
    BY <1>2, <1>5 DEF Nearer, Selected
  <2>2. Cardinality(before(n)) < query.maxNodes
    BY DEF Selected
  <2> HIDE DEF before
  <2>3. Cardinality(before(m)) < query.maxNodes
    BY <1>1, <1>4, <2>1, <2>2, FS_Subset
  <2> QED
    BY <2>3 DEF Selected, before
<1>6. ASSUME NEW n \in query.seeds
      PROVE  n \in Selected
  <2>1. n \in DOMAIN distance /\ before(n) \in SUBSET (query.seeds \ {n})
    BY <1>2, <1>3 DEF Nearer
  <2>2. /\ IsFiniteSet(query.seeds \ {n})
        /\ Cardinality(query.seeds \ {n}) = Cardinality(query.seeds) - 1
    BY <1>1, FS_RemoveElement
  <2>3. Cardinality(query.seeds) \in Nat /\ Cardinality(query.seeds) <= query.maxNodes
    BY <1>1, FS_CardinalityType DEF TooManySeeds
  <2> HIDE DEF before
  <2>4. Cardinality(before(n)) <= Cardinality(query.seeds \ {n})
    BY <2>1, <2>2, FS_Subset
  <2>5. Cardinality(before(n)) < query.maxNodes
    BY <1>1, <1>4, <2>2, <2>3, <2>4
  <2> QED
    BY <2>1, <2>5 DEF Selected, before
<1> QED
  BY <1>3, <1>5, <1>6 DEF Selected

(* A dataset that is no seed was reached from the level before its own. *)
LEMMA ReachedFrom ==
    ASSUME NeighbourInv, Listed, NEW n \in DOMAIN distance, distance[n] # 0
    PROVE  \E m \in DOMAIN distance :
               distance[m] = distance[n] - 1 /\ \E e \in EdgesFrom(m) : Node(e[2]) = n
<1>1. /\ depth \in Nat /\ \A m \in DOMAIN distance : distance[m] \in 0..depth
      /\ \A k \in 0..depth : Within[k] = {m \in DOMAIN distance : distance[m] <= k}
  BY NeighbourAssumption DEF NeighbourInv, Reached, Listed
<1> DEFINE k == distance[n] - 1
<1>2. k \in Nat /\ k \in 0..depth /\ k + 1 \in 0..depth /\ k + 1 = distance[n]
  BY <1>1
<1> HIDE DEF k
<1>3. n \in Within[k + 1] /\ n \notin Within[k]
  BY <1>1, <1>2
<1>4. Within[k + 1] = Within[k] \cup UNION {Neighbours(m) : m \in Within[k]}
  BY <1>2, WithinLevels
<1>5. PICK m \in Within[k] : n \in Neighbours(m)
  BY <1>3, <1>4
<1>6. m \in DOMAIN distance /\ distance[m] <= k
  BY <1>1, <1>2, <1>5
<1>7. distance[m] = k
  <2> SUFFICES ASSUME distance[m] # k PROVE FALSE
    OBVIOUS
  <2> DEFINE j == distance[m]
  <2>1. j \in Nat /\ j \in 0..depth /\ j + 1 \in 0..depth /\ j + 1 <= k
    BY <1>1, <1>2, <1>6
  <2>2. m \in Within[j]
    BY <1>1, <1>6, <2>1
  <2> HIDE DEF j
  <2>3. Within[j + 1] = Within[j] \cup UNION {Neighbours(i) : i \in Within[j]}
    BY <2>1, WithinLevels
  <2>4. n \in Within[j + 1]
    BY <1>5, <2>2, <2>3
  <2>5. distance[n] <= j + 1
    BY <1>1, <2>1, <2>4
  <2> QED
    BY <1>2, <2>1, <2>5
<1>8. PICK a \in Followed(m) : \E b \in Leaving(a) : Node(b) = n
  BY <1>5 DEF Neighbours
<1>9. PICK b \in Leaving(a) : Node(b) = n
  BY <1>8
<1>10. <<a, b>> \in EdgesFrom(m)
  BY <1>8, <1>9 DEF Followed, Leaving, EdgesFrom
<1> QED
  BY <1>2, <1>6, <1>7, <1>9, <1>10 DEF k

(* the edges of an expanded dataset that are listed *)
ListedOf(a) == FirstOf({b \in Leaving(a) : Node(b) \in Selected}, query.limit)

(* the answer that is given, in terms of the edges it shows *)
LEMMA AnswerShown ==
    ASSUME NeighbourInv, Listed
    PROVE  /\ Expanded = {n \in Selected : distance[n] < query.depth}
           /\ \A n \in Expanded : /\ EdgesShown(n) = {e \in EdgesFrom(n) : e[2] \in ListedOf(e[1])}
                                  /\ \A e \in EdgesShown(n) : Node(e[2]) \in Selected
           /\ LET targets == {Node(e[2]) : e \in UNION {EdgesShown(n) : n \in Expanded}}
              IN  Shown = {n \in Selected : query.referencedOnly => n \in query.seeds \cup targets}
           /\ view.truncated <=>
                  \/ Selected # DOMAIN distance
                  \/ \E n \in Expanded : EdgesShown(n) # EdgesFrom(n)
<1> DEFINE expanded == {n \in Selected : distance[n] < query.depth}
           grouped  == [n \in expanded |-> Groups(n, Selected)]
           targets  == {Node(e[2]) : e \in UNION {EdgesShown(n) : n \in Expanded}}
<1>1. /\ view.groups = grouped /\ view.truncated = CapsOmit(grouped)
      /\ Shown = {n \in Selected : query.referencedOnly => n \in query.seeds \cup ListedTargets(grouped)}
  BY DEF NeighbourInv, Presented, Shown
<1>2. graph \in NeighbourGraphs
  BY DEF NeighbourInv, Listed
<1>3. Expanded = expanded
  BY <1>1 DEF Expanded
<1>4. \A n \in Expanded : view.groups[n] = Groups(n, Selected)
  BY <1>1, <1>3
<1>5. \A a : ListedOf(a) \subseteq {b \in Leaving(a) : Node(b) \in Selected}
  BY DEF ListedOf, FirstOf
<1>6. \A a : /\ Group(a, Selected).source = a
             /\ Group(a, Selected).count = Cardinality(Leaving(a))
             /\ Group(a, Selected).targets = ListedOf(a)
  BY DEF Group, ListedOf
<1> HIDE DEF expanded, grouped
<1>7. ASSUME NEW n \in Expanded
      PROVE  EdgesShown(n) = {e \in EdgesFrom(n) : e[2] \in ListedOf(e[1])}
  <2>1. EdgesShown(n) = UNION {{<<a, b>> : b \in ListedOf(a)} : a \in Followed(n)}
    BY <1>4, <1>6 DEF EdgesShown, Groups
  <2>2. ASSUME NEW a \in Followed(n), NEW b \in ListedOf(a)
        PROVE  <<a, b>> \in EdgesFrom(n)
    BY <1>5 DEF Followed, Leaving, EdgesFrom
  <2>3. ASSUME NEW e \in EdgesFrom(n), e[2] \in ListedOf(e[1])
        PROVE  e[1] \in Followed(n) /\ e = <<e[1], e[2]>>
    BY DEF Followed, Leaving, EdgesFrom
  <2> QED
    BY <2>1, <2>2, <2>3
<1>8. ASSUME NEW n \in Expanded, NEW e \in EdgesShown(n)
      PROVE  Node(e[2]) \in Selected
  BY <1>5, <1>7
<1>9. ListedTargets(grouped) = targets
  <2>1. \A n \in Expanded : UNION {g.targets : g \in view.groups[n]} = {e[2] : e \in EdgesShown(n)}
    <3> TAKE n \in Expanded
    <3>1. ASSUME NEW g \in view.groups[n], NEW b \in g.targets
          PROVE  b \in {e[2] : e \in EdgesShown(n)}
      <4>1. <<g.source, b>> \in EdgesShown(n)
        BY <3>1 DEF EdgesShown
      <4>2. <<g.source, b>>[2] = b
        OBVIOUS
      <4> QED
        BY <4>1, <4>2
    <3>2. ASSUME NEW e \in EdgesShown(n)
          PROVE  \E g \in view.groups[n] : e[2] \in g.targets
      BY DEF EdgesShown
    <3> QED
      BY <3>1, <3>2
  <2>2. DOMAIN grouped = Expanded /\ grouped = view.groups
    BY <1>1 DEF Expanded
  <2>3. UNION {UNION {g.targets : g \in grouped[n]} : n \in DOMAIN grouped}
            = UNION {{e[2] : e \in EdgesShown(n)} : n \in Expanded}
    <3>1. \A n \in Expanded : UNION {g.targets : g \in grouped[n]} = {e[2] : e \in EdgesShown(n)}
      BY <2>1, <2>2
    <3> HIDE DEF targets
    <3>2. \A b : (b \in UNION {UNION {g.targets : g \in grouped[n]} : n \in DOMAIN grouped})
                     <=> \E n \in Expanded : b \in UNION {g.targets : g \in grouped[n]}
      BY <2>2
    <3>3. \A b : (b \in UNION {{e[2] : e \in EdgesShown(n)} : n \in Expanded})
                     <=> \E n \in Expanded : b \in {e[2] : e \in EdgesShown(n)}
      OBVIOUS
    <3> QED
      BY <3>1, <3>2, <3>3
  <2>4. targets = {Node(b) : b \in UNION {{e[2] : e \in EdgesShown(n)} : n \in Expanded}}
    OBVIOUS
  <2> QED
    BY <2>3, <2>4 DEF ListedTargets
<1>10. ASSUME NEW n \in Expanded
       PROVE  (\E g \in grouped[n] : GroupTruncated(g)) <=> EdgesShown(n) # EdgesFrom(n)
  <2>1. ASSUME NEW a \in Definitions
        PROVE  GroupTruncated(Group(a, Selected)) <=> ListedOf(a) # Leaving(a)
    <3>1. IsFiniteSet(Leaving(a)) /\ ListedOf(a) \in SUBSET Leaving(a)
      <4>1. Leaving(a) \in SUBSET Definitions
        BY DEF Leaving
      <4> QED
        BY <1>2, <1>5, <4>1, GraphFinite, FS_Subset
    <3>2. /\ Cardinality(ListedOf(a)) <= Cardinality(Leaving(a))
          /\ Cardinality(ListedOf(a)) = Cardinality(Leaving(a)) => ListedOf(a) = Leaving(a)
          /\ Cardinality(ListedOf(a)) \in Nat /\ Cardinality(Leaving(a)) \in Nat
      BY <3>1, FS_Subset, FS_CardinalityType
    <3> QED
      BY <1>6, <3>2 DEF GroupTruncated
  <2>2. grouped[n] = {Group(a, Selected) : a \in Followed(n)}
    BY <1>1, <1>4 DEF Groups
  <2>3. (\E g \in grouped[n] : GroupTruncated(g)) <=> \E a \in Followed(n) : ListedOf(a) # Leaving(a)
    BY <2>1, <2>2 DEF Followed
  <2>4. ASSUME NEW a \in Followed(n), ListedOf(a) # Leaving(a)
        PROVE  EdgesShown(n) # EdgesFrom(n)
    <3>1. PICK b \in Leaving(a) : b \notin ListedOf(a)
      BY <1>5, <2>4
    <3>2. <<a, b>> \in EdgesFrom(n)
      BY DEF Followed, Leaving, EdgesFrom
    <3>3. <<a, b>> \notin EdgesShown(n)
      BY <1>7, <3>1
    <3> QED
      BY <3>2, <3>3
  <2>5. ASSUME EdgesShown(n) # EdgesFrom(n)
        PROVE  \E a \in Followed(n) : ListedOf(a) # Leaving(a)
    <3>1. PICK e \in EdgesFrom(n) : e[2] \notin ListedOf(e[1])
      BY <1>7, <2>5
    <3>2. e[1] \in Followed(n) /\ e[2] \in Leaving(e[1])
      BY DEF Followed, Leaving, EdgesFrom
    <3> QED
      BY <3>1, <3>2
  <2> QED
    BY <2>3, <2>4, <2>5
<1>11. view.truncated <=> \/ Selected # DOMAIN distance
                          \/ \E n \in Expanded : EdgesShown(n) # EdgesFrom(n)
  <2>1. DOMAIN grouped = Expanded
    BY <1>1 DEF Expanded
  <2> QED
    BY <1>1, <1>10, <2>1 DEF CapsOmit
<1> QED
  BY <1>1, <1>3, <1>7, <1>8, <1>9, <1>11 DEF expanded

LEMMA StaysNear == NeighbourInv => CappedStaysNear
<1> SUFFICES ASSUME NeighbourInv, Listed
             PROVE  CappedStaysNear
  BY DEF CappedStaysNear
<1> DEFINE targets == {Node(e[2]) : e \in UNION {EdgesShown(n) : n \in Expanded}}
<1>1. /\ query.seeds = {n \in DOMAIN distance : distance[n] = 0}
      /\ query.seeds \subseteq Selected /\ Selected \subseteq DOMAIN distance
      /\ \A n \in Selected : \A m \in DOMAIN distance : distance[m] < distance[n] => m \in Selected
  BY NearestKept
<1>2. /\ Expanded = {n \in Selected : distance[n] < query.depth}
      /\ Shown = {n \in Selected : query.referencedOnly => n \in query.seeds \cup targets}
      /\ \A n \in Expanded : \A e \in EdgesShown(n) : Node(e[2]) \in Selected
  BY AnswerShown
<1>3. /\ depth = query.depth /\ depth \in Nat
      /\ query.referencedOnly => query.depth = 1
      /\ \A n \in DOMAIN distance : distance[n] \in 0..depth
      /\ \A k \in 0..depth : Within[k] = {n \in DOMAIN distance : distance[n] <= k}
  BY NeighbourAssumption DEF NeighbourInv, Reached, Listed
<1>4. targets \subseteq Selected
  BY <1>2
<1>5. ASSUME NEW n \in Shown
      PROVE  n \in Within[distance[n]] /\ ~Closer(n, distance[n])
  <2>1. n \in DOMAIN distance /\ distance[n] \in 0..depth /\ distance[n] \in Nat
    BY <1>1, <1>2, <1>3
  <2>2. ASSUME NEW k \in 0..(distance[n] - 1)
        PROVE  n \notin Within[k]
    <3>1. k \in 0..depth /\ ~(distance[n] <= k)
      BY <1>3, <2>1
    <3> QED
      BY <1>3, <3>1
  <2> QED
    BY <1>3, <2>1, <2>2 DEF Closer
<1>6. ASSUME NEW n \in Shown \ query.seeds
      PROVE  \E m \in Expanded \cap Shown :
                 distance[m] = distance[n] - 1 /\ \E e \in EdgesFrom(m) : Node(e[2]) = n
  <2>1. n \in Selected /\ n \in DOMAIN distance /\ distance[n] # 0 /\ distance[n] \in 0..depth
    BY <1>1, <1>2, <1>3
  <2>2. PICK m \in DOMAIN distance :
            distance[m] = distance[n] - 1 /\ \E e \in EdgesFrom(m) : Node(e[2]) = n
    BY <2>1, ReachedFrom
  <2>3. distance[m] < distance[n] /\ distance[m] < query.depth
    BY <1>3, <2>1, <2>2
  <2>4. m \in Selected
    BY <1>1, <2>1, <2>3
  <2>5. m \in Shown
    <3>1. query.referencedOnly => distance[m] = 0
      BY <1>3, <2>3
    <3> QED
      BY <1>1, <1>2, <2>4, <3>1
  <2>6. m \in Expanded
    BY <1>2, <2>3, <2>4
  <2> QED
    BY <2>2, <2>5, <2>6
<1> HIDE DEF targets
<1>7. /\ targets \subseteq Shown /\ query.seeds \subseteq Shown
      /\ query.referencedOnly => Shown \subseteq query.seeds \cup targets
  BY <1>1, <1>2, <1>4
<1> QED
  BY <1>5, <1>6, <1>7 DEF CappedStaysNear, targets

LEMMA TruncatedTold == NeighbourInv => WholeUnlessTruncated
<1> SUFFICES ASSUME NeighbourInv, Listed
             PROVE  WholeUnlessTruncated
  BY DEF WholeUnlessTruncated
<1> DEFINE targets == {Node(e[2]) : e \in UNION {EdgesShown(n) : n \in Expanded}}
           whole == /\ Shown = Within[query.depth]
                    /\ \A n \in Shown : Closer(n, query.depth) => n \in Expanded /\ EdgesShown(n) = EdgesFrom(n)
<1>1. /\ query.seeds = {n \in DOMAIN distance : distance[n] = 0} /\ Selected \subseteq DOMAIN distance
  BY NearestKept
<1>2. /\ Expanded = {n \in Selected : distance[n] < query.depth}
      /\ Shown = {n \in Selected : query.referencedOnly => n \in query.seeds \cup targets}
      /\ view.truncated <=> \/ Selected # DOMAIN distance
                            \/ \E n \in Expanded : EdgesShown(n) # EdgesFrom(n)
  BY AnswerShown
<1>3. /\ depth = query.depth /\ depth \in Nat
      /\ query.referencedOnly => query.depth = 1
      /\ \A n \in DOMAIN distance : distance[n] \in 0..depth
      /\ \A k \in 0..depth : Within[k] = {n \in DOMAIN distance : distance[n] <= k}
  BY NeighbourAssumption DEF NeighbourInv, Reached, Listed
<1>4. Within[query.depth] = DOMAIN distance
  <2>1. depth \in 0..depth /\ \A n \in DOMAIN distance : distance[n] <= depth
    BY <1>3
  <2>2. Within[depth] = {n \in DOMAIN distance : distance[n] <= depth}
    BY <1>3, <2>1
  <2> QED
    BY <1>3, <2>1, <2>2
<1>5. ASSUME NEW n \in DOMAIN distance
      PROVE  Closer(n, query.depth) <=> distance[n] < query.depth
  <2>1. distance[n] \in 0..depth
    BY <1>3
  <2>2. \A k \in 0..(query.depth - 1) : k \in 0..depth /\ (n \in Within[k] <=> distance[n] <= k)
    BY <1>3
  <2>3. distance[n] < query.depth => distance[n] \in 0..(query.depth - 1)
    BY <1>3, <2>1
  <2>4. \A k \in 0..(query.depth - 1) : distance[n] <= k => distance[n] < query.depth
    BY <1>3, <2>1
  <2> QED
    BY <2>1, <2>2, <2>3, <2>4 DEF Closer
<1>6. ASSUME ~view.truncated
      PROVE  whole
  <2>1. Selected = DOMAIN distance /\ \A n \in Expanded : EdgesShown(n) = EdgesFrom(n)
    BY <1>2, <1>6
  <2>2. ASSUME NEW n \in DOMAIN distance, query.referencedOnly, n \notin query.seeds
        PROVE  n \in targets
    <3>1. distance[n] # 0 /\ distance[n] \in 0..depth
      BY <1>1, <1>3, <2>2
    <3>2. PICK m \in DOMAIN distance :
              distance[m] = distance[n] - 1 /\ \E e \in EdgesFrom(m) : Node(e[2]) = n
      BY <3>1, ReachedFrom
    <3>3. m \in Expanded
      BY <1>2, <1>3, <2>1, <3>1, <3>2
    <3>4. PICK e \in EdgesShown(m) : Node(e[2]) = n
      BY <2>1, <3>2, <3>3
    <3> QED
      BY <3>3, <3>4
  <2> HIDE DEF targets
  <2>3. Shown = DOMAIN distance
    BY <1>2, <2>1, <2>2
  <2> QED
    BY <1>2, <1>4, <1>5, <2>1, <2>3
<1>7. ASSUME whole
      PROVE  ~view.truncated
  <2> HIDE DEF targets
  <2>1. Shown = DOMAIN distance /\ Selected = DOMAIN distance
    BY <1>1, <1>2, <1>4, <1>7
  <2>2. ASSUME NEW n \in Expanded
        PROVE  EdgesShown(n) = EdgesFrom(n)
    <3>1. n \in Shown /\ distance[n] < query.depth
      BY <1>2, <2>1
    <3>2. Closer(n, query.depth)
      BY <1>5, <2>1, <3>1
    <3> QED
      BY <1>7, <3>1, <3>2
  <2> QED
    BY <1>2, <2>1, <2>2
<1> QED
  BY <1>6, <1>7 DEF WholeUnlessTruncated

(* For any graph, seeds, depth and caps: an expansion returns what is near, each *)
(* dataset at its true distance and with one that it was reached from, and lists *)
(* no edge to a dataset that it omits; and it says that it is truncated exactly  *)
(* when the caps omitted something.                                              *)
THEOREM ExpansionHonest == Spec => []CappedAndWhole
<1>1. NeighbourInv => CappedAndWhole
  BY StaysNear, TruncatedTold DEF CappedAndWhole
<1> QED
  BY <1>1, InitNeighbourInv, NextNeighbourInv, PTL DEF Spec

-----------------------------------------------------------------------------
(* Search: texts                                                                *)

(* what normalization makes of a text are words *)
LEMMA NormalWords ==
    ASSUME NEW text \in Texts
    PROVE  Normal(text) \in Seq(Int)
<1>1. [i \in DOMAIN text |-> NormalForm[text[i]]] \in Seq(Seq(Int))
  <2>1. DOMAIN text = 1..Len(text) /\ Len(text) \in Nat /\ \A i \in DOMAIN text : text[i] \in DOMAIN NormalForm
    BY DEF Texts
  <2>2. \A i \in DOMAIN text : NormalForm[text[i]] \in Seq(Int)
    BY <2>1, SearchAssumption
  <2> QED
    BY <2>1, <2>2
<1> QED
  BY <1>1, Flattened DEF Normal

(* The terms of a text are finitely many, none without words. *)
LEMMA TermsOfText ==
    ASSUME NEW text \in Texts
    PROVE  /\ IsFiniteSet(Terms(text))
           /\ \A t \in Terms(text) : t \in Seq(Int) /\ t # <<>>
           /\ Terms(text) # {} <=> Normal(text) # <<>>
<1> DEFINE words == Normal(text)
           single == [w \in ToSet(words) |-> <<w>>]
<1>1. words \in Seq(Int) /\ ToSet(words) = {words[i] : i \in 1..Len(words)} /\ Len(words) \in Nat
  BY NormalWords DEF ToSet
<1>2. \A w \in ToSet(words) : w \in Int
  BY <1>1
<1> HIDE DEF words
<1>3. IsFiniteSet(ToSet(words))
  <2>1. IsFiniteSet(1..Len(words))
    BY <1>1, FS_Interval
  <2>2. IsFiniteSet({words[i] : i \in 1..Len(words)})
    BY <2>1, FiniteImage
  <2> QED
    BY <1>1, <2>2
<1>4. IsFiniteSet({single[w] : w \in ToSet(words)})
  BY <1>3, FiniteImage
<1>5. {single[w] : w \in ToSet(words)} = {<<w>> : w \in ToSet(words)}
  OBVIOUS
<1>6. IsFiniteSet({words} \cup {<<w>> : w \in ToSet(words)})
  <2>1. IsFiniteSet({words})
    BY FS_Singleton
  <2> QED
    BY <1>4, <1>5, <2>1, FS_Union
<1>7. Terms(text) = IF words = <<>> THEN {} ELSE {words} \cup {<<w>> : w \in ToSet(words)}
  BY DEF Terms, words
<1>8. IsFiniteSet(Terms(text))
  <2>1. IsFiniteSet({})
    BY FS_EmptySet
  <2> QED
    BY <1>6, <1>7, <2>1
<1>9. \A t \in Terms(text) : t \in Seq(Int) /\ t # <<>>
  <2> SUFFICES ASSUME NEW t \in Terms(text) PROVE t \in Seq(Int) /\ t # <<>>
    OBVIOUS
  <2>1. CASE t = words /\ words # <<>>
    BY <1>1, <2>1
  <2>2. ASSUME NEW w \in ToSet(words), t = <<w>>
        PROVE  t \in Seq(Int) /\ t # <<>>
    BY <1>2, <2>2
  <2> QED
    BY <1>7, <2>1, <2>2
<1>10. Terms(text) # {} <=> words # <<>>
  BY <1>7
<1> QED
  BY <1>8, <1>9, <1>10 DEF words

(* TextLess orders the texts. *)
LEMMA TextsOrdered ==
    /\ \A s \in Seq(Int) : ~TextLess(s, s)
    /\ \A s, t, u \in Seq(Int) : TextLess(s, t) /\ TextLess(t, u) => TextLess(s, u)
    /\ \A s, t \in Seq(Int) : s = t \/ TextLess(s, t) \/ TextLess(t, s)
<1> DEFINE R == {w \in Int \X Int : w[1] < w[2]}
<1>1. TotalOrder(R, Int)
  BY DEF TotalOrder, PartialOrder
<1>2. \A s, t \in Seq(Int) : TextLess(s, t) <=> Lexically(s, t, R)
  <2> SUFFICES ASSUME NEW s \in Seq(Int), NEW t \in Seq(Int) PROVE TextLess(s, t) <=> Lexically(s, t, R)
    OBVIOUS
  <2>1. \A i \in DOMAIN t : i \in DOMAIN s => (s[i] < t[i] <=> <<s[i], t[i]>> \in R)
    OBVIOUS
  <2> HIDE DEF R
  <2> QED
    BY <2>1 DEF TextLess, Lexically
<1> HIDE DEF R
<1> QED
  BY <1>1, <1>2, LexicallyOrdered

(* A word starts a term of a text exactly if it starts a word of it. *)
LEMMA WordStarts ==
    ASSUME NEW text \in Texts, NEW w
    PROVE  (\E t \in Terms(text) : StartsText(<<w>>, t))
               <=> \E i \in DOMAIN Normal(text) : StartsWord(w, Normal(text)[i])
<1> DEFINE words == Normal(text)
<1>1. words \in Seq(Int)
  BY NormalWords
<1>2. \A t \in Seq(Int) : t # <<>> => (StartsText(<<w>>, t) <=> StartsWord(w, t[1]))
  <2> TAKE t \in Seq(Int)
  <2> HAVE t # <<>>
  <2>1. Len(<<w>>) = 1 /\ <<w>>[1] = w /\ Len(t) >= 1
    OBVIOUS
  <2>2. SubSeq(<<w>>, 1, 1 - 1) = <<>> /\ SubSeq(t, 1, 1 - 1) = <<>>
    OBVIOUS
  <2> QED
    BY <2>1, <2>2 DEF StartsText
<1>3. Terms(text) = IF words = <<>> THEN {} ELSE {words} \cup {<<v>> : v \in ToSet(words)}
  BY DEF Terms
<1>4. \A i \in DOMAIN words : words[i] \in Int /\ <<words[i]>> \in Seq(Int) /\ <<words[i]>> # <<>>
  BY <1>1
<1> HIDE DEF words
<1>5. ASSUME NEW t \in Terms(text), StartsText(<<w>>, t)
      PROVE  \E i \in DOMAIN words : StartsWord(w, words[i])
  <2>1. CASE t = words
    <3>1. words # <<>>
      BY <1>3
    <3>2. 1 \in DOMAIN words
      BY <1>1, <3>1
    <3> QED
      BY <1>1, <1>2, <1>5, <2>1, <3>1, <3>2
  <2>2. CASE t # words
    <3>1. PICK i \in DOMAIN words : t = <<words[i]>>
      BY <1>3, <2>2 DEF ToSet
    <3> QED
      BY <1>2, <1>4, <1>5, <3>1
  <2> QED
    BY <2>1, <2>2
<1>6. ASSUME NEW i \in DOMAIN words, StartsWord(w, words[i])
      PROVE  \E t \in Terms(text) : StartsText(<<w>>, t)
  <2>1. words # <<>>
    OBVIOUS
  <2>2. <<words[i]>> \in Terms(text)
    BY <1>3, <2>1 DEF ToSet
  <2> QED
    BY <1>2, <1>4, <1>6, <2>2
<1> QED
  BY <1>5, <1>6 DEF words

-----------------------------------------------------------------------------
(* Search: subjects                                                             *)

(* a value of a subject; no placeholder among its descriptions has a term *)
ValueForms == {v \in [field : Int, text : Texts] :
              v.field >= Field.description /\ Terms(v.text) # {} => Normal(v.text) \notin Placeholders}
SubjectForms == {s \in [kind : Kinds, key : Int, label : Seq(Int), values : Seq(ValueForms)] :
                    \A n \in DOMAIN s.values : Terms(s.values[n].text) # {}}

(* the numbers of the fields *)
LEMMA FieldNumbers ==
    /\ Field.stable_id = 1 /\ Field.column = 2 /\ Field.canonical_name = 3 /\ Field.synonym = 4
    /\ Field.tag = 5 /\ Field.qualified_name = 6 /\ Field.accessor = 7 /\ Field.dataset_columns = 8
    /\ Field.expression = 9 /\ Field.metadata = 10 /\ Field.description = 11 /\ Field.value_description = 12
  BY DEF Field

(* A name is a value whatever it says. *)
LEMMA NamesAreValues ==
    ASSUME NEW text \in Texts
    PROVE  /\ Value("stable_id", text) \in ValueForms /\ Value("column", text) \in ValueForms
           /\ Value("canonical_name", text) \in ValueForms /\ Value("synonym", text) \in ValueForms
           /\ Value("tag", text) \in ValueForms /\ Value("qualified_name", text) \in ValueForms
           /\ Value("accessor", text) \in ValueForms /\ Value("dataset_columns", text) \in ValueForms
           /\ Value("expression", text) \in ValueForms /\ Value("metadata", text) \in ValueForms
<1>1. \A f \in 1..10 : [field |-> f, text |-> text] \in ValueForms
  BY FieldNumbers DEF ValueForms
<1> QED
  BY <1>1 DEF Value, Field

(* A placeholder is indexed as no text at all. *)
LEMMA DescriptionsAreValues ==
    ASSUME NEW text \in Texts
    PROVE  /\ Value("description", Descriptive(text)) \in ValueForms
           /\ Value("value_description", Descriptive(text)) \in ValueForms
<1>1. <<>> \in Texts
  BY DEF Texts
<1>2. Terms(<<>>) = {}
  <2>1. Normal(<<>>) = <<>>
    BY DEF Normal, FlattenSeq
  <2> QED
    BY <2>1 DEF Terms
<1>3. Descriptive(text) \in Texts
  BY <1>1 DEF Descriptive
<1>4. Terms(Descriptive(text)) # {} => Normal(Descriptive(text)) \notin Placeholders
  BY <1>2 DEF Descriptive
<1>5. \A f \in {11, 12} : [field |-> f, text |-> Descriptive(text)] \in ValueForms
  BY <1>3, <1>4 DEF ValueForms
<1> QED
  BY <1>5 DEF Value, Field

(* lists of names are values as well *)
LEMMA EachValues ==
    ASSUME NEW texts \in Seq(Texts)
    PROVE  /\ Each("synonym", texts) \in Seq(ValueForms) /\ Each("tag", texts) \in Seq(ValueForms)
           /\ Each("accessor", texts) \in Seq(ValueForms) /\ Each("dataset_columns", texts) \in Seq(ValueForms)
           /\ Each("expression", texts) \in Seq(ValueForms) /\ Each("metadata", texts) \in Seq(ValueForms)
<1>1. \A i \in 1..Len(texts) : texts[i] \in Texts
  OBVIOUS
<1>2. DOMAIN texts = 1..Len(texts) /\ Len(texts) \in Nat
  OBVIOUS
<1>3. ASSUME NEW name \in {"synonym", "tag", "accessor", "dataset_columns", "expression", "metadata"}
      PROVE  Each(name, texts) \in Seq(ValueForms)
  <2>1. \A i \in 1..Len(texts) : Value(name, texts[i]) \in ValueForms
    BY <1>1, <1>3, NamesAreValues
  <2>2. Each(name, texts) = [i \in 1..Len(texts) |-> Value(name, texts[i])]
    BY <1>2 DEF Each
  <2> HIDE DEF Each
  <2> QED
    BY <1>2, <2>1, <2>2
<1> QED
  BY <1>3

(* < orders a finite set of numbers. *)
LEMMA NumbersSorted ==
    ASSUME NEW S \in SUBSET Int, IsFiniteSet(S), NEW s,
           s = [n \in 1..Cardinality(S) |-> CHOOSE x \in S : Cardinality({y \in S : y < x}) = n - 1]
    PROVE  s \in Seq(S)
<1> DEFINE R == {p \in S \X S : p[1] < p[2]}
<1>1. \A x, y \in S : <<x, y>> \in R <=> x < y
  OBVIOUS
<1>2. TotalOrder(R, S)
  <2> HIDE DEF R
  <2> QED
    BY <1>1 DEF TotalOrder, PartialOrder
<1>3. \A x \in S : {y \in S : <<y, x>> \in R} = {y \in S : y < x}
  BY <1>1
<1> HIDE DEF R
<1>4. PutInOrder(s, S, R)
  <2>1. ASSUME NEW n \in 1..Cardinality(S), \E x \in S : Cardinality({y \in S : <<y, x>> \in R}) = n - 1
        PROVE  s[n] \in S /\ Cardinality({y \in S : <<y, s[n]>> \in R}) = n - 1
    <3>1. \E x \in S : Cardinality({y \in S : y < x}) = n - 1
      BY <1>3, <2>1
    <3>2. s[n] \in S /\ Cardinality({y \in S : y < s[n]}) = n - 1
      BY <3>1
    <3> QED
      BY <1>3, <3>2
  <2>2. s = [n \in 1..Cardinality(S) |-> s[n]]
    <3> DEFINE nth(n) == CHOOSE x \in S : Cardinality({y \in S : y < x}) = n - 1
    <3>1. s = [n \in 1..Cardinality(S) |-> nth(n)]
      OBVIOUS
    <3> HIDE DEF nth
    <3> QED
      BY <3>1
  <2> QED
    BY <2>1, <2>2 DEF PutInOrder
<1> QED
  BY <1>2, <1>4, Sorts

(* What add_subject makes. *)
LEMMA SubjectMade ==
    ASSUME NEW kind \in Kinds, NEW place \in Int, NEW label \in Texts, NEW values \in Seq(ValueForms)
    PROVE  Subject(kind, place, label, values) \in SubjectForms
<1> DEFINE S == {i \in DOMAIN values : Terms(values[i].text) # {}}
           kept == [n \in 1..Cardinality(S) |-> CHOOSE x \in S : Cardinality({y \in S : y < x}) = n - 1]
           shown == [n \in DOMAIN kept |-> values[kept[n]]]
<1>1. DOMAIN values = 1..Len(values) /\ Len(values) \in Nat /\ \A i \in 1..Len(values) : values[i] \in ValueForms
  OBVIOUS
<1>2. S \in SUBSET Int /\ IsFiniteSet(S)
  <2>1. S \in SUBSET (1..Len(values)) /\ IsFiniteSet(1..Len(values))
    BY <1>1, FS_Interval
  <2> QED
    BY <2>1, FS_Subset
<1>3. kept \in Seq(S)
  <2> HIDE DEF S
  <2> QED
    BY <1>2, NumbersSorted
<1>4. Subject(kind, place, label, values)
          = [kind |-> kind, key |-> place, label |-> Normal(label), values |-> shown]
  BY DEF Subject, InOrder
<1>5. \A i \in S : values[i] \in ValueForms /\ Terms(values[i].text) # {}
  BY <1>1
<1> HIDE DEF kept, S
<1>6. shown \in Seq(ValueForms) /\ \A n \in DOMAIN shown : Terms(shown[n].text) # {}
  <2>1. DOMAIN kept = 1..Len(kept) /\ Len(kept) \in Nat /\ \A n \in 1..Len(kept) : kept[n] \in S
    BY <1>3
  <2> QED
    BY <1>5, <2>1
<1>7. Normal(label) \in Seq(Int)
  BY NormalWords
<1> HIDE DEF shown
<1>8. [kind |-> kind, key |-> place, label |-> Normal(label), values |-> shown]
          \in [kind : Kinds, key : Int, label : Seq(Int), values : Seq(ValueForms)]
  BY <1>6, <1>7
<1> QED
  BY <1>4, <1>6, <1>8 DEF SubjectForms

(* What __init__ makes of an identity, a column, a definition and a dataset. *)
LEMMA EachSubject ==
    /\ \A o \in IdentityFacts : OfIdentity(o) \in SubjectForms
    /\ \A o \in ColumnFacts : OfColumn(o) \in SubjectForms
    /\ \A o \in EntityFacts : OfDefinition(o) \in SubjectForms
    /\ \A o \in DatasetFacts : OfDataset(o) \in SubjectForms
<1>1. ASSUME NEW o \in IdentityFacts
      PROVE  OfIdentity(o) \in SubjectForms
  <2>1. o.key \in Int /\ o.id \in Texts /\ o.name \in Texts /\ o.description \in Texts /\ o.synonyms \in Seq(Texts)
    BY DEF IdentityFacts
  <2>2. Value("stable_id", o.id) \in ValueForms /\ Value("canonical_name", o.name) \in ValueForms
    BY <2>1, NamesAreValues
  <2>3. Value("description", Descriptive(o.description)) \in ValueForms
    BY <2>1, DescriptionsAreValues
  <2>4. Each("synonym", o.synonyms) \in Seq(ValueForms)
    BY <2>1, EachValues
  <2>5. <<Value("stable_id", o.id), Value("canonical_name", o.name),
          Value("description", Descriptive(o.description))>> \o Each("synonym", o.synonyms) \in Seq(ValueForms)
    BY <2>2, <2>3, <2>4
  <2> QED
    BY <2>1, <2>5, SubjectMade DEF OfIdentity, Kinds
<1>2. ASSUME NEW o \in ColumnFacts
      PROVE  OfColumn(o) \in SubjectForms
  <2>1. /\ o.key \in Int /\ o.name \in Texts /\ o.description \in Texts /\ o.values \in Texts
        /\ o.synonyms \in Seq(Texts)
    BY DEF ColumnFacts
  <2>2. Value("column", o.name) \in ValueForms
    BY <2>1, NamesAreValues
  <2>3. /\ Value("description", Descriptive(o.description)) \in ValueForms
        /\ Value("value_description", Descriptive(o.values)) \in ValueForms
    BY <2>1, DescriptionsAreValues
  <2>4. Each("synonym", o.synonyms) \in Seq(ValueForms)
    BY <2>1, EachValues
  <2>5. <<Value("column", o.name), Value("description", Descriptive(o.description)),
          Value("value_description", Descriptive(o.values))>> \o Each("synonym", o.synonyms) \in Seq(ValueForms)
    BY <2>2, <2>3, <2>4
  <2> QED
    BY <2>1, <2>5, SubjectMade DEF OfColumn, Kinds
<1>3. ASSUME NEW o \in EntityFacts
      PROVE  OfDefinition(o) \in SubjectForms
  <2>1. /\ o.key \in Int /\ o.identity \in Texts /\ o.columns \in Seq(Texts)
        /\ o.expressions \in Seq(Texts) /\ o.metadata \in Seq(Texts)
    BY DEF EntityFacts
  <2>2. Value("stable_id", o.identity) \in ValueForms
    BY <2>1, NamesAreValues
  <2>3. /\ Each("dataset_columns", o.columns) \in Seq(ValueForms)
        /\ Each("expression", o.expressions) \in Seq(ValueForms)
        /\ Each("metadata", o.metadata) \in Seq(ValueForms)
    BY <2>1, EachValues
  <2>4. <<Value("stable_id", o.identity)>> \o Each("dataset_columns", o.columns)
            \o Each("expression", o.expressions) \o Each("metadata", o.metadata) \in Seq(ValueForms)
    BY <2>2, <2>3
  <2>5. (IF o.expressions = <<>> THEN o.identity ELSE o.expressions[1]) \in Texts
    BY <2>1
  <2> QED
    BY <2>1, <2>4, <2>5, SubjectMade DEF OfDefinition, Kinds
<1>4. ASSUME NEW o \in DatasetFacts
      PROVE  OfDataset(o) \in SubjectForms
  <2>1. /\ o.key \in Int /\ o.id \in Texts /\ o.name \in Texts /\ o.qualified \in Texts
        /\ o.description \in Texts /\ o.schema \in Texts /\ o.synonyms \in Seq(Texts)
        /\ o.tags \in Seq(Texts) /\ o.accessor \in Seq(Texts)
    BY DEF DatasetFacts
  <2>2. /\ Value("stable_id", o.id) \in ValueForms /\ Value("canonical_name", o.name) \in ValueForms
        /\ Value("qualified_name", o.qualified) \in ValueForms /\ Value("accessor", o.schema) \in ValueForms
    BY <2>1, NamesAreValues
  <2>3. Value("description", Descriptive(o.description)) \in ValueForms
    BY <2>1, DescriptionsAreValues
  <2>4. /\ Each("synonym", o.synonyms) \in Seq(ValueForms)
        /\ Each("tag", o.tags) \in Seq(ValueForms)
        /\ Each("accessor", o.accessor) \in Seq(ValueForms)
    BY <2>1, EachValues
  <2>5. <<Value("stable_id", o.id), Value("canonical_name", o.name), Value("qualified_name", o.qualified),
          Value("description", Descriptive(o.description)), Value("accessor", o.schema)>>
            \o Each("synonym", o.synonyms) \o Each("tag", o.tags) \o Each("accessor", o.accessor) \in Seq(ValueForms)
    BY <2>2, <2>3, <2>4
  <2> QED
    BY <2>1, <2>5, SubjectMade DEF OfDataset, Kinds
<1> QED
  BY <1>1, <1>2, <1>3, <1>4

(* Whatever is published, the index holds subjects. *)
LEMMA SubjectsMade ==
    ASSUME NEW catalog \in Catalogs
    PROVE  SubjectsOf(catalog) \in Seq(SubjectForms)
<1> DEFINE parts(o) == <<OfDataset(o)>> \o Map(OfDefinition, o.definitions) \o Map(OfColumn, o.columns)
<1>1. catalog.identities \in Seq(IdentityFacts) /\ catalog.datasets \in Seq(DatasetFacts)
  BY SearchAssumption
<1>2. Map(OfIdentity, catalog.identities) \in Seq(SubjectForms)
  BY <1>1, EachSubject DEF Map
<1>3. ASSUME NEW o \in DatasetFacts
      PROVE  parts(o) \in Seq(SubjectForms)
  <2>1. o.definitions \in Seq(EntityFacts) /\ o.columns \in Seq(ColumnFacts)
    BY DEF DatasetFacts
  <2>2. Map(OfDefinition, o.definitions) \in Seq(SubjectForms)
    BY <2>1, EachSubject DEF Map
  <2>3. Map(OfColumn, o.columns) \in Seq(SubjectForms)
    BY <2>1, EachSubject DEF Map
  <2>4. <<OfDataset(o)>> \in Seq(SubjectForms)
    BY EachSubject
  <2> QED
    BY <2>2, <2>3, <2>4
<1> DEFINE laid == [i \in DOMAIN catalog.datasets |-> parts(catalog.datasets[i])]
<1>4. Map(LAMBDA o : <<OfDataset(o)>> \o Map(OfDefinition, o.definitions)
                         \o Map(OfColumn, o.columns), catalog.datasets) = laid
  BY DEF Map
<1> HIDE DEF parts
<1>5. laid \in Seq(Seq(SubjectForms))
  <2>1. DOMAIN catalog.datasets = 1..Len(catalog.datasets) /\ Len(catalog.datasets) \in Nat
        /\ \A i \in DOMAIN catalog.datasets : catalog.datasets[i] \in DatasetFacts
    BY <1>1
  <2> QED
    BY <1>3, <2>1
<1> HIDE DEF laid
<1>6. FlattenSeq(laid) \in Seq(SubjectForms)
  BY <1>5, Flattened
<1>7. SubjectsOf(catalog) = Map(OfIdentity, catalog.identities) \o FlattenSeq(laid)
  BY <1>4 DEF SubjectsOf
<1> QED
  BY <1>2, <1>6, <1>7

-----------------------------------------------------------------------------
(* Search: the index                                                            *)

(* The values of an index are finitely many texts, each of a known field. *)
LEMMA ValuesIndexed ==
    ASSUME subjects \in Seq(SubjectForms)
    PROVE  /\ IsFiniteSet(IndexedValues)
           /\ \A v \in IndexedValues :
                  /\ v = <<v[1], v[2]>> /\ v[1] \in DOMAIN subjects /\ v[2] \in Nat
                  /\ TextOf(v) \in Texts /\ FieldOf(v) \in Int /\ KindOf(v) \in Kinds
                  /\ FieldOf(v) >= Field.description => Normal(TextOf(v)) \notin Placeholders
<1> DEFINE of(s) == {s} \X DOMAIN subjects[s].values
           f == [s \in DOMAIN subjects |-> of(s)]
<1>1. DOMAIN subjects = 1..Len(subjects) /\ Len(subjects) \in Nat
  OBVIOUS
<1>2. \A s \in DOMAIN subjects : subjects[s] \in SubjectForms
  OBVIOUS
<1>3. ASSUME NEW s \in DOMAIN subjects
      PROVE  /\ subjects[s].kind \in Kinds /\ subjects[s].values \in Seq(ValueForms)
             /\ \A n \in DOMAIN subjects[s].values : Terms(subjects[s].values[n].text) # {}
  <2>1. subjects[s] \in SubjectForms
    BY <1>2
  <2> QED
    BY <2>1 DEF SubjectForms
<1>4. \A s \in DOMAIN subjects : IsFiniteSet(of(s))
  <2> TAKE s \in DOMAIN subjects
  <2>1. DOMAIN subjects[s].values = 1..Len(subjects[s].values) /\ Len(subjects[s].values) \in Nat
    BY <1>3
  <2>2. IsFiniteSet(DOMAIN subjects[s].values)
    BY <2>1, FS_Interval
  <2> QED
    BY <2>2, FS_Singleton, FS_Product
<1>5. IsFiniteSet({f[s] : s \in DOMAIN subjects})
  <2>1. IsFiniteSet(DOMAIN subjects)
    BY <1>1, FS_Interval
  <2> HIDE DEF f
  <2> QED
    BY <2>1, FiniteImage
<1>6. IndexedValues = UNION {f[s] : s \in DOMAIN subjects}
  BY DEF IndexedValues
<1>7. IsFiniteSet(IndexedValues)
  <2>1. \A T \in {f[s] : s \in DOMAIN subjects} : IsFiniteSet(T)
    BY <1>4
  <2> HIDE DEF f
  <2> QED
    BY <1>5, <1>6, <2>1, FS_UNION
<1>8. ASSUME NEW v \in IndexedValues
      PROVE  /\ v = <<v[1], v[2]>> /\ v[1] \in DOMAIN subjects /\ v[2] \in Nat
             /\ TextOf(v) \in Texts /\ FieldOf(v) \in Int /\ KindOf(v) \in Kinds
             /\ FieldOf(v) >= Field.description => Normal(TextOf(v)) \notin Placeholders
  <2>1. PICK s \in DOMAIN subjects : v \in {s} \X DOMAIN subjects[s].values
    BY DEF IndexedValues
  <2>2. v = <<s, v[2]>> /\ v[1] = s /\ v[2] \in DOMAIN subjects[s].values
    BY <2>1
  <2>3. subjects[s].values \in Seq(ValueForms)
    BY <1>3
  <2>4. v[2] \in Nat /\ subjects[s].values[v[2]] \in ValueForms
    BY <2>2, <2>3
  <2>5. Terms(subjects[s].values[v[2]].text) # {}
    BY <1>3, <2>2
  <2> QED
    BY <1>3, <2>2, <2>4, <2>5 DEF TextOf, FieldOf, KindOf, ValueForms
<1> QED
  BY <1>7, <1>8

(* The trie holds every term of every value, and nothing else. *)
LEMMA EntriesHeld ==
    ASSUME subjects \in Seq(SubjectForms), entries = EntriesOf(IndexedValues)
    PROVE  /\ IsFiniteSet(entries)
           /\ \A e \in entries : /\ e.value \in IndexedValues /\ e.term \in Terms(TextOf(e.value))
                                 /\ e.term \in Seq(Int)
           /\ \A v \in IndexedValues : \A t \in Terms(TextOf(v)) : \E e \in entries : e.value = v /\ e.term = t
<1> DEFINE of(v) == {[term |-> t, value |-> v] : t \in Terms(TextOf(v))}
           f == [v \in IndexedValues |-> of(v)]
<1>1. ASSUME NEW v \in IndexedValues
      PROVE  IsFiniteSet(of(v))
  <2> DEFINE g == [t \in Terms(TextOf(v)) |-> [term |-> t, value |-> v]]
  <2>1. IsFiniteSet(Terms(TextOf(v)))
    BY ValuesIndexed, TermsOfText
  <2>2. of(v) = {g[t] : t \in Terms(TextOf(v))}
    OBVIOUS
  <2> HIDE DEF g
  <2>3. IsFiniteSet({g[t] : t \in Terms(TextOf(v))})
    BY <2>1, FiniteImage
  <2> QED
    BY <2>2, <2>3
<1>2. IsFiniteSet({f[v] : v \in IndexedValues})
  <2> HIDE DEF f
  <2> QED
    BY ValuesIndexed, FiniteImage
<1>3. entries = UNION {f[v] : v \in IndexedValues}
  BY DEF EntriesOf
<1>4. IsFiniteSet(entries)
  <2>1. \A T \in {f[v] : v \in IndexedValues} : IsFiniteSet(T)
    BY <1>1
  <2> HIDE DEF f
  <2> QED
    BY <1>2, <1>3, <2>1, FS_UNION
<1>5. ASSUME NEW e \in entries
      PROVE  e.value \in IndexedValues /\ e.term \in Terms(TextOf(e.value)) /\ e.term \in Seq(Int)
  <2>1. PICK v \in IndexedValues : e \in of(v)
    BY DEF EntriesOf
  <2>2. e.value = v /\ e.term \in Terms(TextOf(v))
    BY <2>1
  <2> QED
    BY <2>2, ValuesIndexed, TermsOfText
<1>6. ASSUME NEW v \in IndexedValues, NEW t \in Terms(TextOf(v))
      PROVE  \E e \in entries : e.value = v /\ e.term = t
  <2>1. [term |-> t, value |-> v] \in of(v)
    OBVIOUS
  <2>2. [term |-> t, value |-> v] \in entries
    BY <2>1 DEF EntriesOf
  <2> QED
    BY <2>2
<1> QED
  BY <1>4, <1>5, <1>6

-----------------------------------------------------------------------------
(* Search: the best match of a value                                            *)

MatchForms == [value : IndexedValues, rank : Nat, term : Seq(Int)]

(* consider keeps a match of each value that has one, and none of a lower rank. *)
LEMMA Considered ==
    ASSUME NEW matches \in SUBSET MatchForms, IsFiniteSet(matches), IsFiniteSet(DOMAIN best),
           \A v \in DOMAIN best : best[v] \in MatchForms /\ best[v].value = v
    PROVE  LET kept == Consider(matches) IN
           /\ DOMAIN kept = {m.value : m \in matches} \cup DOMAIN best
           /\ \A v \in DOMAIN kept :
                  /\ kept[v] \in MatchForms /\ kept[v].value = v
                  /\ kept[v] \in matches \/ (v \in DOMAIN best /\ kept[v] = best[v])
                  /\ v \in DOMAIN best => kept[v].rank <= best[v].rank
                  /\ \A m \in matches : m.value = v => kept[v].rank <= m.rank
<1> DEFINE old == {best[v] : v \in DOMAIN best}
           all == matches \cup old
           of(v) == {m \in all : m.value = v}
           R == {p \in all \X all : Better(p[1], p[2])}
           kept == [v \in {m.value : m \in all} |->
                       CHOOSE m \in all : m.value = v /\ \A n \in all : n.value = v => ~Better(n, m)]
<1>1. Consider(matches) = kept
  BY DEF Consider
<1>2. IsFiniteSet(all)
  <2>1. IsFiniteSet(old)
    BY FiniteImage
  <2> QED
    BY <2>1, FS_Union
<1>3. \A m \in all : m \in MatchForms /\ m.rank \in Nat /\ m.term \in Seq(Int)
  <2>1. \A m \in all : m \in MatchForms
    OBVIOUS
  <2> QED
    BY <2>1 DEF MatchForms
<1>4. \A m, n \in all : <<m, n>> \in R <=> Better(m, n)
  OBVIOUS
<1> HIDE DEF R
<1>5. PartialOrder(R, all)
  <2>1. ASSUME NEW m \in all
        PROVE  <<m, m>> \notin R
    BY <1>3, <1>4, TextsOrdered DEF Better
  <2>2. ASSUME NEW m \in all, NEW n \in all, NEW o \in all, <<m, n>> \in R, <<n, o>> \in R
        PROVE  <<m, o>> \in R
    <3>1. m.rank \in Nat /\ n.rank \in Nat /\ o.rank \in Nat /\ m.term \in Seq(Int)
          /\ n.term \in Seq(Int) /\ o.term \in Seq(Int)
      BY <1>3
    <3>2. Better(m, n) /\ Better(n, o)
      BY <1>4, <2>2
    <3>3. TextLess(m.term, n.term) /\ TextLess(n.term, o.term) => TextLess(m.term, o.term)
      BY <3>1, TextsOrdered
    <3>4. Better(m, o)
      BY <3>1, <3>2, <3>3 DEF Better
    <3> QED
      BY <1>4, <3>4
  <2> QED
    BY <2>1, <2>2 DEF PartialOrder
<1>6. DOMAIN kept = {m.value : m \in matches} \cup DOMAIN best
  <2>1. \A v \in DOMAIN best : best[v] \in all /\ best[v].value = v
    OBVIOUS
  <2>2. \A m \in all : m \in matches \/ \E v \in DOMAIN best : m.value = v
    OBVIOUS
  <2>3. matches \subseteq all
    OBVIOUS
  <2>4. DOMAIN kept = {m.value : m \in all}
    OBVIOUS
  <2> HIDE DEF all, kept
  <2> QED
    BY <2>1, <2>2, <2>3, <2>4
<1>7. ASSUME NEW v \in DOMAIN kept
      PROVE  kept[v] \in all /\ kept[v].value = v /\ \A n \in all : n.value = v => ~Better(n, kept[v])
  <2>1. of(v) # {} /\ of(v) \in SUBSET all
    OBVIOUS
  <2> HIDE DEF all
  <2>2. IsFiniteSet(of(v)) /\ PartialOrder(R, of(v))
    <3>1. IsFiniteSet(of(v))
      BY <1>2, <2>1, FS_Subset
    <3>2. \A m \in of(v) : m \in all
      BY <2>1
    <3> HIDE DEF of
    <3>3. PartialOrder(R, of(v))
      BY <1>5, <3>2 DEF PartialOrder
    <3> QED
      BY <3>1, <3>3
  <2>3. PICK m \in of(v) : \A n \in of(v) : <<n, m>> \notin R
    <3> HIDE DEF of
    <3> QED
      BY <2>1, <2>2, HasFirst
  <2>4. m \in all /\ m.value = v /\ \A n \in all : n.value = v => ~Better(n, m)
    BY <1>4, <2>3
  <2>5. kept[v] = CHOOSE m_1 \in all : m_1.value = v /\ \A n \in all : n.value = v => ~Better(n, m_1)
    OBVIOUS
  <2> HIDE DEF kept
  <2> QED
    BY <2>4, <2>5
<1> HIDE DEF kept
<1>8. ASSUME NEW v \in DOMAIN kept, NEW n \in all, n.value = v
      PROVE  kept[v].rank <= n.rank
  <2>1. kept[v] \in all /\ ~Better(n, kept[v])
    BY <1>7, <1>8
  <2>2. kept[v].rank \in Nat /\ n.rank \in Nat
    BY <1>3, <2>1
  <2> QED
    BY <2>1, <2>2 DEF Better
<1>9. ASSUME NEW v \in DOMAIN kept
      PROVE  /\ kept[v] \in MatchForms /\ kept[v].value = v
             /\ kept[v] \in matches \/ (v \in DOMAIN best /\ kept[v] = best[v])
             /\ v \in DOMAIN best => kept[v].rank <= best[v].rank
             /\ \A m \in matches : m.value = v => kept[v].rank <= m.rank
  <2>1. kept[v] \in all /\ kept[v].value = v
    BY <1>7
  <2>2. kept[v] \in matches \/ (v \in DOMAIN best /\ kept[v] = best[v])
    BY <2>1
  <2>3. v \in DOMAIN best => best[v] \in all /\ best[v].value = v
    OBVIOUS
  <2>4. matches \subseteq all
    OBVIOUS
  <2> HIDE DEF all
  <2> QED
    BY <1>3, <1>8, <2>1, <2>2, <2>3, <2>4
<1> QED
  BY <1>1, <1>6, <1>9

-----------------------------------------------------------------------------
(* Search: what a value can be matched by                                       *)

WellAsked == sought \in [query : Texts, kinds : SUBSET Kinds, limit : Nat \ {0}]

(* when a value matches exactly, by prefix, as a phrase and by all words *)
LEMMA RanksMeant ==
    /\ Exact = 0 /\ Prefix = 1 /\ Phrase = 2 /\ AllWords = 3
    /\ \A v : /\ Ranks(v) \subseteq {0, 1, 2, 3}
              /\ 0 \in Ranks(v) <=> Query \in Terms(TextOf(v))
              /\ 1 \in Ranks(v) <=> \E t \in Terms(TextOf(v)) : StartsText(Query, t)
              /\ 2 \in Ranks(v) <=> Len(Query) > 1 /\ WordMatched(v) /\ \E f \in Places(v) : InARow(f)
              /\ 3 \in Ranks(v) <=> Len(Query) > 1 /\ WordMatched(v) /\ Places(v) # {}
<1>1. Exact = 0 /\ Prefix = 1 /\ Phrase = 2 /\ AllWords = 3
  BY DEF Exact, Prefix, Phrase, AllWords
<1>2. \A n : n \in 0..3 <=> n \in {0, 1, 2, 3}
  OBVIOUS
<1> QED
  BY <1>1, <1>2 DEF Ranks

(* a query is a list of words *)
LEMMA QueryWords ==
    ASSUME WellAsked
    PROVE  /\ Query \in Seq(Int) /\ Len(Query) \in Nat /\ DOMAIN Query = 1..Len(Query)
           /\ Query # <<>> => Len(Query) >= 1
<1>1. Query \in Seq(Int)
  BY NormalWords DEF WellAsked, Query
<1> QED
  BY <1>1

(* _word_match of a value that holds every query word: a phrase if it has one. *)
LEMMA WordsMatched ==
    ASSUME subjects \in Seq(SubjectForms), WellAsked, Len(Query) > 1,
           NEW v \in IndexedValues, WordMatched(v), Places(v) # {}
    PROVE  /\ WordMatch(v) \in MatchForms /\ WordMatch(v).value = v
           /\ WordMatch(v).rank \in Ranks(v) \cap {2, 3}
           /\ \A r \in Ranks(v) \cap {2, 3} : WordMatch(v).rank <= r
<1> DEFINE words == Normal(TextOf(v))
           n == Len(Query)
           starting(q) == {i \in DOMAIN words : StartsWord(Query[q], words[i])}
           phrases == {i \in 0..(Len(words) - n) : \A q \in DOMAIN Query : i + q \in starting(q)}
           window == SubSeq(words, Least(phrases) + 1, Least(phrases) + n)
           firsts == [q \in DOMAIN Query |-> words[Least(starting(q))]]
<1>1. words \in Seq(Int) /\ Len(words) \in Nat /\ DOMAIN words = 1..Len(words)
  <2>1. words \in Seq(Int)
    BY ValuesIndexed, NormalWords
  <2> HIDE DEF words
  <2> QED
    BY <2>1
<1>2. n \in Nat /\ n > 1 /\ DOMAIN Query = 1..n
  BY QueryWords
<1>3. WordMatch(v) = IF phrases # {} THEN [value |-> v, rank |-> 2, term |-> window]
                                     ELSE [value |-> v, rank |-> 3, term |-> firsts]
  BY DEF WordMatch, Match, Phrase, AllWords
<1>4. Places(v) = {f \in [1..n -> DOMAIN words] : \A q \in 1..n : f[q] \in starting(q)}
  BY <1>2 DEF Places
<1> HIDE DEF words, n
<1>5. ASSUME phrases # {}
      PROVE  window \in Seq(Int) /\ \E f \in Places(v) : InARow(f)
  <2>1. phrases \in SUBSET Nat
    BY <1>1, <1>2
  <2>2. Least(phrases) \in phrases
    <3> HIDE DEF phrases
    <3> QED
      BY <1>5, <2>1, LeastIn
  <2> DEFINE i == Least(phrases)
             f == [q \in 1..n |-> i + q]
  <2>3. i \in Nat /\ i + n <= Len(words) /\ \A q \in 1..n : i + q \in starting(q)
    <3>1. \A j \in phrases : j \in Nat /\ j + n <= Len(words) /\ \A q \in 1..n : j + q \in starting(q)
      <4> SUFFICES ASSUME NEW j \in phrases
                   PROVE  j \in Nat /\ j + n <= Len(words) /\ \A q \in 1..n : j + q \in starting(q)
        OBVIOUS
      <4>1. j \in 0..(Len(words) - n) /\ \A q \in 1..n : j + q \in starting(q)
        BY <1>2
      <4> HIDE DEF phrases, starting
      <4> QED
        BY <1>1, <1>2, <4>1
    <3> HIDE DEF phrases
    <3> QED
      BY <2>2, <3>1
  <2> HIDE DEF i
  <2>4. f \in Places(v) /\ InARow(f)
    <3>1. \A q \in 1..n : f[q] \in DOMAIN words /\ f[q] \in starting(q)
      BY <2>3
    <3>2. f \in Places(v)
      BY <1>4, <3>1
    <3>3. 1 \in 1..n
      BY <1>2
    <3>4. InARow(f)
      BY <1>2, <2>3, <3>3 DEF InARow
    <3> QED
      BY <3>2, <3>4
  <2>5. SubSeq(words, i + 1, i + n) \in Seq(Int)
    BY <1>1, <1>2, <2>3
  <2> QED
    BY <2>4, <2>5 DEF i
<1>6. ASSUME NEW f \in Places(v), InARow(f)
      PROVE  phrases # {}
  <2>1. /\ f \in [1..n -> 1..Len(words)] /\ \A q \in 1..n : f[q] \in starting(q)
        /\ \A q \in 1..n : f[q] = f[1] + q - 1
    BY <1>1, <1>4, <1>6 DEF InARow
  <2>2. 1 \in 1..n /\ n \in 1..n
    BY <1>2
  <2>3. f[1] \in 1..Len(words) /\ f[n] \in 1..Len(words) /\ f[n] = f[1] + n - 1
    BY <2>1, <2>2
  <2>4. f[1] - 1 \in 0..(Len(words) - n)
    BY <1>1, <1>2, <2>3
  <2>5. \A q \in 1..n : (f[1] - 1) + q = f[q]
    BY <1>2, <2>1, <2>3
  <2>6. \A q \in DOMAIN Query : (f[1] - 1) + q \in starting(q)
    BY <1>2, <2>1, <2>5
  <2> QED
    BY <2>4, <2>6
<1>7. firsts \in Seq(Int)
  <2>1. ASSUME NEW q \in 1..n
        PROVE  words[Least(starting(q))] \in Int
    <3>1. starting(q) \in SUBSET Nat
      BY <1>1
    <3>2. starting(q) # {}
      BY <1>4
    <3>3. Least(starting(q)) \in starting(q)
      <4> HIDE DEF starting
      <4> QED
        BY <3>1, <3>2, LeastIn
    <3> QED
      BY <1>1, <3>3
  <2>2. firsts = [q \in 1..n |-> words[Least(starting(q))]]
    BY <1>2
  <2> HIDE DEF starting, firsts
  <2> QED
    BY <1>2, <2>1, <2>2
<1> HIDE DEF phrases, window, firsts
<1>8. 3 \in Ranks(v) /\ (2 \in Ranks(v) <=> phrases # {})
  <2>1. 2 \in Ranks(v) <=> \E f \in Places(v) : InARow(f)
    BY RanksMeant
  <2> QED
    BY <1>5, <1>6, <2>1, RanksMeant
<1>9. CASE phrases # {}
  BY <1>3, <1>5, <1>8, <1>9 DEF MatchForms
<1>10. CASE phrases = {}
  BY <1>3, <1>7, <1>8, <1>10 DEF MatchForms
<1> QED
  BY <1>9, <1>10

-----------------------------------------------------------------------------
(* Search: what a search knows after each lookup                                *)

(* the match types that were looked for *)
Tried == IF lookup = "prefix" THEN {0}
         ELSE IF lookup = "words" THEN {0, 1}
         ELSE IF lookup \in {"ranking", "answered"} THEN {0, 1, 2, 3} ELSE {}

(* the best match of every value with a match of these types *)
BestKept(ranks) ==
    /\ DOMAIN best = {v \in Searched : Ranks(v) \cap ranks # {}}
    /\ \A v \in DOMAIN best :
           /\ best[v] \in MatchForms /\ best[v].value = v
           /\ best[v].rank \in Ranks(v) \cap ranks
           /\ \A r \in Ranks(v) \cap ranks : best[v].rank <= r

Holds(v, word) == \E i \in DOMAIN Normal(TextOf(v)) : StartsWord(word, Normal(TextOf(v))[i])

(* common keeps who holds every word, and no one who lacks a word looked up *)
CommonKept ==
    /\ Len(Query) > 1 /\ unmet \subseteq ToSet(Query)
    /\ common \subseteq Searched
    /\ \A v \in common : \A word \in ToSet(Query) \ unmet : WordMatched(v) /\ Holds(v, word)
    /\ \A v \in Searched : WordMatched(v) /\ Places(v) # {} => v \in common

AnswerGiven ==
    groups = IF Query = <<>> THEN [k \in sought.kinds |-> [subjects |-> <<>>, rows |-> <<>>, truncated |-> FALSE]]
             ELSE [k \in sought.kinds |-> KindGroup(k)]

SearchInv ==
    /\ subjects \in Seq(SubjectForms) /\ entries = EntriesOf(IndexedValues) /\ WellAsked
    /\ lookup \in {"idle", "exact", "prefix", "words", "ranking", "answered"}
    /\ lookup \in {"prefix", "words", "ranking"} => Query # <<>>
    /\ Query # <<>> => BestKept(Tried)
    /\ lookup = "words" => CommonKept
    /\ lookup = "answered" => AnswerGiven

(* a search starts with an index of the catalog and no match *)
LEMMA InitSearchInv == Init => SearchInv
<1> SUFFICES ASSUME Init PROVE SearchInv
  OBVIOUS
<1>1. subjects \in Seq(SubjectForms) /\ entries = EntriesOf(IndexedValues) /\ WellAsked
      /\ lookup \in {"idle", "exact"} /\ best = <<>>
  <2>1. CASE SearchIdle
    <3>1. <<>> \in Texts /\ Kinds \in SUBSET Kinds /\ 1 \in Nat \ {0}
      BY DEF Texts
    <3>2. NoSearch \in [query : Texts, kinds : SUBSET Kinds, limit : Nat \ {0}]
      BY <3>1 DEF NoSearch
    <3> QED
      BY <2>1, <3>2 DEF SearchIdle, SearchFresh, WellAsked
  <2>2. CASE SearchInit
    <3>1. PICK catalog \in Catalogs : subjects = SubjectsOf(catalog)
      BY <2>2 DEF SearchInit
    <3>2. PICK r \in SearchRequests : SearchFresh("exact", r)
      BY <2>2 DEF SearchInit
    <3>3. r \in [query : Texts, kinds : SUBSET Kinds, limit : Nat \ {0}]
      BY SearchAssumption
    <3> QED
      BY <3>1, <3>2, <3>3, SubjectsMade DEF SearchFresh, WellAsked
  <2> QED
    BY <2>1, <2>2 DEF Init
<1>2. Tried = {}
  BY <1>1 DEF Tried
<1>3. BestKept(Tried)
  <2>1. DOMAIN best = {}
    BY <1>1
  <2> QED
    BY <1>2, <2>1 DEF BestKept
<1> QED
  BY <1>1, <1>3 DEF SearchInv

(* Nothing that a lookup does changes what it looks for, and where. *)
LEMMA SearchFrame ==
    ASSUME subjects' = subjects, sought' = sought
    PROVE  /\ IndexedValues' = IndexedValues /\ Query' = Query /\ Searched' = Searched
           /\ WellAsked' = WellAsked /\ MatchForms' = MatchForms
           /\ \A v : /\ Ranks(v)' = Ranks(v) /\ Places(v)' = Places(v) /\ WordMatched(v)' = WordMatched(v)
                     /\ TextOf(v)' = TextOf(v) /\ KindOf(v)' = KindOf(v) /\ FieldOf(v)' = FieldOf(v)
                     /\ \A word : Holds(v, word)' = Holds(v, word)
<1>1. IndexedValues' = IndexedValues
  BY DEF IndexedValues
<1>2. Query' = Query
  BY DEF Query
<1>3. \A v : TextOf(v)' = TextOf(v) /\ KindOf(v)' = KindOf(v) /\ FieldOf(v)' = FieldOf(v)
  BY DEF TextOf, KindOf, FieldOf
<1>4. Searched' = Searched
  BY <1>1, <1>3 DEF Searched
<1>5. WellAsked' = WellAsked /\ MatchForms' = MatchForms
  BY <1>1 DEF WellAsked, MatchForms
<1>6. \A v : Places(v)' = Places(v) /\ WordMatched(v)' = WordMatched(v)
  BY <1>2, <1>3 DEF Places, WordMatched
<1>7. \A v : Ranks(v)' = Ranks(v)
  BY <1>2, <1>3, <1>6 DEF Ranks
<1>8. \A v, word : Holds(v, word)' = Holds(v, word)
  BY <1>3 DEF Holds
<1> QED
  BY <1>1, <1>2, <1>3, <1>4, <1>5, <1>6, <1>7, <1>8

(* A lookup that considers a match of every value with a match of the types it     *)
(* adds, unless a lower type is known, keeps the best.                             *)
LEMMA RanksAdded ==
    ASSUME SearchInv, subjects' = subjects, sought' = sought,
           NEW ranks \in SUBSET {0, 1, 2, 3}, NEW more \in SUBSET {0, 1, 2, 3}, ranks \subseteq more, BestKept(ranks),
           NEW matches, IsFiniteSet(matches), best' = Consider(matches),
           \A m \in matches : m \in MatchForms /\ m.value \in Searched /\ m.rank \in Ranks(m.value) \cap more,
           \A v \in Searched : \A r \in (Ranks(v) \cap more) \ ranks :
               \/ \E m \in matches : m.value = v /\ m.rank <= r
               \/ \E known \in Ranks(v) \cap ranks : known <= r
    PROVE  BestKept(more)'
<1>0. (\A r \in ranks : r \in Int) /\ (\A r \in more : r \in Int) /\ \A m \in matches : m.rank \in Int
  <2>1. (\A r \in ranks : r \in Int) /\ (\A r \in more : r \in Int)
    OBVIOUS
  <2> QED
    BY <2>1
<1>1. Searched' = Searched /\ MatchForms' = MatchForms /\ \A v : Ranks(v)' = Ranks(v)
  BY SearchFrame
<1>2. IsFiniteSet(DOMAIN best)
  <2>1. DOMAIN best \in SUBSET IndexedValues
    BY DEF BestKept, Searched
  <2> QED
    BY <2>1, ValuesIndexed, FS_Subset DEF SearchInv
<1>3. \A v \in DOMAIN best : best[v] \in MatchForms /\ best[v].value = v
  BY DEF BestKept
<1>4. matches \in SUBSET MatchForms
  OBVIOUS
<1> DEFINE now == Consider(matches)
<1>5. /\ DOMAIN now = {m.value : m \in matches} \cup DOMAIN best
      /\ \A v \in DOMAIN now :
             /\ now[v] \in MatchForms /\ now[v].value = v
             /\ now[v] \in matches \/ (v \in DOMAIN best /\ now[v] = best[v])
             /\ v \in DOMAIN best => now[v].rank <= best[v].rank
             /\ \A m \in matches : m.value = v => now[v].rank <= m.rank
  BY <1>2, <1>3, <1>4, Considered
<1> HIDE DEF now
<1> USE <1>0
<1>6. ASSUME NEW v \in DOMAIN now
      PROVE  v \in Searched /\ now[v].rank \in Ranks(v) \cap more
  <2>1. CASE now[v] \in matches
    BY <1>5, <2>1
  <2>2. CASE v \in DOMAIN best /\ now[v] = best[v]
    BY <2>2 DEF BestKept
  <2> QED
    BY <1>5, <2>1, <2>2
<1>7. ASSUME NEW v \in Searched, NEW r \in Ranks(v) \cap more
      PROVE  v \in DOMAIN now /\ now[v].rank <= r
  <2>1. r \in Int /\ (v \in DOMAIN now => now[v].rank \in Int)
    <3>1. r \in more
      OBVIOUS
    <3> QED
      BY <1>6, <3>1
  <2>2. ASSUME NEW known \in Ranks(v) \cap ranks, known <= r
        PROVE  v \in DOMAIN now /\ now[v].rank <= r
    <3>1. v \in DOMAIN best
      BY DEF BestKept
    <3>2. best[v].rank <= known /\ best[v].rank \in Int
      BY <3>1 DEF BestKept
    <3>3. v \in DOMAIN now /\ now[v].rank <= best[v].rank
      BY <1>5, <3>1
    <3> QED
      BY <2>1, <2>2, <3>2, <3>3
  <2>3. ASSUME NEW m \in matches, m.value = v, m.rank <= r
        PROVE  v \in DOMAIN now /\ now[v].rank <= r
    <3>1. v \in DOMAIN now /\ now[v].rank <= m.rank
      BY <1>5, <2>3
    <3>2. m.rank \in Int
      OBVIOUS
    <3> QED
      BY <2>1, <2>3, <3>1, <3>2
  <2>4. CASE r \in ranks
    <3>1. r <= r
      BY <2>1
    <3> QED
      BY <2>2, <2>4, <3>1
  <2>5. CASE r \notin ranks
    BY <2>2, <2>3, <2>5
  <2> QED
    BY <2>4, <2>5
<1>8. best' = now
  BY DEF now
<1>9. DOMAIN now = {v \in Searched : Ranks(v) \cap more # {}}
  BY <1>6, <1>7
<1> QED
  BY <1>1, <1>5, <1>6, <1>7, <1>8, <1>9 DEF BestKept

(* the exact lookup keeps every exact match *)
LEMMA ExactFound ==
    ASSUME SearchInv, LookUpExact
    PROVE  BestKept({0})'
<1> DEFINE met == {e \in entries : e.term = Query /\ e.value \in Searched}
           f == [e \in met |-> Match(e.value, Exact, Query)]
           matches == {f[e] : e \in met}
<1>1. Query # <<>> /\ Query \in Seq(Int) /\ lookup = "exact" /\ subjects' = subjects /\ sought' = sought
  BY QueryWords DEF LookUpExact, SearchInv
<1>2. best' = Consider(matches)
  BY DEF LookUpExact
<1>3. BestKept({})
  BY <1>1 DEF SearchInv, Tried
<1>4. IsFiniteSet(matches)
  <2>1. IsFiniteSet(met)
    <3>1. met \in SUBSET entries
      OBVIOUS
    <3> HIDE DEF met
    <3> QED
      BY <3>1, EntriesHeld, FS_Subset DEF SearchInv
  <2> HIDE DEF met, f
  <2> QED
    BY <2>1, FiniteImage
<1>5. ASSUME NEW e \in met
      PROVE  f[e] \in MatchForms /\ f[e].value = e.value /\ f[e].rank = 0
             /\ e.value \in Searched /\ 0 \in Ranks(e.value)
  <2>1. e.value \in IndexedValues /\ e.term \in Terms(TextOf(e.value)) /\ e.term = Query /\ e.value \in Searched
    BY EntriesHeld DEF SearchInv
  <2>2. f[e] = [value |-> e.value, rank |-> 0, term |-> Query]
    BY DEF Match, Exact
  <2> QED
    BY <1>1, <2>1, <2>2, RanksMeant DEF MatchForms
<1>6. ASSUME NEW v \in Searched, NEW r \in Ranks(v) \cap {0}
      PROVE  \E m \in matches : m.value = v /\ m.rank <= r
  <2>1. Query \in Terms(TextOf(v)) /\ v \in IndexedValues
    BY RanksMeant DEF Searched
  <2>2. PICK e \in entries : e.value = v /\ e.term = Query
    BY <2>1, EntriesHeld DEF SearchInv
  <2>3. e \in met
    BY <2>2
  <2>4. f[e] \in matches /\ f[e].value = v /\ f[e].rank <= r
    BY <1>5, <2>2, <2>3
  <2> QED
    BY <2>4
<1>7. \A m \in matches : m \in MatchForms /\ m.value \in Searched /\ m.rank \in Ranks(m.value) \cap {0}
  BY <1>5
<1> HIDE DEF matches
<1> QED
  BY <1>1, <1>2, <1>3, <1>4, <1>6, <1>7, RanksAdded

(* The prefix lookup adds every prefix match that is not exact. *)
LEMMA PrefixesFound ==
    ASSUME SearchInv, LookUpPrefix
    PROVE  BestKept({0, 1})'
<1> DEFINE met == {e \in entries : StartsText(Query, e.term) /\ e.term # Query /\ e.value \in Searched}
           f == [e \in met |-> Match(e.value, Prefix, e.term)]
           matches == {f[e] : e \in met}
<1>1. Query # <<>> /\ Query \in Seq(Int) /\ lookup = "prefix" /\ subjects' = subjects /\ sought' = sought
  BY QueryWords DEF LookUpPrefix, SearchInv
<1>2. best' = Consider(matches)
  BY DEF LookUpPrefix
<1>3. BestKept({0})
  BY <1>1 DEF SearchInv, Tried
<1>4. IsFiniteSet(matches)
  <2>1. IsFiniteSet(met)
    <3>1. met \in SUBSET entries
      OBVIOUS
    <3> HIDE DEF met
    <3> QED
      BY <3>1, EntriesHeld, FS_Subset DEF SearchInv
  <2> HIDE DEF met, f
  <2> QED
    BY <2>1, FiniteImage
<1>5. ASSUME NEW e \in met
      PROVE  f[e] \in MatchForms /\ f[e].value = e.value /\ f[e].rank = 1
             /\ e.value \in Searched /\ 1 \in Ranks(e.value)
  <2>1. /\ e.value \in IndexedValues /\ e.term \in Terms(TextOf(e.value)) /\ e.term \in Seq(Int)
        /\ StartsText(Query, e.term) /\ e.value \in Searched
    BY EntriesHeld DEF SearchInv
  <2>2. f[e] = [value |-> e.value, rank |-> 1, term |-> e.term]
    BY DEF Match, Prefix
  <2> QED
    BY <2>1, <2>2, RanksMeant DEF MatchForms
<1>6. ASSUME NEW v \in Searched, NEW r \in (Ranks(v) \cap {0, 1}) \ {0}
      PROVE  \/ \E m \in matches : m.value = v /\ m.rank <= r
             \/ \E known \in Ranks(v) \cap {0} : known <= r
  <2>1. v \in IndexedValues /\ r = 1
    BY DEF Searched
  <2>2. PICK t \in Terms(TextOf(v)) : StartsText(Query, t)
    BY <2>1, RanksMeant
  <2>3. CASE t = Query
    <3>1. 0 \in Ranks(v)
      BY <2>2, <2>3, RanksMeant
    <3> QED
      BY <2>1, <3>1
  <2>4. CASE t # Query
    <3>1. PICK e \in entries : e.value = v /\ e.term = t
      BY <2>1, EntriesHeld DEF SearchInv
    <3>2. e \in met
      BY <2>2, <2>4, <3>1
    <3>3. f[e] \in matches /\ f[e].value = v /\ f[e].rank <= r
      BY <1>5, <2>1, <3>1, <3>2
    <3> QED
      BY <3>3
  <2> QED
    BY <2>3, <2>4
<1>7. \A m \in matches : m \in MatchForms /\ m.value \in Searched /\ m.rank \in Ranks(m.value) \cap {0, 1}
  BY <1>5
<1> HIDE DEF matches
<1> QED
  BY <1>1, <1>2, <1>3, <1>4, <1>6, <1>7, RanksAdded

(* Once every word was looked up, common holds who has a place for each of them. *)
LEMMA CommonHolds ==
    ASSUME SearchInv, lookup = "words", unmet = {}
    PROVE  common = {v \in Searched : WordMatched(v) /\ Places(v) # {}}
<1>1. CommonKept /\ DOMAIN Query = 1..Len(Query) /\ Len(Query) > 1 /\ Len(Query) \in Nat
  BY QueryWords DEF SearchInv, CommonKept
<1>2. ToSet(Query) # {} /\ \A q \in DOMAIN Query : Query[q] \in ToSet(Query)
  <2>1. 1 \in DOMAIN Query
    BY <1>1
  <2> QED
    BY <2>1 DEF ToSet
<1>3. ASSUME NEW v \in common
      PROVE  v \in Searched /\ WordMatched(v) /\ Places(v) # {}
  <2>1. \A q \in DOMAIN Query : \E i \in DOMAIN Normal(TextOf(v)) : StartsWord(Query[q], Normal(TextOf(v))[i])
    BY <1>1, <1>2 DEF CommonKept, Holds
  <2> DEFINE f == [q \in DOMAIN Query |->
                      CHOOSE i \in DOMAIN Normal(TextOf(v)) : StartsWord(Query[q], Normal(TextOf(v))[i])]
  <2>2. \A q \in DOMAIN Query :
            f[q] \in DOMAIN Normal(TextOf(v)) /\ StartsWord(Query[q], Normal(TextOf(v))[f[q]])
    BY <2>1
  <2>3. f \in Places(v)
    BY <2>2 DEF Places
  <2> HIDE DEF f
  <2> QED
    BY <1>1, <1>2, <2>3 DEF CommonKept
<1> QED
  BY <1>1, <1>3 DEF CommonKept

(* what every word was found in is matched as a phrase or by all words *)
LEMMA WordsRanked ==
    ASSUME SearchInv, RankWords
    PROVE  BestKept({0, 1, 2, 3})'
<1> DEFINE f == [v \in common |-> WordMatch(v)]
           matches == {f[v] : v \in common}
<1>1. /\ lookup = "words" /\ unmet = {} /\ subjects' = subjects /\ sought' = sought
      /\ Query # <<>> /\ Len(Query) > 1 /\ WellAsked /\ subjects \in Seq(SubjectForms)
  BY DEF RankWords, SearchInv, CommonKept
<1>2. best' = Consider(matches)
  BY DEF RankWords
<1>3. BestKept({0, 1})
  BY <1>1 DEF SearchInv, Tried
<1>4. common = {v \in Searched : WordMatched(v) /\ Places(v) # {}}
  BY <1>1, CommonHolds
<1>5. common \in SUBSET IndexedValues
  BY <1>4 DEF Searched
<1>6. IsFiniteSet(matches)
  <2>1. IsFiniteSet(common)
    BY <1>1, <1>5, ValuesIndexed, FS_Subset
  <2> HIDE DEF f
  <2> QED
    BY <2>1, FiniteImage
<1>7. ASSUME NEW v \in common
      PROVE  /\ f[v] \in MatchForms /\ f[v].value = v /\ v \in Searched
             /\ f[v].rank \in Ranks(v) \cap {2, 3}
             /\ \A r \in Ranks(v) \cap {2, 3} : f[v].rank <= r
  <2>1. v \in IndexedValues /\ v \in Searched /\ WordMatched(v) /\ Places(v) # {}
    BY <1>4, <1>5
  <2> QED
    BY <1>1, <2>1, WordsMatched
<1>8. ASSUME NEW v \in Searched, NEW r \in (Ranks(v) \cap {0, 1, 2, 3}) \ {0, 1}
      PROVE  \E m \in matches : m.value = v /\ m.rank <= r
  <2>1. r \in {2, 3}
    OBVIOUS
  <2>2. WordMatched(v) /\ Places(v) # {}
    BY <2>1, RanksMeant
  <2>3. v \in common
    BY <1>4, <2>2
  <2> QED
    BY <1>7, <2>1, <2>3
<1>9. \A m \in matches : m \in MatchForms /\ m.value \in Searched /\ m.rank \in Ranks(m.value) \cap {0, 1, 2, 3}
  BY <1>7
<1> HIDE DEF matches
<1> QED
  BY <1>1, <1>2, <1>3, <1>6, <1>8, <1>9, RanksAdded

(* A group is made of the subjects, the request and the best matches alone. *)
LEMMA GroupFrame ==
    ASSUME subjects' = subjects, sought' = sought, best' = best
    PROVE  \A kind : KindGroup(kind)' = KindGroup(kind)
  BY DEF KindGroup, Rows, InOrder, Map, RowBefore, ShownBefore, BestOf, KindOf, FieldOf

(* A word looked up leaves in common who holds it. *)
LEMMA WordFiltered ==
    ASSUME SearchInv, NEW word \in unmet, LookUpWord(word)
    PROVE  CommonKept'
<1> DEFINE holding == {e.value : e \in {e \in entries : StartsText(<<word>>, e.term)}}
<1>1. /\ lookup = "words" /\ subjects' = subjects /\ sought' = sought
      /\ common' = {v \in common \cap holding : WordMatched(v)}
      /\ unmet' = IF common' = {} THEN {} ELSE unmet \ {word}
  BY DEF LookUpWord
<1>2. CommonKept
  BY <1>1 DEF SearchInv
<1>3. /\ Query' = Query /\ Searched' = Searched
      /\ \A v : Places(v)' = Places(v) /\ WordMatched(v)' = WordMatched(v) /\ \A w : Holds(v, w)' = Holds(v, w)
  BY <1>1, SearchFrame
<1>4. \A v \in IndexedValues : v \in holding <=> Holds(v, word)
  <2> TAKE v \in IndexedValues
  <2>1. v \in holding <=> \E t \in Terms(TextOf(v)) : StartsText(<<word>>, t)
    BY EntriesHeld DEF SearchInv
  <2>2. TextOf(v) \in Texts
    BY ValuesIndexed DEF SearchInv
  <2> HIDE DEF holding
  <2> QED
    BY <2>1, <2>2, WordStarts DEF Holds
<1> HIDE DEF holding
<1>5. common \subseteq Searched /\ common \subseteq IndexedValues
  BY <1>2 DEF CommonKept, Searched
<1>6. ASSUME NEW v \in common', NEW w \in ToSet(Query) \ unmet'
      PROVE  WordMatched(v) /\ Holds(v, w)
  <2>1. v \in common /\ v \in IndexedValues /\ v \in holding /\ WordMatched(v) /\ common' # {}
    BY <1>1, <1>5
  <2>2. w = word \/ w \in ToSet(Query) \ unmet
    BY <1>1, <2>1
  <2>3. CASE w = word
    BY <1>4, <2>1, <2>3
  <2>4. CASE w \in ToSet(Query) \ unmet
    BY <1>2, <2>1, <2>4 DEF CommonKept
  <2> QED
    BY <2>2, <2>3, <2>4
<1>7. ASSUME NEW v \in Searched, WordMatched(v), Places(v) # {}
      PROVE  v \in common'
  <2>1. v \in common /\ v \in IndexedValues
    BY <1>2, <1>5, <1>7 DEF CommonKept
  <2>2. word \in ToSet(Query)
    BY <1>2 DEF CommonKept
  <2>3. PICK q \in DOMAIN Query : word = Query[q]
    BY <2>2 DEF ToSet
  <2>4. PICK f \in Places(v) : TRUE
    BY <1>7
  <2>5. Holds(v, word)
    BY <2>3, <2>4 DEF Places, Holds
  <2> QED
    BY <1>1, <1>4, <1>7, <2>1, <2>5
<1>8. Len(Query) > 1 /\ unmet' \subseteq ToSet(Query) /\ common' \subseteq Searched
  BY <1>1, <1>2, <1>5 DEF CommonKept
<1> QED
  BY <1>3, <1>6, <1>7, <1>8 DEF CommonKept

(* and every lookup keeps what a search knows *)
LEMMA NextSearchInv == SearchInv /\ [Next]_navigationVars => SearchInv'
<1> SUFFICES ASSUME SearchInv, [Next]_navigationVars PROVE SearchInv'
  OBVIOUS
<1>0. /\ subjects' = subjects /\ sought' = sought /\ entries' = entries =>
             (subjects \in Seq(SubjectForms))' /\ (entries = EntriesOf(IndexedValues))' /\ WellAsked'
      /\ subjects' = subjects /\ sought' = sought /\ best' = best =>
             \A ranks : BestKept(ranks)' = BestKept(ranks)
      /\ subjects' = subjects /\ sought' = sought /\ best' = best /\ groups' = groups => AnswerGiven' = AnswerGiven
      /\ subjects' = subjects /\ sought' = sought => Query' = Query /\ Searched' = Searched
  <2>1. ASSUME subjects' = subjects, sought' = sought, entries' = entries
        PROVE  (subjects \in Seq(SubjectForms))' /\ (entries = EntriesOf(IndexedValues))' /\ WellAsked'
    <3>1. IndexedValues' = IndexedValues /\ WellAsked' = WellAsked /\ \A v : TextOf(v)' = TextOf(v)
      BY <2>1, SearchFrame
    <3>2. EntriesOf(IndexedValues)' = EntriesOf(IndexedValues)
      BY <3>1 DEF EntriesOf
    <3> QED
      BY <2>1, <3>1, <3>2 DEF SearchInv
  <2>2. ASSUME subjects' = subjects, sought' = sought, best' = best
        PROVE  \A ranks : BestKept(ranks)' = BestKept(ranks)
    <3>1. Searched' = Searched /\ MatchForms' = MatchForms /\ \A v : Ranks(v)' = Ranks(v)
      BY <2>2, SearchFrame
    <3> QED
      BY <2>2, <3>1 DEF BestKept
  <2>3. ASSUME subjects' = subjects, sought' = sought, best' = best, groups' = groups
        PROVE  AnswerGiven' = AnswerGiven
    <3>1. Query' = Query /\ \A kind : KindGroup(kind)' = KindGroup(kind)
      BY <2>3, SearchFrame, GroupFrame
    <3> QED
      BY <2>3, <3>1 DEF AnswerGiven
  <2>4. ASSUME subjects' = subjects, sought' = sought
        PROVE  Query' = Query /\ Searched' = Searched
    BY <2>4, SearchFrame
  <2> QED
    BY <2>1, <2>2, <2>3, <2>4
<1>1. CASE UNCHANGED searchVars
  <2>1. /\ subjects' = subjects /\ sought' = sought /\ entries' = entries /\ lookup' = lookup
        /\ unmet' = unmet /\ common' = common /\ best' = best /\ groups' = groups
    BY <1>1 DEF searchVars
  <2>2. CommonKept' = CommonKept /\ Tried' = Tried
    <3>1. /\ Query' = Query /\ Searched' = Searched
          /\ \A v : Places(v)' = Places(v) /\ WordMatched(v)' = WordMatched(v)
          /\ \A v, w : Holds(v, w)' = Holds(v, w)
      BY <2>1, SearchFrame
    <3> QED
      BY <2>1, <3>1 DEF CommonKept, Tried
  <2> QED
    BY <1>0, <2>1, <2>2 DEF SearchInv
<1>2. CASE AnswerBlank
  <2>1. /\ subjects' = subjects /\ sought' = sought /\ entries' = entries /\ lookup' = "answered" /\ Query = <<>>
        /\ groups' = [k \in sought.kinds |-> [subjects |-> <<>>, rows |-> <<>>, truncated |-> FALSE]]
    BY <1>2 DEF AnswerBlank
  <2>2. Query' = <<>> /\ AnswerGiven'
    BY <1>0, <2>1 DEF AnswerGiven
  <2> QED
    BY <1>0, <2>1, <2>2 DEF SearchInv
<1>3. CASE LookUpExact
  <2>1. subjects' = subjects /\ sought' = sought /\ entries' = entries /\ lookup' = "prefix" /\ Query # <<>>
    BY <1>3 DEF LookUpExact
  <2>2. BestKept({0})' /\ Query' # <<>> /\ Tried' = {0}
    BY <1>0, <1>3, <2>1, ExactFound DEF Tried
  <2> QED
    BY <1>0, <2>1, <2>2 DEF SearchInv
<1>4. CASE LookUpPrefix
  <2>1. /\ subjects' = subjects /\ sought' = sought /\ entries' = entries /\ lookup = "prefix"
        /\ lookup' = IF Len(Query) > 1 THEN "words" ELSE "ranking"
        /\ unmet' = IF Len(Query) > 1 THEN ToSet(Query) ELSE {}
        /\ common' = IF Len(Query) > 1 THEN Searched ELSE {}
    BY <1>4 DEF LookUpPrefix
  <2>2. Query # <<>> /\ Query' = Query
    BY <1>0, <2>1 DEF SearchInv
  <2>3. BestKept({0, 1})'
    BY <1>4, PrefixesFound
  <2>4. CASE Len(Query) > 1
    <3>1. lookup' = "words" /\ Tried' = {0, 1}
      BY <2>1, <2>4 DEF Tried
    <3>2. CommonKept'
      <4>1. /\ Query' = Query /\ Searched' = Searched /\ unmet' = ToSet(Query) /\ common' = Searched
        BY <1>0, <2>1, <2>4
      <4> QED
        BY <2>4, <4>1 DEF CommonKept
    <3> QED
      BY <1>0, <2>1, <2>2, <2>3, <3>1, <3>2 DEF SearchInv
  <2>5. CASE ~(Len(Query) > 1)
    <3>1. lookup' = "ranking" /\ Tried' = {0, 1, 2, 3}
      BY <2>1, <2>5 DEF Tried
    <3>2. \A v : Ranks(v) \cap {0, 1, 2, 3} = Ranks(v) \cap {0, 1}
      BY <2>5, RanksMeant
    <3>3. \A v : Ranks(v)' \cap {0, 1, 2, 3} = Ranks(v)' \cap {0, 1}
      BY <2>1, <3>2, SearchFrame
    <3>4. BestKept({0, 1, 2, 3})'
      BY <2>3, <3>3 DEF BestKept
    <3> QED
      BY <1>0, <2>1, <2>2, <3>1, <3>4 DEF SearchInv
  <2> QED
    BY <2>4, <2>5
<1>5. ASSUME NEW word \in unmet, LookUpWord(word)
      PROVE  SearchInv'
  <2>1. subjects' = subjects /\ sought' = sought /\ entries' = entries /\ lookup' = lookup /\ best' = best
        /\ lookup = "words"
    BY <1>5 DEF LookUpWord
  <2>2. CommonKept' /\ Tried' = Tried /\ Query' = Query
    BY <1>0, <1>5, <2>1, WordFiltered DEF Tried
  <2> QED
    BY <1>0, <2>1, <2>2 DEF SearchInv
<1>6. CASE RankWords
  <2>1. subjects' = subjects /\ sought' = sought /\ entries' = entries /\ lookup' = "ranking" /\ lookup = "words"
    BY <1>6 DEF RankWords
  <2>2. BestKept({0, 1, 2, 3})' /\ Tried' = {0, 1, 2, 3} /\ Query' = Query /\ Query # <<>>
    BY <1>0, <1>6, <2>1, WordsRanked DEF Tried, SearchInv
  <2> QED
    BY <1>0, <2>1, <2>2 DEF SearchInv
<1>7. CASE AnswerSearch
  <2>1. /\ subjects' = subjects /\ sought' = sought /\ entries' = entries /\ best' = best
        /\ lookup' = "answered" /\ lookup = "ranking" /\ groups' = [k \in sought.kinds |-> KindGroup(k)]
    BY <1>7 DEF AnswerSearch
  <2>2. Query' = Query /\ Query # <<>> /\ Tried' = Tried
    BY <1>0, <2>1 DEF SearchInv, Tried
  <2>3. AnswerGiven'
    <3>1. \A kind : KindGroup(kind)' = KindGroup(kind)
      BY <2>1, GroupFrame
    <3> QED
      BY <2>1, <2>2, <3>1 DEF AnswerGiven
  <2> QED
    BY <1>0, <2>1, <2>2, <2>3 DEF SearchInv
<1>8. SearchNext => SearchInv'
  BY <1>2, <1>3, <1>4, <1>5, <1>6, <1>7 DEF SearchNext
<1>9. UNCHANGED navigationVars => UNCHANGED searchVars
  BY DEF navigationVars
<1> QED
  BY <1>1, <1>8, <1>9 DEF Next

-----------------------------------------------------------------------------
(* Search: the answer                                                           *)

KeysKept == \A s, t \in DOMAIN subjects : s # t /\ subjects[s].kind = subjects[t].kind => subjects[s].key # subjects[t].key

Eligible(kind) == {v[1] : v \in {v \in Found : KindOf(v) = kind}}
OwnValues(s) == {v \in Found : v[1] = s}

(* What was found are the values with a match, each by its least rank. *)
LEMMA FoundKept ==
    ASSUME SearchInv, lookup \in {"ranking", "answered"}, Query # <<>>
    PROVE  /\ DOMAIN best = Found /\ IsFiniteSet(Found) /\ Found \subseteq IndexedValues
           /\ \A v \in Found : best[v].value = v /\ best[v].rank = Rank(v) /\ Rank(v) \in Nat
<1>1. BestKept({0, 1, 2, 3})
  BY DEF SearchInv, Tried
<1>2. \A v : Ranks(v) \cap {0, 1, 2, 3} = Ranks(v)
  BY RanksMeant
<1>3. DOMAIN best = Found
  BY <1>1, <1>2 DEF BestKept, Found
<1>4. Found \in SUBSET IndexedValues
  BY DEF Found, Searched
<1>5. IsFiniteSet(Found)
  BY <1>4, ValuesIndexed, FS_Subset DEF SearchInv
<1>6. ASSUME NEW v \in Found
      PROVE  best[v].value = v /\ best[v].rank = Rank(v) /\ Rank(v) \in Nat
  <2>1. best[v].value = v /\ best[v].rank \in Ranks(v) /\ \A r \in Ranks(v) : best[v].rank <= r
    BY <1>1, <1>2, <1>3 DEF BestKept
  <2>2. Ranks(v) \in SUBSET Nat
    <3>1. Ranks(v) \subseteq {0, 1, 2, 3}
      BY RanksMeant
    <3> QED
      BY <3>1
  <2>3. Least(Ranks(v)) \in Ranks(v) /\ \A r \in Ranks(v) : Least(Ranks(v)) <= r
    BY <2>1, <2>2, LeastIn
  <2>4. best[v].rank \in Nat /\ Least(Ranks(v)) \in Nat
    BY <2>1, <2>2, <2>3
  <2>5. best[v].rank <= Least(Ranks(v)) /\ Least(Ranks(v)) <= best[v].rank
    BY <2>1, <2>3
  <2> QED
    BY <2>1, <2>4, <2>5 DEF Rank
<1> QED
  BY <1>3, <1>4, <1>5, <1>6

(* Of two subjects of a kind one precedes the other. *)
LEMMA SubjectsOrdered ==
    ASSUME SearchInv, lookup \in {"ranking", "answered"}, Query # <<>>, KeysKept, NEW kind
    PROVE  /\ IsFiniteSet(Eligible(kind)) /\ Eligible(kind) \subseteq DOMAIN subjects
           /\ \A s, t \in Eligible(kind) : ShownBefore(s, t) <=> Precedes(s, t)
           /\ \A s \in Eligible(kind) : ~Precedes(s, s)
           /\ \A s, t, u \in Eligible(kind) : Precedes(s, t) /\ Precedes(t, u) => Precedes(s, u)
           /\ \A s, t \in Eligible(kind) : s = t \/ Precedes(s, t) \/ Precedes(t, s)
<1> DEFINE M == Eligible(kind)
           low(s) == Least({Rank(v) : v \in OwnValues(s)})
           label(s) == subjects[s].label
           place(s) == subjects[s].key
<1>1. /\ DOMAIN best = Found /\ IsFiniteSet(Found) /\ Found \subseteq IndexedValues
      /\ \A v \in Found : best[v].value = v /\ best[v].rank = Rank(v) /\ Rank(v) \in Nat
  BY FoundKept
<1>2. IsFiniteSet(M)
  <2> DEFINE of == {v \in Found : KindOf(v) = kind}
             f == [v \in of |-> v[1]]
  <2>1. of \in SUBSET Found
    OBVIOUS
  <2>2. M = {f[v] : v \in of}
    BY DEF Eligible
  <2> HIDE DEF of, f, M
  <2>3. IsFiniteSet(of)
    BY <1>1, <2>1, FS_Subset
  <2> QED
    BY <2>2, <2>3, FiniteImage
<1>3. ASSUME NEW s \in M
      PROVE  /\ s \in DOMAIN subjects /\ subjects[s].kind = kind
             /\ low(s) \in Nat /\ BestOf(s) = low(s) /\ label(s) \in Seq(Int) /\ place(s) \in Int
  <2>1. PICK v \in Found : KindOf(v) = kind /\ s = v[1]
    BY DEF Eligible
  <2>2. s \in DOMAIN subjects /\ subjects[s].kind = kind
    BY <1>1, <2>1, ValuesIndexed DEF KindOf, SearchInv
  <2>3. subjects[s] \in SubjectForms
    BY <2>2 DEF SearchInv
  <2>4. low(s) \in Nat
    <3> DEFINE S == {Rank(w) : w \in OwnValues(s)}
    <3>1. S \in SUBSET Nat
      BY <1>1 DEF OwnValues
    <3>2. S # {}
      BY <2>1 DEF OwnValues
    <3> HIDE DEF S
    <3>3. Least(S) \in S
      BY <3>1, <3>2, LeastIn
    <3> QED
      BY <3>1, <3>3 DEF S
  <2>5. {best[w].rank : w \in {w \in DOMAIN best : w[1] = s}} = {Rank(w) : w \in OwnValues(s)}
    BY <1>1 DEF OwnValues
  <2> QED
    BY <2>2, <2>3, <2>4, <2>5 DEF SubjectForms, BestOf
<1>4. \A s, t : Precedes(s, t) <=>
          \/ low(s) < low(t)
          \/ low(s) = low(t) /\ TextLess(label(s), label(t))
          \/ low(s) = low(t) /\ label(s) = label(t) /\ place(s) < place(t)
  BY DEF Precedes, OwnValues
<1>5. \A s, t : ShownBefore(s, t) <=>
          \/ BestOf(s) < BestOf(t)
          \/ BestOf(s) = BestOf(t) /\ (TextLess(label(s), label(t)) \/ (label(s) = label(t) /\ place(s) < place(t)))
  BY DEF ShownBefore
<1> HIDE DEF low
<1>6. \A s, t \in M : ShownBefore(s, t) <=> Precedes(s, t)
  BY <1>3, <1>4, <1>5
<1>7. \A s \in M : ~Precedes(s, s)
  BY <1>3, <1>4, TextsOrdered
<1> HIDE DEF label, place
<1>8. ASSUME NEW s \in M, NEW t \in M, NEW u \in M, Precedes(s, t), Precedes(t, u)
      PROVE  Precedes(s, u)
  <2>1. /\ low(s) \in Nat /\ low(t) \in Nat /\ low(u) \in Nat
        /\ place(s) \in Int /\ place(t) \in Int /\ place(u) \in Int
        /\ label(s) \in Seq(Int) /\ label(t) \in Seq(Int) /\ label(u) \in Seq(Int)
    BY <1>3
  <2>2. TextLess(label(s), label(t)) /\ TextLess(label(t), label(u)) => TextLess(label(s), label(u))
    BY <2>1, TextsOrdered
  <2> QED
    BY <1>4, <1>8, <2>1, <2>2
<1>9. ASSUME NEW s \in M, NEW t \in M, s # t
      PROVE  Precedes(s, t) \/ Precedes(t, s)
  <2>1. /\ low(s) \in Nat /\ low(t) \in Nat /\ place(s) \in Int /\ place(t) \in Int
        /\ label(s) \in Seq(Int) /\ label(t) \in Seq(Int)
    BY <1>3
  <2>2. place(s) # place(t)
    BY <1>3, <1>9 DEF KeysKept, place
  <2>3. label(s) = label(t) \/ TextLess(label(s), label(t)) \/ TextLess(label(t), label(s))
    BY <2>1, TextsOrdered
  <2> QED
    BY <1>4, <2>1, <2>2, <2>3
<1> QED
  BY <1>2, <1>3, <1>6, <1>7, <1>8, <1>9

(* The matched subjects of a kind, each once and in order. *)
LEMMA SubjectsSorted ==
    ASSUME SearchInv, lookup \in {"ranking", "answered"}, Query # <<>>, KeysKept, NEW kind
    PROVE  LET matched == InOrder({v[1] : v \in {v \in DOMAIN best : KindOf(v) = kind}}, ShownBefore) IN
           /\ matched \in Seq(Eligible(kind))
           /\ \A s \in Eligible(kind) : \E n \in DOMAIN matched : matched[n] = s
           /\ \A i, j \in DOMAIN matched : i < j => Precedes(matched[i], matched[j])
<1> DEFINE M == {v[1] : v \in {v \in DOMAIN best : KindOf(v) = kind}}
           matched == InOrder(M, ShownBefore)
           R == {p \in M \X M : ShownBefore(p[1], p[2])}
           before(s) == {t \in M : ShownBefore(t, s)}
           nth(n) == CHOOSE s \in M : Cardinality(before(s)) = n - 1
<1>1. matched = [n \in 1..Cardinality(M) |-> nth(n)]
  BY DEF InOrder
<1>2. M = Eligible(kind)
  BY FoundKept DEF Eligible
<1> HIDE DEF M
<1>3. /\ IsFiniteSet(M)
      /\ \A s, t \in M : ShownBefore(s, t) <=> Precedes(s, t)
      /\ \A s \in M : ~Precedes(s, s)
      /\ \A s, t, u \in M : Precedes(s, t) /\ Precedes(t, u) => Precedes(s, u)
      /\ \A s, t \in M : s = t \/ Precedes(s, t) \/ Precedes(t, s)
  BY <1>2, SubjectsOrdered
<1>4. \A s, t \in M : <<s, t>> \in R <=> ShownBefore(s, t)
  OBVIOUS
<1> HIDE DEF R
<1>5. TotalOrder(R, M)
  BY <1>3, <1>4 DEF TotalOrder, PartialOrder
<1>6. \A s \in M : {t \in M : <<t, s>> \in R} = before(s)
  BY <1>4
<1> HIDE DEF before
<1>7. PutInOrder(matched, M, R)
  <2>1. ASSUME NEW n \in 1..Cardinality(M), \E s \in M : Cardinality({t \in M : <<t, s>> \in R}) = n - 1
        PROVE  matched[n] \in M /\ Cardinality({t \in M : <<t, matched[n]>> \in R}) = n - 1
    <3>1. \E s \in M : Cardinality(before(s)) = n - 1
      BY <1>6, <2>1
    <3>2. nth(n) \in M /\ Cardinality(before(nth(n))) = n - 1
      BY <3>1
    <3>3. matched[n] = nth(n)
      BY <1>1
    <3> HIDE DEF nth, matched
    <3> QED
      BY <1>6, <3>2, <3>3
  <2>2. matched = [n \in 1..Cardinality(M) |-> matched[n]]
    <3> HIDE DEF nth, matched
    <3> QED
      BY <1>1
  <2> HIDE DEF nth, matched
  <2> QED
    BY <2>1, <2>2 DEF PutInOrder
<1> HIDE DEF nth, matched
<1>8. /\ matched \in Seq(M)
      /\ \A s \in M : \E n \in DOMAIN matched : matched[n] = s
      /\ \A i, j \in DOMAIN matched : i < j => <<matched[i], matched[j]>> \in R
  BY <1>3, <1>5, <1>7, Sorts
<1>9. ASSUME NEW i \in DOMAIN matched, NEW j \in DOMAIN matched, i < j
      PROVE  Precedes(matched[i], matched[j])
  <2>1. matched[i] \in M /\ matched[j] \in M /\ <<matched[i], matched[j]>> \in R
    BY <1>8, <1>9
  <2> QED
    BY <1>3, <1>4, <2>1
<1> QED
  BY <1>2, <1>8, <1>9 DEF matched, M

(* The rows of a subject: one for each of its values that was found, best first. *)
LEMMA RowsSorted ==
    ASSUME SearchInv, lookup \in {"ranking", "answered"}, Query # <<>>, NEW s
    PROVE  /\ Rows(s) \in Seq({best[v] : v \in OwnValues(s)})
           /\ \A v \in OwnValues(s) : \E n \in DOMAIN Rows(s) : Rows(s)[n] = best[v]
           /\ \A i, j \in DOMAIN Rows(s) : i < j =>
                  LET v == Rows(s)[i].value  w == Rows(s)[j].value IN
                  /\ v # w
                  /\ Rank(v) < Rank(w) \/ (Rank(v) = Rank(w) /\ FieldOf(v) <= FieldOf(w))
<1> DEFINE V == {v \in DOMAIN best : v[1] = s}
           R == {p \in V \X V : RowBefore(p[1], p[2])}
           before(v) == {w \in V : RowBefore(w, v)}
           nth(n) == CHOOSE v \in V : Cardinality(before(v)) = n - 1
           sorted == InOrder(V, RowBefore)
<1>1. /\ DOMAIN best = Found /\ IsFiniteSet(Found) /\ Found \subseteq IndexedValues
      /\ \A v \in Found : best[v].value = v /\ best[v].rank = Rank(v) /\ Rank(v) \in Nat
  BY FoundKept
<1>2. V = OwnValues(s) /\ IsFiniteSet(V) /\ V \subseteq Found
  <2>1. V = OwnValues(s)
    BY <1>1 DEF OwnValues
  <2>2. V \in SUBSET Found
    BY <1>1
  <2> HIDE DEF V
  <2> QED
    BY <1>1, <2>1, <2>2, FS_Subset
<1>3. \A v \in V : /\ v = <<s, v[2]>> /\ v[2] \in Nat /\ FieldOf(v) \in Int
                   /\ best[v].value = v /\ best[v].rank = Rank(v) /\ Rank(v) \in Nat
  <2>1. \A v \in V : v \in IndexedValues /\ v[1] = s
    BY <1>1
  <2> HIDE DEF V
  <2> QED
    BY <1>1, <1>2, <2>1, ValuesIndexed DEF SearchInv
<1>4. sorted = [n \in 1..Cardinality(V) |-> nth(n)] /\ Rows(s) = [i \in DOMAIN sorted |-> best[sorted[i]]]
  BY DEF InOrder, Rows
<1> HIDE DEF V
<1>5. \A v, w \in V : <<v, w>> \in R <=> RowBefore(v, w)
  OBVIOUS
<1> HIDE DEF R
<1>6. TotalOrder(R, V)
  <2>1. \A v \in V : ~RowBefore(v, v)
    BY <1>3 DEF RowBefore
  <2>2. ASSUME NEW v \in V, NEW w \in V, NEW x \in V, RowBefore(v, w), RowBefore(w, x)
        PROVE  RowBefore(v, x)
    <3>1. /\ v[2] \in Nat /\ w[2] \in Nat /\ x[2] \in Nat
          /\ FieldOf(v) \in Int /\ FieldOf(w) \in Int /\ FieldOf(x) \in Int
          /\ best[v].rank \in Nat /\ best[w].rank \in Nat /\ best[x].rank \in Nat
      BY <1>3
    <3> QED
      BY <2>2, <3>1 DEF RowBefore
  <2>3. ASSUME NEW v \in V, NEW w \in V, v # w
        PROVE  RowBefore(v, w) \/ RowBefore(w, v)
    <3>1. /\ v[2] \in Nat /\ w[2] \in Nat /\ FieldOf(v) \in Int /\ FieldOf(w) \in Int
          /\ best[v].rank \in Nat /\ best[w].rank \in Nat
      BY <1>3
    <3>2. v[2] # w[2]
      BY <1>3, <2>3
    <3> QED
      BY <3>1, <3>2 DEF RowBefore
  <2> QED
    BY <1>5, <2>1, <2>2, <2>3 DEF TotalOrder, PartialOrder
<1>7. \A v \in V : {w \in V : <<w, v>> \in R} = before(v)
  BY <1>5
<1> HIDE DEF before
<1>8. PutInOrder(sorted, V, R)
  <2>1. ASSUME NEW n \in 1..Cardinality(V), \E v \in V : Cardinality({w \in V : <<w, v>> \in R}) = n - 1
        PROVE  sorted[n] \in V /\ Cardinality({w \in V : <<w, sorted[n]>> \in R}) = n - 1
    <3>1. \E v \in V : Cardinality(before(v)) = n - 1
      BY <1>7, <2>1
    <3>2. nth(n) \in V /\ Cardinality(before(nth(n))) = n - 1
      BY <3>1
    <3>3. sorted[n] = nth(n)
      BY <1>4
    <3> HIDE DEF nth, sorted
    <3> QED
      BY <1>7, <3>2, <3>3
  <2>2. sorted = [n \in 1..Cardinality(V) |-> sorted[n]]
    <3> HIDE DEF nth, sorted
    <3> QED
      BY <1>4
  <2> HIDE DEF nth, sorted
  <2> QED
    BY <2>1, <2>2 DEF PutInOrder
<1>9. Rows(s) = [i \in DOMAIN sorted |-> best[sorted[i]]]
  BY <1>4
<1> HIDE DEF sorted, nth
<1>10. /\ sorted \in Seq(V)
       /\ \A v \in V : \E n \in DOMAIN sorted : sorted[n] = v
       /\ \A i, j \in DOMAIN sorted : i < j => <<sorted[i], sorted[j]>> \in R
  BY <1>2, <1>6, <1>8, Sorts
<1>11. Rows(s) \in Seq({best[v] : v \in V})
  <2>1. DOMAIN sorted = 1..Len(sorted) /\ Len(sorted) \in Nat /\ \A i \in DOMAIN sorted : sorted[i] \in V
    BY <1>10
  <2> QED
    BY <1>9, <2>1
<1>12. \A v \in V : \E n \in DOMAIN Rows(s) : Rows(s)[n] = best[v]
  BY <1>9, <1>10
<1>13. ASSUME NEW i \in DOMAIN Rows(s), NEW j \in DOMAIN Rows(s), i < j
       PROVE  LET v == Rows(s)[i].value  w == Rows(s)[j].value IN
              /\ v # w
              /\ Rank(v) < Rank(w) \/ (Rank(v) = Rank(w) /\ FieldOf(v) <= FieldOf(w))
  <2> DEFINE v == sorted[i]  w == sorted[j]
  <2>1. i \in DOMAIN sorted /\ j \in DOMAIN sorted
    BY <1>9
  <2>2. v \in V /\ w \in V /\ <<v, w>> \in R
    BY <1>10, <1>13, <2>1
  <2>3. Rows(s)[i].value = v /\ Rows(s)[j].value = w
    BY <1>3, <1>9, <2>1, <2>2
  <2> HIDE DEF v, w
  <2>4. RowBefore(v, w) /\ ~RowBefore(v, v)
    BY <1>5, <1>6, <2>2 DEF TotalOrder, PartialOrder
  <2>5. Rank(v) < Rank(w) \/ (Rank(v) = Rank(w) /\ FieldOf(v) <= FieldOf(w))
    BY <1>3, <2>2, <2>4 DEF RowBefore
  <2> QED
    BY <2>3, <2>4, <2>5
<1> QED
  BY <1>2, <1>11, <1>12, <1>13

(* The first subjects of a kind, as many as the limit allows. *)
LEMMA SubjectsShown ==
    ASSUME SearchInv, lookup \in {"ranking", "answered"}, Query # <<>>, KeysKept, NEW kind
    PROVE  LET g == KindGroup(kind)  first == g.subjects  all == Eligible(kind) IN
           /\ first \in Seq(all) /\ Len(first) <= sought.limit
           /\ \A i, j \in DOMAIN first : i < j => Precedes(first[i], first[j]) /\ first[i] # first[j]
           /\ \A s \in ToSet(first) : \A t \in all \ ToSet(first) : Precedes(s, t)
           /\ g.truncated <=> all # ToSet(first)
           /\ g.truncated => Len(first) = sought.limit
           /\ g.rows = FlattenSeq(Map(Rows, first))
<1> DEFINE all == Eligible(kind)
           matched == InOrder({v[1] : v \in {v \in DOMAIN best : KindOf(v) = kind}}, ShownBefore)
           size == Len(matched)
           limit == sought.limit
           m == Least({size, limit})
           first == SubSeq(matched, 1, m)
<1>1. /\ matched \in Seq(all)
      /\ \A s \in all : \E n \in DOMAIN matched : matched[n] = s
      /\ \A i, j \in DOMAIN matched : i < j => Precedes(matched[i], matched[j])
  BY SubjectsSorted
<1>2. KindGroup(kind) = [subjects |-> first, rows |-> FlattenSeq(Map(Rows, first)),
                         truncated |-> size > limit]
  BY DEF KindGroup
<1>3. \A s \in all : ~Precedes(s, s)
  BY SubjectsOrdered
<1> HIDE DEF matched, all
<1>4. size \in Nat /\ limit \in Nat /\ DOMAIN matched = 1..size
  BY <1>1 DEF SearchInv, WellAsked
<1>14. Len(matched) = size /\ sought.limit = limit
  OBVIOUS
<1> HIDE DEF size, limit
<1>5. m \in Nat /\ m <= size /\ m <= limit /\ (m = size \/ m = limit)
  <2> DEFINE S == {size, limit}
  <2>1. S \in SUBSET Nat /\ S # {}
    BY <1>4
  <2>2. Least(S) \in S /\ \A i \in S : Least(S) <= i
    <3> HIDE DEF S
    <3> QED
      BY <2>1, LeastIn
  <2>3. m = Least(S)
    OBVIOUS
  <2> HIDE DEF m
  <2> QED
    BY <1>4, <2>2, <2>3
<1> HIDE DEF m
<1>6. first \in Seq(all) /\ Len(first) = m /\ DOMAIN first = 1..m /\ \A i \in 1..m : first[i] = matched[i]
  <2>0. \A i \in 1..m : matched[i] \in all
    BY <1>1, <1>4, <1>5
  <2>1. first \in Seq(all) /\ Len(first) = m
    BY <1>5, <2>0, SubSeqProperties
  <2>2. \A i \in 1..m : first[i] = matched[i]
    BY <1>5, <2>0, SubSeqProperties
  <2>3. DOMAIN first = 1..Len(first)
    BY <2>1
  <2> QED
    BY <2>1, <2>2, <2>3
<1> HIDE DEF first
<1>7. \A i \in 1..m : i \in DOMAIN matched
  BY <1>4, <1>5
<1>8. \A i, j \in DOMAIN matched : i < j => matched[i] # matched[j]
  BY <1>1, <1>3
<1>9. ASSUME NEW i \in DOMAIN first, NEW j \in DOMAIN first, i < j
      PROVE  Precedes(first[i], first[j]) /\ first[i] # first[j]
  BY <1>1, <1>6, <1>7, <1>8, <1>9
<1>10. ToSet(first) = {matched[i] : i \in 1..m}
  BY <1>6 DEF ToSet
<1>11. ASSUME NEW s \in ToSet(first), NEW t \in all \ ToSet(first)
       PROVE  Precedes(s, t)
  <2>1. PICK i \in 1..m : s = matched[i]
    BY <1>10
  <2>2. PICK j \in DOMAIN matched : t = matched[j]
    BY <1>1
  <2>3. j \notin 1..m
    BY <1>10, <2>2
  <2>4. i \in DOMAIN matched /\ i < j
    BY <1>4, <1>5, <1>7, <2>2, <2>3
  <2> QED
    BY <1>1, <2>1, <2>2, <2>4
<1>12. ASSUME size > limit
       PROVE  m = limit /\ all # ToSet(first)
  <2>1. m = limit /\ m + 1 \in DOMAIN matched
    BY <1>4, <1>5, <1>12
  <2>2. matched[m + 1] \in all
    BY <1>1, <2>1
  <2>3. \A i \in 1..m : matched[i] # matched[m + 1]
    <3>1. \A i \in 1..m : i < m + 1
      BY <1>5
    <3> QED
      BY <1>7, <1>8, <2>1, <3>1
  <2>4. matched[m + 1] \notin ToSet(first)
    BY <1>10, <2>3
  <2> QED
    BY <2>1, <2>2, <2>4
<1>13. ASSUME ~(size > limit)
       PROVE  all = ToSet(first)
  <2>1. m = size
    BY <1>4, <1>5, <1>13
  <2>2. \A s \in all : s \in ToSet(first)
    BY <1>1, <1>4, <1>10, <2>1
  <2>3. \A s \in ToSet(first) : s \in all
    BY <1>1, <1>7, <1>10
  <2> QED
    BY <2>2, <2>3
<1>15. /\ KindGroup(kind).subjects = first /\ KindGroup(kind).rows = FlattenSeq(Map(Rows, first))
       /\ KindGroup(kind).truncated = (size > limit)
  BY <1>2, <1>14
<1>16. /\ first \in Seq(all) /\ Len(first) <= sought.limit
       /\ \A i, j \in DOMAIN first : i < j => Precedes(first[i], first[j]) /\ first[i] # first[j]
       /\ \A s \in ToSet(first) : \A t \in all \ ToSet(first) : Precedes(s, t)
       /\ (size > limit) <=> all # ToSet(first)
       /\ size > limit => Len(first) = sought.limit
  BY <1>5, <1>6, <1>9, <1>11, <1>12, <1>13, <1>14
<1> QED
  BY <1>15, <1>16 DEF all

(* shown has one row for every value found of these subjects, in order, and of no   *)
(* placeholder                                                                      *)
RowsRight(shown, those) ==
    /\ {<<r.value, r.rank>> : r \in ToSet(shown)} = {<<v, Rank(v)>> : v \in {v \in Found : v[1] \in ToSet(those)}}
    /\ Len(shown) = Cardinality({r.value : r \in ToSet(shown)})
    /\ \A v \in {r.value : r \in ToSet(shown)} :
           FieldOf(v) >= Field.description => Normal(TextOf(v)) \notin Placeholders
    /\ \A i, j \in DOMAIN shown : i < j =>
           LET v == shown[i].value  w == shown[j].value IN
           v[1] = w[1] => Rank(v) < Rank(w) \/ (Rank(v) = Rank(w) /\ FieldOf(v) <= FieldOf(w))

(* The rows of an answer: one for each value found of a subject shown. *)
LEMMA RowsShown ==
    ASSUME SearchInv, lookup \in {"ranking", "answered"}, Query # <<>>, NEW S, NEW first \in Seq(S),
           \A i, j \in DOMAIN first : i < j => first[i] # first[j]
    PROVE  RowsRight(FlattenSeq(Map(Rows, first)), first)
<1> DEFINE seqs == Map(Rows, first)
           flat == FlattenSeq(seqs)
           n == Len(first)
           X == {best[v] : v \in Found}
           ofShown(v) == v \in Found /\ v[1] \in ToSet(first)
<1>1. /\ DOMAIN best = Found /\ IsFiniteSet(Found) /\ Found \subseteq IndexedValues
      /\ \A v \in Found : best[v].value = v /\ best[v].rank = Rank(v) /\ Rank(v) \in Nat
  BY FoundKept
<1>2. n \in Nat /\ DOMAIN first = 1..n /\ ToSet(first) = {first[a] : a \in 1..n}
  BY DEF ToSet
<1> HIDE DEF n
<1>3. DOMAIN seqs = 1..n /\ \A a \in 1..n : seqs[a] = Rows(first[a])
  BY <1>2 DEF Map
<1>4. seqs \in Seq(Seq(X)) /\ Len(seqs) = n
  <2>1. seqs = [a \in 1..n |-> Rows(first[a])]
    BY <1>2 DEF Map
  <2>2. \A a \in 1..n : Rows(first[a]) \in Seq(X)
    <3> TAKE a \in 1..n
    <3>1. Rows(first[a]) \in Seq({best[v] : v \in OwnValues(first[a])})
      BY RowsSorted
    <3>2. {best[v] : v \in OwnValues(first[a])} \subseteq X
      BY DEF OwnValues
    <3> HIDE DEF X
    <3> QED
      BY <3>1, <3>2
  <2> HIDE DEF seqs, X
  <2> QED
    BY <1>2, <2>1, <2>2
<1> HIDE DEF seqs
<1>5. flat \in Seq(X) /\ \E spot : Laid(flat, n, seqs, spot)
  <2> HIDE DEF X
  <2> QED
    BY <1>4, Flattened
<1>6. PICK spot : Laid(flat, n, seqs, spot)
  BY <1>5
<1>7. Len(flat) \in Nat /\ DOMAIN flat = 1..Len(flat) /\ ToSet(flat) = {flat[i] : i \in 1..Len(flat)}
  <2> HIDE DEF X, flat
  <2> QED
    BY <1>5 DEF ToSet
<1> HIDE DEF flat
<1>8. ASSUME NEW i \in 1..Len(flat)
      PROVE  /\ spot[i][1] \in 1..n /\ spot[i][2] \in DOMAIN Rows(first[spot[i][1]])
             /\ flat[i] = Rows(first[spot[i][1]])[spot[i][2]]
             /\ flat[i].value \in Found /\ flat[i] = best[flat[i].value] /\ flat[i].value[1] = first[spot[i][1]]
  <2>1. /\ spot[i][1] \in 1..n /\ spot[i][2] \in DOMAIN seqs[spot[i][1]]
        /\ flat[i] = seqs[spot[i][1]][spot[i][2]]
    BY <1>6 DEF Laid
  <2>2. Rows(first[spot[i][1]]) \in Seq({best[v] : v \in OwnValues(first[spot[i][1]])})
    BY RowsSorted
  <2>3. \A U : \A q \in Seq(U) : \A p \in DOMAIN q : q[p] \in U
    OBVIOUS
  <2>4. Rows(first[spot[i][1]])[spot[i][2]] \in {best[v] : v \in OwnValues(first[spot[i][1]])}
    BY <1>3, <2>1, <2>2, <2>3
  <2>5. PICK v \in OwnValues(first[spot[i][1]]) : Rows(first[spot[i][1]])[spot[i][2]] = best[v]
    BY <2>4
  <2>6. v \in Found /\ v[1] = first[spot[i][1]]
    BY DEF OwnValues
  <2> QED
    BY <1>1, <1>3, <2>1, <2>5, <2>6
<1>9. ASSUME NEW i \in 1..Len(flat)
      PROVE  ofShown(flat[i].value) /\ flat[i].rank = Rank(flat[i].value)
  BY <1>1, <1>2, <1>8
<1>10. ASSUME NEW v, ofShown(v)
       PROVE  \E i \in 1..Len(flat) : flat[i].value = v
  <2>1. PICK a \in 1..n : v[1] = first[a]
    BY <1>2, <1>10
  <2>2. v \in OwnValues(first[a])
    BY <1>10, <2>1 DEF OwnValues
  <2>3. PICK p \in DOMAIN Rows(first[a]) : Rows(first[a])[p] = best[v]
    BY <2>2, RowsSorted
  <2>4. p \in DOMAIN seqs[a]
    BY <1>3, <2>3
  <2>5. PICK i \in 1..Len(flat) : spot[i][1] = a /\ spot[i][2] = p
    BY <1>6, <2>4 DEF Laid
  <2>6. flat[i] = best[v]
    BY <1>8, <2>3, <2>5
  <2> QED
    BY <1>1, <1>10, <2>6
<1>11. ASSUME NEW i \in 1..Len(flat), NEW j \in 1..Len(flat), i < j
       PROVE  LET v == flat[i].value  w == flat[j].value IN
              /\ v # w
              /\ v[1] = w[1] => Rank(v) < Rank(w) \/ (Rank(v) = Rank(w) /\ FieldOf(v) <= FieldOf(w))
  <2> DEFINE v == flat[i].value
             w == flat[j].value
             a == spot[i][1]
             b == spot[j][1]
  <2>1. a < b \/ (a = b /\ spot[i][2] < spot[j][2])
    BY <1>6, <1>11 DEF Laid
  <2>2. /\ a \in 1..n /\ b \in 1..n /\ v[1] = first[a] /\ w[1] = first[b]
        /\ spot[i][2] \in DOMAIN Rows(first[a]) /\ spot[j][2] \in DOMAIN Rows(first[b])
        /\ v = Rows(first[a])[spot[i][2]].value /\ w = Rows(first[b])[spot[j][2]].value
    BY <1>8
  <2> HIDE DEF v, w, a, b
  <2>3. CASE a < b
    <3>1. first[a] # first[b]
      BY <1>2, <2>2, <2>3
    <3> QED
      BY <2>2, <3>1 DEF v, w
  <2>4. CASE a = b /\ spot[i][2] < spot[j][2]
    <3>0. \A k, l \in DOMAIN Rows(first[a]) : k < l =>
              LET x == Rows(first[a])[k].value  y == Rows(first[a])[l].value IN
              /\ x # y
              /\ Rank(x) < Rank(y) \/ (Rank(x) = Rank(y) /\ FieldOf(x) <= FieldOf(y))
      BY RowsSorted
    <3>1. /\ v # w
          /\ Rank(v) < Rank(w) \/ (Rank(v) = Rank(w) /\ FieldOf(v) <= FieldOf(w))
      BY <2>2, <2>4, <3>0
    <3> QED
      BY <3>1 DEF v, w
  <2> QED
    BY <2>1, <2>3, <2>4
<1> DEFINE T == {r.value : r \in ToSet(flat)}
<1>12. T = {flat[i].value : i \in 1..Len(flat)}
  BY <1>7
<1>13. {<<r.value, r.rank>> : r \in ToSet(flat)} = {<<v, Rank(v)>> : v \in {v \in Found : v[1] \in ToSet(first)}}
  <2> DEFINE listed == {v \in Found : v[1] \in ToSet(first)}
  <2>1. {<<r.value, r.rank>> : r \in ToSet(flat)} = {<<flat[i].value, flat[i].rank>> : i \in 1..Len(flat)}
    BY <1>7
  <2>2. \A v : v \in listed <=> ofShown(v)
    OBVIOUS
  <2> HIDE DEF listed, ofShown
  <2>3. \A i \in 1..Len(flat) : flat[i].value \in listed /\ flat[i].rank = Rank(flat[i].value)
    BY <1>9, <2>2
  <2>4. \A v \in listed : \E i \in 1..Len(flat) : flat[i].value = v /\ flat[i].rank = Rank(v)
    BY <1>9, <1>10, <2>2
  <2>5. {<<flat[i].value, flat[i].rank>> : i \in 1..Len(flat)} = {<<v, Rank(v)>> : v \in listed}
    BY <2>3, <2>4
  <2> QED
    BY <2>1, <2>5 DEF listed
<1>14. Len(flat) = Cardinality(T)
  <2> DEFINE f == [i \in 1..Len(flat) |-> flat[i].value]
  <2>1. \A i, j \in 1..Len(flat) : i # j => flat[i].value # flat[j].value
    <3>1. \A i, j \in 1..Len(flat) : i # j => i < j \/ j < i
      BY <1>7
    <3> QED
      BY <1>11, <3>1
  <2>2. f \in Bijection(1..Len(flat), T)
    <3>1. f \in [1..Len(flat) -> T] /\ \A t \in T : \E i \in 1..Len(flat) : f[i] = t
      BY <1>12
    <3>2. \A i, j \in 1..Len(flat) : f[i] = f[j] => i = j
      BY <2>1
    <3> HIDE DEF f, T
    <3> QED
      BY <3>1, <3>2 DEF Bijection, Injection, IsInjective, Surjection
  <2>3. IsFiniteSet(1..Len(flat)) /\ Cardinality(1..Len(flat)) = Len(flat)
    <3>1. \A k \in Nat : IsFiniteSet(1..k) /\ Cardinality(1..k) = k
      BY FS_Interval
    <3> QED
      BY <1>7, <3>1
  <2> HIDE DEF f, T
  <2>4. ExistsBijection(1..Len(flat), T)
    BY <2>2 DEF ExistsBijection
  <2> QED
    BY <2>3, <2>4, FS_Bijection
<1>15. ASSUME NEW v \in T
       PROVE  FieldOf(v) >= Field.description => Normal(TextOf(v)) \notin Placeholders
  <2>0. PICK i \in 1..Len(flat) : v = flat[i].value
    BY <1>12
  <2>1. v \in IndexedValues
    BY <1>1, <1>8, <2>0
  <2> QED
    BY <2>1, ValuesIndexed DEF SearchInv
<1> QED
  BY <1>7, <1>11, <1>13, <1>14, <1>15 DEF RowsRight, flat, seqs

(* What a search knows when it has answered is what an answer promises. *)
LEMMA AnswerBest ==
    ASSUME SearchInv, KeysKept
    PROVE  SearchFindsBest
<1> SUFFICES ASSUME lookup = "answered", NEW k \in sought.kinds
             PROVE  LET g == groups[k]
                        eligible == Eligible(k)
                    IN  /\ ToSet(g.subjects) \subseteq eligible
                        /\ Len(g.subjects) <= sought.limit
                        /\ \A i, j \in DOMAIN g.subjects : i < j => Precedes(g.subjects[i], g.subjects[j])
                        /\ \A s \in ToSet(g.subjects) : \A t \in eligible \ ToSet(g.subjects) : Precedes(s, t)
                        /\ g.truncated <=> eligible # ToSet(g.subjects)
                        /\ g.truncated => Len(g.subjects) = sought.limit
                        /\ RowsRight(g.rows, g.subjects)
  BY DEF SearchFindsBest, Eligible, RowsRight
<1>1. CASE Query = <<>>
  <2>1. groups[k] = [subjects |-> <<>>, rows |-> <<>>, truncated |-> FALSE]
    BY <1>1 DEF SearchInv, AnswerGiven
  <2>2. Found = {} /\ Eligible(k) = {}
    BY <1>1 DEF Found, Eligible
  <2>3. ToSet(<<>>) = {} /\ DOMAIN <<>> = {} /\ Len(<<>>) = 0
    BY DEF ToSet
  <2>4. sought.limit \in Nat
    BY DEF SearchInv, WellAsked
  <2>5. RowsRight(<<>>, <<>>)
    <3>1. Cardinality({}) = 0
      BY FS_EmptySet
    <3>2. {r.value : r \in {}} = {} /\ {<<r.value, r.rank>> : r \in {}} = {}
      OBVIOUS
    <3> QED
      BY <2>2, <2>3, <3>1, <3>2 DEF RowsRight
  <2> QED
    BY <2>1, <2>2, <2>3, <2>4, <2>5
<1>2. CASE Query # <<>>
  <2> DEFINE first == groups[k].subjects
             flat == groups[k].rows
  <2>1. groups[k] = KindGroup(k)
    BY <1>2 DEF SearchInv, AnswerGiven
  <2>2. /\ first \in Seq(Eligible(k)) /\ Len(first) <= sought.limit
        /\ \A i, j \in DOMAIN first : i < j => Precedes(first[i], first[j]) /\ first[i] # first[j]
        /\ \A s \in ToSet(first) : \A t \in Eligible(k) \ ToSet(first) : Precedes(s, t)
        /\ groups[k].truncated <=> Eligible(k) # ToSet(first)
        /\ groups[k].truncated => Len(first) = sought.limit
        /\ flat = FlattenSeq(Map(Rows, first))
    BY <1>2, <2>1, SubjectsShown
  <2> HIDE DEF first, flat
  <2>3. RowsRight(flat, first)
    BY <1>2, <2>2, RowsShown
  <2>4. ToSet(first) \subseteq Eligible(k)
    BY <2>2 DEF ToSet
  <2> QED
    BY <2>2, <2>3, <2>4 DEF first, flat
<1> QED
  BY <1>1, <1>2

(* If no two subjects of a kind share a key, a search answers with the best        *)
(* subjects of each kind in order, all of them unless it says truncated, each with *)
(* a row for every value that matches, of the best type by which it does: exact,   *)
(* prefix, phrase or all words, whatever was published and asked.                  *)
THEOREM SearchesBest == KeysDiffer => (Spec => []SearchFindsBest)
<1> SUFFICES ASSUME KeysDiffer PROVE Spec => []SearchFindsBest
  OBVIOUS
<1>1. Init => KeysKept
  <2>1. SearchIdle => KeysKept
    BY DEF SearchIdle, KeysKept
  <2>2. SearchInit => KeysKept
    BY DEF SearchInit, KeysDiffer, KeysKept
  <2> QED
    BY <2>1, <2>2 DEF Init
<1>2. KeysKept /\ [Next]_navigationVars => KeysKept'
  <2> SUFFICES ASSUME KeysKept, [Next]_navigationVars PROVE KeysKept'
    OBVIOUS
  <2>1. subjects' = subjects
    BY DEF navigationVars, searchVars, Next, SearchNext, AnswerBlank, LookUpExact, LookUpPrefix, LookUpWord,
           RankWords, AnswerSearch
  <2> QED
    BY <2>1 DEF KeysKept
<1>3. SearchInv /\ KeysKept => SearchFindsBest
  BY AnswerBest
<1> QED
  BY <1>1, <1>2, <1>3, InitSearchInv, NextSearchInv, PTL DEF Spec
=============================================================================
