-------------------------------- MODULE Joins --------------------------------
(* What the derived claims promise to an agent that joins real datasets along    *)
(* the relationships of the graph, as find_paths and get_edges show them.  The   *)
(* datasets are any for which the claims of the entity definitions are true.     *)
(* The agent starts from one record and follows one directed edge at a time.     *)
EXTENDS Derivation, FiniteSets

CONSTANTS JoinGraphs, \* graphs: functions from definitions to their records
          JoinDatasets, \* the datasets
          Entities,   \* the logical entities
          RowSets,    \* the sets of records a dataset may have
          Values,     \* keys
          Null        \* no key

ASSUME JoinAssumption ==
    /\ Null \notin Values
    /\ \A g \in JoinGraphs : \A d \in DOMAIN g :
           g[d].node \in JoinDatasets /\ g[d].identity \in Entities /\ Accepted(g[d])

VARIABLES
    joinGraph,  \* the graph that was published
    rows,       \* the records of each dataset
    key,        \* key[d][r]: the key that definition d gives record r, or Null
    population, \* the keys of the instances of each logical entity
    at,         \* the dataset of the records joined so far
    joined,     \* those of its records that the starting record leads to
    narrow,     \* every edge followed so far leads to at most one record
    sure        \* every record has a match along every edge followed so far

world    == <<joinGraph, rows, key, population>>
joinVars == <<world, at, joined, narrow, sure>>

-----------------------------------------------------------------------------
(* What the claims of an entity definition assert of the dataset (graph-model.md *)
(* 1.10 to 1.13).  Partial, many, not total, not conforming and unknown are      *)
(* taken to assert nothing of its records, which is their weakest reading: the   *)
(* datasets of any stronger one are among those of this.                         *)

RowsOf(d) == rows[joinGraph[d].node]
KeysOf(d) == {key[d][r] : r \in RowsOf(d)} \ {Null}
PopulationOf(d) == population[joinGraph[d].identity]

UniverseHolds(d) ==
    joinGraph[d].universe = "complete" => KeysOf(d) = PopulationOf(d)

UniqueHolds(d) ==
    joinGraph[d].unique = "one" =>
        \A r, s \in RowsOf(d) : key[d][r] = key[d][s] /\ key[d][r] # Null => r = s

TotalHolds(d) ==
    joinGraph[d].total = "yes" => \A r \in RowsOf(d) : key[d][r] # Null

ConformsHolds(d) ==
    joinGraph[d].conforms = "yes" => KeysOf(d) \subseteq PopulationOf(d)

ClaimsHold == \A d \in DOMAIN joinGraph :
    UniverseHolds(d) /\ UniqueHolds(d) /\ TotalHolds(d) /\ ConformsHolds(d)

-----------------------------------------------------------------------------
(* Sentences                                                                    *)

(* Mutated form: the count of the other direction. *)
CountReversed(multiplicity, existence) ==
    CASE multiplicity[1] = "one"  -> IF existence = "always" THEN "exactly one" ELSE "at most one"
      [] multiplicity[1] = "many" -> IF existence = "always" THEN "one or more" ELSE "any number"
      [] OTHER -> "an unknown number"

(* _claim of akg/export.py: how many rows of the target it says a row matches,   *)
Count(multiplicity, existence) ==
    CASE multiplicity[2] = "one"  -> IF existence = "always" THEN "exactly one" ELSE "at most one"
      [] multiplicity[2] = "many" -> IF existence = "always" THEN "one or more" ELSE "any number"
      [] OTHER -> "an unknown number"

(* and how it ends.  That a match is optional permits rows without one and       *)
(* asserts none (graph-model.md 3.3), whatever these words say.                  *)
Ending(existence) ==
    CASE existence = "always"   -> "every row does"
      [] existence = "optional" -> "some match none"
      [] OTHER -> "whether every row does is unknown"

-----------------------------------------------------------------------------
(* Joining                                                                      *)

Matches(a, r, b) == {s \in RowsOf(b) : key[b][s] = key[a][r] /\ key[a][r] # Null}

JoinInit ==
    /\ joinGraph \in JoinGraphs
    /\ rows \in [JoinDatasets -> RowSets]
    /\ population \in [Entities -> SUBSET Values]
    /\ key \in [DOMAIN joinGraph -> [UNION RowSets -> Values \cup {Null}]]
    /\ ClaimsHold
    /\ at \in JoinDatasets
    /\ \E r \in rows[at] : joined = {r}
    /\ narrow = TRUE
    /\ sure = TRUE

JoinIdle ==
    /\ joinGraph = <<>> /\ rows = <<>> /\ population = <<>> /\ key = <<>>
    /\ at = 0 /\ joined = {} /\ narrow = FALSE /\ sure = FALSE

(* the agent joins its records along the directed edge from a to b *)
JoinAlong(a, b) ==
    /\ a # b
    /\ Joinable(joinGraph[a], joinGraph[b])
    /\ joinGraph[a].node = at
    /\ at' = joinGraph[b].node
    /\ joined' = UNION {Matches(a, r, b) : r \in joined}
    /\ narrow' = (narrow /\ DerivedMultiplicity(joinGraph[a], joinGraph[b])[2] = "one")
    /\ sure' = (sure /\ DerivedMatchExistence(joinGraph[a], joinGraph[b]) = "always")
    /\ UNCHANGED world

JoinNext == \E a, b \in DOMAIN joinGraph : JoinAlong(a, b)

JoinSpec == JoinInit /\ [][JoinNext]_joinVars

-----------------------------------------------------------------------------
(* Properties                                                                   *)

(* The joined records are records of the dataset reached. *)
JoinTypeOK ==
    /\ at \in JoinDatasets /\ joined \subseteq rows[at]
    /\ narrow \in BOOLEAN /\ sure \in BOOLEAN

(* Edges whose derived multiplicity is many-to-one or one-to-one, the ones a     *)
(* caller of find_paths keeps with allowed_multiplicities, never multiply the    *)
(* records of a join, however many of them are followed.                         *)
NarrowJoinsNeverFanOut == narrow => \A r, s \in joined : r = s

(* Edges whose derived match existence is always never lose the record a join    *)
(* started from.                                                                 *)
SureJoinsMatch == sure => joined # {}

(* What a sentence says of the rows that a row matches. *)
Counted(count, matches) ==
    /\ count \in {"exactly one", "at most one"} => \A s, t \in matches : s = t
    /\ count \in {"exactly one", "one or more"} => matches # {}

(* What the Markdown of an AKG document says in words of a directed edge is true *)
(* of any datasets of which the claims of the definitions are: each row matches  *)
(* as many as the sentence counts, and every row matches where it says so.       *)
(* Nothing is said of "some match none", which would need a stronger reading of  *)
(* the claims than 3.3 has of optional.                                          *)
SentencesHold ==
    \A a, b \in DOMAIN joinGraph :
        Joinable(joinGraph[a], joinGraph[b]) =>
            LET multiplicity == DerivedMultiplicity(joinGraph[a], joinGraph[b])
                existence    == DerivedMatchExistence(joinGraph[a], joinGraph[b])
            IN  /\ \A r \in RowsOf(a) : Counted(Count(multiplicity, existence), Matches(a, r, b))
                /\ Ending(existence) = "every row does" => \A r \in RowsOf(a) : Matches(a, r, b) # {}
=============================================================================
