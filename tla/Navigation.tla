----------------------------- MODULE Navigation -----------------------------
(* The methods of service/read.py over one loaded snapshot, and what an agent    *)
(* then does with the relationships they show.  A request is a path search, a    *)
(* connecting subgraph, an expansion, a lookup or a lexical search, each on the  *)
(* snapshot alone.                                                               *)
EXTENDS PathSearch, ConnectingTree, Neighbourhood, Lookups, Search, Joins

navigationVars == <<graph, pathVars, treeVars, neighbourVars, lookupVars, searchVars, joinVars>>

(* one request, or one join of real datasets *)
Init ==
    \/ PathInit /\ TreeIdle /\ NeighbourIdle /\ LookupIdle /\ SearchIdle /\ JoinIdle
    \/ TreeInit /\ PathIdle /\ NeighbourIdle /\ LookupIdle /\ SearchIdle /\ JoinIdle
    \/ NeighbourInit /\ PathIdle /\ TreeIdle /\ LookupIdle /\ SearchIdle /\ JoinIdle
    \/ LookupInit /\ PathIdle /\ TreeIdle /\ NeighbourIdle /\ SearchIdle /\ JoinIdle
    \/ SearchInit /\ graph = <<>> /\ PathIdle /\ TreeIdle /\ NeighbourIdle /\ LookupIdle /\ JoinIdle
    \/ JoinInit /\ graph = <<>> /\ PathIdle /\ TreeIdle /\ NeighbourIdle /\ LookupIdle /\ SearchIdle

Next ==
    \/ PathNext /\ UNCHANGED <<treeVars, neighbourVars, lookupVars, searchVars, joinVars>>
    \/ TreeNext /\ UNCHANGED <<pathVars, neighbourVars, lookupVars, searchVars, joinVars>>
    \/ NeighbourNext /\ UNCHANGED <<pathVars, treeVars, lookupVars, searchVars, joinVars>>
    \/ LookupNext /\ UNCHANGED <<pathVars, treeVars, neighbourVars, searchVars, joinVars>>
    \/ SearchNext /\ UNCHANGED <<graph, pathVars, treeVars, neighbourVars, lookupVars, joinVars>>
    \/ JoinNext /\ UNCHANGED <<graph, pathVars, treeVars, neighbourVars, lookupVars, searchVars>>

Spec == Init /\ [][Next]_navigationVars

-----------------------------------------------------------------------------
(* Properties                                                                   *)

(* k_shortest: the k first of all simple paths in rank order, and truncated says *)
(* whether there are more (on graphs with one relationship between two datasets  *)
(* at a time, see PathSearch); a cancelled search returns a part of them.        *)
RankedShortest == SoundAndRanked /\ KShortestOnPairs

(* connecting_tree: a tree over the terminals, disconnected only if they are,    *)
(* and not twice as large as the smallest there is.                              *)
SmallTree == TreeOrDisconnected /\ WithinTwiceSteiner

(* expand: what the caps leave is near and dangles nowhere, and nothing is left  *)
(* out of an answer that is not called truncated.                                *)
CappedAndWhole == CappedStaysNear /\ WholeUnlessTruncated
=============================================================================
