----------------------------- MODULE PathSearch -----------------------------
(* Ranked paths between two datasets: PathGraph.k_shortest and _Search.shortest  *)
(* of query/paths.py, called by GraphReadService.find_paths.  A search is run    *)
(* by a worker thread; the handler that waits for it may set its cancel event at *)
(* any time, which the search looks at between rounds.                           *)
EXTENDS Relationships

CONSTANTS PathGraphs,   \* the graphs to search
          PathRequests  \* records [from, to, k, maxEdges, allowed]

ASSUME PathsAssumption == \A r \in PathRequests :
    r.k \in Nat \ {0} /\ r.maxEdges \in Nat \ {0} /\ r.allowed \subseteq Multiplicities

VARIABLES
    request,    \* the request under way
    stage,      \* "idle", "first", "loop", "spurs", "found" (k_shortest is over), "answered"
    found,      \* the paths found, each a sequence of states
    candidates, \* the heap: spurs not yet chosen
    seen,       \* every path ever found or made a candidate
    spur,       \* where the next spur leaves the last path found
    cancelled,  \* the cancel event
    answer      \* the paths returned, and whether there are more

pathVars == <<request, stage, found, candidates, seen, spur, cancelled, answer>>
vars == <<graph, pathVars>>

-----------------------------------------------------------------------------
(* States: SOURCE, TARGET, and every definition twice                           *)

SOURCE == -1
TARGET == -2
Ready(d)   == 2 * d      \* ready to leave definition d
Arrived(d) == 2 * d + 1  \* arrived at definition d by a directed edge
Definition(s) == s \div 2
IsReady(s)    == s > 0 /\ s % 2 = 0
IsArrived(s)  == s > 0 /\ s % 2 = 1

EdgeCount(path) == Cardinality({i \in DOMAIN path : IsArrived(path[i])})

(* _simple: no definition occurs twice *)
Simple(path) ==
    LET inner == SelectSeq(path, LAMBDA s : s > 0)
    IN  Cardinality({Definition(inner[i]) : i \in DOMAIN inner}) = Len(inner)

(* _edge_pairs: a path as its directed edges, <<source, target>> definitions *)
Pairs(path) ==
    LET leaving == SelectSeq([i \in DOMAIN path |-> i], LAMBDA i : IsReady(path[i]))
    IN  [n \in DOMAIN leaving |-> <<Definition(path[leaving[n]]), Definition(path[leaving[n] + 1])>>]

(* The order of ranked paths: by length, then by edge IDs and where they start. *)
EdgeKey(pair) == EdgeId(pair[1], pair[2]) \o <<pair[1]>>
KeyLess(k, l) == \E i \in 1..3 : k[i] < l[i] /\ \A j \in 1..(i - 1) : k[j] = l[j]
RanksBefore(p, q) ==
    \/ Len(p) < Len(q)
    \/ /\ Len(p) = Len(q)
       /\ \E i \in DOMAIN p : /\ KeyLess(EdgeKey(p[i]), EdgeKey(q[i]))
                              /\ \A j \in 1..(i - 1) : p[j] = q[j]

-----------------------------------------------------------------------------
(* _Search.shortest: the 0-1 breadth-first search                               *)

(* _successors; those of one state all cost the same *)
Successors(s, blocked, removed) ==
    LET free(d) == d \notin blocked
        Keep(seq) == SelectSeq(seq, LAMBDA t : <<s, t>> \notin removed)
        here == Definition(s)
        ReadyOf(ds) == [i \in DOMAIN ds |-> Ready(ds[i])]
    IN  IF s = SOURCE
        THEN Keep(ReadyOf(SelectSeq(OnDataset(request.from), free)))
        ELSE IF IsArrived(s)
        THEN IF Node(here) = request.to
             THEN Keep(<<TARGET>>)
             ELSE Keep(ReadyOf(SelectSeq(OnDataset(Node(here)),
                                         LAMBDA d : d # here /\ free(d))))
        ELSE LET out == SelectSeq(Targets(here),
                            LAMBDA d : free(d) /\ Multiplicity(here, d) \in request.allowed)
             IN  Keep([i \in DOMAIN out |-> Arrived(out[i])])

Cost(s) == IF IsReady(s) THEN 1 ELSE 0  \* of the steps that leave s

(* One turn of the loop for the head of the queue: it is passed over if done, or *)
(* its successors that come nearer are queued, free ones in front.               *)
Turn(search, blocked, removed, budget) ==
    LET s     == Head(search.queue)
        rest  == Tail(search.queue)
        total == search.distance[s] + Cost(s)
        nearer == SelectSeq(Successors(s, blocked, removed), LAMBDA t :
            total <= budget /\ (t \in DOMAIN search.distance => total < search.distance[t]))
        Set(f, v) == [t \in DOMAIN f \cup ToSet(nearer) |-> IF t \in ToSet(nearer) THEN v ELSE f[t]]
    IN  IF s \in search.done
        THEN [search EXCEPT !.queue = rest]
        ELSE [queue    |-> IF Cost(s) = 0 THEN Reverse(nearer) \o rest ELSE rest \o nearer,
              distance |-> Set(search.distance, total),
              previous |-> Set(search.previous, s),
              done     |-> search.done \cup {s}]

NoPath == <<>>

Shortest(start, blocked, removed, budget) ==
    LET turns == 4 * Len(graph) + 4  \* a state is queued at most twice
        Over(search) == search.queue = <<>> \/ Head(search.queue) = TARGET
        After[n \in 0..turns] ==
            IF n = 0
            THEN [queue |-> <<start>>, distance |-> [t \in {start} |-> 0],
                  previous |-> <<>>, done |-> {}]
            ELSE LET before == After[n - 1]
                 IN  IF Over(before) THEN before ELSE Turn(before, blocked, removed, budget)
        last == After[turns]
        PathTo[s \in Int] == IF s = start THEN <<start>> ELSE Append(PathTo[last.previous[s]], s)
    IN  IF budget < 0 \/ last.queue = <<>> THEN NoPath ELSE PathTo[TARGET]
-----------------------------------------------------------------------------
(* k_shortest and find_paths                                                    *)

NoAnswer == [paths |-> <<>>, truncated |-> FALSE]

Fresh(label, r) ==
    /\ request = r
    /\ stage = label
    /\ found = <<>>
    /\ candidates = {}
    /\ seen = {}
    /\ spur = 1
    /\ cancelled = FALSE
    /\ answer = NoAnswer

NoRequest == [from |-> 0, to |-> 0, k |-> 1, maxEdges |-> 1, allowed |-> {}]
PathIdle  == Fresh("idle", NoRequest)
PathInit  == graph \in PathGraphs /\ \E r \in PathRequests : Fresh("first", r)

First ==
    LET first == Shortest(SOURCE, {}, {}, request.maxEdges)
    IN  /\ stage = "first"
        /\ IF first = NoPath
           THEN stage' = "found" /\ UNCHANGED <<found, seen>>
           ELSE stage' = "loop" /\ found' = <<first>> /\ seen' = {first}
        /\ UNCHANGED <<graph, request, candidates, spur, cancelled, answer>>

BeginRound ==
    /\ stage = "loop"
    /\ Len(found) <= request.k
    /\ ~cancelled
    /\ stage' = "spurs"
    /\ spur' = 1
    /\ UNCHANGED <<graph, request, found, candidates, seen, cancelled, answer>>

(* Mutated form: a spur has the whole budget again. *)
BudgetWhole(root) == request.maxEdges

Removed(root) ==
    LET n == Len(root) IN {<<path[n], path[n + 1]>> : path \in {p \in ToSet(found) : IsPrefix(root, p)}}
Budget(root) == request.maxEdges - EdgeCount(root)

(* the path that leaves the last one found after its first spur states *)
Spur ==
    LET root    == SubSeq(Last(found), 1, spur)
        blocked == {Definition(s) : s \in {t \in ToSet(Front(root)) : t > 0}}
        branch  == Shortest(Last(root), blocked, Removed(root), Budget(root))
        path    == Front(root) \o branch
    IN  /\ stage = "spurs"
        /\ spur < Len(Last(found))
        /\ spur' = spur + 1
        /\ IF branch # NoPath /\ path \notin seen /\ Simple(path)
           THEN candidates' = candidates \cup {path} /\ seen' = seen \cup {path}
           ELSE UNCHANGED <<candidates, seen>>
        /\ UNCHANGED <<graph, request, stage, found, cancelled, answer>>

(* heappop *)
Best(paths) == CHOOSE p \in paths : \A q \in paths \ {p} : RanksBefore(Pairs(p), Pairs(q))

EndRound ==
    /\ stage = "spurs"
    /\ spur = Len(Last(found))
    /\ IF candidates = {}
       THEN stage' = "found" /\ UNCHANGED <<found, candidates>>
       ELSE /\ found' = Append(found, Best(candidates))
            /\ candidates' = candidates \ {Best(candidates)}
            /\ stage' = "loop"
    /\ UNCHANGED <<graph, request, seen, spur, cancelled, answer>>

EndLoop ==
    /\ stage = "loop"
    /\ Len(found) > request.k \/ cancelled
    /\ stage' = "found"
    /\ UNCHANGED <<graph, request, found, candidates, seen, spur, cancelled, answer>>

(* the handler's task is cancelled: _dispatch_worker sets the event *)
Cancel ==
    /\ stage \notin {"idle", "answered"}
    /\ ~cancelled
    /\ cancelled' = TRUE
    /\ UNCHANGED <<graph, request, stage, found, candidates, seen, spur, answer>>

Kept == SubSeq(found, 1, IF Len(found) < request.k THEN Len(found) ELSE request.k)

Answer ==
    LET pairs == [i \in DOMAIN Kept |-> Pairs(Kept[i])]
    IN  /\ stage = "found"
        /\ stage' = "answered"
        /\ answer' = [paths     |-> SortSeq(pairs, RanksBefore),
                      truncated |-> Len(found) > request.k \/ cancelled]
        /\ UNCHANGED <<graph, request, found, candidates, seen, spur, cancelled>>

PathNext == First \/ BeginRound \/ Spur \/ EndRound \/ EndLoop \/ Cancel \/ Answer

PathSpec == PathInit /\ [][PathNext]_vars

-----------------------------------------------------------------------------
(* Reference: every path from request.from to request.to within the budget, as   *)
(* the documentation defines one.  It leaves a dataset through another           *)
(* definition than it arrived on, never uses a definition twice, and ends on     *)
(* first reaching the target.                                                    *)
DirectedEdges == {e \in Definitions \X Definitions :
    Related(e[1], e[2]) /\ Multiplicity(e[1], e[2]) \in request.allowed}

Used(path) == UNION {{path[i][1], path[i][2]} : i \in DOMAIN path}

PathsOf[n \in Nat] ==  \* of n directed edges, ended or not
    IF n = 1
    THEN {<<e>> : e \in {e \in DirectedEdges : Node(e[1]) = request.from}}
    ELSE UNION {{Append(p, e) : e \in {e \in DirectedEdges :
                    /\ Node(e[1]) = Node(Last(p)[2])
                    /\ Used(p) \cap {e[1], e[2]} = {}}} :
                p \in {p \in PathsOf[n - 1] : Node(Last(p)[2]) # request.to}}

Paths == UNION {{p \in PathsOf[n] : Node(Last(p)[2]) = request.to} :
                n \in 1..request.maxEdges}

(* Graphs in which every logical entity joins exactly two datasets, once each. *)
EntitiesJoinPairs ==
    \A d \in Definitions :
        /\ Len(Targets(d)) = 1
        /\ \A e \in ToSet(Targets(d)) : Node(e) # Node(d)

Answered == stage = "answered"
Returned == ToSet(answer.paths)

-----------------------------------------------------------------------------
(* Properties                                                                   *)

(* What is returned is ranked and free of repetitions, whatever was cancelled:   *)
(* the order in which rounds find paths is the order of k_shortest's docstring   *)
(* up to ties, and a spur found in two rounds counts once.  Without a filter and *)
(* between different datasets no path uses a definition twice.                   *)
SoundAndRanked ==
    Answered =>
        /\ Len(answer.paths) <= request.k
        /\ \A i, j \in DOMAIN answer.paths : i < j => RanksBefore(answer.paths[i], answer.paths[j])
        /\ request.allowed = Multiplicities /\ request.from # request.to => Returned \subseteq Paths

(* Where every logical entity joins two datasets, as in the tests, the returned  *)
(* paths are k shortest ones.  A cancelled search returns the shortest there are *)
(* too, only fewer, and says that it is truncated; one that is not cancelled     *)
(* says so exactly if there are more.                                            *)
KShortestOnPairs ==
    Answered /\ EntitiesJoinPairs /\ request.from # request.to =>
        /\ Returned \subseteq Paths
        /\ \A p \in Returned, q \in Paths \ Returned : Len(p) <= Len(q)
        /\ Paths # Returned => answer.truncated
        /\ ~cancelled => /\ Paths = Returned => ~answer.truncated
                         /\ Len(answer.paths) < request.k => Paths = Returned

(* "It searches for k + 1 paths, and truncated reports whether the extra one     *)
(* exists": an answer that is not truncated leaves no path out.                  *)
TruncatedTells == Answered /\ ~answer.truncated => Paths \subseteq Returned
=============================================================================
