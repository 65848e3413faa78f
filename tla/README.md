# A verification project for data-ontology-graph

The program publishes a *data ontology graph* (datasets, the entity definitions
on them, and the relationships between them that follow from shared logical
entities) as one artifact directory, and serves it over JSON-RPC on a Unix
socket to agents that look things up, search paths, connect datasets and expand
neighbourhoods.  This directory holds TLA+ models of it, TLC configurations that
check them on small instances, and TLAPS proofs of what holds for every instance.

- [System](#1-the-system) · [Modules](#2-modules-and-the-code) ·
  [Runs](#3-runs) · [Fairness](#4-fairness) · [Proofs](#5-proofs) ·
  [Disagreements found](#6-where-the-code-and-its-documents-disagree) ·
  [Not modelled](#7-what-is-not-modelled) · [Plan](#8-plan)

Paths below are relative to `src/src/data_ontology_graph/` unless they start
with `skills/`, `tests/` or `project_metadata/` (all under `src/`).

To check: `tlc -workers 2 -config X.cfg MCModule` for a run, `tlapm XProofs.tla`
for a proof.  `PROJECT.json` lists the runs, the source lines each definition
stands for, the hazards, and for each property a change to the model under
which the run finds it violated.

## 1. The system

| Component | State it keeps | Operations | Interacts with |
|---|---|---|---|
| Artifact store (`store/snapshot_store.py`, `builder/publish.py`) | the current-artifact directory, `.new-` and `.previous-` directories beside it | `publish` (pre-check, stage, validate, swap, clean), `load` | every publisher, service and lifecycle command shares the path; nothing locks it |
| RPC server, requests (`rpc/server.py`, `rpc/protocol.py`) | handler tasks, navigation semaphore, worker threads, cancel events | `_handle`, `_dispatch`, `_execute`, `close` | clients; read service in worker threads |
| RPC server, socket (`rpc/server.py`) | the socket path, its own device and inode | `_prepare_socket_path`, `start`, `close`, signal handler | other server processes, lifecycle commands |
| Lifecycle (`rpc/launchd.py`, `skills/.../service.py`) | the property list, the launchd job | setup, start, stop, reload, status | artifact store (does it load?), socket (does it answer?) |
| RPC client (`rpc/client.py`) | none | one blocking call | server |
| Path search (`query/paths.py`) | found paths, candidate heap, seen set | `k_shortest`, `shortest` | run by a worker thread, cancelled by its handler |
| Connecting subgraph (`query/connecting.py`) | regions, boundary edges, union-find | `connecting_tree` | one worker thread |
| Neighbourhood (`query/neighbourhood.py`) | distances, frontier | `expand`, `group_edges` | one worker thread |
| Relationship derivation (`model/derivation.py`, `model/relationship.py`) | none | `derive_relationships` and the claims | builder, loader, all navigation |
| Read service (`service/read.py`, `views.py`, `tables.py`) | one immutable snapshot | the JSON-RPC methods | navigation, search |
| Search (`service/search.py`) | the searchable objects of a snapshot and a static trie of their terms | `search` | read service |
| Intermediary builder (`builder/`) | an accumulating report | assemble and validate a YAML directory, build its graph, report unknown claims | publish |
| AKG files (`akg/`) | one JSON file, rewritten | check, finalize (resolve over RPC), export | RPC client |
| Query proxy (`skills/.../query.py`) | context and traversal files | proxy one call and record what it showed | RPC client, AKG files |

### What is hard in it

- **Publication without a lock** (interleaving, crash, partial failure).  The
  swap is two renames.  Between them the target does not exist; either may fail,
  as may the restoring rename; the process may die between any two; another
  publisher or a load may come at any step.  Correct means: the target is only
  ever a whole artifact or absent, what was in service can be brought back, what
  is not an artifact is never moved, and a load never mixes builds.
- **One event loop, worker threads, and shutdown** (interleaving, liveness).
  A cancelled handler waits for a thread that cannot be killed; slots, cancel
  events, queued work and `wait_closed()` must line up.  Correct means: never
  more navigations than slots (the running threads count, not the handlers),
  answers match requests in order or do not come at all, nothing runs after
  `close()`, and lookups pass slow navigations.
- **One path, several server processes** (interleaving, crash, stale state).
  The path is looked at, probed, unlinked, bound and unlinked again by name.
  Correct means: a service that is up is the one that clients find, leftovers of
  dead processes never stop a start, and foreign files are never touched.
- **Yen's algorithm over a product of definitions and multiplicities**
  (bookkeeping over rounds, cancellation between them, boundary values).
  Correct means: the k shortest, in rank order, none twice, and `truncated` says
  whether there are more.
- **Regions grown in parallel with an early stop** (order of discovery).
  Correct means: the same tree as without the early stop, a tree, at most twice
  the smallest, and "disconnected" only of what is.
- **Expansion capped twice.**  Correct means: the nearest, complete unless
  called truncated, without dangling edges.
- **Claims derived from claims.**  Correct means: whoever joins real data
  along edges called *one* or *always* finds what those words say.
- **Commands around launchd** (stale reads, sleeps in place of waits, restarts).
  A command asks launchd, then the socket, then acts on both answers, while other
  commands, a publication and launchd's own restarts go on.  Correct means: what
  it says was so while it ran, what it does fits the job unless another command
  came between, `reload` ends with the new artifact served, and a killed service
  comes back.
- **Read-modify-write of files by commands that overlap** (AKG, query proxy).
  Nothing locks the context, the traversals or the document; a finalize reads,
  asks the service a dozen times, and writes.  Correct means: what is written is
  one document that was checked and resolved as written, a recorded answer is
  whole, and what is saved is undone only by a call that overlapped.
- **A directory read in two passes** (builder).  Files are checked, listed, and
  read later.  Correct means: exactly the well-formed directories are accepted,
  and nothing inconsistent is, whatever is rewritten between the passes.
- **Search by several lookups** (order of discovery, limits).  A value is met by
  exact lookup, by prefix and word by word, under several terms each.  Correct
  means: every match once, by its best type, ranked, and cut only where the answer
  says so.
- **Lookups by ID.**  A relationship is stored once and shown in two directions,
  and both its ends may lie on one dataset.  Correct means: what a lookup shows is
  what navigation shows there.
- **Names made into texts and read back.**  IDs join names by characters that
  names may hold; labels quote names and are split again by hand.  Correct means:
  two things never get one name, and what was written is what is read.
- **A setup beside what it sets up** (stale state, crash).  The property list is
  rewritten in two steps while commands read it and while launchd keeps the job as
  the list was.  Correct means: as long as it does not change under a service or a
  command, one service runs at most, the one that was set up.

## 2. Modules and the code

```
CurrentArtifact  <--implements--  ArtifactStore  <--  MCArtifactStore
                                        ^-----------  ArtifactStoreProofs
GraphServer      <--  MCGraphServer,  GraphServerProofs
ServiceSocket    <--  MCServiceSocket,  ServiceSocketProofs
     ^--- Lifecycle  <--  MCLifecycle,  LifecycleProofs
Derivation  <--  Joins  <---------------------------------+
     |                                                    |
     ^---  Relationships  <--  PathSearch, ConnectingTree,
     |                         Neighbourhood, Lookups  <--+--  Navigation  <--  MCNavigation
     |                                         Search  <--+     ^------  NavigationProofs
     ^---  GraphBuild     <-------+
AkgCheck  <--  AkgFinalize  <-----+
QueryProxy, AkgExport,            +--  FileCommands  <--  MCFileCommands
YamlAssembly, ServiceSetup  <-----+           ^---------  FileCommandsProofs, BuilderProofs
SequenceLemmas  <--  NavigationProofs, BuilderProofs
```

Some definitions exist twice, the second time as a *mutated form* marked so in
its comment (`PrecheckResultIgnored`, `BudgetWhole`, ...): a plausible slip
in the code, used only to show that a property would notice it.

### ArtifactStore (and CurrentArtifact)

One action per file-system call of `SnapshotStore.publish` and `load`, in the
code's order, so that calls interleave between an `exists()` and the rename that
relies on it.

| Model | Code |
|---|---|
| `target` | what the current-artifact path names: an artifact, a foreign directory, a plain file, nothing |
| `files[d]` | how many of the three files directory `d` has; a load needs two (`annotations.json` is optional), a published artifact has three |
| `staging`, `backup[c]` | the `.new-` candidate and the `.previous-` directory of a call |
| `CheckKind`, `Precheck`, `PrecheckResult` | an existing target must be a directory that loads (lines 49–56) |
| `MakeStaging`, `WriteFile`, `Validate` | stage and load back |
| `Swap`, `MoveCurrent`, `Promote`, `Restore`, `CleanStaging`, `DropBackup` | the two renames, the restore, the two removals |
| `ReadNodes` ... `ReadAnnotations`, `Finish` | a load opens the path anew for every file, asks `exists()` for the third, and compares the build times |
| `Begin`, `Crash` | a caller, and a kill at any step |

What is in the files is abstracted to *which directory they came from*:
`read[r]` remembers it per file, and `Accepts` is the envelope check over
`Version` (build times in seconds, which two builds may share).  Loads by
publishers (the pre-check, and the loading back of the candidate as a whole) and
by others use the same steps.  `latest` is a history variable.

`CurrentArtifact` is what publication promises without files: a call withdraws
the current artifact (`Withdraw`), and then replaces it (`Publish`), puts it back
(`PutBack`) or loses it (`Lose`); or it fails before it touches anything (`Fail`).
In the refinement mapping (`Register`) the current artifact *is* what the target
names, and nothing when the target is empty, between the renames or for good;
`Outcome` tells how a call has ended.  `Lose` needs a mishap (a kill, a failing
system call) or another artifact in service.  That nothing at all is lost, which the
documents promise, is `FailureKeepsCurrent`: it takes a kill or a failing restore to
break it (disagreement 5).  `ImplementsRegister` holds for any number of publishers.

### GraphServer

One handler per client.  The event loop is single-threaded, so a step of a
handler runs from one `await` to the next, and `LoopFree` lets nobody else on
the loop in between where a handler passes through several model steps without
awaiting.  Worker threads (`RunWorker`, `FinishWorker`) and clients (`Connect`,
`Send`, `ReadAnswer`, `Disconnect`) move at any time.

| Model | Code |
|---|---|
| `pc[c]` | the `await` at which the handler stands: reading, waiting for a slot, executing, draining, `wait_closed()` |
| `free`, `waiters`, `Wake`, `Acquire` | `asyncio.Semaphore`: value, queue, and the waiters that were woken and have not resumed |
| `pool`, `worker` | the executor's queue and threads: a cancelled future whose work has not started is dropped, one that runs goes on |
| `signalled`, `EventHeeded` | the cancel event; only `find_paths` looks at it |
| `attached`, `gone`, `unflushed` | connections that `wait_closed()` counts, clients that left, responses beyond the buffers |
| `BeginClose`, `Cancel*`, `Gathered`, `EndClose` | `close()` from the signal to the removal of the socket |

A line is a member of `Lines`: a call or batch of items, something answered
without being dispatched, or an oversized line.  A response is *large* when the
buffers between server and client do not hold it, so that `drain()` or
`wait_closed()` waits for the client.  A method that is a JSON array or object
(`badMethod`) raises before `dispatch()` sees it.

### ServiceSocket

`_prepare_socket_path`, `start`, the signal handler and the socket's part of
`close()`, one system call per action, for several processes over one path:
`Exists`, `Stat`, `Probe`, `Unlink`, `Bind`, `Listen`, `Chmod`, `Identify`,
`InstallHandler`; `Terminate` (SIGTERM: orderly only once the handler is
installed), `CloseExists`, `CloseStat`, `CloseUnlink`; `Die` at any step.  Each
process binds one socket, which stands for its device and inode.  Python 3.13
removes the socket of a closed server by itself: `Terminate` may.  `MayFill` are
the sockets whose backlog of connections may be full: their `Probe` is answered
or not (refused by the kernel, or a timeout), and what is not answered is
unlinked.

### Lifecycle

`ServiceSocket`'s processes as the ones launchd runs, with the commands around
them.

| Model | Code |
|---|---|
| `job`, `process`, `owed`, `doomed`, `Spawn`, `Reap`, `Obey` | launchd under the property list of `launchd_payload` (`KeepAlive.SuccessfulExit` = false): one process of the job at a time, replaced unless it ended in order; signalled processes end, in order or by SIGKILL |
| `LoadService`, `ServerMoves`, `serves` | `_run` loads the artifact, then takes the path as in `ServiceSocket` |
| `MoveAway`, `Promote`, `artifact`, `newest` | the two renames of a publication |
| `command[c]`, `BeginCommand` | a run of `run_launchd_action` ("lifecycle") or of `service.py` ("skill"), the call it has come to and what it has read: `loaded`, the process a probe reached (`peer`), whether it polls |
| `Loaded`, `CheckArtifact`, `Connect`, `Receive` | `launchctl print`; `CurrentArtifactStore.load`; the two halves of `socket_answers`, which has no timeout |
| `Operate` (`Load`, `Kick`, `Restart`, `Unload`), `BootoutReturns`, `Settle`, `GiveUp` | the launchctl operation and its failure; `bootout`'s return; the 0.2 s pause of a reload; the deadline |
| `witnessed`, `overlapped` | history: the states the service had while a status ran; whether another command ran meanwhile |

Assumed of launchd, and external in the map: it runs one process of the job at a
time, an operation that does not fit the job's state fails, `bootout` returns
when the job is gone.  `SleepSuffices` says that the pause outlasts the listening
of the process a reload has told to end.  The property list was written before
(`ServiceSetup` has that).  A process's name is used again when nothing refers to
it any more, so any number of restarts needs two names.

### Derivation, Relationships

`Derivation` states, over two definitions' claims, which are joined and what
follows: `DerivedMultiplicity`, `Conforming`, `Contained`,
`DerivedMatchExistence`.  It has no state: `Joins`, `Relationships` and `GraphBuild` use it.  `Relationships`
puts a graph on it.  A graph is the sequence of its definitions in key order; a
definition *is* its position, so comparing positions compares keys, and an edge
ID is a pair of positions in order.

### PathSearch, ConnectingTree, Neighbourhood

`PathSearch` is `k_shortest` round by round: `First`, `BeginRound`, one `Spur`
per position of the last path, `EndRound`, `EndLoop`, and `Answer` in
`find_paths`, with `Cancel` at any time.  `Shortest` is the 0-1 breadth-first
search over the states *at a dataset, ready to leave from a definition, arrived
at a definition by a directed edge* as a fold, deque and all.  States are small
integers (`SOURCE`, `TARGET`, `2d`, `2d + 1`).

`ConnectingTree` grows the regions one level per action (`GrowLevel`, with the
early stop at its end; `ChooseAtEnd` when the frontier is empty).  Candidates,
`Kruskal` and the `Chain`s back are folds; the union-find forest is abstracted
to the partition it stands for.

`Neighbourhood` is `expand` level by level (`ExpandLevel`), then `Present`: both
caps, the edge groups and `truncated` (`Presented`).  `get_edges` is the same at
depth 1 with its filters, and shows only the datasets its edges name
(`referencedOnly`); `Refuse` is the two refusals.  Datasets and the edges of a group
are sets here: the code's lists are sorted, so an order is a rank (`Selected`,
`FirstOf`), and a cap keeps those with fewer before them than it allows.

`PathSearch`, `ConnectingTree` and `Neighbourhood` were also run against the
Python functions on hundreds of random graphs; the results were equal.

### Lookups

`get_relationship`, `get_identity` and `get_dataset`, one action per outcome, with
the parameter checks that come first.

| Model | Code |
|---|---|
| `Stored`, `DirectedEdge`, `FromA` | a relationship with its ends in canonical order, and its view from one end |
| `DirectedEdgesOf` | what navigation shows of a dataset: `directed_edges_by_dataset` |
| `EdgeIds` | the snapshot's relationships by ID, of `derive_relationships` |
| `Matching` | the definitions of an entity with the universes asked for; replies hold sets of definitions, and `FirstOf` (of `Relationships`) is where their order shows |
| `MeantEnds`, `ReadRelationshipFrom` | `_edge_from`: the ends the caller may mean; none or both are refused |
| `RefuseRelationship`, `MissRelationship`, `MissObject`, `ReadRelationship`, `ReadIdentity`, `ReadDataset` | the other outcomes |

An edge ID is a pair of definitions here and in the searches; what its text may
confuse is `GraphBuild`'s subject.

### Search

`LexicalSearchIndex`: `SubjectsOf` a catalog in the order of its constructor, the
`entries` of the trie as pairs of a term and a value, and one action per lookup of
a query: `AnswerBlank`, `LookUpExact`, `LookUpPrefix`, `LookUpWord` for each word in
any order, `RankWords`, `AnswerSearch`.  Words are numbers, in alphabetical order;
`Begins` says which word starts which, and `NormalForm` is a table of what
normalization makes of a token (no word, one, or two).  `Consider` keeps the best
match of a value; `Rows`, `ShownBefore` and `KindGroup` are the sort and the limit.
`InOrder`
is `sorted`: each element after as many as come before it.  `Found` and `Rank` say what
matches from the documented order of match types alone.

### Joins

The reader of the graph, and what the derived words mean to it.  `rows`, `key`
and `population` are *any* datasets for which the claims of the definitions are
true (`ClaimsHold`); an agent starts at one record and follows directed edges
(`JoinAlong`).  `joined` is what its record has become; `narrow` and `sure` say
whether all edges so far ended in "one", or were called "always".  `Count` and
`Ending` are the two halves of the sentence that `akg/export.py` makes of a
derived claim.  The claims are read in their weakest sense: partial, many, not total
and not conforming permit, and assert nothing, as graph-model.md 3.3 has it of an
optional match.  So `SentencesHold` is about counts and "every row does" only; see
section 6 for "some match none".

### Navigation

Composes the six over one snapshot: a behaviour is one request of any kind, or
one join.  The requests do not interact, a snapshot is never changed.

### QueryProxy, AkgCheck, AkgFinalize, YamlAssembly

`QueryProxy` is one run of `query.py` per proxy, over the context (File A) and
the traversals (File B): `LoadContext` (with every refusal, `Refused`),
`SaveContext`, `TouchTraversals`, `CallService`, `AppendPiece` once per write of
the section, and `KillProxy` anywhere.  A context is its question and its names;
a section is the numbered pieces of it.  `PlacesOf`, `InOrder` and `InOnePiece` say
where in File B the pieces of a call are.  `beside` is history: the calls that
overlapped this one.

`AkgCheck` is `check_document` rule by rule, as sets of findings, without state.
`AkgFinalize` is the commands around it.

| Model | Code |
|---|---|
| `document`, `spare`, `content` | the inode at the document's path, the one at the path of the temporary file, and what is in each: a handle stays with its inode when that is renamed |
| `ReadDocument` | `load_payload`, `check_document`, the loading of a YAML source |
| `Calls`, `Precedes`, `NextCall`, `Resolve`, `Finding` | `resolve_document`: one JSON-RPC call per step, each answered by the graph served by then; a call is the place in the document that it asks about, and the next one is the first place left in the order of the loops |
| `OpenSpare`, `Fill`, `Replace` | `write_text` of the temporary file and `os.replace`, which fails if another command took the file away |
| `Edit`, `ServeAnother`, `KillAkg` | the author, a reload of the service, a kill |

`met` and `beside` are history: the graphs a command's calls were answered from, and
the commands that wrote when it did.  `facts` are the fields of a dataset record other
than its columns; those that the document or the record lacks are not compared
(`Alike`).  Of a directed-edge array the ends, the ID and the values of the standard positions
are modelled; `flaw` stands for what keeps one from being read.

`YamlAssembly` is `load_intermediary_yaml` of a single file (`ValidateOne`,
`LoadOne`: two reads) or a directory (`ReadManifest`, `CheckEntry` for each
entry, `Scan`, `ReadCollection` for each entry, `Validate`), with `Rewrite` of any
file in between.  `EntryRule` is what is wrong with one path of the manifest,
`CollectionRules` and `Repeats` what is wrong with one file beside those read before,
`Extended` how a file is joined to them.  A file is what the rules tell apart:
whether it parses, its keys, version, collections.  `DirectoryFits` says of all files
at once what the passes find out in pieces.

### GraphBuild

What the builder makes of an accepted payload, on names that are sequences of
code points.  What an intermediary may be is `IntermediariesAssumption`: names are not
empty, no two nodes have one ID, no two definitions of a node one key.

| Model | Code |
|---|---|
| `AllDefinitions`, `KeyOf` | `to_runtime`: the definitions with the dataset they lie on, known by `key` |
| `EdgeText`, `Side` | `edge_id_for` |
| `Derive`, `KeyLess` | `derive_relationships`, one logical entity per step, the ends in canonical order |
| `ValidateGraph`, `Reported` | `validate_graph`'s check that IDs differ, then the report of unknown claims |
| `WriteLabel`, `DefinitionLabel`, `Shown`, `Quoted` | the label of a directed edge, with JSON quoting where a name needs it |
| `ReadNode`, `ReadColumn`, `Decoded` | `split_edge_label`, position by position |

Of JSON's escapes those of the quote and the backslash are modelled; a control
character in a name, which JSON writes as a backslash and letters and reads back,
stands for itself.  `EveryPairOnce` speaks of names that are `Plain`: no `__` in a side
and no `_` at its end, so that the ends meet at the first `__`; no `:` in an entity or
a column, and no `+` in a column.  A dataset may have both, for it comes first.  What
can happen to names that are not plain is said in section 6.

### AkgExport

Of the Markdown that `akg/export.py` writes, what is computed and not just laid
out: `Alias` (the short name of a dataset, or all of it), and `_component_count`
with its forest: `TakeEdge`, `Climb` (one halving step of `root`), `Turn` (the other
end), `Meet`, `Count`.

### ServiceSetup

`setup` and the other commands around it, as maintainers give them.  `plist` is the
property list as it is (`Partial` between its truncation and its writing, or after
a kill there), `jobs` the configurations under which launchd has loaded jobs,
`operator[o]` the command of a maintainer: `BeginSetup`, `EmptyList`, `WriteList`;
`BeginAction`, `AskLoaded`, `ProbeFirst`, `Operate`, `Poll`.  A probe may be answered
if a job on that socket has an artifact that loads; what goes on inside the service
is `Lifecycle`'s subject.  `LogOut` takes all jobs away.  `disturbed` and `alone` are
history: whether the list was changed under a job or a command, and whether a
command had the service to itself.

### FileCommands

Composes the six programs, each on its own files: `family` says which of them a
behaviour runs.

## 3. Runs

| Run | Instance | Shows |
|---|---|---|
| `StoreConcurrent` | 3 publish calls, 2 at a time, 1 loader, 1 failing call, 1 kill, all starts of the path | the target is a whole artifact or absent (`CurrentIsComplete`); what was in service can be brought back (`ArtifactSurvives`); what is not an artifact is untouched (`ForeignUntouched`); a load is of one build if build times differ (`LoadsOneBuild`); a backup left behind was superseded (`OrphansAreSuperseded`); the gap between the renames closes, unless the publisher that opened it was killed (`TargetReturns`); what the target names changes only as `CurrentArtifact` says (`ImplementsRegister`) |
| `StoreSwapExposed` | 1 publisher, 1 loader, nothing fails | disagreement 1 |
| `StoreLeftEmpty` | 1 publisher, 2 failing calls, no kill | disagreement 5 |
| `ServerMixed` | 3 clients, 1 line each of 3 kinds, 1 slot, 2 threads, SIGTERM at any time | never more navigations than slots, and no slot idle while a handler waits for one (`SlotsKept`: `NavigationBounded`, `NoSlotIdle`); `AnswersMatchLines`, `ClosedIsQuiet`, `CancelStopsWork` |
| `ServerFair` | 2 clients, 4 kinds of lines | `RequestsServed` (`LookupsServed` and `NavigationsServed`), `CloseEnds` |
| `ServerBadMethod` | 1 client | disagreement 2 |
| `Lifecycle` | 2 commands of 6 kinds that may overlap, 2 process names, full backlogs, 1 publication, 1 kill anywhere | `ServiceReachable`, `RefusalJustified`, `SocketRemoved`; `ReloadServesNew`, `StatusWasTrue`, `BlockedOnlyIfOvertaken`, `LoadedServes` |
| `SocketRace` | 2 processes at once | disagreement 3 |
| `Navigation` | every graph of four families, 81 catalogs, every pair of claims, see below | paths: `RankedShortest` (`SoundAndRanked`, `KShortestOnPairs`); trees: `EarlyStopAgrees`, `SmallTree` (`TreeOrDisconnected`, `WithinTwiceSteiner`); expansions: `CappedAndWhole` (`CappedStaysNear`, `WholeUnlessTruncated`); lookups show what navigation shows (`LookedUpAsShown`); a search lists the best matches there are (`SearchFindsBest`); joins: `NarrowJoinsNeverFanOut`, `SureJoinsMatch`, and the numbers in the exported sentences are true (`SentencesHold`) |
| `PathsTruncated` | one graph | disagreement 4 |
| `FileCommands` | 3 proxied calls, 2 at a time, 1 failing write, 1 kill; 2 checks or finalizations of 7 documents against 2 graphs, 1 edit, 1 reload, 1 kill; 36 exports; 8 manifests over 75 directories, 1 rewrite; 51 builds; 2 maintainers, 4 configurations | recorded answers are whole (`EvidenceComplete`), saved context stays (`ContextKept`); a final document is a closed part of the graph it was resolved against, in its dataset facts, columns and edges, and its comparisons and gaps are about what it holds (`FinalIsSubgraph`); it is replaced as a whole unless two finalizations write at once, and then only by a text of one of them, an empty or a mixed one (`RewritesWhole`); the assembly accepts what it should and nothing inconsistent (`AcceptedAsWritten`: `AcceptsExactly`, `AcceptedIsConsistent`); an export counts the components there are and confuses no names (`ExportReads`); plain names never refuse a build, and labels are read back as written (`NamesReadBack`); one service at most, as it was set up, and true reports of it (`OneServiceAsSetUp`) |
| `DocumentTorn` | 2 finalizations at once, no edit, reload or kill | disagreement 6 |

### Bounds, and why they are enough

*Store.*  The steps of one call only read and write the target and the call's
own directories, so what can go wrong is a pair of calls around one change of
the target; a third call makes the history in which a restored or orphaned
artifact is older than the current one.  The theorems have no such bound.
*Server.*  One slot and two threads is the smallest setting in which a queue
forms and lookups have a thread of their own; three clients give a holder, a
woken waiter and one behind it.  One line per client: a handler returns to
`reading` in the state it started from.
*Socket.*  Two processes at once are what `SocketRace` is about.
*Lifecycle.*  launchd runs one process at a time, so a second name is needed only
for what the first left at the path or in a command's hand.  Two commands give
every order of one command's steps around another's; all kinds but the skill's
`stop`, which makes the same calls as the other one.  A second publication or
kill repeats the first; the theorems have no such bound.
*Navigation.*  Path searches: 4 datasets joined by 4 or 5 of 8 possible links,
two pairs of which are parallel; 6 definitions on 4 datasets under 2 shared
entities; k of 1 and 3, at most 4 edges, with and without a filter, and from a
dataset to itself.  Trees: 5 datasets with 4 or 5 links, the shared entities,
and rings of 7 with a chord (the smallest shapes found on which the early stop
has to wait a level, or a tree is not the smallest); 2 to 4 terminals.
Expansions: depth 0 to 2, each cap at 1, at a value between, and out of reach.
`KShortestOnPairs` speaks of graphs in which every entity joins two datasets;
elsewhere `PathsTruncated` shows what can be lost.  Lookups: two definitions on each
of two datasets, of one entity, of one but for one definition, and of two, with both
universes and uniquenesses; every edge, end and columns that may be named, and
ones that are not there.  Searches: 81 catalogs of one logical entity and two
datasets with definitions and columns, over five words, one of which starts
another twice, a token of two words, one of none and a placeholder; 12 requests with
limits of 1 and 50.  Joins: a claim speaks of two definitions and two records;
chains of three definitions, on data of one or two records and two keys.
*Files.*  What goes wrong between commands takes two of them around one write; the
third proxy saves after two have.  Two finalizations share the one temporary
file, a killed one leaves it to the other.  The seven documents are one that is
right; one with the datasets of one graph and the edge of the other; one with a fact of
the other graph; and one each with an edge to a dataset it lacks, with a comparison over
a column it does not list, with a gap about an edge it does not hold, and with an edge
taken the wrong way round.  Datasets A and B with one relationship have every kind of
call and finding.  One rewrite separates the two looks the assembly takes at a file.
*Exports.*  Four datasets and one that may be outside the document are the fewest
on which a path is halved and a root is not the end itself.
*Builds.*  Two datasets with two definitions, or keys of two columns; a name of each
kind of character that something marks: the separators of an ID, the delimiters and
quotes of a label, a backslash at the end, half an arrow.
*Setups.*  Two maintainers; labels and sockets that are the default or not, and an
artifact that does not load.

`CHECK_DEADLOCK FALSE` stands in the configurations whose system stops by
itself: a closed server, an answered request, processes all gone, a record with
no edge to follow, commands that are over.  The three store runs check deadlock.

## 4. Fairness

- **ArtifactStore**: weak fairness of the steps of each call in flight, since
  the process runs until it ends or is killed.  No fairness of beginning one, of
  kills, or of loads.  `TargetReturns` exempts the gap that a killed publisher left:
  nothing in the code closes that one.
- **GraphServer**: weak fairness of handler steps, of the executor starting
  queued work, of lookups ending, of clients reading what they were sent
  (`ReadAnswer`), and of `close()`.  The loop and the executor serve their
  queues in order.  Nothing says that navigations end, that a search looks at
  its event, or that a client leaves; where a property needs it, the premise is
  in the property: `NavigationsServed` assumes `NavigationsEnd`; `CloseEnds`
  assumes `EventHeeded` and `ClientsLeave`.  `LookupsServed` needs none of them
  but does need more threads than slots (the defaults are 2 slots and
  `min(32, cpus + 4)` threads).
- **Lifecycle**: weak fairness of what launchd does (`Spawn`, `Reap`, `Obey`), of
  the process's own steps (`LoadService`, `ServerMoves`), of the second rename of
  a publication that has begun, and of each command's next step.  None of giving
  commands, kills, deadlines and the first rename.  Weak fairness is enough:
  nothing but the action itself, or the loss of what it acts on, disables it.
- **ServiceSocket, Navigation, FileCommands**: safety only, no fairness.

## 5. Proofs

All theorems are of the specification for every value of the constants that the
assumptions in the modules allow; `tlapm` checks them to the last step.

**ArtifactStoreProofs.**  `PublishInv` is inductive: `TypeOK`; `PhaseInv` (how far a
call is tells what it has written, staged and moved away); `PlacementInv` (a
directory bears one name: never two backups, nor a backup and the target, and a
candidate its final one only once promoted); `ForeignInv` (what cannot be loaded
stops every call before it stages anything); `LoadInv` (what a load in progress
has accepted came from one directory); `CurrentIsComplete`; and
`ArtifactSurvives`.  The survival property alone is not inductive: that a restore
or a second promotion does not lose the last copy needs placement, and placement
needs the phases.  From it: `TypeCorrect`, `Survival`, `Completeness`,
`ForeignKept`, `NoMixedLoads` (assuming `VersionsDiffer`), and `Superseded`
(assuming restores fail only because the target is taken).  `FailuresKeepCurrent`
says what disagreement 5 takes: without kills, and with restores that fail only
because the target is taken, the target names what was last in service whenever no
call is in flight.  It rests on `WindowInv`, that an empty target is the open window of
one call, under whose backup name the artifact lies.  `Refinement` proves
`ImplementsRegister` without any assumption: `RegisterMove` says which changes of one
call's outcome are steps of `CurrentArtifact`, and `RegisterStep` goes through the
actions.  `CurrentArtifact` has no fairness.

**ServiceSocketProofs.**  `TypeCorrect` and `OthersKept` hold however processes
overlap.  `Reachable`, `RefusalsJustified` and `SocketsRemoved` assume
`MaxBusy = 1`, through `OneBusy` and `PhasePath` (in each phase of the one busy
process, what the path may name and which sockets listen); so does `ActiveKept`,
that no start takes the path from a service that is up.  They also assume
`MayFill = {}`, without which a probe says nothing of who listens.

**LifecycleProofs.**  Nothing is assumed about overlaps of commands here, and
`MaxBusy` may be anything.  `JobInv` (every process but the one launchd runs is
gone, and only that one is told to end) is inductive by itself and implies
`OneBusy`.  `SocketStep` shows that every step of the composed system is, to the
socket, a step of `ServiceSocket`, or of a process that exits before it begins or
has been reaped; so the lemmas of `ServiceSocketProofs` about single steps carry
over, and give `LifecycleReachable`, `LifecycleRefusals`, `LifecycleRemoves` and
`LifecycleKeeps`.  `MayFill` may be anything here too: a process that launchd runs
never probes a socket that listens (`NobodyListens`).

Of the commands, in the same module: `LifecycleTypeCorrect` needs `GraphInv` (between the renames
there is room for another version).  On it rest three invariants about what a
command holds in its hand.  `ReloadInv`: from its operation on, the process that
could answer a reload next, if any, has the version current when the reload
began or a later one, unless it is the one told to end, for which the pause
waits (`ReloadsServeNew`, assuming `SleepSuffices`).  `OverlapInv`: only commands
change what the job is, except that a removed one goes while its `bootout`
waits, so what a command without overlaps has read stays true
(`BlockedOnlyOvertaken`).  `StatusInv`: what a status may still say has been
witnessed (`StatusesWereTrue`); it needs that a job cannot go while its process
serves, and that a peer's name is not given to another process.

**GraphServerProofs.**  `IInv` is inductive.  Its first conjunct, `TypeOK`, is not
provable alone: that the semaphore's value never exceeds `Slots` needs
`SlotsAccounted` (the value and the slots held add up to `Slots`; a handler that was
woken holds one before it resumes, a cancelled one until its thread has stopped).
The accounting needs `QueueInv` (who waits or was woken stands in the semaphore's
queue, once, for a navigation) and `WorkInv` (a worker thread is at work exactly for
the handlers that wait for one, and stands in the executor's queue once).
`NoSlotIdle`, that a free slot and a waiter nobody has woken never meet, is a
conjunct of its own.  `LineInv` says of a handler at an `await` how the line it has
read is divided between replies and items to come; `CloseInv` what a connection
counts for and where a cancelled handler may stand.  From it, for any clients,
lines, slots and threads, and whatever is cancelled or closed when:
`ServerTypeCorrect`, `NavigationsBounded`, `SlotsUsed`, `AnswersInOrder`,
`QuietWhenClosed`, `CancelledSubmitNothing`.  The queue lemmas (`QueueAppend` and those
after it) say what appending, taking the first and taking out one leave of a queue
without repetition.

**FileCommandsProofs.**  The families of `FileCommands` share no variable, so each is
proved about alone, from `[Next]` of the composition restricted to its variables.

- `ProxyInv`, for any number of proxies and requests, writes that fail and kills:
  `ProxiesMeet` (calls under way at once know of each other), `ProxyOrder` (a call
  met only calls that began), `EvidenceInv` (the pieces a call has written are in
  File B in order, all of them when it says it navigated, and in one piece when it
  was alone) and `ContextInv` (what was saved is in File A, or in what each other
  call is about to save, unless a call that overlapped has saved).  `ContextKept`
  alone is not inductive: the name can be lost in the hand of a call that has yet to
  save.  From it: `Evidence`, `ContextStays`.
- `AkgInv`, for any number of checks, finalizations, edits, reloads and kills:
  `AkgMeet`; `FinalizeInv` (a finalize that overlaps no other has the temporary file
  to itself from its opening to its renaming); `SpareInv` (the temporary file holds the
  text of one that writes, of one that wrote beside it, or nobody's); `SourceInv` (what is about to be
  written passed the check, and each of its elements was found in a graph the
  command met, except for the calls it has left; what is marked final was so
  written, and nobody has touched it since).  From it: `FinalizedIsSubgraph` and the
  action property `DocumentRewrittenWhole`.
- `SetupInv`, for any maintainers and configurations: `AloneInv` (nothing runs beside
  a command that is said to be alone) and `RunsAsSetUp` (as long as the list was not
  changed under a job or a command: each job is what the list says and has an
  artifact that loads, each command holds the list as it is, and what a command alone
  has found or said is still so).  From it: `OneServiceRuns`.
- `ExportInv`, for any documents that `ExportAssumption` admits (finitely many
  datasets; edges lead from one of them to a node with a name).  `ForestTells` is its
  heart: the sets of datasets that no edge of the document leaves are those that no
  link of the forest crosses (`Uncrossed`) and that each edge left respects.  It says
  nothing of where a root is, so the halving of a path keeps it (`Halved`), and the
  joining of two roots trades the edge for the link (`Met`), for which `SearchTells`
  knows the root of either end.  `Grounded`, that from everywhere the links lead to a
  root, is what makes the count of roots a count of trees (`OneRootEach`, a
  bijection).  That a short name is nobody else's full name is `NamesApart`.  From it:
  `ExportsRead`.

Assumed: `FinalizeAssumption`, that names of commands are not used for the document
as it was first (`First`) or for no file (`None`); `DocumentsAssumption`, that a
document lists its datasets and a dataset its definitions.  File B and the calls of a
finalize are spoken of by places and not by filtered or flattened sequences: what
`SelectSeq` returns can be had only by an induction, and places say the same.

**BuilderProofs.**  *Assemblies*: `AssemblyInv`, for any manifests, directories and
files (the `AssemblyAssumption`: paths name files, nodes are sequences, no file is
called as the directory is) and any rewriting.  `StageInv` says what a stage of the run implies;
`HeldInv`, whatever is rewritten, that all that was read was in a file held since the
run began and that only what fits is accepted.  `UndisturbedInv` is the loop
invariant of the passes as long as nobody writes: the findings are empty exactly if
the entries or files passed so far satisfy their part of `DirectoryFits`
(`EntryFits`, `CollectionFits`, `OnceEach`), and then the payload is put together from
exactly their nodes (`PutTogether`).  That the parts say together what `DirectoryFits`
says at once is `FitsByPosition`; that a payload fits exactly if the files' nodes do,
wherever they lie in it, is `PayloadFits`.  From it: `AcceptsAsWritten`, which is
`AcceptsExactly` (complete and sound without writers) and `AcceptedIsConsistent`
(consistent with any).  `AcceptsExactly` alone is not inductive: a step of the last
pass says nothing of the files that the others passed.

*Builds*: `BuildInv`, for any names.  `GraphInv`: the relationships are those of the
logical entities that are not left (`EdgesOf`), a snapshot is refused only if two of
them have one ID, and the report is of them.  `LabelInv`: of a label that is read,
`ReadAs` names the definitions it was written for, where each of their columns stands
(`EndsAt`), how many have been read, and that nothing else was.  `LabelReadBack` alone
says only how the reading ends, so it is not inductive.  The steps need three kinds of
lemmas:

- *what a text is made of*: `JoinedMade`, `SideMade`, `EdgeTextMade`, `QuotedMade`,
  `LabelMade`, `EdgeLabelMade` say at which position what part stands;
- *that it is made in one way*: `JoinedApart` (parts without the mark between them are
  the same if the joined texts are), `ColonsMeet`, `SameSide` and `SameEdgeText` (of
  plain names, one ID has one pair of ends);
- *what is read of it*: `FindsFirst`, `ColumnRead`, and for a name in quotes
  `DecodedSays`.  A quote ends a name unless an odd number of backslashes stands before
  it; `EscapesInTurn`, that of two backslashes in a row exactly one escapes, gives by
  `EscapedInside` which positions of a quoted text are escaped, whatever quotes and
  backslashes the name has.

`KeysOrdered`, that keys are in a strict total order, gives `PairOnce`: of two
definitions of one entity exactly one pair is related.  `ClaimExplained` is a case
distinction over `Derivation`.  From `BuildInv`: `NamesRead`.

**SequenceLemmas** holds what several proofs need and no induction theorem can be
cited for: `Reaches` (a set that holds 0 and the successor of each of its numbers
holds all: by the least number outside), `FlattenPlaces` (where in a flattened sequence
the elements of its parts stand), `HasFirst` (a finite set that is partly ordered has a
first), `OneForEachRank`, `Sorts`, `LexicallyOrdered`.

**NavigationProofs.**  Of `Navigation`'s `Spec`.  *Joins*: `JoinInv` says that the
graph is one of the given graphs, that its claims hold of the datasets, and the
two properties of the join so far; `JoinInvariant`, that a behaviour joins so or
not at all.  The step uses three lemmas about `Derivation`:
`OneMatch` (an edge to "one" leads to at most one record), `ContainedKeys` and
`AlwaysMatches` (containment and totality give a match).  `NarrowJoins` and
`SureJoins` hold for chains of any length; `TrueSentences`, by `SentenceTrue`, for
every edge, of the counts and of "every row does".

*Lookups*: `LookupsAsShown`, for any graphs and requests that `LookupAssumption`
admits.  A reply is made in one step, so the invariant adds only `LookupTyped`; the
work is in what the reply says.  `RelatedBothWays` and `EdgeShown`: two related
definitions have one relationship, and it shows the claims of either direction from
the end where that starts.  `MeantByEnds`: the code counts the *ends* that a caller
may mean, the property the *directions* meant; there is one of the former exactly
when there is one of the latter, on one dataset too.  `FirstFew`: of a finite set of
numbers, those with fewer than `n` before them are the `n` first, and are all exactly
if there are no more; it is proved with `Ranked`, that ranks are a bijection
(`FS_Injection`), in place of an induction on the list.

*Expansion*: `NeighbourInv`, for any graphs and requests that `NeighbourAssumption`
admits, compares what `expand` has reached with `Within`, the recursive definition of
what lies at most so many relationships away: at depth `d` the distances are those to
`Within[d]`, each the true one, and the frontier is what only the last level added.
That `Within` satisfies its equations is `WithinLevels`; the library's theorems on
recursive functions take an operator as a parameter, so it is proved from `Reaches`
and `Repeats` (a step function has its iterates).  From it
`NearestKept` (whoever is nearer than a dataset that the cap keeps is kept),
`ReachedFrom` (a dataset at distance `d` has a neighbour at `d - 1` that was expanded)
and `AnswerShown` give the two halves of `CappedAndWhole`: `StaysNear`, and
`TruncatedTold`, for which a group is cut exactly if an edge of it is missing.
From it: `ExpansionHonest`.

*Searches*: `SearchInv`, for any vocabulary, catalogs and requests that
`SearchAssumption` admits.  The subjects are well formed and the trie is of their
values (`EntriesOf`); after each lookup, `best` has of every searched value that
matches by one of the types tried so far (`Tried`) its best match by those, and of no
other (`BestKept`); while the words of a query are looked up, `common` is the values
that hold each word met so far (`CommonKept`); what was answered is what
`KindGroup` makes of all that (`AnswerGiven`).  A step of a lookup is `Considered`,
which says what `Consider` adds, with `ExactFound`, `PrefixesFound` or
`WordsRanked`; that the place of the first match of each word, and the first row of
matches, exist exactly when `Places` has any is `WordsMatched`.  Of sorting, only that
each element stands after as many as come before it is used (`PutInOrder`), and that
texts, and so subjects and rows, are in a strict total order (`TextsOrdered`,
`SubjectsOrdered`, `RowsSorted`).  What `FlattenSeq` of the rows holds is `Flattened`, by
`Reaches`.  From it: `SearchesBest`.  Supposed is `KeysDiffer`, that no two subjects of a
kind share a key: two that also share rank and label would have no order.  Ids and
names differ by the checks of the model, but a key joins several of them by `|` and
`+` without quoting, so names that hold these could break it.  `MCNavigation`
checks it of the catalogs of its run (`CatalogsAssumption`).

**How the prover reads it.**  `tlapm` takes `UNION A \cup B` for `UNION (A \cup B)`, TLC
and SANY for `(UNION A) \cup B`; such operands are in parentheses (`AkgCheck`,
`AkgExport`, `GraphBuild`, `Neighbourhood`), so that all read the same formula.

**Only model-checked.**  Liveness (`TargetReturns`, `RequestsServed`, `CloseEnds`,
`LoadedServes`) is out of the prover's reach.  Of the safety properties three remain:
`RankedShortest` (the k shortest routes of any graph), `EarlyStopAgrees` and
`SmallTree` (a smallest connecting tree, whether or not the search stops early).
Each needs a textbook's proof of the algorithm: Yen's method over a 0-1 search with a
deque, Kruskal's over the meeting points of regions.  They compute by folds whose
operator is an argument, and what a fold returns can be had only by induction with a
predicate as a parameter, which these provers cannot instantiate.  Where a recursion is
a function on numbers, the least-number principle does instead (`Reaches`, `Repeats`);
here it would have to be done again for each fold, and these properties rely on the
families of inputs above.

## 6. Where the code and its documents disagree

1. `StoreSwapExposed` (`store/snapshot_store.py:23`).  A load that asks for
   `annotations.json` between the two renames takes a missing target for an
   artifact without annotations.  `project_metadata/product/non_functional.md:16`:
   "no replacement exposes a mixture of files from different builds".
2. `ServerBadMethod` (`rpc/server.py:141`).  `"method": []` raises `TypeError`
   outside every handler: the connection closes without an answer.
   `project_metadata/system_design/functional.md:19`: "Every call carries a
   request `id` and receives exactly one result or error."
3. `SocketRace` (`rpc/server.py:181`).  Two servers that start at once: one
   unlinks the socket of the other, which then serves a path nobody finds.
   `tests/test_json_rpc_service.py:246` calls that a failure: "second singleton
   replaced the active socket".  launchd starts one process at a time; a server
   started by hand beside it is not held back.
4. `PathsTruncated` (`query/paths.py:98`).  A spur that is not simple is
   dropped, and with it a simple one behind it; the answer is not truncated.
   `project_metadata/system_design/functional.md:49`: "`truncated` reports
   whether the extra one exists".
5. `StoreLeftEmpty` (`store/snapshot_store.py:74`).  When the promotion fails and the
   restore as well, or the publisher is killed between the two renames, there is no
   current artifact: the one that was lies under a hidden backup name, where nothing
   looks for it, and the next service does not start.
   `project_metadata/product/non_functional.md:16`: "A failed validation, build, or
   replacement leaves the existing current artifact unchanged";
   `project_metadata/system_design/functional.md:135`: publication "restores the prior
   artifact if promotion fails".
6. `DocumentTorn` (`akg/check.py:66`).  Every finalize of a document writes the same
   temporary file.  One fills it, another empties it to write its own text, the first
   renames it: the document is empty until the other has written, and stays so if that
   one is killed.  `akg/check.py:60`: "Replace the document atomically".

Met while modelling, without a run of their own:

An edge ID joins names by `:`, `+` and `__` (`model/relationship.py:125`).  The columns
`a` and `b` of one definition and the column `a+b` of another on the same dataset give
two relationships one ID, and the build of a valid intermediary is refused with "edge_id
values must be unique", though `project_metadata/product/graph-model.md:50` says that
"The graph build derives a relationship for every such pair".  `NamesReadBack` excludes
such names (`PlainNames`).

The export ends the sentence of an optional match with "some match none"
(`akg/export.py:160`); `project_metadata/product/graph-model.md:52` says that optional
permits zero matches "without asserting that an unmatched record was observed", and
`skills/query-graph-api/references/graph-api.md:181` says the same.  (The words would
follow from clause 1.12 of graph-model.md, by which a definition that is not total has
records with a null key; the models keep to the weaker 3.3.)

A dataset field that the served record does not have is passed over when a document is
resolved (`akg/resolve.py:137`), while `project_metadata/system_design/functional.md`
2.6.3 speaks of "every dataset field".

A server started by hand beside one that is up with a full backlog takes its path even
when nothing overlaps (`rpc/server.py:178`), since the kernel of macOS refuses the probe
then, or it times out, and either is taken for nobody listening (`ActiveSocketKept` with
`MaxBusy = 1` and `MayFill = Servers`; under launchd it cannot happen,
`LifecycleKeeps`).

The first shortest walk is not tested for being simple (`query/paths.py:80`), so that
under a filter of multiplicities a path may use a definition twice; `SoundAndRanked` and
`KShortestOnPairs` exclude those requests.

An AKG may record positions of a directed edge that the service's standard view does not
have (`annotation`); they pass `finalize` uncompared (`akg/resolve.py:126`).

Two proxied calls that create one context with different questions are both answered
under the later one's question.

The label of a dataset with a `[` in its ID is split at that bracket (`LabelReadBack`
excludes it).

## 7. What is not modelled

- *AKG schema key by key, the layout of the export's Markdown, the JSON schemas that
  the builder prints*: renderings and listings.
- *Detail levels, fields and the table or record form of answers* (`views.py`,
  `tables.py`), and the effective description of a column: they arrange what was found.
- *`detect_contradictions`* and the legacy form of cardinality, which no build calls;
  *pydantic* checks, which look at one record at a time.
- *RPC envelopes*: the JSON of requests is a kind of request.  *Home, command
  lines*: two environment variables and argument parsing.
- *The limits of the trie's record format* (`search.py:17`): a subject with more than
  65,535 values.  What normalization does to characters is a table.
- In modelled parts: inodes are not reused; SIGINT; Python before 3.12, whose
  `wait_closed()` does not wait for connections.
- `project_metadata` sections 3.3 and 3.6 of the graph model speak of evidence
  on a relationship for containment; the code has none, and neither has
  `Derivation`.
- In `Lifecycle`: a `launchctl` that hangs; two users; a service whose backlog is full
  when a *command* probes it (only `Probe` knows `MayFill`).

## 8. Plan

What may still be proved, in this order:

1. Of `PathSearch`, that an answer has at most k paths, each once, and that each is a
   route of the graph from the source to the target (parts of `RankedShortest`): they
   need of `Shortest` only that what it returns is a route, not that it is the
   shortest.
2. Of `ConnectingTree`, that what is returned is connected and names only edges of
   the graph (parts of `SmallTree`).
