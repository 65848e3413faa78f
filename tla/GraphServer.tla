----------------------------- MODULE GraphServer -----------------------------
(* The request path of rpc/server.py: one event loop runs a handler per client   *)
(* connection, hands every request to a pool of worker threads, lets a bounded   *)
(* number of graph navigations run at once, and on SIGTERM cancels the handlers  *)
(* and waits for what they started.                                              *)
(*                                                                               *)
(* The loop is single-threaded: a handler's step from one await to the next is   *)
(* atomic for the loop.  Worker threads and clients move at any time.            *)
EXTENDS Integers, Sequences, FiniteSets

CONSTANTS Clients,    \* client connections
          Lines,      \* the lines a client may send, see LinesAssumption
          Slots,      \* max_concurrent_navigation
          PoolSize,   \* threads of the event loop's default executor
          MaxLines    \* bound: lines a client sends on its connection

Navigations == {"path", "expand"}   \* only find_paths watches its cancel event
Items == Navigations \cup {"lookup", "badMethod"}

(* A line is a request or a batch ("call"), something answered without a request *)
(* being dispatched ("error": unparsable JSON, an empty batch), or too long.     *)
(* So it is calls, and nothing else, that have items.                            *)
(* A response may be too large for the buffers between server and client.        *)
(* A "badMethod" is a request whose "method" is a JSON array or object.          *)
ASSUME LinesAssumption ==
    /\ Lines \subseteq [kind : {"call", "error", "oversized"}, items : Seq(Items), large : BOOLEAN]
    /\ \A line \in Lines : line.kind = "call" <=> line.items # <<>>

ASSUME BoundsAssumption ==
    /\ IsFiniteSet(Clients)
    /\ Slots \in Nat \ {0} /\ PoolSize \in Nat \ {0} /\ MaxLines \in Nat

VARIABLES
    server,    \* "serving", then close(): "gathering", "waiting", "closed"
    pc,        \* pc[c]: the await at which the handler of c stands
    todo,      \* todo[c]: the items of the current line still to dispatch
    replies,   \* replies[c]: the items of the current line already answered
    inbox,     \* inbox[c]: lines sent and not yet read
    taken,     \* taken[c]: the items of the lines read, in order
    large,     \* clients whose current line gets a large response
    answers,   \* answers[c]: what was written back, one entry per answered line
    gone,      \* clients that have disconnected
    unflushed, \* clients with a response larger than the buffers, not yet read
    attached,  \* connections the asyncio server counts as open
    cancelled, \* handlers close() has cancelled
    worker,    \* worker[c]: the thread running the current item of c
    pool,      \* submitted work the executor has not started, in order
    signalled, \* clients whose cancel_event is set
    free,      \* value of the navigation semaphore
    waiters    \* its queue, the woken but not yet resumed included

conn  == <<inbox, taken, large, answers, gone, unflushed, attached>>
work  == <<worker, pool, signalled>>
slots == <<free, waiters>>
vars  == <<server, pc, todo, replies, cancelled, conn, work, slots>>

Init ==
    /\ server = "serving"
    /\ pc = [c \in Clients |-> "absent"]
    /\ todo = [c \in Clients |-> <<>>]
    /\ replies = [c \in Clients |-> <<>>]
    /\ inbox = [c \in Clients |-> <<>>]
    /\ taken = [c \in Clients |-> <<>>]
    /\ large = {}
    /\ answers = [c \in Clients |-> <<>>]
    /\ gone = {}
    /\ unflushed = {}
    /\ attached = {}
    /\ cancelled = {}
    /\ worker = [c \in Clients |-> "none"]
    /\ pool = <<>>
    /\ signalled = {}
    /\ free = Slots
    /\ waiters = <<>>

Goto(c, label) == pc' = [pc EXCEPT ![c] = label]
Registered == {c \in Clients : pc[c] \notin {"absent", "accepted", "finishing", "done"}}
Running == {c \in Clients : worker[c] = "running"}
Current(c) == Head(todo[c])

(* No handler is between two awaits: the loop may turn to another callback. *)
LoopFree == \A c \in Clients : pc[c] \notin {"dispatch", "answer"}

-----------------------------------------------------------------------------
(* asyncio.Semaphore: first come first served; a released slot goes straight to  *)
(* the first waiter that has neither been woken nor cancelled.                   *)

Unwoken(c) == pc[c] = "waiting" /\ c \notin cancelled
Locked == free = 0 \/ \E i \in DOMAIN waiters :
                          Unwoken(waiters[i]) \/ pc[waiters[i]] = "granted"

FirstUnwoken(n, queue) ==
    {queue[i] : i \in {i \in DOMAIN queue :
                          /\ Unwoken(queue[i])
                          /\ Cardinality({j \in 1..i : Unwoken(queue[j])}) <= n}}

(* a client waits in one place of the queue *)
Without(queue, c) ==
    LET at == CHOOSE i \in DOMAIN queue : queue[i] = c
    IN  SubSeq(queue, 1, at - 1) \o SubSeq(queue, at + 1, Len(queue))

(* Handler c goes on at `label` with `value` slots to give away, waking at most  *)
(* `most` of the handlers that wait in `queue`.                                  *)
Wake(c, label, value, most, queue) ==
    LET woken == FirstUnwoken(IF value < most THEN value ELSE most, queue)
    IN  /\ pc' = [d \in Clients |-> IF d = c THEN label
                                    ELSE IF d \in woken THEN "granted" ELSE pc[d]]
        /\ free' = value - Cardinality(woken)
        /\ waiters' = queue

(* leaving `async with self._navigation_slots` *)
Release(c, label) == Wake(c, label, free + 1, 1, waiters)

-----------------------------------------------------------------------------
(* Clients                                                                      *)

Connect(c) ==
    /\ LoopFree /\ server = "serving"
    /\ pc[c] = "absent"
    /\ Goto(c, "accepted")
    /\ attached' = attached \cup {c}
    /\ UNCHANGED <<server, todo, replies, cancelled, inbox, taken, large, answers, gone, unflushed,
                   work, slots>>

Send(c) ==
    /\ c \in attached \ gone
    /\ Len(inbox[c]) + Len(taken[c]) < MaxLines
    /\ \E line \in Lines : inbox' = [inbox EXCEPT ![c] = Append(@, line)]
    /\ UNCHANGED <<server, pc, todo, replies, cancelled, taken, large, answers, gone, unflushed,
                   attached, work, slots>>

ReadAnswer(c) ==
    /\ c \in unflushed \ gone
    /\ unflushed' = unflushed \ {c}
    /\ UNCHANGED <<server, pc, todo, replies, cancelled, inbox, taken, large, answers, gone,
                   attached, work, slots>>

Disconnect(c) ==
    /\ c \in attached \ gone
    /\ gone' = gone \cup {c}
    /\ UNCHANGED <<server, pc, todo, replies, cancelled, inbox, taken, large, answers, unflushed,
                   attached, work, slots>>

-----------------------------------------------------------------------------
(* _handle_client                                                               *)

StartHandler(c) ==
    /\ LoopFree
    /\ pc[c] = "accepted"
    /\ Goto(c, "reading")
    /\ UNCHANGED <<server, todo, replies, cancelled, conn, work, slots>>

(* The response is written; drain() waits only for one larger than the buffers. *)
Respond(c, label, response, big) ==
    /\ Goto(c, label)
    /\ answers' = [answers EXCEPT ![c] = Append(@, response)]
    /\ unflushed' = IF big THEN unflushed \cup {c} ELSE unflushed

ReadLine(c) ==
    /\ LoopFree
    /\ pc[c] = "reading" /\ c \notin cancelled
    /\ inbox[c] # <<>>
    /\ LET line == Head(inbox[c])
       IN  /\ inbox' = [inbox EXCEPT ![c] = Tail(@)]
           /\ taken' = [taken EXCEPT ![c] = Append(@, line.items)]
           /\ large' = IF line.large THEN large \cup {c} ELSE large \ {c}
           /\ IF line.kind = "call"
              THEN /\ Goto(c, "dispatch")
                   /\ todo' = [todo EXCEPT ![c] = line.items]
                   /\ UNCHANGED <<answers, unflushed>>
              ELSE /\ Respond(c, IF line.kind = "error" THEN "draining" ELSE "lastDrain",
                            <<>>, line.large)
                   /\ UNCHANGED todo
    /\ UNCHANGED <<server, replies, cancelled, gone, attached, work, slots>>

EndOfFile(c) ==
    /\ LoopFree
    /\ pc[c] = "reading" /\ c \notin cancelled
    /\ inbox[c] = <<>> /\ c \in gone
    /\ Goto(c, "finishing")
    /\ UNCHANGED <<server, todo, replies, cancelled, conn, work, slots>>

Drained(c) ==
    /\ LoopFree
    /\ pc[c] \in {"draining", "lastDrain"} /\ c \notin cancelled
    /\ c \notin unflushed \/ c \in gone
    /\ Goto(c, IF c \in gone \/ pc[c] = "lastDrain" THEN "finishing" ELSE "reading")
    /\ UNCHANGED <<server, todo, replies, cancelled, conn, work, slots>>

(* the finally clause: writer.close(), then wait_closed() until all is flushed *)
FinishHandler(c) ==
    /\ LoopFree
    /\ pc[c] = "finishing"
    /\ c \notin unflushed \/ c \in gone
    /\ Goto(c, "done")
    /\ attached' = attached \ {c}
    /\ UNCHANGED <<server, todo, replies, cancelled, inbox, taken, large, answers, gone, unflushed,
                   work, slots>>

-----------------------------------------------------------------------------
(* _dispatch_one and _dispatch_worker                                           *)

(* an exception leaves the handler's loop, and the line it was answering *)
Abandon(c) ==
    /\ todo' = [todo EXCEPT ![c] = <<>>]
    /\ replies' = [replies EXCEPT ![c] = <<>>]

Submit(c) ==
    /\ worker' = [worker EXCEPT ![c] = "queued"]
    /\ pool' = Append(pool, c)
    /\ UNCHANGED signalled

(* `payload.get("method") in {...}` hashes the method: a JSON array or object    *)
(* raises TypeError, which leaves _handle_client before any dispatch.            *)
DispatchUnhashable(c) ==
    /\ pc[c] = "dispatch" /\ Current(c) = "badMethod"
    /\ Abandon(c)
    /\ Goto(c, "finishing")
    /\ UNCHANGED <<server, cancelled, conn, work, slots>>

DispatchLookup(c) ==
    /\ pc[c] = "dispatch" /\ Current(c) = "lookup"
    /\ Goto(c, "working")
    /\ Submit(c)
    /\ UNCHANGED <<server, todo, replies, cancelled, conn, slots>>

DispatchNavigation(c) ==
    /\ pc[c] = "dispatch" /\ Current(c) \in Navigations
    /\ IF Locked
       THEN /\ Goto(c, "waiting")
            /\ waiters' = Append(waiters, c)
            /\ UNCHANGED <<free, work>>
       ELSE /\ Goto(c, "working")
            /\ free' = free - 1
            /\ Submit(c)
            /\ UNCHANGED waiters
    /\ UNCHANGED <<server, todo, replies, cancelled, conn>>

(* Mutated form: a handler given a slot goes on though it has been cancelled. *)
AcquireDespiteCancel(c) ==
    /\ LoopFree
    /\ pc[c] = "granted"
    /\ Wake(c, "working", free, free, Without(waiters, c))
    /\ Submit(c)
    /\ UNCHANGED <<server, todo, replies, cancelled, conn>>

(* A woken handler resumes, passes on what was freed meanwhile, and starts. *)
Acquire(c) ==
    /\ LoopFree
    /\ pc[c] = "granted" /\ c \notin cancelled
    /\ Wake(c, "working", free, free, Without(waiters, c))
    /\ Submit(c)
    /\ UNCHANGED <<server, todo, replies, cancelled, conn>>

RunWorker ==
    /\ pool # <<>>
    /\ Cardinality(Running) < PoolSize
    /\ worker' = [worker EXCEPT ![Head(pool)] = "running"]
    /\ pool' = Tail(pool)
    /\ UNCHANGED <<server, pc, todo, replies, cancelled, conn, signalled, slots>>

FinishWorker(c) ==
    /\ worker[c] = "running"
    /\ worker' = [worker EXCEPT ![c] = "done"]
    /\ UNCHANGED <<server, pc, todo, replies, cancelled, conn, pool, signalled, slots>>

FinishLookup(c) == FinishWorker(c) /\ Current(c) = "lookup"
FinishNavigation(c) == FinishWorker(c) /\ Current(c) \in Navigations

(* Mutated forms of ItemDone: a slot is given back for every request, none is    *)
(* given back, a batch is answered after its first element.                      *)
ItemDoneReleasing(c) ==
    /\ LoopFree
    /\ pc[c] = "working" /\ c \notin cancelled
    /\ worker[c] = "done"
    /\ worker' = [worker EXCEPT ![c] = "none"]
    /\ Release(c, IF Len(todo[c]) = 1 THEN "answer" ELSE "dispatch")
    /\ todo' = [todo EXCEPT ![c] = Tail(@)]
    /\ replies' = [replies EXCEPT ![c] = Append(@, Current(c))]
    /\ UNCHANGED <<server, cancelled, conn, pool, signalled>>

ItemDoneKeepingSlot(c) ==
    /\ LoopFree
    /\ pc[c] = "working" /\ c \notin cancelled
    /\ worker[c] = "done"
    /\ worker' = [worker EXCEPT ![c] = "none"]
    /\ Goto(c, IF Len(todo[c]) = 1 THEN "answer" ELSE "dispatch")
    /\ todo' = [todo EXCEPT ![c] = Tail(@)]
    /\ replies' = [replies EXCEPT ![c] = Append(@, Current(c))]
    /\ UNCHANGED <<server, cancelled, conn, pool, signalled, slots>>

ItemDoneAnsweringEarly(c) ==
    /\ LoopFree
    /\ pc[c] = "working" /\ c \notin cancelled
    /\ worker[c] = "done"
    /\ worker' = [worker EXCEPT ![c] = "none"]
    /\ IF Current(c) \in Navigations THEN Release(c, "answer")
                                     ELSE Goto(c, "answer") /\ UNCHANGED slots
    /\ todo' = [todo EXCEPT ![c] = <<>>]
    /\ replies' = [replies EXCEPT ![c] = Append(@, Current(c))]
    /\ UNCHANGED <<server, cancelled, conn, pool, signalled>>

(* The worker's result reaches the handler; a batch goes on with its next item. *)
ItemDone(c) ==
    /\ LoopFree
    /\ pc[c] = "working" /\ c \notin cancelled
    /\ worker[c] = "done"
    /\ worker' = [worker EXCEPT ![c] = "none"]
    /\ LET label == IF Len(todo[c]) = 1 THEN "answer" ELSE "dispatch"
       IN  IF Current(c) \in Navigations THEN Release(c, label)
                                         ELSE Goto(c, label) /\ UNCHANGED slots
    /\ todo' = [todo EXCEPT ![c] = Tail(@)]
    /\ replies' = [replies EXCEPT ![c] = Append(@, Current(c))]
    /\ UNCHANGED <<server, cancelled, conn, pool, signalled>>

Answer(c) ==
    /\ pc[c] = "answer"
    /\ Respond(c, "draining", replies[c], c \in large)
    /\ replies' = [replies EXCEPT ![c] = <<>>]
    /\ UNCHANGED <<server, todo, cancelled, inbox, taken, large, gone, attached, work, slots>>

-----------------------------------------------------------------------------
(* close(), and what CancelledError does at each await of a handler             *)

(* SIGTERM: the listening socket is closed and every registered handler           *)
(* cancelled.  A connection whose handler has not run yet is not registered.      *)
BeginClose ==
    /\ LoopFree
    /\ server = "serving"
    /\ server' = "gathering"
    /\ cancelled' = Registered
    /\ UNCHANGED <<pc, todo, replies, conn, work, slots>>

CancelIdle(c) ==
    /\ LoopFree
    /\ c \in cancelled /\ pc[c] \in {"reading", "draining", "lastDrain"}
    /\ Goto(c, "finishing")
    /\ UNCHANGED <<server, todo, replies, cancelled, conn, work, slots>>

(* Mutated form: the slot is given back, but to nobody who waits. *)
CancelAcquireQuietly(c) ==
    /\ LoopFree
    /\ c \in cancelled /\ pc[c] \in {"waiting", "granted"}
    /\ LET value == IF pc[c] = "granted" THEN free + 1 ELSE free
       IN  Wake(c, "finishing", value, 0, Without(waiters, c))
    /\ Abandon(c)
    /\ UNCHANGED <<server, cancelled, conn, work>>

(* A handler cancelled in the queue gives back the slot it may have been given. *)
CancelAcquire(c) ==
    /\ LoopFree
    /\ c \in cancelled /\ pc[c] \in {"waiting", "granted"}
    /\ LET value == IF pc[c] = "granted" THEN free + 1 ELSE free
       IN  Wake(c, "finishing", value, value, Without(waiters, c))
    /\ Abandon(c)
    /\ UNCHANGED <<server, cancelled, conn, work>>

(* Mutated forms of CancelWorking: the worker thread is not waited for, its      *)
(* cancel_event is not set.                                                      *)
CancelWithoutWaiting(c) ==
    /\ LoopFree
    /\ c \in cancelled /\ pc[c] = "working"
    /\ signalled' = signalled \cup {c}
    /\ IF Current(c) \in Navigations THEN Release(c, "finishing")
                                     ELSE Goto(c, "finishing") /\ UNCHANGED slots
    /\ UNCHANGED <<server, todo, replies, cancelled, conn, worker, pool>>

CancelWithoutSignal(c) ==
    /\ LoopFree
    /\ c \in cancelled /\ pc[c] = "working"
    /\ Goto(c, "cancelling")
    /\ UNCHANGED <<server, todo, replies, cancelled, conn, worker, pool, signalled, slots>>

(* The event is set; the slot is kept until the worker has actually stopped. *)
CancelWorking(c) ==
    /\ LoopFree
    /\ c \in cancelled /\ pc[c] = "working"
    /\ signalled' = signalled \cup {c}
    /\ Goto(c, "cancelling")
    /\ UNCHANGED <<server, todo, replies, cancelled, conn, worker, pool, slots>>

CancelledDone(c) ==
    /\ LoopFree
    /\ pc[c] = "cancelling" /\ worker[c] = "done"
    /\ worker' = [worker EXCEPT ![c] = "none"]
    /\ IF Current(c) \in Navigations THEN Release(c, "finishing")
                                     ELSE Goto(c, "finishing") /\ UNCHANGED slots
    /\ Abandon(c)
    /\ UNCHANGED <<server, cancelled, conn, pool, signalled>>

Gathered ==
    /\ LoopFree
    /\ server = "gathering"
    /\ \A c \in cancelled : pc[c] = "done"
    /\ server' = "waiting"
    /\ UNCHANGED <<pc, todo, replies, cancelled, conn, work, slots>>

(* wait_closed() returns once no connection is attached; then the socket goes *)
EndClose ==
    /\ LoopFree
    /\ server = "waiting"
    /\ attached = {}
    /\ server' = "closed"
    /\ UNCHANGED <<pc, todo, replies, cancelled, conn, work, slots>>

-----------------------------------------------------------------------------
HandlerStep(c) ==
    \/ StartHandler(c) \/ ReadLine(c) \/ EndOfFile(c) \/ Drained(c) \/ FinishHandler(c)
    \/ DispatchUnhashable(c) \/ DispatchLookup(c) \/ DispatchNavigation(c) \/ Acquire(c)
    \/ ItemDone(c) \/ Answer(c)
    \/ CancelIdle(c) \/ CancelAcquire(c) \/ CancelWorking(c) \/ CancelledDone(c)

ClientStep(c) == Connect(c) \/ Send(c) \/ ReadAnswer(c) \/ Disconnect(c)

Next ==
    \/ \E c \in Clients : HandlerStep(c) \/ ClientStep(c) \/ FinishLookup(c) \/ FinishNavigation(c)
    \/ RunWorker \/ BeginClose \/ Gathered \/ EndClose

(* The loop serves every ready handler, the executor starts and a lookup ends,    *)
(* and the repository's clients read their answers.  Nothing says how long a      *)
(* navigation runs, that a client connects, sends or leaves, or that SIGTERM comes *)
Fairness ==
    /\ \A c \in Clients : WF_vars(HandlerStep(c)) /\ WF_vars(FinishLookup(c)) /\ WF_vars(ReadAnswer(c))
    /\ WF_vars(RunWorker) /\ WF_vars(Gathered) /\ WF_vars(EndClose)

Spec == Init /\ [][Next]_vars /\ Fairness

NavigationsEnd == \A c \in Clients : WF_vars(FinishNavigation(c))

(* find_paths, once its handler is cancelled, is sure to end only by its event. *)
Ending(c) == FinishNavigation(c) /\ (c \in cancelled /\ Current(c) = "path" => c \in signalled)
EventHeeded  == \A c \in Clients : WF_vars(Ending(c))
ClientsLeave == \A c \in Clients : WF_vars(Disconnect(c))

-----------------------------------------------------------------------------
(* Properties                                                                   *)

HandlerStates == {"absent", "accepted", "reading", "dispatch", "waiting", "granted", "working",
                  "answer", "draining", "lastDrain", "cancelling", "finishing", "done"}

(* The variables stay in the sets their comments give. *)
TypeOK ==
    /\ server \in {"serving", "gathering", "waiting", "closed"}
    /\ pc \in [Clients -> HandlerStates]
    /\ todo \in [Clients -> Seq(Items)] /\ replies \in [Clients -> Seq(Items)]
    /\ inbox \in [Clients -> Seq(Lines)]
    /\ taken \in [Clients -> Seq(Seq(Items))] /\ answers \in [Clients -> Seq(Seq(Items))]
    /\ large \subseteq Clients /\ gone \subseteq Clients /\ unflushed \subseteq Clients /\ attached \subseteq Clients
    /\ cancelled \subseteq Clients /\ signalled \subseteq Clients
    /\ worker \in [Clients -> {"none", "queued", "running", "done"}]
    /\ pool \in Seq(Clients) /\ waiters \in Seq(Clients)
    /\ free \in 0..Slots

Navigating == {c \in Clients : worker[c] \in {"queued", "running"} /\ Current(c) \in Navigations}

(* At most Slots navigations are queued or running, those of cancelled handlers    *)
(* included: the semaphore is released only when a worker has actually stopped.    *)
NavigationBounded == Cardinality(Navigating) <= Slots

(* A navigation waits only while all slots are held, or one is on its way to a      *)
(* handler that resumes next and passes on what is left: nothing that is given     *)
(* back is lost, not even by a handler cancelled just when it was given a slot.    *)
NoSlotIdle ==
    (\E c \in Clients : Unwoken(c)) => free = 0 \/ \E c \in Clients : pc[c] = "granted"

(* The slots are used, and no more than the slots. *)
SlotsKept == NavigationBounded /\ NoSlotIdle

(* Every line read is answered once and in order, and a batch element by element   *)
(* in order: a handler about to read on has answered all it has read.              *)
AnswersMatchLines ==
    \A c \in Clients :
        /\ pc[c] \in {"reading", "draining", "lastDrain"} => answers[c] = taken[c]
        /\ pc[c] = "answer" => Append(answers[c], replies[c]) = taken[c]

(* close() removes the socket only when no thread works for a client any more and  *)
(* no handler is left.                                                             *)
ClosedIsQuiet ==
    server = "closed" =>
        \A c \in Clients : pc[c] \in {"absent", "done"} /\ worker[c] \notin {"queued", "running"}

(* A cancelled handler submits nothing more, whether it stood in a batch, in the   *)
(* semaphore's queue, or had just been given a slot.                               *)
CancelStopsWork ==
    [][\A c \in cancelled : worker[c] = "none" => worker'[c] = "none"]_vars

(* "A long-running graph-navigation request must not block unrelated clients'      *)
(* requests": a dispatched lookup ends even if no navigation ever does.            *)
LookupsServed ==
    \A c \in Clients : (pc[c] = "dispatch" /\ Current(c) = "lookup") ~> worker[c] = "done"

(* When navigations end, a queued navigation gets its turn, or its handler is      *)
(* cancelled: no slot is lost on any path out of the semaphore.                    *)
NavigationsServed ==
    NavigationsEnd => \A c \in Clients : pc[c] = "waiting" ~> pc[c] # "waiting"

(* Neither kind of request waits for the other for ever. *)
RequestsServed == LookupsServed /\ NavigationsServed

(* When clients leave and navigations end, a path search of a cancelled handler    *)
(* only because its event is set, SIGTERM leads to the removal of the socket.      *)
CloseEnds == EventHeeded /\ ClientsLeave => (server = "gathering" ~> server = "closed")

(* "Every call carries a request id and receives exactly one result or error": a   *)
(* handler that has ended, not having been cancelled and its client still there,   *)
(* has answered every line it read.                                                *)
EveryCallAnswered ==
    \A c \in Clients \ (cancelled \cup gone) : pc[c] = "done" => answers[c] = taken[c]
=============================================================================
