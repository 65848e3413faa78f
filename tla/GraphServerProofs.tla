--------------------------- MODULE GraphServerProofs ---------------------------
(* Proofs about GraphServer, for any clients, lines, slots and threads.           *)
EXTENDS GraphServer, FiniteSetTheorems, SequenceTheorems, TLAPS

Listed(queue) == {queue[i] : i \in DOMAIN queue}
Once(queue) == \A i, j \in DOMAIN queue : queue[i] = queue[j] => i = j

(* The handlers that hold a slot: one that was woken holds it before it resumes, *)
(* one that is cancelled until its worker thread has stopped.                    *)
Holders ==
    {c \in Clients : \/ pc[c] = "granted"
                     \/ pc[c] \in {"working", "cancelling"} /\ Current(c) \in Navigations}

SlotsAccounted == free + Cardinality(Holders) = Slots

(* The semaphore's queue holds the handlers that stand in it, each once. *)
QueueInv ==
    /\ Once(waiters)
    /\ \A c \in Clients : pc[c] \in {"waiting", "granted"} <=> c \in Listed(waiters)
    /\ \A c \in Clients : pc[c] \in {"waiting", "granted"} => Current(c) \in Navigations

(* A thread is at work, or has been, for the handlers that wait for one. *)
WorkInv ==
    /\ \A c \in Clients : worker[c] # "none" <=> pc[c] \in {"working", "cancelling"}
    /\ Once(pool)
    /\ \A c \in Listed(pool) : worker[c] = "queued"

(* What has been read is answered, or is being answered item by item. *)
InLine == {"dispatch", "waiting", "granted", "working", "cancelling"}
LineOf(c) ==
    /\ pc[c] \in InLine => /\ todo[c] # <<>>
                           /\ Append(answers[c], replies[c] \o todo[c]) = taken[c]
    /\ pc[c] = "answer" => Append(answers[c], replies[c]) = taken[c]
    /\ pc[c] \in {"absent", "accepted", "reading", "draining", "lastDrain"} =>
           answers[c] = taken[c]
    /\ pc[c] \notin InLine \cup {"answer"} => replies[c] = <<>>
LineInv == \A c \in Clients : LineOf(c)

(* A connection counts until its handler is done, and closing waits for it; what *)
(* is cancelled stands at an await.                                              *)
CloseInv ==
    /\ \A c \in Clients : c \in attached <=> pc[c] \notin {"absent", "done"}
    /\ server = "closed" => attached = {}
    /\ \A c \in cancelled : pc[c] \notin {"absent", "accepted", "dispatch", "answer"}

IInv == /\ TypeOK /\ SlotsAccounted /\ QueueInv /\ NoSlotIdle /\ WorkInv /\ LineInv /\ CloseInv

-----------------------------------------------------------------------------
(* Queues: what is appended, taken from the front, and taken out.                *)

LEMMA QueueAppend ==
    ASSUME NEW S, NEW queue \in Seq(S), NEW c \in S, Once(queue), c \notin Listed(queue)
    PROVE  /\ Append(queue, c) \in Seq(S)
           /\ Once(Append(queue, c))
           /\ Listed(Append(queue, c)) = Listed(queue) \cup {c}
<1> DEFINE longer == Append(queue, c)
<1>1. /\ longer \in Seq(S) /\ Len(longer) = Len(queue) + 1
      /\ \A i \in 1..Len(queue) : longer[i] = queue[i]
      /\ longer[Len(queue) + 1] = c
  BY AppendProperties
<1>2. /\ Len(queue) \in Nat
      /\ DOMAIN queue = 1..Len(queue) /\ DOMAIN longer = 1..Len(longer)
  BY <1>1, LenProperties
<1> HIDE DEF longer
<1>3. Listed(longer) = Listed(queue) \cup {c}
  BY <1>1, <1>2 DEF Listed
<1>4. Once(longer)
  BY <1>1, <1>2 DEF Once, Listed
<1> QED
  BY <1>1, <1>3, <1>4 DEF longer

LEMMA QueueTail ==
    ASSUME NEW S, NEW queue \in Seq(S), queue # <<>>, Once(queue)
    PROVE  /\ Head(queue) \in Listed(queue) /\ Head(queue) \in S
           /\ Tail(queue) \in Seq(S)
           /\ Once(Tail(queue))
           /\ Listed(Tail(queue)) = Listed(queue) \ {Head(queue)}
<1>1. /\ Head(queue) \in S /\ Tail(queue) \in Seq(S) /\ Len(Tail(queue)) = Len(queue) - 1
      /\ \A i \in 1..Len(Tail(queue)) : Tail(queue)[i] = queue[i + 1]
  BY HeadTailProperties
<1>2. /\ Len(queue) \in Nat \ {0}
      /\ DOMAIN queue = 1..Len(queue) /\ DOMAIN Tail(queue) = 1..Len(Tail(queue))
  BY <1>1, LenProperties, EmptySeq
<1>3. Head(queue) = queue[1]
  BY <1>2
<1>4. Once(Tail(queue))
  BY <1>1, <1>2 DEF Once
<1>5. \A i \in 2..Len(queue) : Tail(queue)[i - 1] = queue[i]
  BY <1>1, <1>2
<1>6. Listed(Tail(queue)) = Listed(queue) \ {Head(queue)}
  <2>1. ASSUME NEW i \in DOMAIN Tail(queue)
        PROVE  Tail(queue)[i] \in Listed(queue) \ {Head(queue)}
    BY <1>1, <1>2, <1>3 DEF Once, Listed
  <2>2. ASSUME NEW i \in DOMAIN queue, queue[i] # Head(queue)
        PROVE  queue[i] \in Listed(Tail(queue))
    <3>1. i \in 2..Len(queue) /\ i - 1 \in DOMAIN Tail(queue)
      BY <1>1, <1>2, <1>3, <2>2
    <3> QED
      BY <3>1, <1>5 DEF Listed
  <2> QED
    BY <2>1, <2>2 DEF Listed
<1>7. Head(queue) \in Listed(queue)
  BY <1>2, <1>3 DEF Listed
<1> QED
  BY <1>1, <1>4, <1>6, <1>7

(* One place of the queue is closed up; the others keep their order. *)
LEMMA QueueWithout ==
    ASSUME NEW S, NEW queue \in Seq(S), NEW c \in Listed(queue), Once(queue)
    PROVE  /\ Without(queue, c) \in Seq(S)
           /\ Once(Without(queue, c))
           /\ Listed(Without(queue, c)) = Listed(queue) \ {c}
<1> DEFINE at == CHOOSE i \in DOMAIN queue : queue[i] = c
           before == SubSeq(queue, 1, at - 1)
           after == SubSeq(queue, at + 1, Len(queue))
           shorter == before \o after
<1>1. Len(queue) \in Nat /\ DOMAIN queue = 1..Len(queue) /\ \A i \in 1..Len(queue) : queue[i] \in S
  BY LenProperties, ElementOfSeq
<1>2. at \in 1..Len(queue) /\ queue[at] = c
  BY <1>1 DEF Listed
<1> HIDE DEF at
<1>3. /\ before \in Seq(S) /\ Len(before) = at - 1
      /\ \A i \in 1..(at - 1) : before[i] = queue[i]
  <2>1. \A i \in 1..(at - 1) : queue[i] \in S
    BY <1>1, <1>2
  <2>2. at - 1 \in Int
    BY <1>1, <1>2
  <2>3. /\ before \in Seq(S) /\ Len(before) = IF 1 <= at - 1 THEN at - 1 - 1 + 1 ELSE 0
        /\ \A i \in 1..(at - 1 - 1 + 1) : before[i] = queue[1 + i - 1]
    BY <2>1, <2>2, SubSeqProperties
  <2> HIDE DEF before
  <2>4. \A i \in 1..(at - 1) : i \in 1..(at - 1 - 1 + 1) /\ 1 + i - 1 = i
    BY <1>1, <1>2
  <2>5. Len(before) = at - 1
    BY <1>1, <1>2, <2>3
  <2> QED
    BY <2>3, <2>4, <2>5
<1>4. /\ after \in Seq(S) /\ Len(after) = Len(queue) - at
      /\ \A i \in 1..(Len(queue) - at) : after[i] = queue[at + i]
  <2>1. \A i \in (at + 1)..Len(queue) : queue[i] \in S
    BY <1>1, <1>2
  <2>2. at + 1 \in Int /\ Len(queue) \in Int
    BY <1>1, <1>2
  <2>3. /\ after \in Seq(S)
        /\ Len(after) = IF at + 1 <= Len(queue) THEN Len(queue) - (at + 1) + 1 ELSE 0
        /\ \A i \in 1..(Len(queue) - (at + 1) + 1) : after[i] = queue[at + 1 + i - 1]
    BY <2>1, <2>2, SubSeqProperties
  <2> HIDE DEF after
  <2>4. \A i \in 1..(Len(queue) - at) : i \in 1..(Len(queue) - (at + 1) + 1) /\ at + 1 + i - 1 = at + i
    BY <1>1, <1>2
  <2>5. Len(after) = Len(queue) - at
    <3>1. CASE at + 1 <= Len(queue)
      <4>1. Len(queue) - (at + 1) + 1 = Len(queue) - at
        BY <1>1, <1>2
      <4> QED
        BY <2>3, <3>1, <4>1
    <3>2. CASE ~(at + 1 <= Len(queue))
      <4>1. at \in Int /\ Len(queue) \in Int /\ at <= Len(queue)
        BY <1>1, <1>2
      <4>2. Len(queue) - at = 0
        BY <3>2, <4>1
      <4> QED
        BY <2>3, <3>2, <4>2
    <3> QED
      BY <3>1, <3>2
  <2> QED
    BY <2>3, <2>4, <2>5
<1>5. /\ shorter \in Seq(S) /\ Len(shorter) = Len(queue) - 1
      /\ \A i \in 1..(Len(queue) - 1) : shorter[i] = IF i < at THEN queue[i] ELSE queue[i + 1]
  <2>1. /\ shorter \in Seq(S) /\ Len(shorter) = Len(before) + Len(after)
        /\ \A i \in 1..(Len(before) + Len(after)) :
               shorter[i] = IF i <= Len(before) THEN before[i] ELSE after[i - Len(before)]
    BY <1>3, <1>4, ConcatProperties
  <2> HIDE DEF before, after, shorter
  <2>2. Len(shorter) = Len(queue) - 1
    BY <1>1, <1>2, <1>3, <1>4, <2>1
  <2>3. ASSUME NEW i \in 1..(Len(queue) - 1)
        PROVE  shorter[i] = IF i < at THEN queue[i] ELSE queue[i + 1]
    <3>1. i \in 1..(Len(before) + Len(after)) /\ (i <= Len(before) <=> i < at)
      BY <1>1, <1>2, <1>3, <1>4
    <3>2. CASE i < at
      BY <1>1, <1>2, <1>3, <2>1, <3>1, <3>2
    <3>3. CASE ~(i < at)
      <4>1. shorter[i] = after[i - Len(before)]
        BY <2>1, <3>1, <3>3
      <4>2. i - Len(before) \in 1..(Len(queue) - at) /\ at + (i - Len(before)) = i + 1
        BY <1>1, <1>2, <1>3, <3>3
      <4> QED
        BY <1>4, <3>3, <4>1, <4>2
    <3> QED
      BY <3>2, <3>3
  <2> QED
    BY <2>1, <2>2, <2>3
<1>6. shorter = Without(queue, c)
  BY DEF at, Without
<1> HIDE DEF shorter, before, after
<1>7. DOMAIN shorter = 1..(Len(queue) - 1)
  BY <1>5, LenProperties
<1>8. Once(shorter)
  BY <1>1, <1>2, <1>5, <1>7 DEF Once
<1>9. ASSUME NEW i \in DOMAIN shorter PROVE shorter[i] \in Listed(queue) \ {c}
  BY <1>1, <1>2, <1>5, <1>7 DEF Once, Listed
<1>10. ASSUME NEW i \in DOMAIN queue, queue[i] # c PROVE queue[i] \in Listed(shorter)
  <2>1. CASE i < at
    <3>1. i \in DOMAIN shorter /\ shorter[i] = queue[i]
      BY <1>1, <1>2, <1>5, <1>7, <2>1
    <3> QED
      BY <3>1 DEF Listed
  <2>2. CASE i > at
    <3>1. i - 1 \in DOMAIN shorter /\ shorter[i - 1] = queue[i]
      BY <1>1, <1>2, <1>5, <1>7, <2>2
    <3> QED
      BY <3>1 DEF Listed
  <2> QED
    BY <1>1, <1>2, <1>10, <2>1, <2>2
<1> QED
  BY <1>5, <1>6, <1>8, <1>9, <1>10 DEF Listed

-----------------------------------------------------------------------------
(* The semaphore's queue.  Each unwoken handler in it is told apart from the      *)
(* others by how many unwoken ones stand up to its place.                        *)

Ahead(queue, i) == {j \in 1..i : Unwoken(queue[j])}

LEMMA AheadCounted ==
    ASSUME NEW queue \in Seq(Clients), NEW i \in DOMAIN queue, Unwoken(queue[i])
    PROVE  /\ IsFiniteSet(Ahead(queue, i)) /\ Cardinality(Ahead(queue, i)) \in Nat \ {0}
           /\ \A j \in DOMAIN queue : j < i => Cardinality(Ahead(queue, j)) < Cardinality(Ahead(queue, i))
<1>1. Len(queue) \in Nat /\ DOMAIN queue = 1..Len(queue)
  BY LenProperties
<1>2. ASSUME NEW j \in DOMAIN queue
      PROVE  IsFiniteSet(Ahead(queue, j)) /\ Cardinality(Ahead(queue, j)) \in Nat
  <2>1. IsFiniteSet(1..j) /\ Ahead(queue, j) \in SUBSET (1..j)
    BY <1>1, FS_Interval DEF Ahead
  <2> QED
    BY <2>1, FS_Subset, FS_CardinalityType
<1>3. i \in Ahead(queue, i)
  BY <1>1 DEF Ahead
<1>4. Cardinality(Ahead(queue, i)) # 0
  BY <1>2, <1>3, FS_EmptySet
<1>5. ASSUME NEW j \in DOMAIN queue, j < i
      PROVE  Cardinality(Ahead(queue, j)) < Cardinality(Ahead(queue, i))
  <2>1. Ahead(queue, j) \in SUBSET Ahead(queue, i) /\ i \notin Ahead(queue, j)
    BY <1>1, <1>5 DEF Ahead
  <2>2. /\ Cardinality(Ahead(queue, j)) <= Cardinality(Ahead(queue, i))
        /\ Cardinality(Ahead(queue, i)) = Cardinality(Ahead(queue, j)) => Ahead(queue, i) = Ahead(queue, j)
    BY <1>2, <2>1, FS_Subset
  <2> QED
    BY <1>2, <1>3, <2>1, <2>2
<1> QED
  BY <1>2, <1>4, <1>5

(* At most n handlers are woken. *)
LEMMA WokenBounded ==
    ASSUME NEW n \in Nat, NEW queue \in Seq(Clients)
    PROVE  /\ FirstUnwoken(n, queue) \subseteq {d \in Listed(queue) : Unwoken(d)}
           /\ IsFiniteSet(FirstUnwoken(n, queue))
           /\ Cardinality(FirstUnwoken(n, queue)) \in 0..n
<1> DEFINE woken == FirstUnwoken(n, queue)
           place == [d \in woken |-> CHOOSE i \in DOMAIN queue :
                                         /\ queue[i] = d /\ Unwoken(d)
                                         /\ Cardinality(Ahead(queue, i)) <= n]
           rank == [d \in woken |-> Cardinality(Ahead(queue, place[d]))]
<1>1. DOMAIN queue \subseteq Nat
  BY LenProperties
<1>2. ASSUME NEW d \in woken
      PROVE  /\ place[d] \in DOMAIN queue /\ queue[place[d]] = d /\ Unwoken(d)
             /\ Cardinality(Ahead(queue, place[d])) <= n
  <2>1. \E i \in DOMAIN queue : /\ queue[i] = d /\ Unwoken(d)
                                /\ Cardinality(Ahead(queue, i)) <= n
    BY DEF FirstUnwoken, Ahead
  <2> QED
    BY <2>1
<1>3. woken \subseteq {d \in Listed(queue) : Unwoken(d)}
  BY <1>2 DEF Listed
<1> HIDE DEF woken, place
<1>4. rank \in [woken -> 1..n]
  BY <1>2, AheadCounted
<1>5. ASSUME NEW d \in woken, NEW e \in woken, rank[d] = rank[e]
      PROVE  d = e
  <2>1. /\ ~(place[d] < place[e]) /\ ~(place[e] < place[d])
        /\ place[d] \in Nat /\ place[e] \in Nat
    BY <1>1, <1>2, <1>5, AheadCounted
  <2> QED
    BY <1>2, <2>1
<1>6. rank \in Injection(woken, 1..n)
  BY <1>4, <1>5 DEF Injection, IsInjective
<1>7. IsFiniteSet(1..n) /\ Cardinality(1..n) = n
  BY FS_Interval
<1>8. IsFiniteSet(woken) /\ Cardinality(woken) <= n
  BY <1>6, <1>7, FS_Injection
<1> QED
  BY <1>3, <1>8, FS_CardinalityType DEF woken

(* If one that could be woken is not, n others are. *)
LEMMA WokenEnough ==
    ASSUME NEW n \in Nat, NEW queue \in Seq(Clients), Once(queue),
           NEW d \in Listed(queue), Unwoken(d), d \notin FirstUnwoken(n, queue)
    PROVE  Cardinality(FirstUnwoken(n, queue)) >= n
<1> DEFINE woken == FirstUnwoken(n, queue)
           count(i) == Cardinality(Ahead(queue, i))
<1>1. PICK last \in DOMAIN queue : queue[last] = d
  BY DEF Listed
<1>2. Len(queue) \in Nat /\ DOMAIN queue = 1..Len(queue)
  BY LenProperties
<1>3. /\ IsFiniteSet(Ahead(queue, last)) /\ count(last) \in Nat \ {0}
      /\ count(last) > n
  <2>1. IsFiniteSet(Ahead(queue, last)) /\ count(last) \in Nat \ {0}
    BY <1>1, AheadCounted
  <2>2. ~(count(last) <= n)
    BY <1>1 DEF FirstUnwoken, Ahead
  <2> QED
    BY <2>1, <2>2
<1> DEFINE number == [i \in Ahead(queue, last) |-> count(i)]
<1>4. Ahead(queue, last) \subseteq DOMAIN queue /\ \A i \in Ahead(queue, last) : i <= last /\ Unwoken(queue[i])
  BY <1>2 DEF Ahead
<1>5. number \in [Ahead(queue, last) -> 1..count(last)]
  <2>1. ASSUME NEW i \in Ahead(queue, last) PROVE count(i) \in 1..count(last)
    BY <1>1, <1>2, <1>3, <1>4, AheadCounted
  <2> QED
    BY <2>1
<1>6. ASSUME NEW i \in Ahead(queue, last), NEW j \in Ahead(queue, last), number[i] = number[j]
      PROVE  i = j
  BY <1>2, <1>4, <1>6, AheadCounted
<1>7. number \in Injection(Ahead(queue, last), 1..count(last))
  BY <1>5, <1>6 DEF Injection, IsInjective
<1>8. IsFiniteSet(1..count(last)) /\ Cardinality(1..count(last)) = count(last)
  BY <1>3, FS_Interval
<1>9. number \in Surjection(Ahead(queue, last), 1..count(last))
  BY <1>7, <1>8, FS_Injection
<1>10. ASSUME NEW k \in 1..n
       PROVE  \E i \in DOMAIN queue : count(i) = k /\ Unwoken(queue[i]) /\ queue[i] \in woken
  <2>1. PICK i \in Ahead(queue, last) : number[i] = k
    <3>1. k \in 1..count(last)
      BY <1>3
    <3> QED
      BY <3>1, <1>9 DEF Surjection
  <2>2. count(i) = k /\ i \in DOMAIN queue /\ Unwoken(queue[i])
    BY <1>4, <2>1
  <2>3. count(i) <= n
    BY <2>2
  <2>4. queue[i] \in woken
    BY <2>2, <2>3 DEF FirstUnwoken, Ahead
  <2> QED
    BY <2>2, <2>4
<1> DEFINE chosen == [k \in 1..n |-> CHOOSE i \in DOMAIN queue :
                                         count(i) = k /\ Unwoken(queue[i]) /\ queue[i] \in woken]
           who == [k \in 1..n |-> queue[chosen[k]]]
<1>11. \A k \in 1..n : chosen[k] \in DOMAIN queue /\ count(chosen[k]) = k /\ queue[chosen[k]] \in woken
  BY <1>10
<1>12. who \in Injection(1..n, woken)
  <2>1. ASSUME NEW k \in 1..n, NEW l \in 1..n, who[k] = who[l] PROVE k = l
    BY <1>11, <2>1 DEF Once
  <2>2. who \in [1..n -> woken]
    BY <1>11
  <2> HIDE DEF who
  <2> QED
    BY <2>1, <2>2 DEF Injection, IsInjective
<1>13. IsFiniteSet(woken)
  BY WokenBounded
<1>14. Cardinality(1..n) = n
  BY FS_Interval
<1> HIDE DEF who, woken
<1>15. Cardinality(1..n) <= Cardinality(woken)
  BY <1>12, <1>13, FS_Injection
<1> QED
  BY <1>14, <1>15 DEF woken

-----------------------------------------------------------------------------
(* What a handler does that goes on and gives slots away: whom it wakes.  One that *)
(* could be woken is not only if as many are as there are slots to give.         *)
Passes(c, label, value, most, queue, woken) ==
    /\ woken \subseteq {d \in Listed(queue) : Unwoken(d)}
    /\ Cardinality(woken) \in 0..value
    /\ pc' = [d \in Clients |-> IF d = c THEN label ELSE IF d \in woken THEN "granted" ELSE pc[d]]
    /\ free' = value - Cardinality(woken)
    /\ waiters' = queue
    /\ \A d \in Listed(queue) \ woken : Unwoken(d) => Cardinality(woken) \in {value, most}

LEMMA WakeStep ==
    ASSUME NEW c, NEW label, NEW value \in Nat, NEW most \in Nat,
           NEW queue \in Seq(Clients), Once(queue), Wake(c, label, value, most, queue)
    PROVE  \E woken \in SUBSET Clients : Passes(c, label, value, most, queue, woken)
<1> DEFINE n == IF value < most THEN value ELSE most
           woken == FirstUnwoken(n, queue)
<1>1. n \in Nat /\ n <= value /\ n \in {value, most}
  OBVIOUS
<1> HIDE DEF n
<1>2. woken \subseteq {d \in Listed(queue) : Unwoken(d)} /\ Cardinality(woken) \in 0..n
  BY <1>1, WokenBounded
<1>3. ASSUME NEW d \in Listed(queue) \ woken, Unwoken(d) PROVE Cardinality(woken) = n
  BY <1>1, <1>2, <1>3, WokenEnough
<1>4. Listed(queue) \subseteq Clients
  BY LenProperties, ElementOfSeq DEF Listed
<1>5. /\ pc' = [d \in Clients |-> IF d = c THEN label ELSE IF d \in woken THEN "granted" ELSE pc[d]]
      /\ free' = value - Cardinality(woken) /\ waiters' = queue
  BY DEF Wake, n
<1> HIDE DEF woken
<1>6. Passes(c, label, value, most, queue, woken)
  BY <1>1, <1>2, <1>3, <1>5 DEF Passes
<1> QED
  BY <1>2, <1>4, <1>6

(* What is waited for and where, of a semaphore that is what it should be. *)
LEMMA QueueTypes ==
    ASSUME TypeOK, QueueInv
    PROVE  /\ waiters \in Seq(Clients) /\ Once(waiters) /\ free \in Nat /\ free + 1 \in Nat
           /\ \A c \in Clients : pc[c] \in {"waiting", "granted"} =>
                  /\ Without(waiters, c) \in Seq(Clients) /\ Once(Without(waiters, c))
                  /\ Listed(Without(waiters, c)) = Listed(waiters) \ {c}
BY BoundsAssumption, QueueWithout DEF TypeOK, QueueInv

(* The steps of the semaphore, each with the handlers it wakes. *)
LEMMA AcquirePasses ==
    ASSUME TypeOK, QueueInv, NEW c \in Clients, Acquire(c)
    PROVE  \E woken \in SUBSET Clients : Passes(c, "working", free, free, Without(waiters, c), woken)
BY QueueTypes, WakeStep DEF Acquire

LEMMA ReleasePasses ==
    ASSUME TypeOK, QueueInv, NEW c, NEW label, Release(c, label)
    PROVE  \E woken \in SUBSET Clients : Passes(c, label, free + 1, 1, waiters, woken)
<1>1. Wake(c, label, free + 1, 1, waiters)
  BY DEF Release
<1> QED
  BY <1>1, QueueTypes, WakeStep

LEMMA CancelPasses ==
    ASSUME TypeOK, QueueInv, NEW c \in Clients, CancelAcquire(c)
    PROVE  LET value == IF pc[c] = "granted" THEN free + 1 ELSE free
           IN  \E woken \in SUBSET Clients : Passes(c, "finishing", value, value, Without(waiters, c), woken)
<1> DEFINE value == IF pc[c] = "granted" THEN free + 1 ELSE free
<1>1. Wake(c, "finishing", value, value, Without(waiters, c)) /\ pc[c] \in {"waiting", "granted"}
  BY DEF CancelAcquire
<1>2. value \in Nat
  BY QueueTypes
<1> HIDE DEF value
<1> QED
  BY <1>1, <1>2, QueueTypes, WakeStep DEF value

-----------------------------------------------------------------------------
(* Every handler's step, by what it does to the place where handlers stand:       *)
(* it moves its own, or lets others move as well.                                *)

(* Moves of one handler that leave the semaphore alone. *)
Plain(c) ==
    \/ Connect(c) \/ StartHandler(c) \/ ReadLine(c) \/ EndOfFile(c) \/ Drained(c) \/ FinishHandler(c)
    \/ DispatchUnhashable(c) \/ DispatchLookup(c) \/ Answer(c) \/ CancelIdle(c) \/ CancelWorking(c)
    \/ (ItemDone(c) \/ CancelledDone(c)) /\ Current(c) \notin Navigations

(* Moves of one that has held a slot until now. *)
Done(c) == (ItemDone(c) \/ CancelledDone(c)) /\ Current(c) \in Navigations

(* Steps at which no handler moves. *)
Elsewhere ==
    \/ \E c \in Clients : Send(c) \/ ReadAnswer(c) \/ Disconnect(c) \/ FinishLookup(c) \/ FinishNavigation(c)
    \/ RunWorker \/ BeginClose \/ Gathered \/ EndClose

LEMMA NextCases ==
    ASSUME [Next]_vars
    PROVE  \/ UNCHANGED vars \/ Elsewhere
           \/ \E c \in Clients : Plain(c) \/ Done(c) \/ DispatchNavigation(c) \/ Acquire(c) \/ CancelAcquire(c)
BY DEF Next, HandlerStep, ClientStep, Plain, Done, Elsewhere

LEMMA ElsewhereStep ==
    ASSUME Elsewhere \/ UNCHANGED vars
    PROVE  UNCHANGED <<pc, todo, replies, answers, taken, slots>>
<1>1. CASE UNCHANGED vars
  BY <1>1 DEF vars, conn
<1>2. CASE Elsewhere
  BY <1>2 DEF Elsewhere, Send, ReadAnswer, Disconnect, FinishLookup, FinishNavigation, FinishWorker, RunWorker,
              BeginClose, Gathered, EndClose, conn
<1> QED
  BY <1>1, <1>2

LEMMA PlainStep ==
    ASSUME TypeOK, NEW c \in Clients, Plain(c)
    PROVE  /\ \E label \in HandlerStates \ {"waiting", "granted"} : pc' = [pc EXCEPT ![c] = label]
           /\ pc[c] \notin {"waiting", "granted"}
           /\ \A d \in Clients \ {c} : todo'[d] = todo[d]
           /\ UNCHANGED slots
           /\ c \in Holders => pc[c] = "working" /\ pc'[c] = "cancelling"
           /\ pc'[c] = "cancelling" => pc[c] = "working" /\ todo' = todo
           /\ pc'[c] = "working" => Current(c) = "lookup" /\ todo' = todo
<1> USE DEF TypeOK, HandlerStates, Goto
<1>1. CASE Connect(c) \/ StartHandler(c) \/ EndOfFile(c) \/ FinishHandler(c) \/ CancelIdle(c)
  BY <1>1 DEF Connect, StartHandler, EndOfFile, FinishHandler, CancelIdle, Holders, slots
<1>5. CASE Drained(c)
  <2>1. pc' = [pc EXCEPT ![c] = "finishing"] \/ pc' = [pc EXCEPT ![c] = "reading"]
    BY <1>5 DEF Drained
  <2>2. pc[c] \in {"draining", "lastDrain"} /\ UNCHANGED <<todo, slots>>
    BY <1>5 DEF Drained
  <2>3. c \notin Holders /\ \E label \in HandlerStates \ {"waiting", "granted"} : pc' = [pc EXCEPT ![c] = label]
    BY <2>1, <2>2 DEF Holders
  <2> QED
    BY <2>1, <2>2, <2>3
<1>6. CASE DispatchUnhashable(c)
  BY <1>6 DEF DispatchUnhashable, Abandon, Holders
<1>7. CASE DispatchLookup(c)
  <2>1. /\ pc[c] = "dispatch" /\ pc' = [pc EXCEPT ![c] = "working"] /\ Current(c) = "lookup"
        /\ UNCHANGED <<todo, slots>>
    BY <1>7 DEF DispatchLookup
  <2> QED
    BY <2>1 DEF Holders
<1>4. CASE ReadLine(c) \/ Answer(c)
  BY <1>4 DEF ReadLine, Answer, Respond, Holders, slots, work
<1>2. CASE CancelWorking(c)
  BY <1>2 DEF CancelWorking
<1>3. CASE (ItemDone(c) \/ CancelledDone(c)) /\ Current(c) \notin Navigations
  <2>1. \E label \in {"answer", "dispatch", "finishing"} : pc' = [pc EXCEPT ![c] = label]
    BY <1>3 DEF ItemDone, CancelledDone
  <2>2. /\ pc[c] \in {"working", "cancelling"} /\ UNCHANGED slots
        /\ \A d \in Clients \ {c} : todo'[d] = todo[d]
    BY <1>3 DEF ItemDone, CancelledDone, Abandon
  <2>3. c \notin Holders
    BY <1>3, <2>2 DEF Holders
  <2> QED
    BY <2>1, <2>2, <2>3
<1> QED
  BY <1>1, <1>2, <1>3, <1>4, <1>5, <1>6, <1>7 DEF Plain

-----------------------------------------------------------------------------
(* What a handler that has done with its item, or is done with, goes on to. *)
LEMMA DoneStep ==
    ASSUME TypeOK, QueueInv, NEW c \in Clients, Done(c)
    PROVE  /\ c \in Holders /\ pc[c] \in {"working", "cancelling"}
           /\ \A d \in Clients \ {c} : todo'[d] = todo[d]
           /\ \E woken \in SUBSET Clients, label \in {"answer", "dispatch", "finishing"} :
                  Passes(c, label, free + 1, 1, waiters, woken)
<1>1. /\ c \in Holders /\ pc[c] \in {"working", "cancelling"}
      /\ \A d \in Clients \ {c} : todo'[d] = todo[d]
  BY DEF Done, ItemDone, CancelledDone, Abandon, Holders, TypeOK
<1>2. \E label \in {"answer", "dispatch", "finishing"} : Release(c, label)
  BY DEF Done, ItemDone, CancelledDone
<1> QED
  BY <1>1, <1>2, ReleasePasses

(* Those who are woken hold a slot that nobody else holds. *)
LEMMA SlotsPassed ==
    ASSUME TypeOK, SlotsAccounted, NEW woken \in SUBSET Clients, NEW leaving \in SUBSET Holders,
           woken \cap Holders = {}, Holders' = (Holders \ leaving) \cup woken,
           free' = free + Cardinality(leaving) - Cardinality(woken)
    PROVE  SlotsAccounted'
<1>1. IsFiniteSet(Holders) /\ IsFiniteSet(woken) /\ IsFiniteSet(leaving) /\ IsFiniteSet(Holders \ leaving)
  BY BoundsAssumption, FS_Subset DEF Holders
<1>2. Cardinality((Holders \ leaving) \cup woken) = Cardinality(Holders) - Cardinality(leaving) + Cardinality(woken)
  <2> DEFINE staying == Holders \ leaving
  <2>1. Cardinality(staying) = Cardinality(Holders) - Cardinality(leaving)
    <3>1. Holders \cap leaving = leaving
      OBVIOUS
    <3>2. Cardinality(staying) = Cardinality(Holders) - Cardinality(Holders \cap leaving)
      BY <1>1, FS_Difference
    <3> QED
      BY <3>1, <3>2
  <2>2. Cardinality(staying \cap woken) = 0
    <3>1. staying \cap woken = {}
      OBVIOUS
    <3> QED
      BY <3>1, FS_EmptySet
  <2> HIDE DEF staying
  <2>3. IsFiniteSet(staying)
    BY <1>1 DEF staying
  <2>4. Cardinality(staying \cup woken) = Cardinality(staying) + Cardinality(woken) - Cardinality(staying \cap woken)
    BY <1>1, <2>3, FS_Union
  <2>5. /\ Cardinality(Holders) \in Nat /\ Cardinality(leaving) \in Nat /\ Cardinality(woken) \in Nat
    BY <1>1, FS_CardinalityType
  <2>6. Cardinality(staying \cup woken) = Cardinality(Holders) - Cardinality(leaving) + Cardinality(woken)
    BY <2>1, <2>2, <2>4, <2>5
  <2> QED
    BY <2>6 DEF staying
<1>3. Cardinality(Holders) \in Nat /\ Cardinality(leaving) \in Nat /\ Cardinality(woken) \in Nat
  BY <1>1, FS_CardinalityType
<1>4. Slots \in Nat /\ free \in Nat /\ Slots' = Slots
  BY BoundsAssumption DEF TypeOK
<1>5. free + Cardinality(Holders) = Slots
  BY DEF SlotsAccounted
<1>6. free' + Cardinality(Holders') = Slots
  BY <1>2, <1>3, <1>4, <1>5
<1> QED
  BY <1>6 DEF SlotsAccounted

(* No slot is lost and none is made, on any path into and out of the semaphore. *)
LEMMA SlotsStep ==
    ASSUME TypeOK, QueueInv, SlotsAccounted, [Next]_vars
    PROVE  SlotsAccounted' /\ free' \in Nat
<1>0. free \in Nat /\ Cardinality({}) = 0 /\ \A c \in Clients : Cardinality({c}) = 1
  <2>1. \A c \in Clients : Cardinality({c}) = 1
    BY FS_Singleton
  <2> QED
    BY <2>1, FS_EmptySet, BoundsAssumption DEF TypeOK
<1>1. CASE Elsewhere \/ UNCHANGED vars
  <2>1. Holders' = Holders /\ free' = free
    BY <1>1, ElsewhereStep DEF Holders, Current, slots
  <2> QED
    BY <1>0, <2>1 DEF SlotsAccounted
<1>2. ASSUME NEW c \in Clients, Plain(c) PROVE SlotsAccounted' /\ free' \in Nat
  <2>1. /\ \A d \in Clients \ {c} : pc'[d] = pc[d] /\ todo'[d] = todo[d]
        /\ pc'[c] # "granted"
    <3>1. PICK label \in HandlerStates \ {"waiting", "granted"} : pc' = [pc EXCEPT ![c] = label]
      BY <1>2, PlainStep
    <3> QED
      BY <1>2, <3>1, PlainStep DEF TypeOK
  <2>2. /\ c \in Holders => pc[c] = "working" /\ pc'[c] = "cancelling"
        /\ pc'[c] = "cancelling" => pc[c] = "working" /\ todo' = todo
        /\ pc'[c] = "working" => Current(c) = "lookup" /\ todo' = todo
    BY <1>2, PlainStep
  <2>3. c \in Holders' <=> c \in Holders
    BY <2>1, <2>2 DEF Holders, Current, Navigations
  <2>4. Holders' = Holders
    BY <2>1, <2>3 DEF Holders, Current, TypeOK
  <2>5. free' = free
    BY <1>2, PlainStep DEF slots
  <2> QED
    BY <1>0, <2>4, <2>5 DEF SlotsAccounted
<1>3. ASSUME NEW c \in Clients, Done(c) PROVE SlotsAccounted' /\ free' \in Nat
  <2>1. PICK woken \in SUBSET Clients, label \in {"answer", "dispatch", "finishing"} :
            Passes(c, label, free + 1, 1, waiters, woken)
    BY <1>3, DoneStep
  <2>2. \A d \in woken : pc[d] = "waiting"
    BY <2>1 DEF Passes, Unwoken
  <2>3. Holders' = (Holders \ {c}) \cup woken /\ c \in Holders /\ woken \cap Holders = {}
    BY <1>3, <2>1, <2>2, DoneStep DEF Passes, Holders, Current
  <2>4. free' = free + 1 - Cardinality(woken) /\ free' \in Nat
    BY <1>0, <2>1 DEF Passes
  <2>5. free' = free + Cardinality({c}) - Cardinality(woken)
    BY <1>0, <2>4
  <2> QED
    BY <2>3, <2>4, <2>5, SlotsPassed
<1>4. ASSUME NEW c \in Clients, DispatchNavigation(c) PROVE SlotsAccounted' /\ free' \in Nat
  <2>1. CASE Locked
    <3>1. Holders' = Holders /\ free' = free
      BY <1>4, <2>1 DEF DispatchNavigation, Goto, Holders, Current, TypeOK
    <3> QED
      BY <1>0, <3>1 DEF SlotsAccounted
  <2>2. CASE ~Locked
    <3>1. Holders' = Holders \cup {c} /\ c \notin Holders
      BY <1>4, <2>2 DEF DispatchNavigation, Goto, Holders, Current, TypeOK
    <3>2. free' = free - 1 /\ free' \in Nat
      BY <1>0, <1>4, <2>2 DEF DispatchNavigation, Locked
    <3>3. Holders' = (Holders \ {}) \cup {c} /\ {c} \cap Holders = {}
      BY <3>1
    <3>4. free' = free + Cardinality({}) - Cardinality({c})
      BY <1>0, <3>2
    <3> QED
      BY <3>2, <3>3, <3>4, SlotsPassed
  <2> QED
    BY <2>1, <2>2
<1>5. ASSUME NEW c \in Clients, Acquire(c) PROVE SlotsAccounted' /\ free' \in Nat
  <2>1. PICK woken \in SUBSET Clients : Passes(c, "working", free, free, Without(waiters, c), woken)
    BY <1>5, AcquirePasses
  <2>2. \A d \in woken : pc[d] = "waiting"
    BY <2>1 DEF Passes, Unwoken
  <2>3. pc[c] = "granted" /\ Current(c) \in Navigations /\ todo' = todo
    BY <1>5 DEF Acquire, QueueInv
  <2>4. Holders' = (Holders \ {}) \cup woken /\ woken \cap Holders = {}
    BY <2>1, <2>2, <2>3 DEF Passes, Holders, Current
  <2>5. free' = free + Cardinality({}) - Cardinality(woken) /\ free' \in Nat
    BY <1>0, <2>1 DEF Passes
  <2> QED
    BY <2>4, <2>5, SlotsPassed
<1>6. ASSUME NEW c \in Clients, CancelAcquire(c) PROVE SlotsAccounted' /\ free' \in Nat
  <2> DEFINE value == IF pc[c] = "granted" THEN free + 1 ELSE free
  <2>1. PICK woken \in SUBSET Clients : Passes(c, "finishing", value, value, Without(waiters, c), woken)
    BY <1>6, CancelPasses
  <2>2. \A d \in woken : pc[d] = "waiting" /\ d \notin cancelled
    BY <2>1 DEF Passes, Unwoken
  <2>3. /\ c \in cancelled /\ pc[c] \in {"waiting", "granted"}
        /\ \A d \in Clients \ {c} : todo'[d] = todo[d]
    BY <1>6 DEF CancelAcquire, Abandon
  <2>4. free' = value - Cardinality(woken) /\ free' \in Nat /\ Cardinality(woken) \in Nat
    BY <1>0, <2>1 DEF Passes
  <2>5. CASE pc[c] = "granted"
    <3>1. Holders' = (Holders \ {c}) \cup woken /\ woken \cap Holders = {} /\ c \in Holders
      BY <2>1, <2>2, <2>3, <2>5 DEF Passes, Holders, Current
    <3>2. free' = free + Cardinality({c}) - Cardinality(woken)
      BY <1>0, <2>4, <2>5
    <3> QED
      BY <2>4, <3>1, <3>2, SlotsPassed
  <2>6. CASE pc[c] = "waiting"
    <3>1. Holders' = (Holders \ {}) \cup woken /\ woken \cap Holders = {}
      BY <2>1, <2>2, <2>3, <2>6 DEF Passes, Holders, Current
    <3>2. free' = free + Cardinality({}) - Cardinality(woken)
      BY <1>0, <2>4, <2>6
    <3> QED
      BY <2>4, <3>1, <3>2, SlotsPassed
  <2> QED
    BY <2>3, <2>5, <2>6
<1> QED
  BY <1>1, <1>2, <1>3, <1>4, <1>5, <1>6, NextCases

-----------------------------------------------------------------------------
(* A handler's step touches no other handler's line, and moves others only from   *)
(* waiting to having been given a slot.                                          *)
Move(c) == Plain(c) \/ Done(c) \/ DispatchNavigation(c) \/ Acquire(c) \/ CancelAcquire(c)

LEMMA OthersStep ==
    ASSUME TypeOK, QueueInv, NEW c \in Clients, Move(c)
    PROVE  /\ UNCHANGED cancelled
           /\ \A d \in Clients \ {c} :
                  /\ todo'[d] = todo[d] /\ replies'[d] = replies[d]
                  /\ answers'[d] = answers[d] /\ taken'[d] = taken[d]
                  /\ pc'[d] = pc[d] \/ (pc[d] = "waiting" /\ pc'[d] = "granted")
<1>1. CASE Plain(c)
  <2>1. \A d \in Clients \ {c} : pc'[d] = pc[d]
    <3>1. PICK label \in HandlerStates : pc' = [pc EXCEPT ![c] = label]
      BY <1>1, PlainStep
    <3> QED
      BY <3>1 DEF TypeOK
  <2>2. CASE \/ Connect(c) \/ StartHandler(c) \/ EndOfFile(c) \/ Drained(c) \/ FinishHandler(c)
             \/ DispatchUnhashable(c) \/ DispatchLookup(c) \/ CancelIdle(c) \/ CancelWorking(c)
    BY <2>1, <2>2 DEF Connect, StartHandler, EndOfFile, Drained, FinishHandler, DispatchUnhashable,
                      DispatchLookup, CancelIdle, CancelWorking, Abandon, TypeOK, conn
  <2>3. CASE ReadLine(c) \/ Answer(c)
    BY <2>1, <2>3 DEF ReadLine, Answer, Respond, TypeOK
  <2>4. CASE ItemDone(c) \/ CancelledDone(c)
    BY <2>1, <2>4 DEF ItemDone, CancelledDone, Abandon, TypeOK, conn
  <2> QED
    BY <1>1, <2>2, <2>3, <2>4 DEF Plain
<1>2. ASSUME NEW label, NEW value, NEW most, NEW queue, NEW woken \in SUBSET Clients,
             Passes(c, label, value, most, queue, woken)
      PROVE  \A d \in Clients \ {c} : pc'[d] = pc[d] \/ (pc[d] = "waiting" /\ pc'[d] = "granted")
  BY <1>2 DEF Passes, Unwoken
<1>3. CASE Done(c)
  <2>1. /\ UNCHANGED <<cancelled, conn>>
        /\ \A d \in Clients \ {c} : todo'[d] = todo[d] /\ replies'[d] = replies[d]
    BY <1>3 DEF Done, ItemDone, CancelledDone, Abandon, TypeOK
  <2>2. \E woken \in SUBSET Clients, label \in {"answer", "dispatch", "finishing"} :
          Passes(c, label, free + 1, 1, waiters, woken)
    BY <1>3, DoneStep
  <2> QED
    BY <1>2, <2>1, <2>2 DEF conn
<1>4. CASE DispatchNavigation(c)
  BY <1>4 DEF DispatchNavigation, Goto, TypeOK, conn
<1>5. CASE Acquire(c)
  <2>1. UNCHANGED <<cancelled, conn, todo, replies>>
    BY <1>5 DEF Acquire
  <2> QED
    BY <1>2, <1>5, <2>1, AcquirePasses DEF conn
<1>6. CASE CancelAcquire(c)
  <2>1. /\ UNCHANGED <<cancelled, conn>>
        /\ \A d \in Clients \ {c} : todo'[d] = todo[d] /\ replies'[d] = replies[d]
    BY <1>6 DEF CancelAcquire, Abandon, TypeOK
  <2> QED
    BY <1>2, <1>6, <2>1, CancelPasses DEF conn
<1> QED
  BY <1>1, <1>3, <1>4, <1>5, <1>6 DEF Move

(* The queue goes on to hold those that wait. *)
LEMMA QueueStep ==
    ASSUME TypeOK, QueueInv, [Next]_vars
    PROVE  QueueInv' /\ waiters' \in Seq(Clients)
<1>0. waiters \in Seq(Clients) /\ Once(waiters)
  BY DEF TypeOK, QueueInv
<1>1. CASE Elsewhere \/ UNCHANGED vars
  BY <1>0, <1>1, ElsewhereStep DEF QueueInv, slots, Current
<1>2. ASSUME NEW c \in Clients, Plain(c) PROVE QueueInv' /\ waiters' \in Seq(Clients)
  <2>1. PICK label \in HandlerStates \ {"waiting", "granted"} : pc' = [pc EXCEPT ![c] = label]
    BY <1>2, PlainStep
  <2>2. waiters' = waiters /\ pc[c] \notin {"waiting", "granted"} /\ \A d \in Clients \ {c} : todo'[d] = todo[d]
    BY <1>2, PlainStep DEF slots
  <2>3. \A d \in Clients : /\ pc'[d] \in {"waiting", "granted"} <=> pc[d] \in {"waiting", "granted"}
                           /\ pc[d] \in {"waiting", "granted"} => todo'[d] = todo[d]
    BY <2>1, <2>2 DEF TypeOK
  <2> QED
    BY <1>0, <2>2, <2>3 DEF QueueInv, Current
<1>3. ASSUME NEW c \in Clients, Done(c) PROVE QueueInv' /\ waiters' \in Seq(Clients)
  <2>1. PICK woken \in SUBSET Clients, label \in {"answer", "dispatch", "finishing"} :
            Passes(c, label, free + 1, 1, waiters, woken)
    BY <1>3, DoneStep
  <2>2. pc[c] \in {"working", "cancelling"} /\ \A d \in Clients \ {c} : todo'[d] = todo[d]
    BY <1>3, DoneStep
  <2>3. \A d \in Clients : /\ pc'[d] \in {"waiting", "granted"} <=> pc[d] \in {"waiting", "granted"}
                           /\ pc[d] \in {"waiting", "granted"} => todo'[d] = todo[d]
    BY <2>1, <2>2 DEF Passes, Unwoken
  <2>4. waiters' = waiters
    BY <2>1 DEF Passes
  <2> QED
    BY <1>0, <2>3, <2>4 DEF QueueInv, Current
<1>4. ASSUME NEW c \in Clients, DispatchNavigation(c) PROVE QueueInv' /\ waiters' \in Seq(Clients)
  <2>1. pc[c] = "dispatch" /\ Current(c) \in Navigations /\ UNCHANGED todo
    BY <1>4 DEF DispatchNavigation
  <2>2. c \notin Listed(waiters)
    BY <2>1 DEF QueueInv
  <2>3. CASE Locked
    <3>1. waiters' = Append(waiters, c) /\ pc' = [pc EXCEPT ![c] = "waiting"]
      BY <1>4, <2>3 DEF DispatchNavigation, Goto
    <3>2. waiters' \in Seq(Clients) /\ Once(waiters') /\ Listed(waiters') = Listed(waiters) \cup {c}
      BY <1>0, <2>2, <3>1, QueueAppend
    <3>3. \A d \in Clients : pc'[d] \in {"waiting", "granted"} <=> pc[d] \in {"waiting", "granted"} \/ d = c
      BY <2>1, <3>1 DEF TypeOK
    <3> QED
      BY <2>1, <3>2, <3>3 DEF QueueInv, Current
  <2>4. CASE ~Locked
    <3>1. waiters' = waiters /\ pc' = [pc EXCEPT ![c] = "working"]
      BY <1>4, <2>4 DEF DispatchNavigation, Goto
    <3>2. \A d \in Clients : pc'[d] \in {"waiting", "granted"} <=> pc[d] \in {"waiting", "granted"}
      BY <2>1, <3>1 DEF TypeOK
    <3> QED
      BY <1>0, <2>1, <3>1, <3>2 DEF QueueInv, Current
  <2> QED
    BY <2>3, <2>4
<1>5. ASSUME NEW c \in Clients, NEW value, NEW woken \in SUBSET Clients, NEW label,
             label \notin {"waiting", "granted"}, pc[c] \in {"waiting", "granted"}, \A d \in Clients \ {c} : todo'[d] = todo[d],
             Passes(c, label, value, value, Without(waiters, c), woken)
      PROVE  QueueInv' /\ waiters' \in Seq(Clients)
  <2>1. /\ waiters' \in Seq(Clients) /\ Once(waiters') /\ Listed(waiters') = Listed(waiters) \ {c}
    BY <1>5, QueueTypes DEF Passes
  <2>2. \A d \in Clients : pc'[d] \in {"waiting", "granted"} <=> pc[d] \in {"waiting", "granted"} /\ d # c
    BY <1>5 DEF Passes, Unwoken
  <2> QED
    BY <1>5, <2>1, <2>2 DEF QueueInv, Current
<1>6. ASSUME NEW c \in Clients, Acquire(c) PROVE QueueInv' /\ waiters' \in Seq(Clients)
  <2>1. pc[c] \in {"waiting", "granted"} /\ \A d \in Clients \ {c} : todo'[d] = todo[d]
    BY <1>6 DEF Acquire
  <2> QED
    BY <1>5, <1>6, <2>1, AcquirePasses
<1>7. ASSUME NEW c \in Clients, CancelAcquire(c) PROVE QueueInv' /\ waiters' \in Seq(Clients)
  <2>1. pc[c] \in {"waiting", "granted"} /\ \A d \in Clients \ {c} : todo'[d] = todo[d]
    BY <1>7 DEF CancelAcquire, Abandon, TypeOK
  <2> QED
    BY <1>5, <1>7, <2>1, CancelPasses
<1> QED
  BY <1>1, <1>2, <1>3, <1>4, <1>6, <1>7, NextCases

-----------------------------------------------------------------------------
(* What is given back reaches one that waits, as long as one does. *)
LEMMA IdleStep ==
    ASSUME TypeOK, QueueInv, NoSlotIdle, [Next]_vars
    PROVE  NoSlotIdle'
<1>1. CASE Elsewhere \/ UNCHANGED vars
  <2>1. UNCHANGED <<pc, free>>
    BY <1>1, ElsewhereStep DEF slots
  <2>2. \A d \in Clients : Unwoken(d)' => Unwoken(d)
    <3>1. CASE UNCHANGED cancelled
      BY <2>1, <3>1 DEF Unwoken
    <3>2. CASE BeginClose
      BY <2>1, <3>2 DEF BeginClose, Unwoken, Registered
    <3> QED
      BY <1>1, <3>1, <3>2 DEF vars, Elsewhere, Send, ReadAnswer, Disconnect, FinishLookup, FinishNavigation,
                              FinishWorker, RunWorker, Gathered, EndClose
  <2> QED
    BY <2>1, <2>2 DEF NoSlotIdle
<1>2. ASSUME NEW c \in Clients, Plain(c) PROVE NoSlotIdle'
  <2>1. PICK label \in HandlerStates \ {"waiting", "granted"} : pc' = [pc EXCEPT ![c] = label]
    BY <1>2, PlainStep
  <2>2. pc[c] \notin {"waiting", "granted"} /\ UNCHANGED <<free, cancelled>>
    BY <1>2, PlainStep, OthersStep DEF slots, Move
  <2>3. \A d \in Clients : (Unwoken(d)' <=> Unwoken(d)) /\ (pc'[d] = "granted" <=> pc[d] = "granted")
    BY <2>1, <2>2 DEF TypeOK, Unwoken
  <2> QED
    BY <2>2, <2>3 DEF NoSlotIdle
<1>3. ASSUME NEW c \in Clients, Done(c) PROVE NoSlotIdle'
  <2>1. PICK woken \in SUBSET Clients, label \in {"answer", "dispatch", "finishing"} :
            Passes(c, label, free + 1, 1, waiters, woken)
    BY <1>3, DoneStep
  <2>2. pc[c] \in {"working", "cancelling"} /\ UNCHANGED cancelled
    BY <1>3, DoneStep, OthersStep DEF Move
  <2>3. ASSUME NEW d \in Clients, Unwoken(d)'
        PROVE  free' = 0 \/ \E e \in Clients : pc'[e] = "granted"
    <3>1. Unwoken(d) /\ d \in Listed(waiters) \ woken
      <4>1. pc'[d] = "waiting" /\ d \notin cancelled
        BY <2>2, <2>3 DEF Unwoken
      <4>2. pc[d] = "waiting" /\ d \notin woken
        BY <2>1, <4>1 DEF Passes
      <4> QED
        BY <4>1, <4>2 DEF Unwoken, QueueInv
    <3>2. free \in Nat
      BY QueueTypes
    <3>3. /\ Cardinality(woken) \in {free + 1, 1} /\ Cardinality(woken) \in Nat
          /\ free' = (free + 1) - Cardinality(woken)
      BY <2>1, <3>1, <3>2 DEF Passes
    <3>4. CASE Cardinality(woken) = free + 1
      BY <3>2, <3>3, <3>4
    <3>5. CASE Cardinality(woken) = 1
      <4>1. woken # {}
        BY <3>5, FS_EmptySet
      <4>2. PICK e \in woken : TRUE
        BY <4>1
      <4>3. pc'[e] = "granted"
        BY <2>1, <2>2 DEF Passes, Unwoken
      <4> QED
        BY <4>3
    <3> QED
      BY <3>3, <3>4, <3>5
  <2> QED
    BY <2>3 DEF NoSlotIdle
<1>4. ASSUME NEW c \in Clients, DispatchNavigation(c) PROVE NoSlotIdle'
  <2>1. pc[c] = "dispatch" /\ UNCHANGED cancelled
    BY <1>4 DEF DispatchNavigation
  <2>2. CASE Locked
    <3>1. pc' = [pc EXCEPT ![c] = "waiting"] /\ free' = free
      BY <1>4, <2>2 DEF DispatchNavigation, Goto
    <3>2. free = 0 \/ \E d \in Clients : pc[d] = "granted"
      <4>1. \A i \in DOMAIN waiters : waiters[i] \in Clients
        BY QueueTypes, LenProperties, ElementOfSeq
      <4> QED
        BY <2>2, <4>1 DEF Locked, NoSlotIdle
    <3>3. \A d \in Clients : pc[d] = "granted" => pc'[d] = "granted"
      BY <2>1, <3>1 DEF TypeOK
    <3> QED
      BY <3>1, <3>2, <3>3 DEF NoSlotIdle
  <2>3. CASE ~Locked
    <3>1. pc' = [pc EXCEPT ![c] = "working"]
      BY <1>4, <2>3 DEF DispatchNavigation, Goto
    <3>2. \A d \in Clients : ~Unwoken(d)
      BY <2>3 DEF Locked, QueueInv, Listed, Unwoken
    <3> QED
      BY <2>1, <3>1, <3>2 DEF NoSlotIdle, Unwoken, TypeOK
  <2> QED
    BY <2>2, <2>3
<1>5. ASSUME NEW c \in Clients, NEW value \in Nat, NEW woken \in SUBSET Clients, NEW label,
             label # "waiting", pc[c] \in {"waiting", "granted"}, UNCHANGED cancelled,
             Passes(c, label, value, value, Without(waiters, c), woken)
      PROVE  NoSlotIdle'
  <2>1. ASSUME NEW d \in Clients, Unwoken(d)' PROVE free' = 0
    <3>1. Unwoken(d) /\ d # c /\ d \notin woken
      BY <1>5, <2>1 DEF Passes, Unwoken
    <3>2. d \in Listed(Without(waiters, c))
      BY <1>5, <3>1, QueueTypes DEF QueueInv, Unwoken
    <3>3. Cardinality(woken) = value
      BY <1>5, <3>1, <3>2 DEF Passes
    <3> QED
      BY <1>5, <3>3 DEF Passes
  <2> QED
    BY <2>1 DEF NoSlotIdle
<1>6. ASSUME NEW c \in Clients, Acquire(c) PROVE NoSlotIdle'
  <2>1. pc[c] \in {"waiting", "granted"} /\ UNCHANGED cancelled
    BY <1>6 DEF Acquire
  <2>2. free \in Nat
    BY QueueTypes
  <2> QED
    BY <1>5, <1>6, <2>1, <2>2, AcquirePasses
<1>7. ASSUME NEW c \in Clients, CancelAcquire(c) PROVE NoSlotIdle'
  <2> DEFINE value == IF pc[c] = "granted" THEN free + 1 ELSE free
  <2>1. pc[c] \in {"waiting", "granted"} /\ UNCHANGED cancelled
    BY <1>7 DEF CancelAcquire
  <2>2. value \in Nat
    BY QueueTypes
  <2>3. PICK woken \in SUBSET Clients : Passes(c, "finishing", value, value, Without(waiters, c), woken)
    BY <1>7, CancelPasses
  <2> HIDE DEF value
  <2> QED
    BY <1>5, <2>1, <2>2, <2>3
<1> QED
  BY <1>1, <1>2, <1>3, <1>4, <1>6, <1>7, NextCases

-----------------------------------------------------------------------------
AtWork == {"working", "cancelling"}

(* A handler that submits its item had none at work. *)
LEMMA SubmitStep ==
    ASSUME TypeOK, WorkInv, NEW c \in Clients, Submit(c), pc[c] \notin AtWork
    PROVE  /\ pool' \in Seq(Clients) /\ Once(pool') /\ \A d \in Listed(pool') : worker'[d] = "queued"
           /\ worker' = [worker EXCEPT ![c] = "queued"]
<1>1. worker[c] = "none" /\ pool \in Seq(Clients) /\ Once(pool)
  BY DEF TypeOK, WorkInv, AtWork
<1>2. c \notin Listed(pool)
  BY <1>1 DEF WorkInv
<1>3. pool' = Append(pool, c) /\ worker' = [worker EXCEPT ![c] = "queued"]
  BY DEF Submit
<1>4. pool' \in Seq(Clients) /\ Once(pool') /\ Listed(pool') = Listed(pool) \cup {c}
  BY <1>1, <1>2, <1>3, QueueAppend
<1>5. Listed(pool) \subseteq Clients
  BY <1>1, LenProperties, ElementOfSeq DEF Listed
<1> QED
  BY <1>3, <1>4, <1>5 DEF WorkInv, TypeOK

(* The threads at work are those of the handlers that wait for them. *)
LEMMA WorkStep ==
    ASSUME TypeOK, QueueInv, WorkInv, [Next]_vars
    PROVE  WorkInv' /\ pool' \in Seq(Clients)
<1>0. pool \in Seq(Clients) /\ Once(pool) /\ Listed(pool) \subseteq Clients
  BY LenProperties, ElementOfSeq DEF TypeOK, WorkInv, Listed
<1>1. ASSUME UNCHANGED <<worker, pool>>, \A d \in Clients : pc'[d] \in AtWork <=> pc[d] \in AtWork
      PROVE  WorkInv' /\ pool' \in Seq(Clients)
  BY <1>0, <1>1 DEF WorkInv, AtWork
<1>2. CASE UNCHANGED vars
  BY <1>1, <1>2 DEF vars, work
<1>3. CASE Elsewhere
  <2>1. pc' = pc
    BY <1>3, ElsewhereStep
  <2>2. CASE RunWorker
    <3>1. /\ pool # <<>> /\ pool' = Tail(pool) /\ worker' = [worker EXCEPT ![Head(pool)] = "running"]
      BY <2>2 DEF RunWorker
    <3>2. /\ Head(pool) \in Listed(pool) /\ Head(pool) \in Clients /\ pool' \in Seq(Clients) /\ Once(pool')
          /\ Listed(pool') = Listed(pool) \ {Head(pool)}
      BY <1>0, <3>1, QueueTail
    <3>3. \A d \in Clients : worker'[d] # "none" <=> worker[d] # "none"
      BY <3>1, <3>2 DEF WorkInv, TypeOK
    <3>4. \A d \in Listed(pool') : worker'[d] = "queued"
      BY <1>0, <3>1, <3>2 DEF WorkInv, TypeOK
    <3> QED
      BY <2>1, <3>2, <3>3, <3>4 DEF WorkInv
  <2>3. ASSUME NEW c \in Clients, FinishWorker(c) PROVE WorkInv' /\ pool' \in Seq(Clients)
    <3>1. worker[c] = "running" /\ worker' = [worker EXCEPT ![c] = "done"] /\ pool' = pool
      BY <2>3 DEF FinishWorker
    <3>2. \A d \in Clients : /\ worker'[d] # "none" <=> worker[d] # "none"
                             /\ worker[d] = "queued" => worker'[d] = "queued"
      BY <3>1 DEF TypeOK
    <3> QED
      BY <1>0, <2>1, <3>1, <3>2 DEF WorkInv
  <2>4. CASE \/ \E c \in Clients : Send(c) \/ ReadAnswer(c) \/ Disconnect(c)
             \/ BeginClose \/ Gathered \/ EndClose
    BY <1>1, <2>1, <2>4 DEF Send, ReadAnswer, Disconnect, BeginClose, Gathered, EndClose, work
  <2> QED
    BY <1>3, <2>2, <2>3, <2>4 DEF Elsewhere, FinishLookup, FinishNavigation
<1>4. ASSUME NEW c \in Clients, Submit(c), pc[c] \notin AtWork, pc'[c] \in AtWork,
             \A d \in Clients \ {c} : pc'[d] \in AtWork <=> pc[d] \in AtWork
      PROVE  WorkInv' /\ pool' \in Seq(Clients)
  BY <1>4, SubmitStep DEF WorkInv, AtWork, TypeOK
<1>5. ASSUME NEW c \in Clients, Move(c) PROVE WorkInv' /\ pool' \in Seq(Clients)
  <2>1. \A d \in Clients \ {c} : pc'[d] \in AtWork <=> pc[d] \in AtWork
    BY <1>5, OthersStep DEF AtWork
  <2>2. CASE \/ Connect(c) \/ StartHandler(c) \/ ReadLine(c) \/ EndOfFile(c) \/ Drained(c) \/ FinishHandler(c)
             \/ DispatchUnhashable(c) \/ Answer(c) \/ CancelIdle(c)
    <3>1. UNCHANGED <<worker, pool>> /\ pc[c] \notin AtWork
      BY <2>2 DEF Connect, StartHandler, ReadLine, EndOfFile, Drained, FinishHandler, DispatchUnhashable, Answer,
                  CancelIdle, work, AtWork
    <3>2. pc'[c] \notin AtWork
      BY <2>2 DEF Connect, StartHandler, ReadLine, EndOfFile, Drained, FinishHandler, DispatchUnhashable, Answer,
                  CancelIdle, Goto, Respond, AtWork, TypeOK
    <3> QED
      BY <1>1, <2>1, <3>1, <3>2
  <2>3. CASE CancelWorking(c)
    <3>1. UNCHANGED <<worker, pool>> /\ pc[c] \in AtWork /\ pc'[c] \in AtWork
      BY <2>3 DEF CancelWorking, Goto, AtWork, TypeOK
    <3> QED
      BY <1>1, <2>1, <3>1
  <2>4. CASE DispatchLookup(c)
    BY <1>4, <2>1, <2>4 DEF DispatchLookup, Goto, AtWork, TypeOK
  <2>5. CASE DispatchNavigation(c)
    <3>1. CASE Locked
      <4>1. UNCHANGED <<worker, pool>> /\ pc[c] \notin AtWork /\ pc'[c] \notin AtWork
        BY <2>5, <3>1 DEF DispatchNavigation, Goto, AtWork, TypeOK, work
      <4> QED
        BY <1>1, <2>1, <4>1
    <3>2. CASE ~Locked
      BY <1>4, <2>1, <2>5, <3>2 DEF DispatchNavigation, Goto, AtWork, TypeOK
    <3> QED
      BY <3>1, <3>2
  <2>6. CASE Acquire(c)
    <3>1. Submit(c) /\ pc[c] = "granted"
      BY <2>6 DEF Acquire
    <3>2. pc'[c] = "working"
      BY <2>6, AcquirePasses DEF Passes
    <3> QED
      BY <1>4, <2>1, <3>1, <3>2 DEF AtWork
  <2>7. CASE CancelAcquire(c)
    <3>1. UNCHANGED <<worker, pool>> /\ pc[c] \notin AtWork
      BY <2>7 DEF CancelAcquire, work, AtWork
    <3>2. pc'[c] = "finishing"
      BY <2>7, CancelPasses DEF Passes
    <3> QED
      BY <1>1, <2>1, <3>1, <3>2 DEF AtWork
  <2>8. CASE ItemDone(c) \/ CancelledDone(c)
    <3>1. worker[c] = "done" /\ worker' = [worker EXCEPT ![c] = "none"] /\ pool' = pool
      BY <2>8 DEF ItemDone, CancelledDone
    <3>2. pc'[c] \notin AtWork
      <4>1. CASE Current(c) \in Navigations
        <5>1. PICK woken \in SUBSET Clients, label \in {"answer", "dispatch", "finishing"} :
                  Passes(c, label, free + 1, 1, waiters, woken)
          BY <2>8, <4>1, DoneStep DEF Done
        <5> QED
          BY <5>1 DEF Passes, AtWork
      <4>2. CASE Current(c) \notin Navigations
        <5>1. \E label \in {"answer", "dispatch", "finishing"} : pc' = [pc EXCEPT ![c] = label]
          BY <2>8, <4>2 DEF ItemDone, CancelledDone, Goto
        <5> QED
          BY <5>1 DEF AtWork, TypeOK
      <4> QED
        BY <4>1, <4>2
    <3>3. \A d \in Listed(pool') : worker'[d] = "queued"
      BY <1>0, <3>1 DEF WorkInv, TypeOK
    <3> QED
      BY <1>0, <2>1, <3>1, <3>2, <3>3 DEF WorkInv, TypeOK, AtWork
  <2> QED
    BY <1>5, <2>2, <2>3, <2>4, <2>5, <2>6, <2>7, <2>8 DEF Move, Plain, Done
<1> QED
  BY <1>2, <1>3, <1>5, NextCases DEF Move

-----------------------------------------------------------------------------
(* Who is connected, and what stands at an await when it is cancelled. *)
LEMMA CloseStep ==
    ASSUME TypeOK, QueueInv, CloseInv, [Next]_vars
    PROVE  CloseInv'
<1>1. ASSUME UNCHANGED <<pc, attached, cancelled>>, server' = "closed" => server = "closed" \/ attached = {}
      PROVE  CloseInv'
  BY <1>1 DEF CloseInv
<1>2. CASE Elsewhere \/ UNCHANGED vars
  <2>1. pc' = pc
    BY <1>2, ElsewhereStep
  <2>2. CASE BeginClose
    <3>1. UNCHANGED attached /\ server' = "gathering" /\ cancelled' = Registered /\ LoopFree
      BY <2>2 DEF BeginClose, conn
    <3> QED
      BY <2>1, <3>1 DEF CloseInv, Registered, LoopFree
  <2>3. CASE Gathered \/ EndClose
    BY <1>1, <2>3 DEF Gathered, EndClose, conn
  <2>4. CASE \/ UNCHANGED vars \/ RunWorker
             \/ \E c \in Clients : Send(c) \/ ReadAnswer(c) \/ Disconnect(c) \/ FinishLookup(c) \/ FinishNavigation(c)
    BY <1>1, <2>4 DEF vars, conn, RunWorker, Send, ReadAnswer, Disconnect, FinishLookup, FinishNavigation, FinishWorker
  <2> QED
    BY <1>2, <2>2, <2>3, <2>4 DEF Elsewhere
<1> DEFINE Still(c) == pc[c] \notin {"absent", "done"} /\ pc'[c] \notin {"absent", "done"}
<1>3. ASSUME NEW c \in Clients, Move(c) PROVE CloseInv'
  <2>1. /\ UNCHANGED cancelled /\ cancelled \subseteq Clients
        /\ \A d \in Clients \ {c} : pc'[d] = pc[d] \/ (pc[d] = "waiting" /\ pc'[d] = "granted")
    BY <1>3, OthersStep DEF TypeOK
  <2>2. ASSUME UNCHANGED <<server, attached>>, Still(c),
               c \in cancelled => pc'[c] \notin {"absent", "accepted", "dispatch", "answer"}
        PROVE  CloseInv'
    BY <2>1, <2>2 DEF CloseInv
  <2>3. CASE Connect(c)
    BY <2>1, <2>3 DEF Connect, Goto, CloseInv, TypeOK
  <2>4. CASE FinishHandler(c)
    BY <2>1, <2>4 DEF FinishHandler, Goto, CloseInv, TypeOK
  <2>5. CASE \/ StartHandler(c) \/ EndOfFile(c) \/ DispatchUnhashable(c) \/ DispatchLookup(c)
             \/ CancelIdle(c) \/ CancelWorking(c)
    BY <2>2, <2>5 DEF StartHandler, EndOfFile, DispatchUnhashable, DispatchLookup, CancelIdle, CancelWorking, Goto,
                      conn, TypeOK, CloseInv
  <2>6. CASE Drained(c)
    <3>1. UNCHANGED <<server, attached>> /\ pc[c] \in {"draining", "lastDrain"}
      BY <2>6 DEF Drained, conn
    <3>2. pc' = [pc EXCEPT ![c] = "finishing"] \/ pc' = [pc EXCEPT ![c] = "reading"]
      BY <2>6 DEF Drained, Goto
    <3>3. pc'[c] \in {"finishing", "reading"}
      BY <3>2 DEF TypeOK
    <3> QED
      BY <2>2, <3>1, <3>3
  <2>7. CASE ReadLine(c) \/ Answer(c)
    <3>1. UNCHANGED <<server, attached>> /\ pc[c] \in {"reading", "answer"} /\ (pc[c] = "reading" => c \notin cancelled)
      BY <2>7 DEF ReadLine, Answer
    <3>2. \E label \in {"dispatch", "draining", "lastDrain"} : pc' = [pc EXCEPT ![c] = label]
      BY <2>7 DEF ReadLine, Answer, Respond, Goto
    <3>3. pc'[c] \in {"dispatch", "draining", "lastDrain"}
      BY <3>2 DEF TypeOK
    <3> QED
      BY <2>2, <3>1, <3>3 DEF CloseInv
  <2>8. CASE DispatchNavigation(c)
    BY <2>2, <2>8 DEF DispatchNavigation, Goto, conn, TypeOK, CloseInv
  <2>9. CASE Acquire(c)
    <3>1. pc'[c] = "working"
      BY <2>9, AcquirePasses DEF Passes
    <3> QED
      BY <2>2, <2>9, <3>1 DEF Acquire, conn
  <2>10. CASE CancelAcquire(c)
    <3>1. pc'[c] = "finishing"
      BY <2>10, CancelPasses DEF Passes
    <3> QED
      BY <2>2, <2>10, <3>1 DEF CancelAcquire, conn
  <2>11. CASE ItemDone(c) \/ CancelledDone(c)
    <3>1. /\ UNCHANGED <<server, attached>> /\ pc[c] \in AtWork
          /\ ItemDone(c) => c \notin cancelled
      BY <2>11 DEF ItemDone, CancelledDone, conn, AtWork
    <3>2. /\ pc'[c] \in {"answer", "dispatch", "finishing"}
          /\ CancelledDone(c) => pc'[c] = "finishing"
      <4>1. CASE Current(c) \in Navigations
        <5>1. \E label \in {"answer", "dispatch", "finishing"} :
                  Release(c, label) /\ (CancelledDone(c) => label = "finishing")
          BY <2>11, <4>1 DEF ItemDone, CancelledDone
        <5> QED
          BY <5>1, ReleasePasses DEF Passes
      <4>2. CASE Current(c) \notin Navigations
        BY <2>11, <4>2 DEF ItemDone, CancelledDone, Goto, TypeOK
      <4> QED
        BY <4>1, <4>2
    <3> QED
      BY <2>2, <2>11, <3>1, <3>2 DEF AtWork
  <2> QED
    BY <1>3, <2>3, <2>4, <2>5, <2>6, <2>7, <2>8, <2>9, <2>10, <2>11 DEF Move, Plain, Done
<1> QED
  BY <1>2, <1>3, NextCases DEF Move

-----------------------------------------------------------------------------
(* One item of a line is answered, the rest of the line is still to do. *)
LEMMA ItemMoves ==
    ASSUME NEW S, NEW done \in Seq(S), NEW left \in Seq(S), left # <<>>
    PROVE  /\ Append(done, Head(left)) \in Seq(S) /\ Tail(left) \in Seq(S) /\ Head(left) \in S
           /\ Append(done, Head(left)) \o Tail(left) = done \o left
           /\ Len(left) = 1 => Append(done, Head(left)) = done \o left
           /\ Len(left) # 1 => Tail(left) # <<>>
<1> DEFINE rest == Tail(left)
           more == Append(done, Head(left))
<1>1. /\ Head(left) \in S /\ rest \in Seq(S) /\ Len(rest) = Len(left) - 1 /\ Len(left) \in Nat \ {0}
      /\ \A i \in 1..Len(rest) : rest[i] = left[i + 1]
  BY HeadTailProperties, EmptySeq
<1>2. Head(left) = left[1]
  BY <1>1
<1>3. /\ more \in Seq(S) /\ Len(more) = Len(done) + 1 /\ Len(done) \in Nat
      /\ \A i \in 1..Len(done) : more[i] = done[i]
      /\ more[Len(done) + 1] = left[1]
  BY <1>1, <1>2, AppendProperties, LenProperties
<1> HIDE DEF rest, more
<1>4. /\ done \o left \in Seq(S) /\ Len(done \o left) = Len(done) + Len(left)
      /\ \A i \in 1..(Len(done) + Len(left)) :
             (done \o left)[i] = IF i <= Len(done) THEN done[i] ELSE left[i - Len(done)]
  BY ConcatProperties
<1>5. /\ more \o rest \in Seq(S) /\ Len(more \o rest) = Len(more) + Len(rest)
      /\ \A i \in 1..(Len(more) + Len(rest)) :
             (more \o rest)[i] = IF i <= Len(more) THEN more[i] ELSE rest[i - Len(more)]
  BY <1>1, <1>3, ConcatProperties
<1>6. more \o rest = done \o left
  <2>1. Len(more \o rest) = Len(done \o left)
    BY <1>1, <1>3, <1>4, <1>5
  <2>2. ASSUME NEW i \in 1..Len(more \o rest) PROVE (more \o rest)[i] = (done \o left)[i]
    <3>1. i \in 1..(Len(more) + Len(rest)) /\ i \in 1..(Len(done) + Len(left))
      BY <1>1, <1>3, <1>5, <2>2
    <3>2. CASE i <= Len(done)
      BY <1>3, <1>4, <1>5, <3>1, <3>2
    <3>3. CASE i = Len(done) + 1
      BY <1>1, <1>3, <1>4, <1>5, <3>1, <3>3
    <3>4. CASE i > Len(done) + 1
      <4>1. i - Len(more) \in 1..Len(rest) /\ (i - Len(more)) + 1 = i - Len(done)
        BY <1>1, <1>3, <3>1, <3>4
      <4>2. (more \o rest)[i] = left[i - Len(done)]
        <5>1. (more \o rest)[i] = rest[i - Len(more)]
          BY <1>3, <1>5, <3>1, <3>4
        <5>2. rest[i - Len(more)] = left[(i - Len(more)) + 1]
          BY <1>1, <4>1
        <5> QED
          BY <4>1, <5>1, <5>2
      <4>3. (done \o left)[i] = left[i - Len(done)]
        BY <1>3, <1>4, <3>1, <3>4
      <4> QED
        BY <4>2, <4>3
    <3> QED
      BY <1>3, <3>1, <3>2, <3>3, <3>4
  <2> QED
    BY <1>4, <1>5, <2>1, <2>2, SeqEqual
<1>7. CASE Len(left) = 1
  <2>1. rest = <<>>
    BY <1>1, <1>7, EmptySeq
  <2>2. more = done \o left
    BY <1>3, <1>6, <2>1, ConcatEmptySeq
  <2> QED
    BY <1>1, <1>3, <1>6, <1>7, <2>2 DEF rest, more
<1>8. CASE Len(left) # 1
  <2>1. rest # <<>>
    BY <1>1, <1>8, EmptySeq
  <2> QED
    BY <1>1, <1>3, <1>6, <1>8, <2>1 DEF rest, more
<1> QED
  BY <1>7, <1>8

(* Every handler's line, at every step of its handler. *)
LEMMA LineStep ==
    ASSUME TypeOK, QueueInv, LineInv, [Next]_vars
    PROVE  LineInv'
<1>1. CASE Elsewhere \/ UNCHANGED vars
  BY <1>1, ElsewhereStep DEF LineInv, LineOf
<1>2. ASSUME NEW c \in Clients, Move(c), NEW d \in Clients \ {c} PROVE LineOf(d)'
  <2>1. /\ todo'[d] = todo[d] /\ replies'[d] = replies[d] /\ answers'[d] = answers[d] /\ taken'[d] = taken[d]
        /\ pc'[d] = pc[d] \/ (pc[d] = "waiting" /\ pc'[d] = "granted")
    BY <1>2, OthersStep
  <2>2. LineOf(d)
    BY DEF LineInv
  <2> QED
    BY <2>1, <2>2 DEF LineOf, InLine
<1>3. ASSUME NEW c \in Clients, Move(c) PROVE LineOf(c)'
  <2>2. LineOf(c)
    BY DEF LineInv
  <2>3. /\ todo[c] \in Seq(Items) /\ replies[c] \in Seq(Items) /\ inbox[c] \in Seq(Lines)
        /\ taken[c] \in Seq(Seq(Items)) /\ answers[c] \in Seq(Seq(Items))
    BY DEF TypeOK
  <2>4. ASSUME UNCHANGED <<todo, replies, answers, taken>>, pc[c] \in InLine /\ pc'[c] \in InLine PROVE LineOf(c)'
    BY <2>2, <2>4 DEF LineOf, InLine
  <2>5. ASSUME replies'[c] = <<>>, pc'[c] \in {"finishing", "done"} PROVE LineOf(c)'
    BY <2>5 DEF LineOf, InLine
  <2>6. ASSUME UNCHANGED <<todo, replies, answers, taken>>, pc[c] \notin InLine \cup {"answer"},
               pc'[c] \in {"accepted", "reading", "finishing", "done"},
               pc'[c] \in {"accepted", "reading"} => pc[c] \in {"absent", "accepted", "draining"}
        PROVE  LineOf(c)'
    BY <2>2, <2>6 DEF LineOf, InLine
  <2>7. CASE Connect(c) \/ StartHandler(c) \/ EndOfFile(c) \/ FinishHandler(c) \/ CancelIdle(c)
    <3>1. UNCHANGED <<todo, replies, answers, taken>> /\ pc[c] \notin InLine \cup {"answer"}
      BY <2>7 DEF Connect, StartHandler, EndOfFile, FinishHandler, CancelIdle, conn, InLine
    <3>2. /\ pc'[c] \in {"accepted", "reading", "finishing", "done"}
          /\ pc'[c] \in {"accepted", "reading"} => pc[c] \in {"absent", "accepted", "draining"}
      BY <2>7 DEF Connect, StartHandler, EndOfFile, FinishHandler, CancelIdle, Goto, TypeOK
    <3> QED
      BY <2>6, <3>1, <3>2
  <2>8. CASE Drained(c)
    <3>1. UNCHANGED <<todo, replies, answers, taken>> /\ pc[c] \in {"draining", "lastDrain"}
      BY <2>8 DEF Drained, conn
    <3>2. /\ pc' = [pc EXCEPT ![c] = "finishing"] \/ pc' = [pc EXCEPT ![c] = "reading"]
          /\ pc[c] = "lastDrain" => pc' = [pc EXCEPT ![c] = "finishing"]
      BY <2>8 DEF Drained, Goto
    <3>3. pc'[c] \in {"finishing", "reading"} /\ (pc[c] = "lastDrain" => pc'[c] = "finishing")
      BY <3>2 DEF TypeOK
    <3> QED
      BY <2>6, <3>1, <3>3 DEF InLine
  <2>9. CASE ReadLine(c)
    <3> DEFINE line == Head(inbox[c])
    <3>1. /\ pc[c] = "reading" /\ inbox[c] # <<>> /\ replies' = replies
          /\ taken' = [taken EXCEPT ![c] = Append(@, line.items)]
          /\ IF line.kind = "call"
             THEN pc' = [pc EXCEPT ![c] = "dispatch"] /\ todo' = [todo EXCEPT ![c] = line.items] /\ answers' = answers
             ELSE /\ pc' = [pc EXCEPT ![c] = IF line.kind = "error" THEN "draining" ELSE "lastDrain"]
                  /\ answers' = [answers EXCEPT ![c] = Append(@, <<>>)]
      BY <2>9 DEF ReadLine, Respond, Goto
    <3>2. line \in Lines
      BY <2>3, <3>1, HeadTailProperties
    <3> HIDE DEF line
    <3>3. line.items \in Seq(Items) /\ (line.kind = "call" <=> line.items # <<>>)
      BY <3>2, LinesAssumption
    <3>4. replies[c] = <<>> /\ answers[c] = taken[c]
      BY <2>2, <3>1 DEF LineOf, InLine
    <3>5. <<>> \o line.items = line.items
      BY <3>3, ConcatEmptySeq
    <3>6. taken'[c] = Append(taken[c], line.items) /\ replies'[c] = <<>>
      BY <3>1, <3>4 DEF TypeOK
    <3>7. CASE line.kind = "call"
      <4>1. pc'[c] = "dispatch" /\ todo'[c] = line.items /\ answers'[c] = answers[c]
        BY <3>1, <3>7 DEF TypeOK
      <4> QED
        BY <3>3, <3>4, <3>5, <3>6, <3>7, <4>1 DEF LineOf, InLine
    <3>8. CASE line.kind # "call"
      <4>1. pc'[c] \in {"draining", "lastDrain"} /\ answers'[c] = Append(answers[c], <<>>)
        BY <3>1, <3>8 DEF TypeOK
      <4> QED
        BY <3>3, <3>4, <3>6, <3>8, <4>1 DEF LineOf, InLine
    <3> QED
      BY <3>7, <3>8
  <2>10. CASE Answer(c)
    <3>1. /\ pc[c] = "answer" /\ pc'[c] = "draining" /\ answers'[c] = Append(answers[c], replies[c])
          /\ taken' = taken /\ replies'[c] = <<>>
      BY <2>10 DEF Answer, Respond, Goto, TypeOK
    <3> QED
      BY <2>2, <3>1 DEF LineOf, InLine
  <2>11. CASE DispatchLookup(c) \/ DispatchNavigation(c) \/ CancelWorking(c)
    <3>1. UNCHANGED <<todo, replies, answers, taken>> /\ pc[c] \in InLine
      BY <2>11 DEF DispatchLookup, DispatchNavigation, CancelWorking, conn, InLine
    <3>2. \E label \in InLine : pc' = [pc EXCEPT ![c] = label]
      BY <2>11 DEF DispatchLookup, DispatchNavigation, CancelWorking, Goto, InLine
    <3>3. pc'[c] \in InLine
      BY <3>2 DEF TypeOK
    <3> QED
      BY <2>4, <3>1, <3>3
  <2>12. CASE Acquire(c)
    <3>1. UNCHANGED <<todo, replies, answers, taken>> /\ pc[c] \in InLine
      BY <2>12 DEF Acquire, conn, InLine
    <3>2. pc'[c] \in InLine
      BY <2>12, AcquirePasses DEF Passes, InLine
    <3> QED
      BY <2>4, <3>1, <3>2
  <2>13. CASE DispatchUnhashable(c)
    BY <2>5, <2>13 DEF DispatchUnhashable, Abandon, Goto, TypeOK
  <2>14. CASE CancelAcquire(c)
    <3>1. pc'[c] = "finishing"
      BY <2>14, CancelPasses DEF Passes
    <3> QED
      BY <2>5, <2>14, <3>1 DEF CancelAcquire, Abandon, TypeOK
  <2>15. CASE CancelledDone(c)
    <3>1. pc'[c] = "finishing"
      <4>1. CASE Current(c) \in Navigations
        <5>1. Release(c, "finishing")
          BY <2>15, <4>1 DEF CancelledDone
        <5> QED
          BY <5>1, ReleasePasses DEF Passes
      <4>2. CASE Current(c) \notin Navigations
        BY <2>15, <4>2 DEF CancelledDone, Goto, TypeOK
      <4> QED
        BY <4>1, <4>2
    <3> QED
      BY <2>5, <2>15, <3>1 DEF CancelledDone, Abandon, TypeOK
  <2>16. CASE ItemDone(c)
    <3>1. /\ pc[c] = "working" /\ UNCHANGED <<answers, taken>>
          /\ todo'[c] = Tail(todo[c]) /\ replies'[c] = Append(replies[c], Head(todo[c]))
      BY <2>16 DEF ItemDone, conn, Current, TypeOK
    <3>2. pc'[c] = IF Len(todo[c]) = 1 THEN "answer" ELSE "dispatch"
      <4>1. CASE Current(c) \in Navigations
        <5>1. Release(c, IF Len(todo[c]) = 1 THEN "answer" ELSE "dispatch")
          BY <2>16, <4>1 DEF ItemDone
        <5> QED
          BY <5>1, ReleasePasses DEF Passes
      <4>2. CASE Current(c) \notin Navigations
        BY <2>16, <4>2 DEF ItemDone, Goto, TypeOK
      <4> QED
        BY <4>1, <4>2
    <3>3. todo[c] # <<>> /\ Append(answers[c], replies[c] \o todo[c]) = taken[c]
      BY <2>2, <3>1 DEF LineOf, InLine
    <3>4. /\ Append(replies[c], Head(todo[c])) \o Tail(todo[c]) = replies[c] \o todo[c]
          /\ Len(todo[c]) = 1 => Append(replies[c], Head(todo[c])) = replies[c] \o todo[c]
          /\ Len(todo[c]) # 1 => Tail(todo[c]) # <<>>
      <4> DEFINE done == replies[c]
                 left == todo[c]
      <4>1. done \in Seq(Items) /\ left \in Seq(Items) /\ left # <<>>
        BY <2>3, <3>3
      <4> HIDE DEF done, left
      <4>2. /\ Append(done, Head(left)) \o Tail(left) = done \o left
            /\ Len(left) = 1 => Append(done, Head(left)) = done \o left
            /\ Len(left) # 1 => Tail(left) # <<>>
        BY <4>1, ItemMoves
      <4> QED
        BY <4>2 DEF done, left
    <3>5. CASE Len(todo[c]) = 1
      <4>1. replies'[c] = replies[c] \o todo[c] /\ pc'[c] = "answer"
        BY <3>1, <3>2, <3>4, <3>5
      <4>2. Append(answers'[c], replies'[c]) = taken'[c]
        BY <3>1, <3>3, <4>1
      <4> QED
        BY <4>1, <4>2 DEF LineOf, InLine
    <3>6. CASE Len(todo[c]) # 1
      <4>1. replies'[c] \o todo'[c] = replies[c] \o todo[c] /\ todo'[c] # <<>> /\ pc'[c] = "dispatch"
        BY <3>1, <3>2, <3>4, <3>6
      <4>2. Append(answers'[c], replies'[c] \o todo'[c]) = taken'[c]
        BY <3>1, <3>3, <4>1
      <4> QED
        BY <4>1, <4>2 DEF LineOf, InLine
    <3> QED
      BY <3>5, <3>6
  <2> QED
    BY <1>3, <2>7, <2>8, <2>9, <2>10, <2>11, <2>12, <2>13, <2>14, <2>15, <2>16 DEF Move, Plain, Done
<1> QED
  BY <1>1, <1>2, <1>3, NextCases DEF LineInv, Move

-----------------------------------------------------------------------------
(* Type correctness leans on the rest: that the semaphore's value never passes    *)
(* Slots is the account of the slots, and that ItemDone finds an item to answer   *)
(* is the state of the handler's line.                                            *)

(* Sequences the handlers and clients work on stay sequences of what they hold. *)
DataOK ==
    /\ todo \in [Clients -> Seq(Items)] /\ replies \in [Clients -> Seq(Items)]
    /\ inbox \in [Clients -> Seq(Lines)]
    /\ taken \in [Clients -> Seq(Seq(Items))] /\ answers \in [Clients -> Seq(Seq(Items))]

LEMMA DataStep ==
    ASSUME TypeOK, LineInv, [Next]_vars
    PROVE  DataOK'
<1>0. DataOK
  BY DEF TypeOK, DataOK
<1>1. <<>> \in Seq(Items)
  BY EmptySeq
<1>2. CASE UNCHANGED <<todo, replies, inbox, taken, answers>>
  BY <1>0, <1>2 DEF DataOK
<1>3. ASSUME NEW c \in Clients, Abandon(c), UNCHANGED <<inbox, taken, answers>> PROVE DataOK'
  BY <1>0, <1>1, <1>3 DEF DataOK, Abandon
<1>4. ASSUME NEW c \in Clients, Send(c) PROVE DataOK'
  <2>1. PICK line \in Lines : inbox' = [inbox EXCEPT ![c] = Append(@, line)]
    BY <1>4 DEF Send
  <2>2. Append(inbox[c], line) \in Seq(Lines)
    BY <1>0, AppendProperties DEF DataOK
  <2>3. UNCHANGED <<todo, replies, taken, answers>>
    BY <1>4 DEF Send
  <2> QED
    BY <1>0, <2>1, <2>2, <2>3 DEF DataOK
<1>5. ASSUME NEW c \in Clients, ReadLine(c) PROVE DataOK'
  <2> DEFINE line == Head(inbox[c])
  <2>1. /\ inbox[c] # <<>> /\ replies' = replies
        /\ inbox' = [inbox EXCEPT ![c] = Tail(@)]
        /\ taken' = [taken EXCEPT ![c] = Append(@, line.items)]
        /\ \/ todo' = [todo EXCEPT ![c] = line.items] /\ answers' = answers
           \/ todo' = todo /\ answers' = [answers EXCEPT ![c] = Append(@, <<>>)]
    BY <1>5 DEF ReadLine, Respond
  <2>2. line \in Lines /\ Tail(inbox[c]) \in Seq(Lines)
    BY <1>0, <2>1, HeadTailProperties DEF DataOK
  <2> HIDE DEF line
  <2>3. line.items \in Seq(Items)
    BY <2>2, LinesAssumption
  <2>4. Append(taken[c], line.items) \in Seq(Seq(Items)) /\ Append(answers[c], <<>>) \in Seq(Seq(Items))
    BY <1>0, <1>1, <2>3, AppendProperties DEF DataOK
  <2>5. inbox' \in [Clients -> Seq(Lines)] /\ taken' \in [Clients -> Seq(Seq(Items))]
    BY <1>0, <2>1, <2>2, <2>4 DEF DataOK
  <2>6. todo' \in [Clients -> Seq(Items)] /\ answers' \in [Clients -> Seq(Seq(Items))]
    BY <1>0, <2>1, <2>3, <2>4 DEF DataOK
  <2> QED
    BY <1>0, <2>1, <2>5, <2>6 DEF DataOK
<1>6. ASSUME NEW c \in Clients, Answer(c) PROVE DataOK'
  <2>1. /\ replies' = [replies EXCEPT ![c] = <<>>] /\ answers' = [answers EXCEPT ![c] = Append(@, replies[c])]
        /\ UNCHANGED <<todo, inbox, taken>>
    BY <1>6 DEF Answer, Respond
  <2>2. Append(answers[c], replies[c]) \in Seq(Seq(Items))
    BY <1>0, AppendProperties DEF DataOK
  <2> QED
    BY <1>0, <1>1, <2>1, <2>2 DEF DataOK
<1>7. ASSUME NEW c \in Clients, ItemDone(c) PROVE DataOK'
  <2>1. /\ pc[c] = "working" /\ UNCHANGED <<inbox, taken, answers>>
        /\ todo' = [todo EXCEPT ![c] = Tail(@)] /\ replies' = [replies EXCEPT ![c] = Append(@, Head(todo[c]))]
    BY <1>7 DEF ItemDone, conn, Current
  <2>2. todo[c] # <<>>
    BY <2>1 DEF LineInv, LineOf, InLine
  <2>3. Tail(todo[c]) \in Seq(Items) /\ Append(replies[c], Head(todo[c])) \in Seq(Items)
    BY <1>0, <2>2, HeadTailProperties, AppendProperties DEF DataOK
  <2> QED
    BY <1>0, <2>1, <2>3 DEF DataOK
<1>8. CASE Elsewhere /\ ~ \E c \in Clients : Send(c)
  BY <1>2, <1>8 DEF Elsewhere, ReadAnswer, Disconnect, FinishLookup, FinishNavigation, FinishWorker, RunWorker,
                    BeginClose, Gathered, EndClose, conn
<1>9. ASSUME NEW c \in Clients,
             \/ Connect(c) \/ StartHandler(c) \/ EndOfFile(c) \/ Drained(c) \/ FinishHandler(c) \/ CancelIdle(c)
             \/ DispatchLookup(c) \/ DispatchNavigation(c) \/ Acquire(c) \/ CancelWorking(c)
      PROVE  DataOK'
  BY <1>2, <1>9 DEF Connect, StartHandler, EndOfFile, Drained, FinishHandler, CancelIdle,
                    DispatchLookup, DispatchNavigation, Acquire, CancelWorking, conn
<1>10. ASSUME NEW c \in Clients, DispatchUnhashable(c) \/ CancelAcquire(c) \/ CancelledDone(c) PROVE DataOK'
  BY <1>3, <1>10 DEF DispatchUnhashable, CancelAcquire, CancelledDone, conn
<1>11. CASE UNCHANGED vars
  BY <1>2, <1>11 DEF vars, conn
<1> QED
  BY <1>4, <1>5, <1>6, <1>7, <1>8, <1>9, <1>10, <1>11, NextCases DEF Plain, Done

(* Where the handlers and their threads stand. *)
LEMMA PlaceStep ==
    ASSUME TypeOK, QueueInv, WorkInv, [Next]_vars
    PROVE  pc' \in [Clients -> HandlerStates] /\ worker' \in [Clients -> {"none", "queued", "running", "done"}]
<1>1. pc \in [Clients -> HandlerStates] /\ worker \in [Clients -> {"none", "queued", "running", "done"}]
  BY DEF TypeOK
<1>2. pc' \in [Clients -> HandlerStates]
  <2>1. ASSUME NEW c, NEW label \in HandlerStates, NEW value, NEW most, NEW queue, Wake(c, label, value, most, queue)
        PROVE  pc' \in [Clients -> HandlerStates]
    BY <1>1, <2>1 DEF Wake, HandlerStates
  <2>2. CASE Elsewhere \/ UNCHANGED vars
    BY <1>1, <2>2, ElsewhereStep
  <2>3. ASSUME NEW c \in Clients, Plain(c) PROVE pc' \in [Clients -> HandlerStates]
    BY <1>1, <2>3, PlainStep
  <2>4. ASSUME NEW c \in Clients, Done(c) PROVE pc' \in [Clients -> HandlerStates]
    <3>1. \E label \in {"answer", "dispatch", "finishing"} : Release(c, label)
      BY <2>4 DEF Done, ItemDone, CancelledDone
    <3> QED
      BY <2>1, <3>1 DEF Release, HandlerStates
  <2>5. ASSUME NEW c \in Clients, DispatchNavigation(c) PROVE pc' \in [Clients -> HandlerStates]
    BY <1>1, <2>5 DEF DispatchNavigation, Goto, HandlerStates
  <2>6. ASSUME NEW c \in Clients, Acquire(c) \/ CancelAcquire(c) PROVE pc' \in [Clients -> HandlerStates]
    BY <2>1, <2>6 DEF Acquire, CancelAcquire, HandlerStates
  <2> QED
    BY <2>2, <2>3, <2>4, <2>5, <2>6, NextCases
<1>3. worker' \in [Clients -> {"none", "queued", "running", "done"}]
  <2>1. CASE UNCHANGED worker
    BY <1>1, <2>1
  <2>2. CASE \E c \in Clients, what \in {"none", "queued", "running", "done"} : worker' = [worker EXCEPT ![c] = what]
    BY <1>1, <2>2
  <2>3. CASE RunWorker
    BY <2>2, <2>3, QueueTail DEF RunWorker, TypeOK, WorkInv
  <2>4. ASSUME NEW c \in Clients, FinishLookup(c) \/ FinishNavigation(c)
        PROVE  worker' = [worker EXCEPT ![c] = "done"]
    BY <2>4 DEF FinishLookup, FinishNavigation, FinishWorker
  <2>5. ASSUME NEW c \in Clients, DispatchLookup(c) \/ DispatchNavigation(c) \/ Acquire(c)
        PROVE  UNCHANGED worker \/ worker' = [worker EXCEPT ![c] = "queued"]
    BY <2>5 DEF DispatchLookup, DispatchNavigation, Acquire, Submit, work
  <2>6. ASSUME NEW c \in Clients, ItemDone(c) \/ CancelledDone(c)
        PROVE  worker' = [worker EXCEPT ![c] = "none"]
    BY <2>6 DEF ItemDone, CancelledDone
  <2>7. ASSUME NEW c \in Clients,
               \/ Connect(c) \/ StartHandler(c) \/ ReadLine(c) \/ EndOfFile(c) \/ Drained(c) \/ FinishHandler(c)
               \/ DispatchUnhashable(c) \/ Answer(c) \/ CancelIdle(c) \/ CancelWorking(c) \/ CancelAcquire(c)
               \/ Send(c) \/ ReadAnswer(c) \/ Disconnect(c)
        PROVE  UNCHANGED worker
    BY <2>7 DEF Connect, StartHandler, ReadLine, EndOfFile, Drained, FinishHandler, DispatchUnhashable, Answer,
                CancelIdle, CancelWorking, CancelAcquire, Send, ReadAnswer, Disconnect, work
  <2>8. CASE BeginClose \/ Gathered \/ EndClose \/ UNCHANGED vars
    BY <2>1, <2>8 DEF BeginClose, Gathered, EndClose, vars, work
  <2> QED
    BY <2>1, <2>2, <2>3, <2>4, <2>5, <2>6, <2>7, <2>8 DEF Next, HandlerStep, ClientStep
<1> QED
  BY <1>2, <1>3

(* The flags: sets of clients, and how far the server has closed. *)
LEMMA FlagsStep ==
    ASSUME TypeOK, [Next]_vars
    PROVE  /\ server' \in {"serving", "gathering", "waiting", "closed"}
           /\ large' \subseteq Clients /\ gone' \subseteq Clients /\ unflushed' \subseteq Clients
           /\ attached' \subseteq Clients /\ cancelled' \subseteq Clients /\ signalled' \subseteq Clients
<1> USE DEF TypeOK
<1>1. CASE UNCHANGED vars
  BY <1>1 DEF vars, conn, work
<1>2. CASE RunWorker \/ BeginClose \/ Gathered \/ EndClose
  BY <1>2 DEF RunWorker, BeginClose, Gathered, EndClose, conn, work, Registered
<1>3. ASSUME NEW c \in Clients, ClientStep(c)
      PROVE  /\ server' \in {"serving", "gathering", "waiting", "closed"}
             /\ large' \subseteq Clients /\ gone' \subseteq Clients /\ unflushed' \subseteq Clients
             /\ attached' \subseteq Clients /\ cancelled' \subseteq Clients /\ signalled' \subseteq Clients
  BY <1>3 DEF ClientStep, Connect, Send, ReadAnswer, Disconnect, work
<1>4. ASSUME NEW c \in Clients, FinishLookup(c) \/ FinishNavigation(c)
      PROVE  UNCHANGED <<server, large, gone, unflushed, attached, cancelled, signalled>>
  BY <1>4 DEF FinishLookup, FinishNavigation, FinishWorker, conn
<1>5. ASSUME NEW c \in Clients,
             \/ StartHandler(c) \/ EndOfFile(c) \/ Drained(c) \/ DispatchUnhashable(c) \/ DispatchLookup(c)
             \/ DispatchNavigation(c) \/ Acquire(c) \/ ItemDone(c)
             \/ CancelIdle(c) \/ CancelAcquire(c) \/ CancelledDone(c)
      PROVE  UNCHANGED <<server, large, gone, unflushed, attached, cancelled, signalled>>
  BY <1>5 DEF StartHandler, EndOfFile, Drained, DispatchUnhashable, DispatchLookup, DispatchNavigation, Acquire,
              Submit, ItemDone, CancelIdle, CancelAcquire, CancelledDone, conn, work
<1>6. ASSUME NEW c \in Clients, ReadLine(c) \/ Answer(c)
      PROVE  /\ UNCHANGED <<server, gone, attached, cancelled, signalled>>
             /\ large' \subseteq Clients /\ unflushed' \subseteq Clients
  BY <1>6 DEF ReadLine, Answer, Respond, work
<1>7. ASSUME NEW c \in Clients, FinishHandler(c) \/ CancelWorking(c)
      PROVE  /\ UNCHANGED <<server, large, gone, unflushed, cancelled>>
             /\ attached' \subseteq Clients /\ signalled' \subseteq Clients
  BY <1>7 DEF FinishHandler, CancelWorking, conn, work
<1> QED
  BY <1>1, <1>2, <1>3, <1>4, <1>5, <1>6, <1>7 DEF Next, HandlerStep

LEMMA TypeStep ==
    ASSUME IInv, [Next]_vars
    PROVE  TypeOK'
<1> USE DEF IInv
<1>1. pool' \in Seq(Clients) /\ waiters' \in Seq(Clients)
  BY QueueStep, WorkStep
<1>2. free' \in 0..Slots
  <2>1. SlotsAccounted' /\ free' \in Nat
    BY SlotsStep
  <2>2. Holders' \in SUBSET Clients
    BY DEF Holders
  <2>3. Cardinality(Holders') \in Nat
    BY <2>2, BoundsAssumption, FS_Subset, FS_CardinalityType
  <2> QED
    BY <2>1, <2>3, BoundsAssumption DEF SlotsAccounted
<1>3. DataOK'
  BY DataStep
<1>4. pc' \in [Clients -> HandlerStates] /\ worker' \in [Clients -> {"none", "queued", "running", "done"}]
  BY PlaceStep
<1> QED
  BY <1>1, <1>2, <1>3, <1>4, FlagsStep DEF TypeOK, DataOK

-----------------------------------------------------------------------------
LEMMA InitOK ==
    ASSUME Init
    PROVE  IInv
<1>1. TypeOK
  <2>1. /\ <<>> \in Seq(Items) /\ <<>> \in Seq(Lines) /\ <<>> \in Seq(Seq(Items)) /\ <<>> \in Seq(Clients)
    BY EmptySeq
  <2> QED
    BY <2>1, BoundsAssumption DEF Init, TypeOK, HandlerStates
<1>2. SlotsAccounted
  <2>1. Holders = {}
    BY DEF Init, Holders
  <2> QED
    BY <2>1, BoundsAssumption, FS_EmptySet DEF Init, SlotsAccounted
<1>3. \A queue : queue = <<>> => Once(queue) /\ Listed(queue) = {}
  BY DEF Once, Listed
<1>4. QueueInv /\ WorkInv /\ NoSlotIdle
  BY <1>3 DEF Init, QueueInv, WorkInv, NoSlotIdle, Unwoken
<1>5. LineInv /\ CloseInv
  BY DEF Init, LineInv, LineOf, InLine, CloseInv
<1> QED
  BY <1>1, <1>2, <1>4, <1>5 DEF IInv

LEMMA InvariantStep == IInv /\ [Next]_vars => IInv'
BY TypeStep, SlotsStep, QueueStep, IdleStep, WorkStep, LineStep, CloseStep DEF IInv

(* The server keeps the whole account of its slots, queues, threads, lines and    *)
(* connections, whatever order the loop, the threads and the clients move in.     *)
THEOREM Invariant == Spec => []IInv
BY InitOK, InvariantStep, PTL DEF Spec

-----------------------------------------------------------------------------
(* What the account gives.                                                      *)

(* The variables stay in the sets their comments give; so the semaphore's value,   *)
(* whose release() has no upper bound in the code, never passes its first value.   *)
THEOREM ServerTypeCorrect == Spec => []TypeOK
<1>1. IInv => TypeOK
  BY DEF IInv
<1> QED
  BY <1>1, Invariant, PTL

LEMMA HoldersBounded ==
    ASSUME TypeOK, SlotsAccounted
    PROVE  Cardinality(Holders) \in 0..Slots /\ IsFiniteSet(Holders)
<1>1. Holders \in SUBSET Clients
  BY DEF Holders
<1>2. IsFiniteSet(Holders) /\ Cardinality(Holders) \in Nat
  BY <1>1, BoundsAssumption, FS_Subset, FS_CardinalityType
<1> QED
  BY <1>2, BoundsAssumption DEF TypeOK, SlotsAccounted

(* max_concurrent_navigation bounds the navigations in the executor, queued or    *)
(* running, those of cancelled handlers included: whoever has a thread at work     *)
(* for a navigation holds a slot.                                                *)
THEOREM NavigationsBounded == Spec => []NavigationBounded
<1>1. IInv => NavigationBounded
  <2> SUFFICES ASSUME IInv PROVE NavigationBounded
    OBVIOUS
  <2>1. Navigating \in SUBSET Holders
    BY DEF IInv, WorkInv, Navigating, Holders
  <2>2. Cardinality(Navigating) <= Cardinality(Holders)
    BY <2>1, HoldersBounded, FS_Subset DEF IInv
  <2>3. Cardinality(Navigating) \in Nat
    BY <2>1, HoldersBounded, FS_Subset, FS_CardinalityType DEF IInv
  <2> QED
    BY <2>2, <2>3, HoldersBounded, BoundsAssumption DEF IInv, NavigationBounded
<1> QED
  BY <1>1, Invariant, PTL

(* max_concurrent_navigation is used as a bound and used in full: no more than     *)
(* Slots navigations are at work, and no slot that is given back is lost, whoever   *)
(* releases, resumes or is cancelled.                                             *)
THEOREM SlotsUsed == Spec => []SlotsKept
<1>1. IInv => NoSlotIdle
  BY DEF IInv
<1> QED
  BY <1>1, Invariant, NavigationsBounded, PTL DEF SlotsKept

(* A connection's lines are answered once each, in order, and a batch element by   *)
(* element in order.                                                             *)
THEOREM AnswersInOrder == Spec => []AnswersMatchLines
<1>1. IInv => AnswersMatchLines
  BY DEF IInv, LineInv, LineOf, AnswersMatchLines
<1> QED
  BY <1>1, Invariant, PTL

(* When close() returns no handler is left and no thread works for a client.       *)
THEOREM QuietWhenClosed == Spec => []ClosedIsQuiet
<1>1. IInv => ClosedIsQuiet
  BY DEF IInv, CloseInv, WorkInv, ClosedIsQuiet
<1> QED
  BY <1>1, Invariant, PTL

(* A handler that close() has cancelled submits nothing more to the executor:      *)
(* only a handler between two awaits does, or one given a slot and not cancelled.  *)
THEOREM CancelledSubmitNothing == Spec => CancelStopsWork
<1>1. IInv /\ [Next]_vars => [\A c \in cancelled : worker[c] = "none" => worker'[c] = "none"]_vars
  <2> SUFFICES ASSUME IInv, [Next]_vars, NEW c \in cancelled, worker[c] = "none"
               PROVE  worker'[c] = "none"
    OBVIOUS
  <2>0. /\ c \in Clients /\ pc[c] # "dispatch"
        /\ worker \in [Clients -> {"none", "queued", "running", "done"}]
    BY DEF IInv, TypeOK, CloseInv
  <2>1. CASE UNCHANGED worker
    BY <2>1
  <2>2. CASE RunWorker
    <3>1. Head(pool) \in Clients /\ worker[Head(pool)] = "queued"
      BY <2>2, QueueTail DEF RunWorker, IInv, TypeOK, WorkInv
    <3> QED
      BY <2>0, <2>2, <3>1 DEF RunWorker
  <2>3. ASSUME NEW d \in Clients, FinishLookup(d) \/ FinishNavigation(d) PROVE worker'[c] = "none"
    BY <2>0, <2>3 DEF FinishLookup, FinishNavigation, FinishWorker
  <2>4. ASSUME NEW d \in Clients, DispatchLookup(d) \/ DispatchNavigation(d) \/ Acquire(d)
        PROVE  worker'[c] = "none"
    <3>1. UNCHANGED worker \/ (worker' = [worker EXCEPT ![d] = "queued"] /\ c # d)
      BY <2>0, <2>4 DEF DispatchLookup, DispatchNavigation, Acquire, Submit, work
    <3> QED
      BY <2>0, <3>1
  <2>5. ASSUME NEW d \in Clients, ItemDone(d) \/ CancelledDone(d) PROVE worker'[c] = "none"
    BY <2>0, <2>5 DEF ItemDone, CancelledDone
  <2>6. ASSUME NEW d \in Clients,
               \/ Connect(d) \/ StartHandler(d) \/ ReadLine(d) \/ EndOfFile(d) \/ Drained(d) \/ FinishHandler(d)
               \/ DispatchUnhashable(d) \/ Answer(d) \/ CancelIdle(d) \/ CancelWorking(d) \/ CancelAcquire(d)
               \/ Send(d) \/ ReadAnswer(d) \/ Disconnect(d)
        PROVE  UNCHANGED worker
    BY <2>6 DEF Connect, StartHandler, ReadLine, EndOfFile, Drained, FinishHandler, DispatchUnhashable, Answer,
                CancelIdle, CancelWorking, CancelAcquire, Send, ReadAnswer, Disconnect, work
  <2>7. CASE BeginClose \/ Gathered \/ EndClose \/ UNCHANGED vars
    BY <2>1, <2>7 DEF BeginClose, Gathered, EndClose, vars, work
  <2> QED
    BY <2>1, <2>2, <2>3, <2>4, <2>5, <2>6, <2>7 DEF Next, HandlerStep, ClientStep
<1> QED
  BY <1>1, Invariant, PTL DEF Spec, CancelStopsWork

=============================================================================
