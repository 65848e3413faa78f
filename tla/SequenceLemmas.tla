--------------------------- MODULE SequenceLemmas ---------------------------
(* Lemmas about numbers, orders and sequences that the proofs about several      *)
(* components rest on.                                                           *)
EXTENDS Integers, Sequences, FiniteSets, SequencesExt,
        FiniteSetTheorems, SequenceTheorems, WellFoundedInduction, TLAPS

-----------------------------------------------------------------------------
(* Numbers                                                                      *)

(* A set that holds 0 and the successor of each of its numbers holds them all.   *)
LEMMA Reaches ==
    ASSUME NEW T, 0 \in T, \A n \in Nat : n \in T => n + 1 \in T
    PROVE  Nat \subseteq T
<1> SUFFICES ASSUME Nat \ T # {} PROVE FALSE
  OBVIOUS
<1> DEFINE less == OpToRel(<, Nat)
<1>1. \A m, n \in Nat : m < n => <<m, n>> \in less
  BY DEF OpToRel
<1>2. IsWellFoundedOn(less, Nat)
  BY NatLessThanWellFounded
<1> HIDE DEF less
<1>3. PICK n \in Nat \ T : \A m \in Nat \ T : ~(<<m, n>> \in less)
  BY <1>2, WFMin
<1>4. n # 0 /\ n - 1 \in Nat /\ n - 1 < n
  BY <1>3
<1>5. n - 1 \in T
  BY <1>1, <1>3, <1>4
<1>6. (n - 1) + 1 = n
  BY <1>4
<1> QED
  BY <1>3, <1>4, <1>5, <1>6

-----------------------------------------------------------------------------
(* Orders                                                                       *)

PartialOrder(R, S) ==
    /\ \A x \in S : <<x, x>> \notin R
    /\ \A x, y, z \in S : <<x, y>> \in R /\ <<y, z>> \in R => <<x, z>> \in R
TotalOrder(R, S) == PartialOrder(R, S) /\ \A x, y \in S : x = y \/ <<x, y>> \in R \/ <<y, x>> \in R

(* Who comes before an element comes before all that it comes before. *)
LEMMA FewerBefore ==
    ASSUME NEW S, IsFiniteSet(S), NEW R, PartialOrder(R, S)
    PROVE  LET before(x) == Cardinality({y \in S : <<y, x>> \in R})
           IN  /\ \A x \in S : before(x) \in 0..(Cardinality(S) - 1)
               /\ \A x, y \in S : <<x, y>> \in R => before(x) < before(y)
<1> DEFINE below(x) == {y \in S : <<y, x>> \in R}
<1>1. \A x : IsFiniteSet(below(x)) /\ Cardinality(below(x)) \in Nat /\ Cardinality(S) \in Nat
             /\ Cardinality(below(x)) <= Cardinality(S)
  <2> TAKE x
  <2>1. below(x) \in SUBSET S
    OBVIOUS
  <2> HIDE DEF below
  <2> QED
    BY <2>1, FS_Subset, FS_CardinalityType
<1>2. ASSUME NEW x \in S, NEW y \in S, <<x, y>> \in R
      PROVE  Cardinality(below(x)) < Cardinality(below(y))
  <2>1. below(x) \in SUBSET below(y) /\ x \in below(y) /\ x \notin below(x)
    BY <1>2 DEF PartialOrder
  <2> HIDE DEF below
  <2>2. Cardinality(below(x)) <= Cardinality(below(y)) /\ Cardinality(below(x)) # Cardinality(below(y))
    BY <1>1, <2>1, FS_Subset
  <2> QED
    BY <1>1, <2>2
<1>3. ASSUME NEW x \in S
      PROVE  Cardinality(below(x)) \in 0..(Cardinality(S) - 1)
  <2>1. below(x) \in SUBSET S /\ x \notin below(x)
    BY DEF PartialOrder
  <2> HIDE DEF below
  <2>2. Cardinality(below(x)) # Cardinality(S)
    BY <2>1, FS_Subset
  <2> QED
    BY <1>1, <2>2
<1> QED
  BY <1>2, <1>3

(* In a finite set some element has none before it. *)
LEMMA HasFirst ==
    ASSUME NEW S, IsFiniteSet(S), S # {}, NEW R, PartialOrder(R, S)
    PROVE  \E x \in S : \A y \in S : <<y, x>> \notin R
<1> DEFINE before(x) == Cardinality({y \in S : <<y, x>> \in R})
           T == {n \in Nat : \A x \in S : before(x) # n}
<1>1. /\ \A x \in S : before(x) \in Nat
      /\ \A x, y \in S : <<x, y>> \in R => before(x) < before(y)
  <2>1. Cardinality(S) \in Nat
    BY FS_CardinalityType
  <2> QED
    BY <2>1, FewerBefore
<1> HIDE DEF before
<1> SUFFICES ASSUME \A x \in S : \E y \in S : <<y, x>> \in R PROVE FALSE
  OBVIOUS
<1> DEFINE U == {n \in Nat : \A x \in S : before(x) > n}
<1>2. \A x \in S : before(x) > 0
  <2> TAKE x \in S
  <2>1. PICK y \in S : <<y, x>> \in R
    OBVIOUS
  <2> QED
    BY <1>1, <2>1
<1>3. \A n \in Nat : n \in U => n + 1 \in U
  <2> SUFFICES ASSUME NEW n \in Nat, n \in U, NEW x \in S PROVE before(x) > n + 1
    OBVIOUS
  <2>1. PICK y \in S : <<y, x>> \in R
    OBVIOUS
  <2> QED
    BY <1>1, <2>1
<1>4. 0 \in U
  BY <1>2
<1> HIDE DEF U
<1>5. Nat \subseteq U
  BY <1>3, <1>4, Reaches
<1>6. PICK x \in S : TRUE
  OBVIOUS
<1> QED
  BY <1>1, <1>5, <1>6 DEF U

(* The rank of an element is the number of those before it: every rank is one's. *)
LEMMA OneForEachRank ==
    ASSUME NEW S, IsFiniteSet(S), NEW R, TotalOrder(R, S)
    PROVE  LET n == Cardinality(S)
               rank == [x \in S |-> Cardinality({y \in S : <<y, x>> \in R})]
           IN  n \in Nat /\ rank \in Injection(S, 0..(n - 1)) /\ rank \in Surjection(S, 0..(n - 1))
<1> DEFINE n == Cardinality(S)
           rank == [x \in S |-> Cardinality({y \in S : <<y, x>> \in R})]
<1>1. n \in Nat
  BY FS_CardinalityType
<1>2. /\ \A x \in S : rank[x] \in 0..(n - 1)
      /\ \A x, y \in S : <<x, y>> \in R => rank[x] < rank[y]
  BY FewerBefore DEF TotalOrder
<1>3. rank \in [S -> 0..(n - 1)]
  BY <1>2
<1> HIDE DEF rank
<1>4. ASSUME NEW x \in S, NEW y \in S, rank[x] = rank[y]
      PROVE  x = y
  <2>1. rank[x] \in Int /\ rank[y] \in Int
    BY <1>1, <1>2
  <2>2. <<x, y>> \notin R /\ <<y, x>> \notin R
    BY <1>2, <1>4, <2>1
  <2> QED
    BY <2>2 DEF TotalOrder
<1>5. rank \in Injection(S, 0..(n - 1))
  BY <1>3, <1>4 DEF Injection, IsInjective
<1>6. IsFiniteSet(0..(n - 1)) /\ Cardinality(0..(n - 1)) = n
  BY <1>1, FS_Interval
<1> HIDE DEF n
<1>7. rank \in Surjection(S, 0..(n - 1))
  BY <1>5, <1>6, FS_Injection DEF n
<1> QED
  BY <1>1, <1>5, <1>7 DEF rank, n

(* s has at each place an element with as many before it, where there is one *)
PutInOrder(s, S, R) ==
    /\ s = [n \in 1..Cardinality(S) |-> s[n]]
    /\ \A n \in 1..Cardinality(S) :
           (\E x \in S : Cardinality({y \in S : <<y, x>> \in R}) = n - 1) =>
               s[n] \in S /\ Cardinality({y \in S : <<y, s[n]>> \in R}) = n - 1

(* What InOrder makes of a set: a sequence of its elements, each once, in order. *)
LEMMA Sorts ==
    ASSUME NEW S, IsFiniteSet(S), NEW R, TotalOrder(R, S), NEW s, PutInOrder(s, S, R)
    PROVE  /\ s \in Seq(S) /\ Len(s) = Cardinality(S) /\ Cardinality(S) \in Nat
           /\ \A x \in S : \E n \in DOMAIN s : s[n] = x
           /\ \A i, j \in DOMAIN s : i < j => <<s[i], s[j]>> \in R
<1> DEFINE N == Cardinality(S)
           rank == [x \in S |-> Cardinality({y \in S : <<y, x>> \in R})]
<1>1. /\ N \in Nat /\ rank \in [S -> 0..(N - 1)]
      /\ \A m \in 0..(N - 1) : \E x \in S : rank[x] = m
      /\ \A x, y \in S : rank[x] = rank[y] => x = y
      /\ \A x, y \in S : <<x, y>> \in R => rank[x] < rank[y]
  <2>1. N \in Nat /\ rank \in Injection(S, 0..(N - 1)) /\ rank \in Surjection(S, 0..(N - 1))
    BY OneForEachRank
  <2>2. \A x, y \in S : <<x, y>> \in R => rank[x] < rank[y]
    BY FewerBefore DEF TotalOrder
  <2> HIDE DEF rank, N
  <2> QED
    BY <2>1, <2>2 DEF Injection, IsInjective, Surjection
<1>2. \A x \in S : rank[x] = Cardinality({y \in S : <<y, x>> \in R})
  OBVIOUS
<1> HIDE DEF rank
<1>3. DOMAIN s = 1..N
  BY DEF PutInOrder
<1>4. \A n \in 1..N : s[n] \in S /\ rank[s[n]] = n - 1
  <2> TAKE n \in 1..N
  <2>1. n - 1 \in 0..(N - 1)
    BY <1>1
  <2>2. \E x \in S : Cardinality({y \in S : <<y, x>> \in R}) = n - 1
    BY <1>1, <1>2, <2>1
  <2>3. s[n] \in S /\ Cardinality({y \in S : <<y, s[n]>> \in R}) = n - 1
    BY <2>2 DEF PutInOrder
  <2> QED
    BY <1>2, <2>3
<1>5. s \in Seq(S) /\ Len(s) = N
  <2>1. s = [n \in 1..N |-> s[n]]
    BY DEF PutInOrder
  <2> HIDE DEF N
  <2> QED
    BY <1>1, <1>4, <2>1
<1> HIDE DEF N
<1>6. ASSUME NEW x \in S
      PROVE  \E n \in DOMAIN s : s[n] = x
  <2>1. rank[x] + 1 \in 1..N /\ (rank[x] + 1) - 1 = rank[x]
    BY <1>1
  <2> QED
    BY <1>1, <1>3, <1>4, <2>1
<1>7. ASSUME NEW i \in DOMAIN s, NEW j \in DOMAIN s, i < j
      PROVE  <<s[i], s[j]>> \in R
  <2>1. /\ rank[s[i]] < rank[s[j]] /\ s[i] \in S /\ s[j] \in S
        /\ rank[s[i]] \in Int /\ rank[s[j]] \in Int
    BY <1>1, <1>3, <1>4, <1>7
  <2>2. s[i] # s[j] /\ <<s[j], s[i]>> \notin R
    BY <1>1, <2>1
  <2> QED
    BY <2>1, <2>2 DEF TotalOrder
<1> QED
  BY <1>1, <1>5, <1>6, <1>7 DEF N

(* what a function makes of finitely many is finitely many *)
LEMMA FiniteImage ==
    ASSUME NEW S, IsFiniteSet(S), NEW f
    PROVE  IsFiniteSet({f[x] : x \in S})
<1> DEFINE T == {f[x] : x \in S}
           g == [x \in S |-> f[x]]
<1>1. g \in Surjection(S, T)
  BY DEF Surjection
<1> QED
  BY <1>1, FS_Surjection

(* A set of numbers has a least. *)
LEMMA HasLeast ==
    ASSUME NEW S \in SUBSET Nat, S # {}
    PROVE  \E i \in S : \A j \in S : i <= j
<1> DEFINE U == {n \in Nat : \A m \in S : m > n}
<1> SUFFICES ASSUME \A i \in S : \E j \in S : j < i PROVE FALSE
  OBVIOUS
<1>1. 0 \in U
  OBVIOUS
<1>2. \A n \in Nat : n \in U => n + 1 \in U
  <2> SUFFICES ASSUME NEW n \in Nat, n \in U, NEW m \in S PROVE m > n + 1
    OBVIOUS
  <2>1. PICK j \in S : j < m
    OBVIOUS
  <2> QED
    BY <2>1
<1> HIDE DEF U
<1>3. Nat \subseteq U
  BY <1>1, <1>2, Reaches
<1>4. PICK i \in S : i \in U
  BY <1>3
<1> QED
  BY <1>4 DEF U

(* the lexicographic order of sequences over elements that R orders *)
Lexically(s, t, R) == \E i \in DOMAIN t :
    /\ i \notin DOMAIN s \/ <<s[i], t[i]>> \in R
    /\ \A j \in 1..(i - 1) : j \in DOMAIN s /\ s[j] = t[j]

LEMMA LexicallyOrdered ==
    ASSUME NEW X, NEW R, TotalOrder(R, X)
    PROVE  /\ \A s \in Seq(X) : ~Lexically(s, s, R)
           /\ \A s, t, u \in Seq(X) : Lexically(s, t, R) /\ Lexically(t, u, R) => Lexically(s, u, R)
           /\ \A s, t \in Seq(X) : s = t \/ Lexically(s, t, R) \/ Lexically(t, s, R)
<1>0. /\ \A x \in X : <<x, x>> \notin R
      /\ \A x, y, z \in X : <<x, y>> \in R /\ <<y, z>> \in R => <<x, z>> \in R
      /\ \A x, y \in X : x = y \/ <<x, y>> \in R \/ <<y, x>> \in R
  BY DEF TotalOrder, PartialOrder
<1>1. ASSUME NEW s \in Seq(X)
      PROVE  ~Lexically(s, s, R)
  <2>1. \A i \in DOMAIN s : ~(<<s[i], s[i]>> \in R)
    BY <1>0
  <2> QED
    BY <2>1 DEF Lexically
<1>2. ASSUME NEW s \in Seq(X), NEW t \in Seq(X), NEW u \in Seq(X), Lexically(s, t, R), Lexically(t, u, R)
      PROVE  Lexically(s, u, R)
  <2>1. PICK i \in DOMAIN t : (i \notin DOMAIN s \/ <<s[i], t[i]>> \in R) /\ \A j \in 1..(i - 1) : j \in DOMAIN s /\ s[j] = t[j]
    BY <1>2 DEF Lexically
  <2>2. PICK k \in DOMAIN u : (k \notin DOMAIN t \/ <<t[k], u[k]>> \in R) /\ \A j \in 1..(k - 1) : j \in DOMAIN t /\ t[j] = u[j]
    BY <1>2 DEF Lexically
  <2>3. /\ DOMAIN s = 1..Len(s) /\ DOMAIN t = 1..Len(t) /\ DOMAIN u = 1..Len(u)
        /\ Len(s) \in Nat /\ Len(t) \in Nat /\ Len(u) \in Nat /\ i \in Int /\ k \in Int
        /\ \A j \in DOMAIN s : s[j] \in X
        /\ \A j \in DOMAIN t : t[j] \in X
        /\ \A j \in DOMAIN u : u[j] \in X
    OBVIOUS
  <2> DEFINE m == IF i < k THEN i ELSE k
  <2>4. m \in DOMAIN u
    BY <2>1, <2>2, <2>3
  <2>5. m \notin DOMAIN s \/ <<s[m], u[m]>> \in R
    <3>1. CASE i < k
      <4>1. i \in 1..(k - 1)
        BY <2>3, <3>1
      <4>2. t[i] = u[i]
        BY <2>2, <4>1
      <4> QED
        BY <2>1, <3>1, <4>2
    <3>2. CASE i = k
      <4>1. <<t[k], u[k]>> \in R /\ (k \notin DOMAIN s \/ <<s[k], t[k]>> \in R)
        BY <2>1, <2>2, <3>2
      <4>2. CASE k \notin DOMAIN s
        BY <3>2, <4>2
      <4>3. CASE k \in DOMAIN s
        <5>1. s[k] \in X /\ t[k] \in X /\ u[k] \in X
          BY <2>3, <3>2, <4>3
        <5> QED
          BY <1>0, <3>2, <4>1, <4>3, <5>1
      <4> QED
        BY <4>2, <4>3
    <3>3. CASE k < i
      <4>1. k \in 1..(i - 1) /\ k \in DOMAIN t
        BY <2>3, <3>3
      <4>2. s[k] = t[k] /\ <<t[k], u[k]>> \in R
        BY <2>1, <2>2, <4>1
      <4>3. m = k
        BY <2>3, <3>3
      <4> QED
        BY <4>2, <4>3
    <3> QED
      BY <2>3, <3>1, <3>2, <3>3
  <2>6. \A j \in 1..(m - 1) : j \in DOMAIN s /\ s[j] = u[j]
    <3> TAKE j \in 1..(m - 1)
    <3>1. j \in 1..(i - 1) /\ j \in 1..(k - 1)
      BY <2>3
    <3> QED
      BY <2>1, <2>2, <3>1
  <2> HIDE DEF m
  <2> QED
    BY <2>4, <2>5, <2>6 DEF Lexically
<1>3. ASSUME NEW s \in Seq(X), NEW t \in Seq(X), s # t
      PROVE  Lexically(s, t, R) \/ Lexically(t, s, R)
  <2> DEFINE D == {i \in 1..Len(t) : i > Len(s) \/ s[i] # t[i]}
  <2>1. /\ DOMAIN s = 1..Len(s) /\ DOMAIN t = 1..Len(t) /\ Len(s) \in Nat /\ Len(t) \in Nat
        /\ \A j \in DOMAIN s : s[j] \in X
        /\ \A j \in DOMAIN t : t[j] \in X
    OBVIOUS
  <2>2. CASE D = {}
    <3>1. \A j \in DOMAIN t : j \in DOMAIN s /\ s[j] = t[j]
      BY <2>1, <2>2
    <3>2. Len(t) < Len(s)
      <4> SUFFICES ASSUME Len(s) <= Len(t) PROVE s = t
        BY <1>3, <2>1
      <4>1. Len(s) = Len(t)
        <5>1. CASE Len(t) = 0
          BY <2>1, <5>1
        <5>2. CASE Len(t) # 0
          <6>1. Len(t) \in DOMAIN t
            BY <2>1, <5>2
          <6>2. Len(t) \in DOMAIN s
            BY <3>1, <6>1
          <6>3. Len(t) \in 1..Len(s)
            BY <2>1, <6>2
          <6>4. \A a, b \in Nat : a <= b /\ b \in 1..a => a = b
            OBVIOUS
          <6> QED
            BY <2>1, <6>3, <6>4
        <5> QED
          BY <5>1, <5>2
      <4> QED
        BY <3>1, <4>1
    <3>3. Len(t) + 1 \in DOMAIN s /\ Len(t) + 1 \notin DOMAIN t /\ 1..((Len(t) + 1) - 1) = DOMAIN t
      BY <2>1, <3>2
    <3>4. (Len(t) + 1 \notin DOMAIN t \/ <<t[Len(t) + 1], s[Len(t) + 1]>> \in R)
          /\ \A j \in 1..((Len(t) + 1) - 1) : j \in DOMAIN t /\ t[j] = s[j]
      BY <3>1, <3>3
    <3> HIDE DEF D
    <3> QED
      BY <3>3, <3>4 DEF Lexically
  <2>3. CASE D # {}
        <3>1. D \in SUBSET Nat
      BY <2>1
    <3>2. PICK i \in D : \A j \in D : i <= j
      BY <2>3, <3>1, HasLeast
    <3>3. \A j \in 1..(i - 1) : j \in DOMAIN s /\ j \in DOMAIN t /\ s[j] = t[j]
      BY <2>1, <3>2
    <3>4. i \in DOMAIN t /\ (i \notin DOMAIN s \/ s[i] # t[i])
      BY <2>1, <3>2
    <3>5. i \notin DOMAIN s \/ <<s[i], t[i]>> \in R \/ (i \in DOMAIN s /\ <<t[i], s[i]>> \in R)
      BY <1>0, <2>1, <3>4
    <3> HIDE DEF D
    <3> QED
      BY <3>3, <3>4, <3>5 DEF Lexically
  <2> QED
    BY <2>2, <2>3
<1> QED
  BY <1>1, <1>2, <1>3

-----------------------------------------------------------------------------
(* Sequences one after the other                                                *)

(* Steps by which FlattenSeq comes to its result. *)
LEMMA FlattenSteps ==
    ASSUME NEW X, NEW seqs \in Seq(Seq(X))
    PROVE  \E F \in [0..Len(seqs) -> Seq(X)] :
               /\ F[0] = <<>> /\ F[Len(seqs)] = FlattenSeq(seqs)
               /\ \A k \in 0..(Len(seqs) - 1) : F[k + 1] = F[k] \o seqs[k + 1]
<1> DEFINE n == Len(seqs)
           Eq(f, k) == \A i \in 1..k : f[i] = IF i = 1 THEN seqs[i] ELSE f[i - 1] \o seqs[i]
           F == {k \in Nat : k <= n => \E f \in [1..k -> Seq(X)] : Eq(f, k)}
<1>1. n \in Nat /\ seqs \in [1..n -> Seq(X)]
  OBVIOUS
<1> HIDE DEF n
<1>2. 0 \in F
  <2>1. 1..0 = {}
    OBVIOUS
  <2>2. [i \in 1..0 |-> <<>>] \in [1..0 -> Seq(X)] /\ \A f : Eq(f, 0)
    BY <2>1
  <2> QED
    BY <2>2
<1>3. ASSUME NEW k \in Nat, k \in F
      PROVE  k + 1 \in F
  <2> SUFFICES ASSUME k + 1 <= n PROVE \E f \in [1..(k + 1) -> Seq(X)] : Eq(f, k + 1)
    <3> HIDE DEF Eq
    <3> QED
      OBVIOUS
  <2>1. PICK f \in [1..k -> Seq(X)] : Eq(f, k)
    <3>1. k <= n
      BY <1>1
    <3> HIDE DEF Eq
    <3> QED
      BY <1>3, <3>1
  <2> DEFINE last == IF k + 1 = 1 THEN seqs[k + 1] ELSE f[k] \o seqs[k + 1]
             g == [i \in 1..(k + 1) |-> IF i \in 1..k THEN f[i] ELSE last]
  <2>2. last \in Seq(X)
    <3>1. seqs[k + 1] \in Seq(X)
      BY <1>1
    <3>2. CASE k = 0
      BY <3>1, <3>2
    <3>3. CASE k # 0
      <4>1. f[k] \in Seq(X)
        BY <3>3
      <4> QED
        BY <3>1, <3>3, <4>1
    <3> QED
      BY <3>2, <3>3
  <2>3. g \in [1..(k + 1) -> Seq(X)]
    BY <2>2
  <2> HIDE DEF last
  <2>4. ASSUME NEW i \in 1..(k + 1)
        PROVE  g[i] = IF i = 1 THEN seqs[i] ELSE g[i - 1] \o seqs[i]
    <3>1. CASE i \in 1..k
      <4>1. g[i] = f[i] /\ (i # 1 => g[i - 1] = f[i - 1])
        BY <3>1
      <4> QED
        BY <2>1, <3>1, <4>1
    <3>2. CASE i = k + 1
      <4>1. g[i] = last /\ (i # 1 => g[i - 1] = f[k])
        BY <3>2
      <4> QED
        BY <3>2, <4>1 DEF last
    <3> QED
      BY <3>1, <3>2
  <2> HIDE DEF g
  <2> QED
    BY <2>3, <2>4
<1> HIDE DEF F
<1>4. n \in F
  BY <1>1, <1>2, <1>3, Reaches
<1>5. PICK f \in [1..n -> Seq(X)] : Eq(f, n)
  BY <1>1, <1>4 DEF F
<1> DEFINE G == CHOOSE g : g = [i \in 1..n |-> IF i = 1 THEN seqs[i] ELSE g[i - 1] \o seqs[i]]
<1>6. n # 0 => FlattenSeq(seqs) = G[n]
  BY DEF FlattenSeq, n
<1>7. G = [i \in 1..n |-> IF i = 1 THEN seqs[i] ELSE G[i - 1] \o seqs[i]]
  <2>1. f = [i \in 1..n |-> IF i = 1 THEN seqs[i] ELSE f[i - 1] \o seqs[i]]
    BY <1>5
  <2> QED
    BY <2>1
<1> HIDE DEF G
<1> DEFINE K == {k \in Nat : 1 <= k /\ k <= n => G[k] = f[k]}
<1>8. 0 \in K
  OBVIOUS
<1>9. ASSUME NEW k \in Nat, k \in K
      PROVE  k + 1 \in K
  <2> SUFFICES ASSUME k + 1 <= n PROVE G[k + 1] = f[k + 1]
    OBVIOUS
  <2>1. k + 1 \in 1..n /\ (k + 1) - 1 = k
    BY <1>1
  <2>2. /\ G[k + 1] = IF k + 1 = 1 THEN seqs[k + 1] ELSE G[(k + 1) - 1] \o seqs[k + 1]
        /\ f[k + 1] = IF k + 1 = 1 THEN seqs[k + 1] ELSE f[(k + 1) - 1] \o seqs[k + 1]
    BY <1>5, <1>7, <2>1
  <2>3. k # 0 => G[k] = f[k]
    BY <1>1, <1>9
  <2> QED
    BY <2>1, <2>2, <2>3
<1> HIDE DEF K
<1>10. n \in K
  BY <1>1, <1>8, <1>9, Reaches
<1> DEFINE H == [k \in 0..n |-> IF k = 0 THEN <<>> ELSE f[k]]
<1>11. H \in [0..n -> Seq(X)]
  BY <1>1, <1>5
<1>12. H[n] = FlattenSeq(seqs)
  <2>1. CASE n = 0
    <3>1. FlattenSeq(seqs) = <<>>
      BY <2>1 DEF FlattenSeq, n
    <3> QED
      BY <2>1, <3>1
  <2>2. CASE n # 0
    BY <1>1, <1>6, <1>10, <2>2 DEF K
  <2> QED
    BY <2>1, <2>2
<1>13. ASSUME NEW k \in 0..(n - 1)
       PROVE  H[k + 1] = H[k] \o seqs[k + 1]
  <2>1. k + 1 \in 1..n /\ k + 1 \in 0..n /\ k \in 0..n /\ k + 1 # 0 /\ (k + 1) - 1 = k
    BY <1>1
  <2>2. H[k + 1] = f[k + 1] /\ seqs[k + 1] \in Seq(X)
    BY <1>1, <2>1
  <2>3. f[k + 1] = IF k + 1 = 1 THEN seqs[k + 1] ELSE f[(k + 1) - 1] \o seqs[k + 1]
    BY <1>5, <2>1
  <2>4. CASE k = 0
    <3>1. H[k] = <<>> /\ f[k + 1] = seqs[k + 1]
      BY <2>1, <2>3, <2>4
    <3>2. <<>> \o seqs[k + 1] = seqs[k + 1]
      BY <2>2
    <3> QED
      BY <2>2, <3>1, <3>2
  <2>5. CASE k # 0
    <3>1. H[k] = f[k]
      BY <2>1, <2>5
    <3>2. k + 1 # 1
      BY <2>5
    <3>3. f[k + 1] = f[k] \o seqs[k + 1]
      BY <2>1, <2>3, <3>2
    <3> QED
      BY <2>2, <3>1, <3>3
  <2> QED
    BY <2>4, <2>5
<1>14. H[0] = <<>>
  BY <1>1
<1> HIDE DEF H
<1> QED
  BY <1>11, <1>12, <1>13, <1>14 DEF n

(* seqs lie in flat one after the other, the kth behind the place at[k - 1] *)
LaidAt(flat, seqs, at) ==
    /\ at \in [0..Len(seqs) -> Nat] /\ at[0] = 0 /\ at[Len(seqs)] = Len(flat)
    /\ \A k \in 1..Len(seqs) : at[k] = at[k - 1] + Len(seqs[k])
    /\ \A k \in 1..Len(seqs) : \A j \in 1..Len(seqs[k]) :
           at[k - 1] + j \in 1..Len(flat) /\ flat[at[k - 1] + j] = seqs[k][j]
    /\ \A i \in 1..Len(flat) : \E k \in 1..Len(seqs) : \E j \in 1..Len(seqs[k]) : i = at[k - 1] + j

(* FlattenSeq lays its sequences one after the other. *)
LEMMA FlattenPlaces ==
    ASSUME NEW X, NEW seqs \in Seq(Seq(X))
    PROVE  FlattenSeq(seqs) \in Seq(X) /\ \E at : LaidAt(FlattenSeq(seqs), seqs, at)
<1> DEFINE n == Len(seqs)
<1>1. PICK F \in [0..n -> Seq(X)] :
          /\ F[0] = <<>> /\ F[n] = FlattenSeq(seqs)
          /\ \A k \in 0..(n - 1) : F[k + 1] = F[k] \o seqs[k + 1]
  BY FlattenSteps
<1>2. n \in Nat /\ seqs \in [1..n -> Seq(X)]
  OBVIOUS
<1> HIDE DEF n
<1> DEFINE at == [k \in 0..n |-> Len(F[k])]
<1>3. \A k \in 0..n : F[k] \in Seq(X) /\ at[k] = Len(F[k]) /\ at[k] \in Nat
  BY <1>1
<1>4. at \in [0..n -> Nat] /\ at[0] = 0
  BY <1>1, <1>2, <1>3
<1> HIDE DEF at
<1>5. ASSUME NEW k \in 1..n
      PROVE  /\ at[k] = at[k - 1] + Len(seqs[k]) /\ Len(seqs[k]) \in Nat
             /\ \A i \in 1..at[k - 1] : F[k][i] = F[k - 1][i]
             /\ \A j \in 1..Len(seqs[k]) : F[k][at[k - 1] + j] = seqs[k][j]
  <2>1. k - 1 \in 0..(n - 1) /\ k - 1 \in 0..n /\ k \in 0..n /\ (k - 1) + 1 = k
    BY <1>2
  <2>2. F[k] = F[k - 1] \o seqs[k] /\ F[k - 1] \in Seq(X) /\ seqs[k] \in Seq(X)
    BY <1>1, <1>2, <2>1
  <2>3. at[k] = Len(F[k]) /\ at[k - 1] = Len(F[k - 1])
    BY <1>3, <2>1
  <2>4. \A s, t \in Seq(X) :
            /\ Len(s \o t) = Len(s) + Len(t) /\ Len(t) \in Nat
            /\ \A i \in 1..Len(s) : (s \o t)[i] = s[i]
            /\ \A j \in 1..Len(t) : (s \o t)[Len(s) + j] = t[j]
    OBVIOUS
  <2> DEFINE a == F[k - 1]  b == seqs[k]  c == F[k]
  <2>5. /\ Len(c) = Len(a) + Len(b) /\ Len(b) \in Nat
        /\ \A i \in 1..Len(a) : c[i] = a[i]
        /\ \A j \in 1..Len(b) : c[Len(a) + j] = b[j]
    <3> HIDE DEF a, b, c
    <3>1. c = a \o b /\ a \in Seq(X) /\ b \in Seq(X)
      BY <2>2 DEF a, b, c
    <3> QED
      BY <2>4, <3>1
  <2> QED
    BY <2>3, <2>5
<1> DEFINE T == {m \in Nat : m <= n => \A k \in 1..m : \A j \in 1..Len(seqs[k]) :
                       at[k - 1] + j \in 1..at[m] /\ F[m][at[k - 1] + j] = seqs[k][j]}
<1>6. 0 \in T
  OBVIOUS
<1>7. ASSUME NEW m \in Nat, m \in T
      PROVE  m + 1 \in T
  <2> SUFFICES ASSUME m + 1 <= n, NEW k \in 1..(m + 1), NEW j \in 1..Len(seqs[k])
               PROVE  at[k - 1] + j \in 1..at[m + 1] /\ F[m + 1][at[k - 1] + j] = seqs[k][j]
    OBVIOUS
  <2>1. /\ m + 1 \in 1..n /\ (m + 1) - 1 = m /\ k \in 1..n /\ k - 1 \in 0..n /\ m \in 0..n /\ m + 1 \in 0..n
    BY <1>2
  <2>2. /\ at[k - 1] \in Nat /\ at[m] \in Nat /\ at[m + 1] \in Nat
        /\ at[m + 1] = at[m] + Len(seqs[m + 1]) /\ Len(seqs[m + 1]) \in Nat /\ Len(seqs[k]) \in Nat
    BY <1>3, <1>5, <2>1
  <2>3. CASE k = m + 1
    BY <1>5, <2>1, <2>2, <2>3
  <2>4. CASE k # m + 1
    <3>1. k \in 1..m /\ m <= n
      BY <1>2, <2>1, <2>4
    <3>2. at[k - 1] + j \in 1..at[m] /\ F[m][at[k - 1] + j] = seqs[k][j]
      BY <1>7, <3>1
    <3>3. F[m + 1][at[k - 1] + j] = F[m][at[k - 1] + j]
      BY <1>5, <2>1, <3>2
    <3> HIDE DEF T
    <3>4. \A a, l \in Nat : \A x \in 1..a : x \in 1..(a + l)
      OBVIOUS
    <3>5. at[k - 1] + j \in 1..at[m + 1]
      BY <2>2, <3>2, <3>4
    <3> QED
      BY <3>2, <3>3, <3>5
  <2> QED
    BY <2>3, <2>4
<1> HIDE DEF T
<1>8. n \in T
  BY <1>2, <1>6, <1>7, Reaches
<1>10. at[n] = Len(F[n]) /\ F[n] \in Seq(X)
  BY <1>2, <1>3
<1>9. \A k \in 1..n : \A j \in 1..Len(seqs[k]) : at[k - 1] + j \in 1..Len(F[n]) /\ F[n][at[k - 1] + j] = seqs[k][j]
  BY <1>2, <1>8, <1>10 DEF T
<1> DEFINE U == {m \in Nat : m <= n => \A i \in 1..at[m] : \E k \in 1..n : \E j \in 1..Len(seqs[k]) : i = at[k - 1] + j}
<1>11. 0 \in U
  BY <1>4
<1>12. ASSUME NEW m \in Nat, m \in U
       PROVE  m + 1 \in U
  <2> SUFFICES ASSUME m + 1 <= n, NEW i \in 1..at[m + 1]
               PROVE  \E k \in 1..n : \E j \in 1..Len(seqs[k]) : i = at[k - 1] + j
    OBVIOUS
  <2>1. m + 1 \in 1..n /\ (m + 1) - 1 = m /\ m \in 0..n /\ m + 1 \in 0..n /\ m <= n
    BY <1>2
  <2>2. /\ at[m] \in Nat /\ at[m + 1] = at[m] + Len(seqs[m + 1]) /\ Len(seqs[m + 1]) \in Nat
    BY <1>3, <1>5, <2>1
  <2>3. CASE i <= at[m]
    <3>1. i \in 1..at[m]
      BY <2>2, <2>3
    <3> QED
      BY <1>12, <2>1, <3>1
  <2>4. CASE i > at[m]
    <3>1. i - at[m] \in 1..Len(seqs[m + 1]) /\ i = at[m] + (i - at[m])
      BY <2>2, <2>4
    <3> QED
      BY <2>1, <3>1
  <2> QED
    BY <2>2, <2>3, <2>4
<1> HIDE DEF U
<1>13. n \in U
  BY <1>2, <1>11, <1>12, Reaches
<1>14. \A i \in 1..Len(F[n]) : \E k \in 1..n : \E j \in 1..Len(seqs[k]) : i = at[k - 1] + j
  BY <1>2, <1>10, <1>13 DEF U
<1>15. LaidAt(F[n], seqs, at)
  BY <1>4, <1>5, <1>9, <1>10, <1>14 DEF LaidAt, n
<1> QED
  BY <1>1, <1>10, <1>15

(* flat holds the elements of the first k sequences, the place of each in spot *)
Laid(flat, k, seqs, spot) ==
    /\ \A i \in 1..Len(flat) :
           /\ spot[i][1] \in 1..k /\ spot[i][2] \in DOMAIN seqs[spot[i][1]]
           /\ flat[i] = seqs[spot[i][1]][spot[i][2]]
    /\ \A a \in 1..k : \A p \in DOMAIN seqs[a] : \E i \in 1..Len(flat) : spot[i][1] = a /\ spot[i][2] = p
    /\ \A i, j \in 1..Len(flat) :
           i < j => spot[i][1] < spot[j][1] \/ (spot[i][1] = spot[j][1] /\ spot[i][2] < spot[j][2])

LEMMA OneMoreLaid ==
    ASSUME NEW X, NEW n \in Nat, NEW k \in Nat, k < n, NEW seqs \in [1..n -> Seq(X)], NEW flat \in Seq(X), NEW spot,
           Laid(flat, k, seqs, spot)
    PROVE  \E more : Laid(flat \o seqs[k + 1], k + 1, seqs, more)
<1> DEFINE next == seqs[k + 1]
           m == Len(flat)
           all == flat \o next
           more == [i \in 1..Len(all) |-> IF i <= m THEN spot[i] ELSE <<k + 1, i - m>>]
<1>1. k + 1 \in 1..n /\ next \in Seq(X) /\ m \in Nat /\ Len(next) \in Nat /\ DOMAIN next = 1..Len(next)
      /\ all \in Seq(X) /\ Len(all) = m + Len(next)
  OBVIOUS
<1>2. \A i \in 1..m : all[i] = flat[i] /\ i \in 1..Len(all) /\ more[i] = spot[i]
  BY <1>1
<1>3. \A p \in 1..Len(next) : all[m + p] = next[p] /\ m + p \in 1..Len(all)
                              /\ more[m + p][1] = k + 1 /\ more[m + p][2] = p
  <2> TAKE p \in 1..Len(next)
  <2>1. m + p \in 1..Len(all) /\ ~(m + p <= m) /\ (m + p) - m = p
    BY <1>1
  <2>2. all[m + p] = next[p]
    BY <1>1, <2>1
  <2> QED
    BY <2>1, <2>2
<1>4. \A i \in 1..Len(all) : i \in 1..m \/ \E p \in 1..Len(next) : i = m + p
  <2> TAKE i \in 1..Len(all)
  <2>1. CASE i <= m
    BY <1>1, <2>1
  <2>2. CASE i > m
    <3>1. i - m \in 1..Len(next) /\ i = m + (i - m)
      BY <1>1, <2>2
    <3> QED
      BY <3>1
  <2> QED
    BY <1>1, <2>1, <2>2
<1> HIDE DEF more, all, m
<1>5. ASSUME NEW i \in 1..Len(all)
      PROVE  /\ more[i][1] \in 1..(k + 1) /\ more[i][2] \in DOMAIN seqs[more[i][1]]
             /\ all[i] = seqs[more[i][1]][more[i][2]]
  <2>1. CASE i \in 1..m
    <3>1. spot[i][1] \in 1..k /\ spot[i][2] \in DOMAIN seqs[spot[i][1]] /\ flat[i] = seqs[spot[i][1]][spot[i][2]]
      BY <2>1 DEF Laid, m
    <3>2. more[i] = spot[i] /\ all[i] = flat[i]
      BY <1>2, <2>1
    <3> QED
      BY <3>1, <3>2
  <2>2. ASSUME NEW p \in 1..Len(next), i = m + p
        PROVE  /\ more[i][1] \in 1..(k + 1) /\ more[i][2] \in DOMAIN seqs[more[i][1]]
               /\ all[i] = seqs[more[i][1]][more[i][2]]
    <3>1. more[i][1] = k + 1 /\ more[i][2] = p /\ all[i] = next[p] /\ DOMAIN next = 1..Len(next)
      BY <1>1, <1>3, <2>2
    <3> QED
      BY <3>1
  <2> QED
    BY <1>4, <2>1, <2>2
<1>6. ASSUME NEW a \in 1..(k + 1), NEW p \in DOMAIN seqs[a]
      PROVE  \E i \in 1..Len(all) : more[i][1] = a /\ more[i][2] = p
  <2>1. CASE a \in 1..k
    <3>1. PICK i \in 1..m : spot[i][1] = a /\ spot[i][2] = p
      BY <2>1 DEF Laid, m
    <3> QED
      BY <1>2, <3>1
  <2>2. CASE a = k + 1
    <3>1. p \in 1..Len(next)
      BY <1>1, <2>2
    <3>2. m + p \in 1..Len(all) /\ more[m + p][1] = a /\ more[m + p][2] = p
      BY <1>3, <2>2, <3>1
    <3> QED
      BY <3>2
  <2>3. a \in 1..k \/ a = k + 1
    OBVIOUS
  <2> QED
    BY <2>1, <2>2, <2>3
<1>7. ASSUME NEW i \in 1..Len(all), NEW j \in 1..Len(all), i < j
      PROVE  more[i][1] < more[j][1] \/ (more[i][1] = more[j][1] /\ more[i][2] < more[j][2])
  <2>1. CASE j \in 1..m
    <3>1. i \in 1..m
      BY <1>1, <1>7, <2>1
    <3>2. spot[i][1] < spot[j][1] \/ (spot[i][1] = spot[j][1] /\ spot[i][2] < spot[j][2])
      BY <1>7, <2>1, <3>1 DEF Laid, m
    <3>3. more[i] = spot[i] /\ more[j] = spot[j]
      BY <1>2, <2>1, <3>1
    <3> QED
      BY <3>2, <3>3
  <2>2. ASSUME NEW p \in 1..Len(next), j = m + p
        PROVE  more[i][1] < more[j][1] \/ (more[i][1] = more[j][1] /\ more[i][2] < more[j][2])
    <3>1. more[j][1] = k + 1 /\ more[j][2] = p
      BY <1>3, <2>2
    <3>2. CASE i \in 1..m
      <4>1. more[i][1] \in 1..k
        BY <1>2, <3>2 DEF Laid, m
      <4> QED
        BY <3>1, <4>1
    <3>3. ASSUME NEW q \in 1..Len(next), i = m + q
          PROVE  more[i][1] = more[j][1] /\ more[i][2] < more[j][2]
      <4>1. more[i][1] = k + 1 /\ more[i][2] = q
        BY <1>3, <3>3
      <4>2. q < p
        BY <1>1, <1>7, <2>2, <3>3
      <4> QED
        BY <3>1, <4>1, <4>2
    <3> QED
      BY <1>4, <3>2, <3>3
  <2> QED
    BY <1>4, <2>1, <2>2
<1>8. Laid(all, k + 1, seqs, more)
  BY <1>5, <1>6, <1>7 DEF Laid
<1> QED
  BY <1>8 DEF all

(* FlattenSeq holds every element of every sequence, in their order. *)
LEMMA Flattened ==
    ASSUME NEW X, NEW seqs \in Seq(Seq(X))
    PROVE  FlattenSeq(seqs) \in Seq(X) /\ \E spot : Laid(FlattenSeq(seqs), Len(seqs), seqs, spot)
<1> DEFINE n == Len(seqs)
<1>1. PICK F \in [0..n -> Seq(X)] :
          /\ F[0] = <<>> /\ F[n] = FlattenSeq(seqs)
          /\ \A k \in 0..(n - 1) : F[k + 1] = F[k] \o seqs[k + 1]
  BY FlattenSteps
<1>2. n \in Nat /\ seqs \in [1..n -> Seq(X)]
  OBVIOUS
<1> HIDE DEF n
<1> DEFINE L == {k \in Nat : k <= n => \E spot : Laid(F[k], k, seqs, spot)}
<1>3. 0 \in L
  <2>1. Laid(F[0], 0, seqs, <<>>)
    <3>1. 1..0 = {} /\ Len(F[0]) = 0
      BY <1>1
    <3> QED
      BY <3>1 DEF Laid
  <2> QED
    BY <2>1
<1>4. ASSUME NEW k \in Nat, k \in L
      PROVE  k + 1 \in L
  <2> SUFFICES ASSUME k + 1 <= n PROVE \E spot : Laid(F[k + 1], k + 1, seqs, spot)
    OBVIOUS
  <2>1. k \in 0..(n - 1) /\ k \in 0..n /\ k < n /\ k <= n
    BY <1>2
  <2>2. PICK spot : Laid(F[k], k, seqs, spot)
    BY <1>4, <2>1
  <2>3. F[k + 1] = F[k] \o seqs[k + 1] /\ F[k] \in Seq(X)
    BY <1>1, <2>1
  <2>4. \E more : Laid(F[k] \o seqs[k + 1], k + 1, seqs, more)
    BY <1>2, <2>1, <2>2, <2>3, OneMoreLaid
  <2> QED
    BY <2>3, <2>4
<1> HIDE DEF L
<1>5. n \in L
  BY <1>2, <1>3, <1>4, Reaches
<1> QED
  BY <1>1, <1>2, <1>5 DEF L, n
=============================================================================
