--------------------------- MODULE FileCommandsProofs ---------------------------
(* Proofs about the programs of FileCommands, for any calls, documents, commands  *)
(* and configurations.  A family's steps leave the other families' variables      *)
(* alone, so each family is proved about by itself; the assembly and the build    *)
(* are proved about in BuilderProofs.                                             *)
EXTENDS FileCommands, FiniteSetTheorems, SequenceTheorems, TLAPS

-----------------------------------------------------------------------------
(* The query proxy                                                              *)

KnownQuestions == {NotGiven} \cup {r.question : r \in Requests} \cup {t.question : t \in Contexts}
KnownNames     == {r.name : r \in Requests} \cup UNION {t.names : t \in Contexts}
ContextTexts   == Contexts \cup {NoFile} \cup [kind : {"context"}, question : KnownQuestions, names : SUBSET KnownNames]
ProxyStates ==
    [at : {"idle", "load", "save", "touch", "call", "append", "over"},
     asked : Requests \cup {NothingAsked}, context : ContextTexts, saved : BOOLEAN,
     written : Nat, beside : SUBSET Proxies,
     outcome : {"none", "refused", "unreachable", "answered", "unsaved", "killed"}]

ProxyTyped ==
    /\ context \in ContextTexts
    /\ traversals \in Seq(Proxies \X Nat)
    /\ proxy \in [Proxies -> ProxyStates]

(* Calls under way at once know of each other. *)
ProxiesMeet ==
    \A p, q \in Proxies : p \in Running /\ q \in Running /\ p # q => q \in proxy[p].beside

(* What a call has written of its section is in File B, and all of it once it is  *)
(* over and says so; until then no other has written after a call that is alone.  *)
EvidenceOf(p) ==
    LET r == proxy[p] IN
    /\ InOrder(traversals, p, r.written)
    /\ r.written > 0 => r.asked.method = "traversal" /\ r.at \in {"append", "over"}
                        /\ r.outcome \notin {"refused", "unreachable"}
    /\ r.at = "append" => r.asked.method = "traversal" /\ r.written < r.asked.pieces
    /\ r.at # "over" => r.outcome = "none"
    /\ Navigated(p) => r.written = r.asked.pieces
    /\ r.beside = {} => /\ InOnePiece(traversals, p, r.written)
                        /\ r.at = "append" =>
                               \A k \in 1..r.written : traversals[(Len(traversals) - r.written) + k] = <<p, k>>

(* The text that a call is about to save keeps what another saved before it began. *)
Covers(text, p) ==
    /\ text.kind = "context"
    /\ text.question = proxy[p].context.question
    /\ proxy[p].context.names \subseteq text.names
Overtaken(p) == \E q \in proxy[p].beside : proxy[q].saved
ContextInv ==
    \A p \in Proxies : proxy[p].saved =>
        /\ Covers(context, p) \/ Overtaken(p)
        /\ \A q \in Proxies : proxy[q].at = "save" =>
               q \in proxy[p].beside \/ Covers(proxy[q].context, p) \/ Overtaken(p)
(* a call that has not begun met none and saved nothing *)
ProxyOrder ==
    \A p \in Proxies :
        /\ proxy[p].at \in {"idle", "load", "save"} => ~proxy[p].saved
        /\ \A q \in proxy[p].beside : proxy[q].at # "idle"
        /\ proxy[p].at = "save" => proxy[p].context.kind = "context"

EvidenceInv == \A p \in Proxies : EvidenceOf(p)
ProxyInv == ProxyTyped /\ ProxiesMeet /\ ProxyOrder /\ EvidenceInv /\ ContextInv

-----------------------------------------------------------------------------
(* File B: a piece is added at its end.                                          *)

LEMMA PiecesAdded ==
    ASSUME NEW file \in Seq(Proxies \X Nat), NEW p \in Proxies, NEW m \in Nat
    PROVE  LET longer == Append(file, <<p, m>>)
           IN  /\ longer \in Seq(Proxies \X Nat) /\ Len(longer) = Len(file) + 1 /\ Len(file) \in Nat
               /\ DOMAIN file = 1..Len(file) /\ DOMAIN longer = 1..(Len(file) + 1)
               /\ \A i \in 1..Len(file) : longer[i] = file[i]
               /\ longer[Len(file) + 1] = <<p, m>>
               /\ PlacesOf(longer, p) = PlacesOf(file, p) \cup {Len(file) + 1}
               /\ \A q : q # p => PlacesOf(longer, q) = PlacesOf(file, q)
<1> DEFINE longer == Append(file, <<p, m>>)
<1>1. /\ longer \in Seq(Proxies \X Nat) /\ Len(longer) = Len(file) + 1 /\ Len(file) \in Nat
      /\ \A i \in 1..Len(file) : longer[i] = file[i]
      /\ longer[Len(file) + 1] = <<p, m>>
  BY AppendProperties
<1>2. DOMAIN file = 1..Len(file) /\ DOMAIN longer = 1..(Len(file) + 1)
  BY <1>1, LenProperties
<1> HIDE DEF longer
<1>3. longer[Len(file) + 1][1] = p
  BY <1>1
<1>4. PlacesOf(longer, p) = PlacesOf(file, p) \cup {Len(file) + 1}
  BY <1>1, <1>2, <1>3 DEF PlacesOf
<1>5. \A q : q # p => PlacesOf(longer, q) = PlacesOf(file, q)
  BY <1>1, <1>2, <1>3 DEF PlacesOf
<1> QED
  BY <1>1, <1>2, <1>4, <1>5 DEF longer

(* The next piece of a section leaves what others wrote in order and in one piece. *)
LEMMA OthersInOrder ==
    ASSUME NEW file \in Seq(Proxies \X Nat), NEW p \in Proxies, NEW m \in Nat, NEW q, q # p, NEW n \in Nat
    PROVE  /\ InOrder(file, q, n) => InOrder(Append(file, <<p, m>>), q, n)
           /\ InOnePiece(file, q, n) => InOnePiece(Append(file, <<p, m>>), q, n)
<1> DEFINE longer == Append(file, <<p, m>>)
<1>1. /\ Len(longer) = Len(file) + 1 /\ Len(file) \in Nat /\ DOMAIN file = 1..Len(file)
      /\ \A i \in 1..Len(file) : longer[i] = file[i]
      /\ PlacesOf(longer, q) = PlacesOf(file, q)
  BY PiecesAdded
<1> HIDE DEF longer
<1>2. ASSUME InOrder(file, q, n) PROVE InOrder(longer, q, n)
  <2>1. PICK at \in [1..n -> PlacesOf(file, q)] :
            /\ \A k \in 1..n : file[at[k]] = <<q, k>>
            /\ \A k, l \in 1..n : k < l => at[k] < at[l]
            /\ PlacesOf(file, q) = {at[k] : k \in 1..n}
    BY <1>2 DEF InOrder
  <2>2. \A k \in 1..n : at[k] \in 1..Len(file)
    BY <1>1, <2>1 DEF PlacesOf
  <2>3. \A k \in 1..n : longer[at[k]] = <<q, k>>
    BY <1>1, <2>1, <2>2
  <2> QED
    BY <1>1, <2>1, <2>3 DEF InOrder
<1>3. ASSUME InOnePiece(file, q, n) PROVE InOnePiece(longer, q, n)
  <2>1. PICK i \in 0..(Len(file) - n) : \A k \in 1..n : file[i + k] = <<q, k>>
    BY <1>3 DEF InOnePiece
  <2>2. i \in 0..(Len(longer) - n) /\ \A k \in 1..n : i + k \in 1..Len(file)
    BY <1>1
  <2>3. \A k \in 1..n : longer[i + k] = <<q, k>>
    BY <1>1, <2>1, <2>2
  <2> QED
    BY <2>2, <2>3 DEF InOnePiece
<1> QED
  BY <1>2, <1>3 DEF longer

LEMMA NextInOrder ==
    ASSUME NEW file \in Seq(Proxies \X Nat), NEW p \in Proxies, NEW n \in Nat, InOrder(file, p, n)
    PROVE  InOrder(Append(file, <<p, n + 1>>), p, n + 1)
<1> DEFINE longer == Append(file, <<p, n + 1>>)
<1>0. n + 1 \in Nat
  OBVIOUS
<1>1. /\ Len(file) \in Nat /\ DOMAIN file = 1..Len(file)
      /\ \A i \in 1..Len(file) : longer[i] = file[i]
      /\ longer[Len(file) + 1] = <<p, n + 1>>
      /\ PlacesOf(longer, p) = PlacesOf(file, p) \cup {Len(file) + 1}
  BY <1>0, PiecesAdded
<1> HIDE DEF longer
<1>2. PICK at \in [1..n -> PlacesOf(file, p)] :
          /\ \A k \in 1..n : file[at[k]] = <<p, k>>
          /\ \A k, l \in 1..n : k < l => at[k] < at[l]
          /\ PlacesOf(file, p) = {at[k] : k \in 1..n}
  BY DEF InOrder
<1>3. \A k \in 1..n : at[k] \in 1..Len(file)
  BY <1>1, <1>2 DEF PlacesOf
<1> DEFINE further == [k \in 1..(n + 1) |-> IF k = n + 1 THEN Len(file) + 1 ELSE at[k]]
<1>4. /\ further[n + 1] = Len(file) + 1
      /\ \A k \in 1..n : further[k] = at[k] /\ further[k] \in 1..Len(file)
      /\ \A k \in 1..(n + 1) : k \in 1..n \/ k = n + 1
  BY <1>3
<1>5. further \in [1..(n + 1) -> PlacesOf(longer, p)]
  BY <1>1, <1>2
<1> HIDE DEF further
<1>6. \A k \in 1..(n + 1) : longer[further[k]] = <<p, k>>
  <2>1. \A k \in 1..n : longer[further[k]] = <<p, k>>
    BY <1>1, <1>2, <1>4
  <2>2. longer[further[n + 1]] = <<p, n + 1>>
    BY <1>1, <1>4
  <2> QED
    BY <1>4, <2>1, <2>2
<1>7. ASSUME NEW k \in 1..(n + 1), NEW l \in 1..(n + 1), k < l PROVE further[k] < further[l]
  <2>1. k \in 1..n /\ further[k] = at[k] /\ further[k] \in 1..Len(file)
    BY <1>4, <1>7
  <2>2. CASE l = n + 1
    BY <1>1, <1>4, <2>1, <2>2
  <2>3. CASE l # n + 1
    BY <1>2, <1>4, <1>7, <2>1, <2>3
  <2> QED
    BY <2>2, <2>3
<1>8. PlacesOf(longer, p) = {further[k] : k \in 1..(n + 1)}
  <2>1. {further[k] : k \in 1..(n + 1)} = {at[k] : k \in 1..n} \cup {Len(file) + 1}
    <3>1. \A k \in 1..n : k \in 1..(n + 1)
      OBVIOUS
    <3>2. n + 1 \in 1..(n + 1)
      OBVIOUS
    <3> QED
      BY <1>4, <3>1, <3>2
  <2> QED
    BY <1>1, <1>2, <2>1
<1> QED
  BY <1>5, <1>6, <1>7, <1>8 DEF InOrder, longer

(* A call that is alone has its pieces at the end of the file. *)
LEMMA NextInOnePiece ==
    ASSUME NEW file \in Seq(Proxies \X Nat), NEW p \in Proxies, NEW n \in Nat,
           InOnePiece(file, p, n), \A k \in 1..n : file[(Len(file) - n) + k] = <<p, k>>
    PROVE  LET longer == Append(file, <<p, n + 1>>)
           IN  /\ InOnePiece(longer, p, n + 1)
               /\ \A k \in 1..(n + 1) : longer[(Len(longer) - (n + 1)) + k] = <<p, k>>
<1> DEFINE longer == Append(file, <<p, n + 1>>)
<1>1. /\ Len(longer) = Len(file) + 1 /\ Len(file) \in Nat
      /\ \A i \in 1..Len(file) : longer[i] = file[i]
      /\ longer[Len(file) + 1] = <<p, n + 1>>
  BY PiecesAdded
<1> HIDE DEF longer
<1>2. n <= Len(file)
  BY <1>1 DEF InOnePiece
<1> DEFINE i == Len(file) - n
<1>3. i \in 0..(Len(longer) - (n + 1)) /\ Len(longer) - (n + 1) = i
  BY <1>1, <1>2
<1>4. ASSUME NEW k \in 1..(n + 1) PROVE longer[i + k] = <<p, k>>
  <2>1. CASE k = n + 1
    <3>1. i + k = Len(file) + 1
      BY <1>1, <2>1
    <3> QED
      BY <1>1, <2>1, <3>1
  <2>2. CASE k # n + 1
    <3>1. k \in 1..n /\ i + k \in 1..Len(file)
      BY <1>1, <1>2, <2>2
    <3> QED
      BY <1>1, <3>1
  <2> QED
    BY <2>1, <2>2
<1> QED
  BY <1>3, <1>4 DEF InOnePiece, longer

-----------------------------------------------------------------------------
(* The steps of a call, by what they make of its state.                          *)

LEMMA ProxyGoes ==
    ASSUME ProxyTyped, NEW p \in Proxies, NEW r \in ProxyStates, Go(p, r)
    PROVE  /\ proxy' \in [Proxies -> ProxyStates] /\ proxy'[p] = r
           /\ \A q \in Proxies \ {p} : proxy'[q] = proxy[q]
BY DEF ProxyTyped, Go

(* what stays as it was when a call goes on or ends *)
Keeps(p) == /\ proxy'[p].asked = proxy[p].asked /\ proxy'[p].beside = proxy[p].beside
            /\ proxy' \in [Proxies -> ProxyStates]
            /\ \A q \in Proxies \ {p} : proxy'[q] = proxy[q]

LEMMA ProxyEnds ==
    ASSUME ProxyTyped, NEW p \in Proxies,
           NEW outcome \in {"refused", "unreachable", "answered", "unsaved", "killed"}, End(p, outcome)
    PROVE  /\ Keeps(p) /\ proxy'[p].at = "over" /\ proxy'[p].outcome = outcome
           /\ proxy'[p].context = proxy[p].context /\ proxy'[p].saved = proxy[p].saved
           /\ proxy'[p].written = proxy[p].written
<1> DEFINE r == [proxy[p] EXCEPT !.at = "over", !.outcome = outcome]
<1>0. proxy[p] \in ProxyStates
  BY DEF ProxyTyped
<1>1. /\ r \in ProxyStates /\ r.at = "over" /\ r.outcome = outcome /\ r.asked = proxy[p].asked
      /\ r.context = proxy[p].context /\ r.saved = proxy[p].saved
      /\ r.written = proxy[p].written /\ r.beside = proxy[p].beside
  BY <1>0 DEF ProxyStates
<1>2. Go(p, r)
  BY DEF End
<1> HIDE DEF r
<1> QED
  BY <1>1, <1>2, ProxyGoes DEF Keeps

LEMMA LoadMoves ==
    ASSUME ProxyTyped, NEW p \in Proxies, LoadContext(p)
    PROVE  /\ Keeps(p) /\ proxy[p].at = "load" /\ UNCHANGED <<context, traversals>>
           /\ proxy'[p].saved = proxy[p].saved /\ proxy'[p].written = proxy[p].written
           /\ \/ proxy'[p].at = "over" /\ proxy'[p].outcome = "refused"
              \/ /\ proxy'[p].at = "save" /\ proxy'[p].outcome = proxy[p].outcome
                 /\ proxy'[p].context.kind = "context"
                 /\ context.names \subseteq proxy'[p].context.names
                 /\ context.kind = "context" => proxy'[p].context.question = context.question
<1> DEFINE asked == proxy[p].asked
           question == IF asked.question = NotGiven THEN context.question ELSE asked.question
           text == Held(question, context.names \cup ({asked.name} \ {NotGiven}))
           r == [proxy[p] EXCEPT !.at = "save", !.context = text]
<1>1. proxy[p].at = "load" /\ UNCHANGED <<context, traversals>>
  BY DEF LoadContext
<1>2. CASE End(p, "refused")
  BY <1>1, <1>2, ProxyEnds
<1>3. CASE ~Refused(asked) /\ Go(p, r)
  <2>1. asked \in Requests \cup {NothingAsked} /\ context \in ContextTexts /\ proxy[p] \in ProxyStates
    BY DEF ProxyTyped, ProxyStates
  <2>2. context.question \in KnownQuestions /\ context.names \subseteq KnownNames
    <3>1. CASE context \in Contexts
      BY <3>1 DEF KnownQuestions, KnownNames
    <3>2. CASE context = NoFile
      BY <3>2 DEF NoFile, KnownQuestions
    <3>3. CASE context \in [kind : {"context"}, question : KnownQuestions, names : SUBSET KnownNames]
      BY <3>3
    <3> QED
      BY <2>1, <3>1, <3>2, <3>3 DEF ContextTexts
  <2>3. question \in KnownQuestions /\ {asked.name} \ {NotGiven} \subseteq KnownNames
    BY <2>1, <2>2 DEF KnownQuestions, KnownNames, NothingAsked
  <2>4. /\ text \in ContextTexts /\ text.kind = "context" /\ context.names \subseteq text.names
        /\ text.question = question
    BY <2>2, <2>3 DEF ContextTexts, Held
  <2>5. context.kind = "context" => question = context.question
    BY <1>3 DEF Refused
  <2> HIDE DEF text, question
  <2>6. /\ r \in ProxyStates /\ r.at = "save" /\ r.outcome = proxy[p].outcome /\ r.asked = proxy[p].asked
        /\ r.context = text /\ r.saved = proxy[p].saved
        /\ r.written = proxy[p].written /\ r.beside = proxy[p].beside
    BY <2>1, <2>4 DEF ProxyStates
  <2> HIDE DEF r
  <2> QED
    BY <1>1, <1>3, <2>4, <2>5, <2>6, ProxyGoes DEF Keeps
<1> QED
  BY <1>2, <1>3 DEF LoadContext

LEMMA SaveMoves ==
    ASSUME ProxyTyped, NEW p \in Proxies, SaveContext(p)
    PROVE  /\ Keeps(p) /\ proxy[p].at = "save" /\ UNCHANGED traversals
           /\ proxy'[p].context = proxy[p].context /\ proxy'[p].written = proxy[p].written
           /\ \/ /\ proxy'[p].at = "over" /\ proxy'[p].outcome = "refused"
                 /\ proxy'[p].saved = proxy[p].saved /\ UNCHANGED context
              \/ /\ proxy'[p].at = "touch" /\ proxy'[p].outcome = proxy[p].outcome
                 /\ proxy'[p].saved /\ context' = proxy[p].context
<1> DEFINE r == [proxy[p] EXCEPT !.at = "touch", !.saved = TRUE]
<1>1. proxy[p].at = "save" /\ UNCHANGED traversals
  BY DEF SaveContext
<1>2. CASE End(p, "refused") /\ UNCHANGED context
  BY <1>1, <1>2, ProxyEnds
<1>3. CASE Go(p, r) /\ context' = proxy[p].context
  <2>0. proxy[p] \in ProxyStates
    BY DEF ProxyTyped
  <2>1. /\ r \in ProxyStates /\ r.at = "touch" /\ r.outcome = proxy[p].outcome /\ r.asked = proxy[p].asked
        /\ r.context = proxy[p].context /\ r.saved = TRUE
        /\ r.written = proxy[p].written /\ r.beside = proxy[p].beside
    BY <2>0 DEF ProxyStates
  <2> HIDE DEF r
  <2> QED
    BY <1>1, <1>3, <2>1, ProxyGoes DEF Keeps
<1> QED
  BY <1>2, <1>3 DEF SaveContext

LEMMA OtherMoves ==
    ASSUME ProxyTyped, NEW p \in Proxies, TouchTraversals(p) \/ CallService(p) \/ KillProxy(p)
    PROVE  /\ Keeps(p) /\ p \in Running /\ UNCHANGED <<context, traversals>>
           /\ proxy'[p].context = proxy[p].context /\ proxy'[p].written = proxy[p].written
           /\ proxy'[p].saved = proxy[p].saved
           /\ \/ /\ proxy'[p].at = "over"
                 /\ proxy'[p].outcome = "answered" => proxy[p].asked.method = "lookup"
                 /\ proxy'[p].outcome \in {"refused", "unreachable"} => proxy[p].at \in {"touch", "call"}
              \/ proxy[p].at = "touch" /\ proxy'[p].at = "call" /\ proxy'[p].outcome = proxy[p].outcome
              \/ /\ proxy[p].at = "call" /\ proxy'[p].at = "append" /\ proxy'[p].outcome = proxy[p].outcome
                 /\ proxy[p].asked.method = "traversal"
<1> DEFINE r(label) == [proxy[p] EXCEPT !.at = label]
<1>1. p \in Running /\ UNCHANGED <<context, traversals>>
  BY DEF TouchTraversals, CallService, KillProxy, Running
<1>2. \A label \in {"call", "append"} :
          /\ r(label) \in ProxyStates /\ r(label).at = label /\ r(label).outcome = proxy[p].outcome
          /\ r(label).asked = proxy[p].asked
          /\ r(label).context = proxy[p].context /\ r(label).saved = proxy[p].saved
          /\ r(label).written = proxy[p].written /\ r(label).beside = proxy[p].beside
  BY DEF ProxyTyped, ProxyStates
<1>3. \/ End(p, "killed")
      \/ proxy[p].at = "touch" /\ (End(p, "refused") \/ Go(p, r("call")))
      \/ /\ proxy[p].at = "call"
         /\ \/ End(p, "unreachable")
            \/ proxy[p].asked.method = "lookup" /\ End(p, "answered")
            \/ proxy[p].asked.method = "traversal" /\ Go(p, r("append"))
  BY DEF TouchTraversals, CallService, KillProxy
<1> HIDE DEF r
<1>4. ASSUME NEW label \in {"call", "append"}, Go(p, r(label))
      PROVE  Keeps(p) /\ proxy'[p] = r(label)
  BY <1>2, <1>4, ProxyGoes DEF Keeps
<1>5. CASE End(p, "killed")
  BY <1>1, <1>5, ProxyEnds
<1>6. CASE proxy[p].at = "touch" /\ (End(p, "refused") \/ Go(p, r("call")))
  BY <1>1, <1>2, <1>4, <1>6, ProxyEnds
<1>7. CASE /\ proxy[p].at = "call"
           /\ \/ End(p, "unreachable")
              \/ proxy[p].asked.method = "lookup" /\ End(p, "answered")
  BY <1>1, <1>7, ProxyEnds
<1>8. CASE proxy[p].at = "call" /\ proxy[p].asked.method = "traversal" /\ Go(p, r("append"))
  BY <1>1, <1>2, <1>4, <1>8
<1> QED
  BY <1>3, <1>5, <1>6, <1>7, <1>8

LEMMA AppendMoves ==
    ASSUME ProxyTyped, NEW p \in Proxies, AppendPiece(p)
    PROVE  /\ Keeps(p) /\ proxy[p].at = "append" /\ UNCHANGED context
           /\ proxy'[p].context = proxy[p].context /\ proxy'[p].saved = proxy[p].saved
           /\ \/ /\ proxy'[p].at = "over" /\ proxy'[p].outcome = "unsaved"
                 /\ proxy'[p].written = proxy[p].written /\ UNCHANGED traversals
              \/ /\ proxy'[p].written = proxy[p].written + 1
                 /\ traversals' = Append(traversals, <<p, proxy[p].written + 1>>)
                 /\ IF proxy[p].written + 1 = proxy[p].asked.pieces
                    THEN proxy'[p].at = "over" /\ proxy'[p].outcome = "answered"
                    ELSE proxy'[p].at = "append" /\ proxy'[p].outcome = proxy[p].outcome
<1> DEFINE n == proxy[p].written + 1
           last == [proxy[p] EXCEPT !.at = "over", !.outcome = "answered", !.written = n]
           next == [proxy[p] EXCEPT !.written = n]
<1>1. proxy[p].at = "append" /\ UNCHANGED context
  BY DEF AppendPiece
<1>2. CASE End(p, "unsaved") /\ UNCHANGED traversals
  BY <1>1, <1>2, ProxyEnds
<1>3. CASE traversals' = Append(traversals, <<p, n>>) /\ Wrote(p)
  <2>0. proxy[p] \in ProxyStates /\ n \in Nat
    BY DEF ProxyTyped, ProxyStates
  <2> HIDE DEF n
  <2>1. \A r \in {last, next} :
            /\ r \in ProxyStates /\ r.asked = proxy[p].asked
            /\ r.context = proxy[p].context /\ r.saved = proxy[p].saved
            /\ r.written = n /\ r.beside = proxy[p].beside
    <3>1. /\ last \in ProxyStates /\ last.asked = proxy[p].asked
          /\ last.context = proxy[p].context /\ last.saved = proxy[p].saved
          /\ last.written = n /\ last.beside = proxy[p].beside
      BY <2>0 DEF ProxyStates
    <3>2. /\ next \in ProxyStates /\ next.asked = proxy[p].asked
          /\ next.context = proxy[p].context /\ next.saved = proxy[p].saved
          /\ next.written = n /\ next.beside = proxy[p].beside
      BY <2>0 DEF ProxyStates
    <3> HIDE DEF last, next
    <3> QED
      BY <3>1, <3>2
  <2>2. /\ last.at = "over" /\ last.outcome = "answered"
        /\ next.at = proxy[p].at /\ next.outcome = proxy[p].outcome
    BY DEF ProxyTyped, ProxyStates
  <2>3. IF n = proxy[p].asked.pieces THEN Go(p, last) ELSE Go(p, next)
    BY <1>3 DEF Wrote, n
  <2> HIDE DEF last, next
  <2> USE DEF n
  <2>4. Keeps(p) /\ IF n = proxy[p].asked.pieces THEN proxy'[p] = last ELSE proxy'[p] = next
    BY <2>1, <2>3, ProxyGoes DEF Keeps
  <2> QED
    BY <1>1, <1>3, <2>1, <2>2, <2>4
<1> QED
  BY <1>2, <1>3 DEF AppendPiece

LEMMA BeginMoves ==
    ASSUME ProxyTyped, NEW p \in Proxies, BeginProxy(p)
    PROVE  /\ proxy[p].at = "idle" /\ UNCHANGED <<context, traversals>>
           /\ proxy' \in [Proxies -> ProxyStates]
           /\ proxy'[p].at = "load" /\ ~proxy'[p].saved /\ proxy'[p].written = 0 /\ proxy'[p].outcome = "none"
           /\ proxy'[p].beside = Running
<1>1. PICK r \in Requests :
          proxy' = [q \in Proxies |->
               IF q = p THEN [NotBegun EXCEPT !.at = "load", !.asked = r, !.beside = Running]
               ELSE IF q \in Running THEN [proxy[q] EXCEPT !.beside = @ \cup {p}]
               ELSE proxy[q]]
  BY DEF BeginProxy
<1> DEFINE new == [NotBegun EXCEPT !.at = "load", !.asked = r, !.beside = Running]
<1>2. /\ new \in ProxyStates /\ new.at = "load" /\ new.saved = FALSE /\ new.written = 0 /\ new.outcome = "none"
      /\ new.beside = Running
  BY DEF NotBegun, ProxyStates, ContextTexts, Running
<1>3. \A q \in Proxies : [proxy[q] EXCEPT !.beside = @ \cup {p}] \in ProxyStates
  BY DEF ProxyTyped, ProxyStates
<1>4. proxy' \in [Proxies -> ProxyStates]
  BY <1>1, <1>2, <1>3 DEF ProxyTyped
<1>5. proxy'[p] = new
  BY <1>1
<1> HIDE DEF new
<1> QED
  BY <1>2, <1>4, <1>5 DEF BeginProxy

(* a call under way takes note of the one that begins *)
LEMMA BeginOthers ==
    ASSUME ProxyTyped, NEW p \in Proxies, BeginProxy(p), NEW q \in Proxies, q # p
    PROVE  /\ proxy'[q].at = proxy[q].at /\ proxy'[q].asked = proxy[q].asked
           /\ proxy'[q].context = proxy[q].context /\ proxy'[q].saved = proxy[q].saved
           /\ proxy'[q].written = proxy[q].written /\ proxy'[q].outcome = proxy[q].outcome
           /\ proxy'[q].beside = proxy[q].beside \cup (IF q \in Running THEN {p} ELSE {})
<1>1. proxy'[q] = IF q \in Running THEN [proxy[q] EXCEPT !.beside = @ \cup {p}] ELSE proxy[q]
  BY DEF BeginProxy
<1>2. proxy[q] \in ProxyStates
  BY DEF ProxyTyped
<1> QED
  BY <1>1, <1>2 DEF ProxyStates

-----------------------------------------------------------------------------
(* What the proxy keeps, at every step of every call.                            *)

LEMMA ProxyCases ==
    ASSUME [ProxyNext]_proxyVars
    PROVE  \/ UNCHANGED proxyVars
           \/ \E p \in Proxies : \/ BeginProxy(p) \/ LoadContext(p) \/ SaveContext(p) \/ AppendPiece(p)
                                 \/ TouchTraversals(p) \/ CallService(p) \/ KillProxy(p)
BY DEF ProxyNext

LEMMA ProxyTypedStep ==
    ASSUME ProxyTyped, [ProxyNext]_proxyVars
    PROVE  ProxyTyped'
<1>1. context \in ContextTexts /\ traversals \in Seq(Proxies \X Nat)
      /\ \A p \in Proxies : proxy[p].context \in ContextTexts /\ proxy[p].written + 1 \in Nat
  BY DEF ProxyTyped, ProxyStates
<1>2. CASE UNCHANGED proxyVars
  BY <1>2 DEF ProxyTyped, proxyVars
<1>3. ASSUME NEW p \in Proxies, BeginProxy(p) \/ LoadContext(p) \/ TouchTraversals(p) \/ CallService(p) \/ KillProxy(p)
      PROVE  ProxyTyped'
  BY <1>1, <1>3, BeginMoves, LoadMoves, OtherMoves DEF ProxyTyped, Keeps
<1>4. ASSUME NEW p \in Proxies, SaveContext(p) PROVE ProxyTyped'
  BY <1>1, <1>4, SaveMoves DEF ProxyTyped, Keeps
<1>5. ASSUME NEW p \in Proxies, AppendPiece(p) PROVE ProxyTyped'
  <2>1. Append(traversals, <<p, proxy[p].written + 1>>) \in Seq(Proxies \X Nat)
    BY <1>1, PiecesAdded
  <2> QED
    BY <1>1, <1>5, <2>1, AppendMoves DEF ProxyTyped, Keeps
<1> QED
  BY <1>2, <1>3, <1>4, <1>5, ProxyCases

(* What every step but the first does to the calls under way. *)
LEMMA GoingOn ==
    ASSUME ProxyTyped, NEW p \in Proxies,
           LoadContext(p) \/ SaveContext(p) \/ AppendPiece(p) \/ TouchTraversals(p) \/ CallService(p) \/ KillProxy(p)
    PROVE  /\ Keeps(p) /\ p \in Running /\ proxy'[p].at # "idle"
           /\ proxy'[p].at \in {"load", "save", "idle"} => ~SaveContext(p) /\ proxy'[p].at = "save" /\ LoadContext(p)
           /\ proxy'[p].saved # proxy[p].saved => proxy'[p].at = "touch"
<1>1. CASE LoadContext(p)
  <2>1. ~SaveContext(p)
    BY <1>1 DEF LoadContext, SaveContext
  <2> QED
    BY <1>1, <2>1, LoadMoves DEF Running
<1>2. CASE SaveContext(p)
  BY <1>2, SaveMoves DEF Running
<1>3. CASE AppendPiece(p)
  BY <1>3, AppendMoves DEF Running
<1>4. CASE TouchTraversals(p) \/ CallService(p) \/ KillProxy(p)
  BY <1>4, OtherMoves DEF Running
<1> QED
  BY <1>1, <1>2, <1>3, <1>4

LEMMA MeetStep ==
    ASSUME ProxyTyped, ProxiesMeet, [ProxyNext]_proxyVars
    PROVE  ProxiesMeet'
<1>1. CASE UNCHANGED proxyVars
  BY <1>1 DEF ProxiesMeet, proxyVars, Running
<1>2. ASSUME NEW p \in Proxies,
             LoadContext(p) \/ SaveContext(p) \/ AppendPiece(p) \/ TouchTraversals(p) \/ CallService(p) \/ KillProxy(p)
      PROVE  ProxiesMeet'
  <2>1. Keeps(p) /\ p \in Running
    BY <1>2, GoingOn
  <2>2. Running' \subseteq Running /\ \A q \in Proxies : proxy'[q].beside = proxy[q].beside
    BY <2>1 DEF Keeps, Running
  <2> QED
    BY <2>2 DEF ProxiesMeet
<1>3. ASSUME NEW p \in Proxies, BeginProxy(p) PROVE ProxiesMeet'
  <2>1. proxy'[p].beside = Running
    BY <1>3, BeginMoves
  <2>2. \A q \in Proxies \ {p} :
            /\ q \in Running' <=> q \in Running
            /\ proxy'[q].beside = proxy[q].beside \cup (IF q \in Running THEN {p} ELSE {})
    BY <1>3, BeginOthers DEF Running
  <2>3. ASSUME NEW q \in Proxies, NEW r \in Proxies, q \in Running', r \in Running', q # r
        PROVE  r \in proxy'[q].beside
    <3>1. CASE q = p
      BY <2>1, <2>2, <2>3, <3>1
    <3>2. CASE q # p
      BY <2>2, <2>3, <3>2 DEF ProxiesMeet
    <3> QED
      BY <3>1, <3>2
  <2> QED
    BY <2>3 DEF ProxiesMeet
<1> QED
  BY <1>1, <1>2, <1>3, ProxyCases

LEMMA OrderStep ==
    ASSUME ProxyTyped, ProxyOrder, [ProxyNext]_proxyVars
    PROVE  ProxyOrder'
<1>1. CASE UNCHANGED proxyVars
  BY <1>1 DEF ProxyOrder, proxyVars
<1>2. ASSUME NEW p \in Proxies,
             LoadContext(p) \/ SaveContext(p) \/ AppendPiece(p) \/ TouchTraversals(p) \/ CallService(p) \/ KillProxy(p)
      PROVE  ProxyOrder'
  <2>1. /\ Keeps(p) /\ p \in Running /\ proxy'[p].at # "idle"
        /\ proxy'[p].at \in {"load", "save", "idle"} => proxy'[p].at = "save" /\ LoadContext(p)
    BY <1>2, GoingOn
  <2>2. LoadContext(p) => proxy[p].at = "load" /\ proxy'[p].saved = proxy[p].saved
                          /\ (proxy'[p].at = "save" => proxy'[p].context.kind = "context")
    BY LoadMoves
  <2>3. \A q \in Proxies : proxy'[q].beside = proxy[q].beside /\ (proxy[q].at # "idle" => proxy'[q].at # "idle")
    BY <2>1 DEF Keeps
  <2>4. \A q \in Proxies : proxy[q].beside \subseteq Proxies
    BY DEF ProxyTyped, ProxyStates
  <2>5. ASSUME NEW q \in Proxies
        PROVE  /\ proxy'[q].at \in {"idle", "load", "save"} => ~proxy'[q].saved
               /\ proxy'[q].at = "save" => proxy'[q].context.kind = "context"
    <3>1. CASE q = p
      BY <2>1, <2>2, <3>1 DEF ProxyOrder
    <3>2. CASE q # p
      BY <2>1, <3>2 DEF Keeps, ProxyOrder
    <3> QED
      BY <3>1, <3>2
  <2> QED
    BY <2>3, <2>4, <2>5 DEF ProxyOrder
<1>3. ASSUME NEW p \in Proxies, BeginProxy(p) PROVE ProxyOrder'
  <2>1. proxy[p].at = "idle" /\ proxy'[p].at = "load" /\ ~proxy'[p].saved /\ proxy'[p].beside = Running
    BY <1>3, BeginMoves
  <2>2. ASSUME NEW q \in Proxies \ {p}
        PROVE  /\ proxy'[q].at = proxy[q].at /\ proxy'[q].saved = proxy[q].saved
               /\ proxy'[q].context = proxy[q].context
               /\ proxy'[q].beside \subseteq proxy[q].beside \cup {p}
    BY <1>3, BeginOthers
  <2>3. \A q \in Running : q # p /\ q \in Proxies /\ proxy[q].at # "idle"
    BY <2>1 DEF Running
  <2>4. \A q \in Proxies : proxy[q].beside \subseteq Proxies
    BY DEF ProxyTyped, ProxyStates
  <2> QED
    BY <2>1, <2>2, <2>3, <2>4 DEF ProxyOrder
<1> QED
  BY <1>1, <1>2, <1>3, ProxyCases

LEMMA ContextStep ==
    ASSUME ProxyTyped, ProxiesMeet, ProxyOrder, ContextInv, [ProxyNext]_proxyVars
    PROVE  ContextInv'
<1>1. CASE UNCHANGED proxyVars
  BY <1>1 DEF ContextInv, Covers, Overtaken, proxyVars
<1>2. ASSUME NEW p \in Proxies, BeginProxy(p) PROVE ContextInv'
  <2>1. proxy[p].at = "idle" /\ proxy'[p].at = "load" /\ ~proxy'[p].saved /\ UNCHANGED context
    BY <1>2, BeginMoves
  <2>2. ASSUME NEW q \in Proxies \ {p}
        PROVE  /\ proxy'[q].at = proxy[q].at /\ proxy'[q].saved = proxy[q].saved
               /\ proxy'[q].context = proxy[q].context
               /\ proxy[q].beside \subseteq proxy'[q].beside
    BY <1>2, BeginOthers
  <2>3. ~proxy[p].saved /\ \A q \in Proxies : proxy[q].beside \subseteq Proxies
    BY <2>1 DEF ProxyOrder, ProxyTyped, ProxyStates
  <2>4. \A q \in Proxies \ {p} : Overtaken(q) => Overtaken(q)'
    BY <2>2, <2>3 DEF Overtaken
  <2> QED
    BY <2>1, <2>2, <2>4 DEF ContextInv, Covers
<1>3. ASSUME NEW p \in Proxies,
             LoadContext(p) \/ SaveContext(p) \/ AppendPiece(p) \/ TouchTraversals(p) \/ CallService(p) \/ KillProxy(p),
             UNCHANGED context, proxy'[p].saved = proxy[p].saved,
             proxy'[p].at # "save", proxy[p].saved => proxy'[p].context = proxy[p].context
      PROVE  ContextInv'
  <2>1. Keeps(p)
    BY <1>3, GoingOn
  <2>2. \A q \in Proxies : proxy'[q].beside = proxy[q].beside /\ proxy'[q].saved = proxy[q].saved
    BY <1>3, <2>1 DEF Keeps
  <2>3. \A q \in Proxies : proxy[q].beside \subseteq Proxies
    BY DEF ProxyTyped, ProxyStates
  <2>4. \A q \in Proxies : Overtaken(q)' <=> Overtaken(q)
    BY <2>2, <2>3 DEF Overtaken
  <2>5. \A q \in Proxies : proxy[q].saved => proxy'[q].context = proxy[q].context
    BY <1>3, <2>1 DEF Keeps
  <2>6. \A q \in Proxies : proxy'[q].at = "save" => q # p /\ proxy'[q] = proxy[q]
    BY <1>3, <2>1 DEF Keeps
  <2> QED
    BY <1>3, <2>2, <2>4, <2>5, <2>6 DEF ContextInv, Covers
<1>4. ASSUME NEW p \in Proxies, LoadContext(p), proxy'[p].at = "save" PROVE ContextInv'
  <2>1. /\ Keeps(p) /\ proxy[p].at = "load" /\ UNCHANGED context
        /\ proxy'[p].saved = proxy[p].saved
        /\ proxy'[p].context.kind = "context" /\ context.names \subseteq proxy'[p].context.names
        /\ context.kind = "context" => proxy'[p].context.question = context.question
    BY <1>4, LoadMoves
  <2>2. \A q \in Proxies : proxy'[q].beside = proxy[q].beside /\ proxy'[q].saved = proxy[q].saved
    BY <2>1 DEF Keeps
  <2>3. ~proxy[p].saved /\ \A q \in Proxies : proxy[q].beside \subseteq Proxies
    BY <2>1 DEF ProxyOrder, ProxyTyped, ProxyStates
  <2>4. \A q \in Proxies : Overtaken(q)' <=> Overtaken(q)
    BY <2>2, <2>3 DEF Overtaken
  <2>5. \A q \in Proxies : proxy[q].saved => q # p /\ proxy'[q] = proxy[q]
    BY <2>1, <2>3 DEF Keeps
  <2>6. ASSUME NEW q \in Proxies, proxy[q].saved, Covers(context, q)
        PROVE  Covers(proxy'[p].context, q)
    BY <2>1, <2>6 DEF Covers
  <2>7. \A q \in Proxies \ {p} : proxy'[q] = proxy[q]
    BY <2>1 DEF Keeps
  <2> QED
    BY <2>1, <2>2, <2>4, <2>5, <2>6, <2>7 DEF ContextInv, Covers
<1>5. ASSUME NEW p \in Proxies, SaveContext(p), proxy'[p].at = "touch" PROVE ContextInv'
  <2>1. /\ Keeps(p) /\ proxy[p].at = "save" /\ proxy'[p].context = proxy[p].context
        /\ proxy'[p].saved /\ context' = proxy[p].context /\ p \in Running
    BY <1>5, SaveMoves DEF Running
  <2>2. \A q \in Proxies : proxy'[q].beside = proxy[q].beside /\ (proxy[q].saved => proxy'[q].saved)
    BY <2>1 DEF Keeps
  <2>3. \A q \in Proxies : proxy[q].beside \subseteq Proxies
    BY DEF ProxyTyped, ProxyStates
  <2>4. \A q \in Proxies : Overtaken(q) => Overtaken(q)'
    BY <2>2, <2>3 DEF Overtaken
  <2>5. \A q \in Proxies : p \in proxy[q].beside => Overtaken(q)'
    BY <2>1, <2>2 DEF Overtaken
  <2>6. context'.kind = "context"
    BY <2>1 DEF ProxyOrder
  <2>7. ASSUME NEW q \in Proxies, proxy'[q].saved
        PROVE  /\ Covers(context, q)' \/ Overtaken(q)'
               /\ \A r \in Proxies : proxy'[r].at = "save" =>
                      r \in proxy'[q].beside \/ Covers(proxy[r].context, q)' \/ Overtaken(q)'
    <3>1. CASE q = p
      <4>1. Covers(context, p)'
        BY <2>1, <2>6 DEF Covers
      <4>2. \A r \in Proxies : proxy'[r].at = "save" => r # p /\ r \in Running
        BY <1>5, <2>1 DEF Keeps, Running
      <4> QED
        BY <2>1, <2>2, <3>1, <4>1, <4>2 DEF ProxiesMeet
    <3>2. CASE q # p
      <4>1. proxy'[q] = proxy[q] /\ proxy[q].saved
        BY <2>1, <2>7, <3>2 DEF Keeps
      <4>2. Covers(context, q)' \/ Overtaken(q)'
        <5>1. p \in proxy[q].beside \/ Covers(proxy[p].context, q) \/ Overtaken(q)
          BY <2>1, <4>1 DEF ContextInv
        <5>2. Covers(proxy[p].context, q) => Covers(context, q)'
          BY <2>1, <4>1 DEF Covers
        <5> QED
          BY <2>4, <2>5, <5>1, <5>2
      <4>3. ASSUME NEW r \in Proxies, proxy'[r].at = "save"
            PROVE  r \in proxy'[q].beside \/ Covers(proxy[r].context, q)' \/ Overtaken(q)'
        <5>1. r # p /\ proxy'[r] = proxy[r]
          BY <1>5, <2>1, <4>3 DEF Keeps
        <5>2. r \in proxy[q].beside \/ Covers(proxy[r].context, q) \/ Overtaken(q)
          BY <4>1, <4>3, <5>1 DEF ContextInv
        <5>3. Covers(proxy[r].context, q) => Covers(proxy[r].context, q)'
          BY <4>1, <5>1 DEF Covers
        <5> QED
          BY <2>2, <2>4, <5>2, <5>3
      <4> QED
        BY <4>2, <4>3
    <3> QED
      BY <3>1, <3>2
  <2> QED
    BY <2>7 DEF ContextInv
<1>6. ASSUME NEW p \in Proxies, AppendPiece(p) \/ TouchTraversals(p) \/ CallService(p) \/ KillProxy(p)
      PROVE  ContextInv'
  <2>1. UNCHANGED context /\ proxy'[p].saved = proxy[p].saved /\ proxy'[p].at # "save"
        /\ proxy'[p].context = proxy[p].context
    BY <1>6, AppendMoves, OtherMoves
  <2> QED
    BY <1>3, <1>6, <2>1
<1>7. ASSUME NEW p \in Proxies, LoadContext(p), proxy'[p].at # "save" PROVE ContextInv'
  <2>1. UNCHANGED context /\ proxy'[p].saved = proxy[p].saved /\ proxy[p].at = "load"
    BY <1>7, LoadMoves
  <2>2. ~proxy[p].saved
    BY <2>1 DEF ProxyOrder
  <2> QED
    BY <1>3, <1>7, <2>1, <2>2
<1>8. ASSUME NEW p \in Proxies, SaveContext(p), proxy'[p].at # "touch" PROVE ContextInv'
  <2>1. UNCHANGED context /\ proxy'[p].saved = proxy[p].saved /\ proxy'[p].at # "save"
        /\ proxy'[p].context = proxy[p].context
    BY <1>8, SaveMoves
  <2> QED
    BY <1>3, <1>8, <2>1
<1> QED
  BY <1>1, <1>2, <1>4, <1>5, <1>6, <1>7, <1>8, ProxyCases

LEMMA NothingWritten ==
    ASSUME ProxyTyped, EvidenceInv, NEW p \in Proxies, proxy[p].at \notin {"append", "over"}
    PROVE  proxy[p].written = 0 /\ PlacesOf(traversals, p) = {}
<1>1. proxy[p].written = 0
  BY DEF EvidenceInv, EvidenceOf, ProxyTyped, ProxyStates
<1>2. InOrder(traversals, p, 0)
  BY <1>1 DEF EvidenceInv, EvidenceOf
<1> QED
  BY <1>1, <1>2 DEF InOrder

(* A section of no pieces. *)
LEMMA NoPieces ==
    ASSUME NEW file \in Seq(Proxies \X Nat), NEW p, PlacesOf(file, p) = {}
    PROVE  InOrder(file, p, 0) /\ InOnePiece(file, p, 0)
<1>1. Len(file) \in Nat
  BY LenProperties
<1>2. InOnePiece(file, p, 0)
  BY <1>1 DEF InOnePiece
<1> DEFINE at == [k \in 1..0 |-> k]
<1>3. at \in [1..0 -> PlacesOf(file, p)]
  OBVIOUS
<1>4. InOrder(file, p, 0)
  BY <1>3 DEF InOrder
<1> QED
  BY <1>2, <1>4

(* Where File B is as it was, and so is what a call has written. *)
LEMMA EvidenceStays ==
    ASSUME ProxyTyped, NEW p \in Proxies, EvidenceOf(p), UNCHANGED traversals,
           proxy'[p].at = proxy[p].at, proxy'[p].asked = proxy[p].asked, proxy'[p].written = proxy[p].written,
           proxy'[p].outcome = proxy[p].outcome, proxy'[p].beside = {} => proxy[p].beside = {}
    PROVE  EvidenceOf(p)'
BY DEF EvidenceOf, Navigated

LEMMA EvidenceStep ==
    ASSUME ProxyAssumption, ProxyTyped, ProxiesMeet, ProxyOrder, EvidenceInv, [ProxyNext]_proxyVars
    PROVE  EvidenceInv'
<1>0. traversals \in Seq(Proxies \X Nat) /\ \A p \in Proxies : proxy[p] \in ProxyStates /\ EvidenceOf(p)
  BY DEF ProxyTyped, EvidenceInv
<1>1. CASE UNCHANGED proxyVars
  BY <1>0, <1>1, EvidenceStays DEF EvidenceInv, proxyVars
<1>2. ASSUME NEW p \in Proxies, BeginProxy(p), NEW q \in Proxies PROVE EvidenceOf(q)'
  <2>1. /\ proxy[p].at = "idle" /\ UNCHANGED traversals
        /\ proxy'[p].at = "load" /\ proxy'[p].written = 0 /\ proxy'[p].outcome = "none"
    BY <1>2, BeginMoves
  <2>2. CASE q = p
    <3>1. InOrder(traversals, p, 0) /\ InOnePiece(traversals, p, 0)
      BY <1>0, <2>1, NothingWritten, NoPieces
    <3> QED
      BY <2>1, <2>2, <3>1 DEF EvidenceOf, Navigated
  <2>3. CASE q # p
    <3>1. /\ proxy'[q].at = proxy[q].at /\ proxy'[q].asked = proxy[q].asked
          /\ proxy'[q].written = proxy[q].written /\ proxy'[q].outcome = proxy[q].outcome
      BY <1>2, <2>3, BeginOthers
    <3>2. proxy'[q].beside = {} => proxy[q].beside = {}
      BY <1>2, <2>3, BeginOthers
    <3> QED
      BY <1>0, <2>1, <3>1, <3>2, EvidenceStays
  <2> QED
    BY <2>2, <2>3
<1>3. ASSUME NEW p \in Proxies, LoadContext(p) \/ SaveContext(p), NEW q \in Proxies PROVE EvidenceOf(q)'
  <2>1. /\ Keeps(p) /\ UNCHANGED traversals /\ proxy[p].at \notin {"append", "over"}
        /\ proxy'[p].written = proxy[p].written
        /\ \/ proxy'[p].at = "over" /\ proxy'[p].outcome = "refused"
           \/ proxy'[p].at \in {"save", "touch"} /\ proxy'[p].outcome = proxy[p].outcome
    BY <1>3, LoadMoves, SaveMoves
  <2>2. CASE q = p
    <3>1. proxy[p].written = 0 /\ InOrder(traversals, p, 0) /\ InOnePiece(traversals, p, 0)
      BY <1>0, <2>1, NothingWritten, NoPieces
    <3>2. proxy[p].outcome = "none"
      BY <1>0, <2>1 DEF EvidenceOf
    <3> QED
      BY <2>1, <2>2, <3>1, <3>2 DEF EvidenceOf, Navigated
  <2>3. CASE q # p
    BY <1>0, <2>1, <2>3, EvidenceStays DEF Keeps
  <2> QED
    BY <2>2, <2>3
<1>4. ASSUME NEW p \in Proxies, TouchTraversals(p) \/ CallService(p) \/ KillProxy(p), NEW q \in Proxies
      PROVE  EvidenceOf(q)'
  <2>1. /\ Keeps(p) /\ p \in Running /\ UNCHANGED traversals /\ proxy'[p].written = proxy[p].written
        /\ \/ /\ proxy'[p].at = "over"
              /\ proxy'[p].outcome = "answered" => proxy[p].asked.method = "lookup"
              /\ proxy'[p].outcome \in {"refused", "unreachable"} => proxy[p].at \in {"touch", "call"}
           \/ proxy[p].at = "touch" /\ proxy'[p].at = "call" /\ proxy'[p].outcome = proxy[p].outcome
           \/ /\ proxy[p].at = "call" /\ proxy'[p].at = "append" /\ proxy'[p].outcome = proxy[p].outcome
              /\ proxy[p].asked.method = "traversal"
    BY <1>4, OtherMoves
  <2>2. CASE q = p
    <3>1. EvidenceOf(p) /\ proxy[p].written \in Nat /\ proxy[p].asked \in Requests \cup {NothingAsked}
      BY <1>0 DEF ProxyStates
    <3>2. proxy[p].asked.pieces \in Nat \ {0}
      BY <3>1, ProxyAssumption DEF NothingAsked
    <3>3. proxy[p].at \in {"touch", "call"} => proxy[p].written = 0 /\ proxy[p].outcome = "none"
      BY <3>1 DEF EvidenceOf
    <3>4. proxy[p].at # "over" /\ proxy[p].outcome = "none"
      BY <2>1, <3>1 DEF Running, EvidenceOf
    <3>5. CASE proxy'[p].at = "over"
      BY <2>1, <2>2, <3>1, <3>3, <3>4, <3>5 DEF EvidenceOf, Navigated, Keeps
    <3>6. CASE proxy'[p].at # "over"
      BY <2>1, <2>2, <3>1, <3>2, <3>3, <3>4, <3>6 DEF EvidenceOf, Navigated, Keeps
    <3> QED
      BY <3>5, <3>6
  <2>3. CASE q # p
    BY <1>0, <2>1, <2>3, EvidenceStays DEF Keeps
  <2> QED
    BY <2>2, <2>3
<1>5. ASSUME NEW p \in Proxies, AppendPiece(p), NEW q \in Proxies PROVE EvidenceOf(q)'
  <2> DEFINE n == proxy[p].written
  <2>1. /\ Keeps(p) /\ proxy[p].at = "append"
        /\ \/ /\ proxy'[p].at = "over" /\ proxy'[p].outcome = "unsaved"
              /\ proxy'[p].written = n /\ UNCHANGED traversals
           \/ /\ proxy'[p].written = n + 1 /\ traversals' = Append(traversals, <<p, n + 1>>)
              /\ IF n + 1 = proxy[p].asked.pieces
                 THEN proxy'[p].at = "over" /\ proxy'[p].outcome = "answered"
                 ELSE proxy'[p].at = "append" /\ proxy'[p].outcome = proxy[p].outcome
    BY <1>5, AppendMoves
  <2>2. /\ EvidenceOf(p) /\ n \in Nat /\ n + 1 \in Nat
        /\ proxy[p].asked.method = "traversal" /\ n < proxy[p].asked.pieces /\ proxy[p].outcome = "none"
    BY <1>0, <2>1 DEF ProxyStates, EvidenceOf
  <2>3. proxy[p].asked.pieces \in Nat \ {0}
    BY <1>0, ProxyAssumption DEF NothingAsked, ProxyStates
  <2>4. CASE q = p /\ UNCHANGED traversals
    BY <2>1, <2>2, <2>4 DEF EvidenceOf, Navigated, Keeps
  <2>5. CASE q = p /\ traversals' # traversals
    <3>0. /\ traversals' = Append(traversals, <<p, n + 1>>) /\ InOrder(traversals, p, n)
          /\ proxy[p].beside = {} => /\ InOnePiece(traversals, p, n)
                                     /\ \A k \in 1..n : traversals[(Len(traversals) - n) + k] = <<p, k>>
      BY <2>1, <2>2, <2>5 DEF EvidenceOf
    <3>3. /\ proxy'[p].written = n + 1 /\ proxy'[p].asked = proxy[p].asked /\ proxy'[p].beside = proxy[p].beside
          /\ IF n + 1 = proxy[p].asked.pieces
             THEN proxy'[p].at = "over" /\ proxy'[p].outcome = "answered"
             ELSE proxy'[p].at = "append" /\ proxy'[p].outcome = "none"
      BY <2>1, <2>2, <2>5 DEF Keeps
    <3> HIDE DEF n
    <3>1. InOrder(traversals', p, n + 1)
      BY <1>0, <2>2, <3>0, NextInOrder
    <3>2. ASSUME proxy[p].beside = {}
          PROVE  /\ InOnePiece(traversals', p, n + 1)
                 /\ \A k \in 1..(n + 1) : traversals'[(Len(traversals') - (n + 1)) + k] = <<p, k>>
      <4>1. InOnePiece(traversals, p, n) /\ \A k \in 1..n : traversals[(Len(traversals) - n) + k] = <<p, k>>
        BY <3>0, <3>2
      <4> DEFINE longer == Append(traversals, <<p, n + 1>>)
      <4>2. /\ InOnePiece(longer, p, n + 1)
            /\ \A k \in 1..(n + 1) : longer[(Len(longer) - (n + 1)) + k] = <<p, k>>
        BY <1>0, <2>2, <4>1, NextInOnePiece
      <4>3. traversals' = longer
        BY <3>0
      <4> HIDE DEF longer
      <4> QED
        BY <4>2, <4>3
    <3>4. n + 1 # proxy[p].asked.pieces => n + 1 < proxy[p].asked.pieces
      BY <2>2, <2>3
    <3>5. /\ proxy'[p].at \in {"append", "over"} /\ proxy'[p].outcome \in {"none", "answered"}
          /\ proxy'[p].at = "append" => n + 1 < proxy[p].asked.pieces /\ proxy'[p].outcome = "none"
          /\ proxy'[p].outcome = "answered" => n + 1 = proxy[p].asked.pieces
      BY <3>3, <3>4
    <3>6. /\ proxy'[p].beside = {} => InOnePiece(traversals', p, proxy'[p].written)
          /\ proxy'[p].beside = {} =>
                 \A k \in 1..proxy'[p].written :
                     traversals'[(Len(traversals') - proxy'[p].written) + k] = <<p, k>>
          /\ InOrder(traversals', p, proxy'[p].written)
      BY <3>1, <3>2, <3>3
    <3> QED
      BY <2>2, <2>5, <3>3, <3>5, <3>6 DEF EvidenceOf, Navigated
  <2>6. CASE q # p
    <3>1. proxy'[q] = proxy[q] /\ EvidenceOf(q) /\ proxy[q].written \in Nat
      BY <1>0, <2>1, <2>6 DEF Keeps, ProxyStates
    <3>2. CASE UNCHANGED traversals
      BY <3>1, <3>2, EvidenceStays
    <3>3. CASE traversals' = Append(traversals, <<p, n + 1>>)
      <4>1. /\ InOrder(traversals, q, proxy[q].written) => InOrder(traversals', q, proxy[q].written)
            /\ InOnePiece(traversals, q, proxy[q].written) => InOnePiece(traversals', q, proxy[q].written)
        BY <1>0, <2>2, <2>6, <3>1, <3>3, OthersInOrder
      <4>2. proxy[q].at = "append" => p \in proxy[q].beside
        BY <2>1, <2>6 DEF ProxiesMeet, Running
      <4> QED
        BY <3>1, <4>1, <4>2 DEF EvidenceOf, Navigated
    <3> QED
      BY <2>1, <3>2, <3>3
  <2> QED
    BY <2>4, <2>5, <2>6
<1> QED
  BY <1>1, <1>2, <1>3, <1>4, <1>5, ProxyCases DEF EvidenceInv

LEMMA ProxyStarts ==
    ASSUME ProxyInit \/ ProxyIdle
    PROVE  ProxyInv
<1>1. /\ traversals = <<>> /\ context \in Contexts \cup {NoFile}
      /\ \E label \in {"idle", "over"} : proxy = [p \in Proxies |-> [NotBegun EXCEPT !.at = label]]
  BY DEF ProxyInit, ProxyIdle, NotBegun
<1>2. /\ traversals \in Seq(Proxies \X Nat) /\ context \in ContextTexts
      /\ \A p : PlacesOf(traversals, p) = {}
  BY <1>1, EmptySeq DEF PlacesOf, ContextTexts
<1>3. ASSUME NEW p \in Proxies
      PROVE  /\ proxy[p] \in ProxyStates /\ proxy[p].at \in {"idle", "over"} /\ proxy[p].asked = NothingAsked
             /\ proxy[p].saved = FALSE /\ proxy[p].written = 0 /\ proxy[p].beside = {} /\ proxy[p].outcome = "none"
  <2>1. PICK label \in {"idle", "over"} : proxy[p] = [NotBegun EXCEPT !.at = label]
    BY <1>1
  <2>2. /\ NotBegun \in ProxyStates /\ NotBegun.asked = NothingAsked
        /\ NotBegun.saved = FALSE /\ NotBegun.written = 0 /\ NotBegun.beside = {} /\ NotBegun.outcome = "none"
    BY DEF NotBegun, ProxyStates, ContextTexts
  <2> QED
    BY <2>1, <2>2 DEF ProxyStates
<1>4. ProxyTyped
  <2>1. \E f : proxy = [p \in Proxies |-> f]
    BY <1>1
  <2> QED
    BY <1>2, <1>3, <2>1 DEF ProxyTyped
<1>5. ProxiesMeet /\ ProxyOrder /\ ContextInv
  BY <1>3 DEF ProxiesMeet, Running, ProxyOrder, ContextInv
<1>6. ASSUME NEW p \in Proxies PROVE EvidenceOf(p)
  <2>1. InOrder(traversals, p, 0) /\ InOnePiece(traversals, p, 0)
    BY <1>2, NoPieces
  <2>2. proxy[p].at # "append" /\ proxy[p].written = 0 /\ proxy[p].outcome = "none"
    BY <1>3
  <2> QED
    BY <2>1, <2>2 DEF EvidenceOf, Navigated
<1> QED
  BY <1>4, <1>5, <1>6 DEF ProxyInv, EvidenceInv

LEMMA ProxyGoesOn == ProxyInv /\ [ProxyNext]_proxyVars => ProxyInv'
BY ProxyAssumption, ProxyTypedStep, MeetStep, OrderStep, ContextStep, EvidenceStep DEF ProxyInv

LEMMA ProxyFamily ==
    /\ Init => ProxyInit \/ ProxyIdle
    /\ [Next]_commandVars => [ProxyNext]_proxyVars
<1>1. Init => ProxyInit \/ ProxyIdle
  BY DEF Init
<1>2. [Next]_commandVars => [ProxyNext]_proxyVars
  BY DEF Next, commandVars
<1> QED
  BY <1>1, <1>2

(* The proxy's two files and its calls, whatever calls overlap, fail or are killed. *)
THEOREM ProxyInvariant == Spec => []ProxyInv
<1>1. Init => ProxyInv
  BY ProxyFamily, ProxyStarts
<1>2. ProxyInv /\ [Next]_commandVars => ProxyInv'
  BY ProxyFamily, ProxyGoesOn
<1> QED
  BY <1>1, <1>2, PTL DEF Spec

(* File B holds the section of every navigation whose call said nothing of a       *)
(* failure, whole, in order, and in one piece if no other call overlapped it, and  *)
(* nothing of a call that was refused or had no answer.                            *)
THEOREM Evidence == Spec => []EvidenceComplete
<1>1. ProxyInv => EvidenceComplete
  <2> SUFFICES ASSUME ProxyInv, NEW p \in Proxies
               PROVE  /\ Navigated(p) => InOrder(traversals, p, proxy[p].asked.pieces)
                      /\ Navigated(p) /\ proxy[p].beside = {} => InOnePiece(traversals, p, proxy[p].asked.pieces)
                      /\ PlacesOf(traversals, p) # {} => /\ proxy[p].asked.method = "traversal"
                                                         /\ proxy[p].outcome \notin {"refused", "unreachable"}
    BY DEF EvidenceComplete
  <2>1. EvidenceOf(p) /\ proxy[p].written \in Nat
    BY DEF ProxyInv, EvidenceInv, ProxyTyped, ProxyStates
  <2>2. PlacesOf(traversals, p) # {} => proxy[p].written # 0
    BY <2>1 DEF EvidenceOf, InOrder
  <2> QED
    BY <2>1, <2>2 DEF EvidenceOf
<1> QED
  BY <1>1, ProxyInvariant, PTL

(* What a call has saved in File A is taken back only by one that overlapped it.   *)
THEOREM ContextStays == Spec => []ContextKept
<1>1. ProxyInv => ContextKept
  BY DEF ProxyInv, ContextInv, Covers, Overtaken, ContextKept
<1> QED
  BY <1>1, ProxyInvariant, PTL

-----------------------------------------------------------------------------
(* AKG documents                                                                *)

Inodes == {First} \cup Commands
AkgFields == {"at", "final", "yaml", "doc", "graph", "left", "errors", "met", "file", "beside"}
Shaped(r) == r = [field \in AkgFields |-> r[field]]

AkgTyped ==
    /\ document \in Inodes /\ spare \in {None} \cup Commands /\ edits \in Nat
    /\ content = [f \in Inodes |-> content[f]]
    /\ akg = [c \in Commands |-> akg[c]]
    /\ \A c \in Commands :
           /\ Shaped(akg[c]) /\ akg[c].final \in BOOLEAN /\ akg[c].beside \subseteq Commands
           /\ akg[c].at \in {"resolve", "open", "fill", "replace"} => akg[c].doc # {}

(* Commands that write at once know of each other. *)
AkgMeet == \A c, d \in Writing : c # d => d \in akg[c].beside

(* Only finalizes write; a file is there once the command that creates it has      *)
(* opened it; and a finalize beside which no other writes has the temporary file   *)
(* to itself until it renames it.                                                 *)
Overlapped(c) == akg[c].beside # {}
Undisturbed(c) ==
    /\ spare = akg[c].file
    /\ akg[c].at = "fill" => content[akg[c].file] = Empty
    /\ akg[c].at = "replace" => content[akg[c].file] = Whole(Doc(c), TRUE, {c})
Stages(c) ==
    /\ akg[c].at \in {"open", "fill", "replace"} => akg[c].final
    /\ akg[c].at \in {"fill", "replace"} => akg[c].file \in Commands /\ (Overlapped(c) \/ Undisturbed(c))
FinalizeInv ==
    /\ document # spare
    /\ \A c \in Commands : c \in {document, spare} => akg[c].at \in {"fill", "replace", "over"}
    /\ \A c \in Commands : Stages(c)

(* What the temporary file holds while a command writes is its own text, that of    *)
(* one that writes or wrote beside it, or of neither.                              *)
Spared(c) == content[spare] \in {Empty, Mixed, Whole(Doc(c), TRUE, {c})} \cup Others(c)
SpareInv  == spare # None => \A c \in Writing : Spared(c)

(* What a finalize writes has passed the check, and each of its elements was found  *)
(* in a graph it met, but for those it has still to ask for; what is marked final   *)
(* was so written, and nobody has changed it since.                                *)
Found(doc, call, met) == call = Start \/ \E g \in met : ElementFinding(doc, call, g) = "none"
Settled(doc, met) ==
    /\ doc \in Documents /\ ~HasErrors(CheckDocument(doc, TRUE))
    /\ \A call \in Calls(doc) : Found(doc, call, met)
SoFar(c) ==
    /\ Doc(c) \in Documents /\ ~HasErrors(CheckDocument(Doc(c), akg[c].final))
    /\ akg[c].errors \/ \A call \in Calls(Doc(c)) \ akg[c].left : Found(Doc(c), call, akg[c].met)
Resolved(c) ==
    /\ akg[c].at = "resolve" => SoFar(c)
    /\ akg[c].at \in {"open", "fill", "replace"} => Settled(Doc(c), akg[c].met)
WrittenBy(c, doc) == c \in Commands /\ akg[c].at \in {"replace", "over"} /\ Settled(doc, akg[c].met)
WrittenInv == \A f \in Inodes : content[f].final =>
                  \A doc \in content[f].doc, c \in content[f].by : WrittenBy(c, doc)
SourceInv ==
    /\ \A f \in Inodes : content[f].doc \subseteq Documents
    /\ \A c \in Commands : Resolved(c)
    /\ WrittenInv

AkgInv == AkgTyped /\ AkgMeet /\ FinalizeInv /\ SpareInv /\ SourceInv

-----------------------------------------------------------------------------
(* The steps of a command, by what they make of its state; another at most takes    *)
(* note of it.                                                                    *)

OtherKeeps(d) ==
    /\ Shaped(akg'[d]) /\ akg'[d].at = akg[d].at /\ akg'[d].final = akg[d].final
    /\ akg'[d].file = akg[d].file /\ akg'[d].doc = akg[d].doc /\ akg'[d].met = akg[d].met
    /\ akg'[d].left = akg[d].left /\ (akg'[d].errors <=> akg[d].errors)
    /\ akg[d].beside \subseteq akg'[d].beside /\ akg'[d].beside \subseteq Commands
AkgKeeps(c) ==
    /\ akg' = [d \in Commands |-> akg'[d]]
    /\ Shaped(akg'[c]) /\ akg'[c].final \in BOOLEAN /\ akg'[c].beside \subseteq Commands
    /\ akg[c].at = "idle" \/ akg'[c].at = "over" \/ akg'[c].final = akg[c].final
    /\ \A d \in Commands \ {c} : OtherKeeps(d)

LEMMA NowMoves ==
    ASSUME AkgTyped, NEW c \in Commands, NEW r, Now(c, r), Shaped(r), r.final \in BOOLEAN, r.beside \subseteq Commands,
           akg[c].at = "idle" \/ r.at = "over" \/ r.final = akg[c].final
    PROVE  AkgKeeps(c) /\ akg'[c] = r
<1>1. akg = [d \in Commands |-> akg[d]] /\ akg' = [akg EXCEPT ![c] = r]
  BY DEF AkgTyped, Now
<1>2. akg'[c] = r /\ \A d \in Commands \ {c} : akg'[d] = akg[d]
  BY <1>1
<1>3. akg' = [d \in Commands |-> akg'[d]]
  BY <1>1
<1>4. ASSUME NEW d \in Commands \ {c} PROVE OtherKeeps(d)
  BY <1>2 DEF AkgTyped, OtherKeeps
<1> QED
  BY <1>2, <1>3, <1>4 DEF AkgKeeps

LEMMA OverMoves ==
    ASSUME AkgTyped, NEW c \in Commands, Over(c)
    PROVE  /\ AkgKeeps(c) /\ akg'[c].at = "over"
           /\ akg[c].at = "replace" => akg'[c].met = akg[c].met /\ akg'[c].doc = akg[c].doc
<1> DEFINE wrote == akg[c].at = "replace"
           doc   == IF wrote THEN akg[c].doc ELSE {}
           met   == IF wrote THEN akg[c].met ELSE {}
           r     == [Waiting EXCEPT !.at = "over", !.doc = doc, !.met = met]
<1>1. Now(c, r)
  BY DEF Over
<1>2. wrote => met = akg[c].met /\ doc = akg[c].doc
  OBVIOUS
<1> HIDE DEF doc, met
<1>3. Shaped(r) /\ r.at = "over" /\ r.final = FALSE /\ r.beside = {} /\ r.met = met /\ r.doc = doc
  BY DEF Shaped, AkgFields, Waiting
<1> HIDE DEF r
<1> QED
  BY <1>1, <1>2, <1>3, NowMoves

LEMMA BeginAkgMoves ==
    ASSUME AkgTyped, NEW c \in Commands, BeginAkg(c)
    PROVE  /\ AkgKeeps(c) /\ akg[c].at = "idle" /\ akg'[c].at = "read"
           /\ UNCHANGED <<document, spare, content, edits>>
<1>1. PICK final \in BOOLEAN, yaml \in BOOLEAN : Now(c, [Waiting EXCEPT !.at = "read", !.final = final, !.yaml = yaml])
  BY DEF BeginAkg
<1> DEFINE r == [Waiting EXCEPT !.at = "read", !.final = final, !.yaml = yaml]
<1>2. Shaped(r) /\ r.at = "read" /\ r.beside = {} /\ r.final = final
  BY DEF Shaped, AkgFields, Waiting
<1>3. Now(c, r)
  BY <1>1
<1>4. akg[c].at = "idle" /\ UNCHANGED <<document, spare, content, edits>>
  BY DEF BeginAkg
<1> HIDE DEF r
<1> QED
  BY <1>2, <1>3, <1>4, NowMoves

LEMMA ReadMoves ==
    ASSUME AkgTyped, NEW c \in Commands, ReadDocument(c)
    PROVE  /\ AkgKeeps(c) /\ akg[c].at = "read" /\ akg'[c].at \in {"resolve", "over"}
           /\ akg'[c].at = "resolve" => /\ Doc(c)' \in content[document].doc /\ akg'[c].doc # {}
                                        /\ akg'[c].final = akg[c].final
                                        /\ ~HasErrors(CheckDocument(Doc(c)', akg[c].final))
                                        /\ akg'[c].left = Calls(Doc(c)')
           /\ UNCHANGED <<document, spare, content, edits>>
<1>1. akg[c].at = "read" /\ UNCHANGED <<document, spare, content, edits>>
  BY DEF ReadDocument
<1>2. \/ Over(c)
      \/ \E doc \in content[document].doc : \E graph :
             /\ ~HasErrors(CheckDocument(doc, akg[c].final))
             /\ Now(c, [akg[c] EXCEPT !.at = "resolve", !.doc = {doc}, !.left = Calls(doc), !.graph = graph])
  BY DEF ReadDocument
<1>3. ASSUME NEW doc \in content[document].doc, NEW graph, ~HasErrors(CheckDocument(doc, akg[c].final)),
             Now(c, [akg[c] EXCEPT !.at = "resolve", !.doc = {doc}, !.left = Calls(doc), !.graph = graph])
      PROVE  /\ AkgKeeps(c) /\ akg'[c].at = "resolve"
             /\ Doc(c)' \in content[document].doc /\ akg'[c].doc # {} /\ akg'[c].final = akg[c].final
             /\ ~HasErrors(CheckDocument(Doc(c)', akg[c].final)) /\ akg'[c].left = Calls(Doc(c)')
  <2> DEFINE left == Calls(doc)
             r == [akg[c] EXCEPT !.at = "resolve", !.doc = {doc}, !.left = left, !.graph = graph]
  <2>1. Shaped(akg[c]) /\ akg[c].final \in BOOLEAN /\ akg[c].beside \subseteq Commands
    BY DEF AkgTyped
  <2> HIDE DEF left
  <2>2. Shaped(r) /\ r.at = "resolve" /\ r.final = akg[c].final /\ r.beside = akg[c].beside
        /\ r.doc = {doc} /\ r.left = left
    BY <2>1 DEF Shaped, AkgFields
  <2> HIDE DEF r
  <2>3. AkgKeeps(c) /\ akg'[c] = r
    BY <1>3, <2>1, <2>2, NowMoves DEF r, left
  <2>4. Doc(c)' = doc
    BY <2>2, <2>3 DEF Doc
  <2> QED
    BY <1>3, <2>2, <2>3, <2>4 DEF left
<1> QED
  BY <1>1, <1>2, <1>3, OverMoves

(* A call that finds nothing takes only itself from the list. *)
ResolveCall(c, call, g) ==
    LET f == Finding(c, call, g) IN
    /\ akg'[c].at \in {"resolve", "open"} /\ akg'[c].doc = akg[c].doc /\ akg'[c].met = akg[c].met \cup {g}
    /\ akg'[c].errors <=> (akg[c].errors \/ f # "none")
    /\ f = "none" => akg'[c].left = akg[c].left \ {call}
    /\ akg'[c].at = "open" => akg'[c].left = {} /\ ~akg'[c].errors /\ akg[c].final

LEMMA ResolveMoves ==
    ASSUME AkgTyped, NEW c \in Commands, Resolve(c)
    PROVE  /\ AkgKeeps(c) /\ akg[c].at = "resolve"
           /\ akg'[c].at = "over" \/ \E call, g : ResolveCall(c, call, g)
           /\ UNCHANGED <<document, spare, content, edits>>
<1>1. akg[c].at = "resolve" /\ UNCHANGED <<document, spare, content, edits>>
  BY DEF Resolve
<1> DEFINE g     == GraphOf(c)
           call  == NextCall(c)
           f     == Finding(c, call, g)
           rest  == akg[c].left \ (IF f = "unknown" /\ call[2] = 0 THEN {p \in akg[c].left : p[1] = call[1]}
                                   ELSE {call})
           wrong == akg[c].errors \/ f # "none"
           met   == akg[c].met \cup {g}
           label == IF rest = {} THEN "open" ELSE "resolve"
           r     == [akg[c] EXCEPT !.left = rest, !.errors = wrong, !.met = met, !.at = label]
<1>2. Over(c) \/ (~(rest = {} /\ (wrong \/ ~akg[c].final)) /\ Now(c, r))
  <2>1. \/ ~akg[c].yaml /\ Over(c)
        \/ IF rest = {} /\ (wrong \/ ~akg[c].final) THEN Over(c)
           ELSE Now(c, [akg[c] EXCEPT !.left = rest, !.errors = wrong, !.met = @ \cup {g},
                                      !.at = IF rest = {} THEN "open" ELSE "resolve"])
    BY Zenon DEF Resolve
  <2> HIDE DEF rest, wrong, g
  <2> QED
    BY <2>1
<1>3. f = "none" => rest = akg[c].left \ {call}
  <2> HIDE DEF f, call
  <2> QED
    OBVIOUS
<1>4. Shaped(akg[c]) /\ akg[c].final \in BOOLEAN /\ akg[c].beside \subseteq Commands
  BY DEF AkgTyped
<1> HIDE DEF rest, met, g, call
<1>5. label \in {"resolve", "open"} /\ (label = "open" => rest = {})
  OBVIOUS
<1>6. wrong <=> (akg[c].errors \/ Finding(c, call, g) # "none")
  OBVIOUS
<1> HIDE DEF label, wrong
<1>7. /\ Shaped(r) /\ r.at = label /\ r.final = akg[c].final /\ r.beside = akg[c].beside
      /\ r.doc = akg[c].doc /\ r.met = met /\ r.left = rest /\ (r.errors <=> wrong)
  BY <1>4 DEF Shaped, AkgFields
<1> HIDE DEF r
<1>8. ASSUME Now(c, r), ~(rest = {} /\ (wrong \/ ~akg[c].final))
      PROVE  AkgKeeps(c) /\ ResolveCall(c, call, g)
  <2>1. AkgKeeps(c) /\ akg'[c] = r
    BY <1>4, <1>7, <1>8, NowMoves
  <2> QED
    BY <1>3, <1>5, <1>6, <1>7, <1>8, <2>1 DEF ResolveCall, met
<1> QED
  BY <1>1, <1>2, <1>8, OverMoves

LEMMA OpenMoves ==
    ASSUME AkgTyped, NEW c \in Commands, OpenSpare(c)
    PROVE  LET file == IF spare = None THEN c ELSE spare
           IN  /\ AkgKeeps(c) /\ akg[c].at = "open" /\ akg'[c].at = "fill" /\ akg'[c].file = file
               /\ akg'[c].doc = akg[c].doc /\ akg'[c].met = akg[c].met
               /\ akg'[c].beside = Writing /\ \A d \in Writing : d # c /\ c \in akg'[d].beside
               /\ spare' = file /\ content' = [content EXCEPT ![file] = Empty] /\ UNCHANGED <<document, edits>>
<1> DEFINE file == IF spare = None THEN c ELSE spare
           writing == Writing
           r == [akg[c] EXCEPT !.at = "fill", !.file = file, !.beside = writing]
<1>1. /\ akg[c].at = "open" /\ spare' = file /\ content' = [content EXCEPT ![file] = Empty]
      /\ UNCHANGED <<document, edits>>
      /\ akg' = [d \in Commands |-> IF d = c THEN r
                                    ELSE IF d \in Writing THEN [akg[d] EXCEPT !.beside = @ \cup {c}]
                                    ELSE akg[d]]
  BY DEF OpenSpare, Writes
<1>2. Shaped(akg[c]) /\ akg[c].final \in BOOLEAN /\ writing \subseteq Commands
  BY DEF AkgTyped, Writing
<1>3. akg' = [d \in Commands |-> akg'[d]] /\ akg'[c] = r
  BY <1>1
<1>4. \A d \in Commands \ {c} : akg'[d] = IF d \in Writing THEN [akg[d] EXCEPT !.beside = @ \cup {c}] ELSE akg[d]
  BY <1>1
<1>5. \A d \in Writing : d \in Commands \ {c}
  BY <1>1 DEF Writing
<1> HIDE DEF file, writing
<1>6. /\ Shaped(r) /\ r.at = "fill" /\ r.file = file /\ r.final = akg[c].final /\ r.beside = writing
      /\ r.doc = akg[c].doc /\ r.met = akg[c].met
  BY <1>2 DEF Shaped, AkgFields
<1> HIDE DEF r
<1>7. ASSUME NEW d \in Commands \ {c} PROVE OtherKeeps(d) /\ (d \in Writing => c \in akg'[d].beside)
  <2>1. Shaped(akg[d]) /\ akg[d].beside \subseteq Commands
    BY DEF AkgTyped
  <2>2. CASE d \in Writing
    <3> DEFINE s == [akg[d] EXCEPT !.beside = @ \cup {c}]
    <3>1. /\ Shaped(s) /\ s.at = akg[d].at /\ s.final = akg[d].final /\ s.file = akg[d].file /\ s.doc = akg[d].doc
          /\ s.met = akg[d].met /\ s.left = akg[d].left /\ s.errors = akg[d].errors /\ s.beside = akg[d].beside \cup {c}
      BY <2>1 DEF Shaped, AkgFields
    <3> HIDE DEF s
    <3>2. akg'[d] = s
      BY <1>4, <2>2 DEF s
    <3> QED
      BY <2>1, <3>1, <3>2 DEF OtherKeeps
  <2>3. CASE d \notin Writing
    BY <1>4, <2>1, <2>3 DEF OtherKeeps
  <2> QED
    BY <2>2, <2>3
<1> QED
  BY <1>1, <1>2, <1>3, <1>5, <1>6, <1>7 DEF AkgKeeps, file, writing

LEMMA FillMoves ==
    ASSUME AkgTyped, NEW c \in Commands, Fill(c)
    PROVE  /\ AkgKeeps(c) /\ akg[c].at = "fill" /\ akg'[c].at = "replace"
           /\ akg'[c].file = akg[c].file /\ akg'[c].doc = akg[c].doc /\ akg'[c].met = akg[c].met
           /\ akg'[c].beside = akg[c].beside
           /\ \/ content' = [content EXCEPT ![akg[c].file] = Whole(Doc(c), TRUE, {c})]
              \/ content[akg[c].file] # Empty /\ content' = [content EXCEPT ![akg[c].file] = Mixed]
           /\ UNCHANGED <<document, spare, edits>>
<1> DEFINE r == [akg[c] EXCEPT !.at = "replace"]
<1>1. /\ akg[c].at = "fill" /\ Now(c, r) /\ UNCHANGED <<document, spare, edits>>
      /\ \/ content' = [content EXCEPT ![akg[c].file] = Whole(Doc(c), TRUE, {c})]
         \/ content[akg[c].file] # Empty /\ content' = [content EXCEPT ![akg[c].file] = Mixed]
  BY DEF Fill
<1>2. Shaped(akg[c]) /\ akg[c].final \in BOOLEAN /\ akg[c].beside \subseteq Commands
  BY DEF AkgTyped
<1>3. /\ Shaped(r) /\ r.at = "replace" /\ r.file = akg[c].file /\ r.doc = akg[c].doc /\ r.met = akg[c].met
      /\ r.final = akg[c].final /\ r.beside = akg[c].beside
  BY <1>2 DEF Shaped, AkgFields
<1> HIDE DEF r
<1> QED
  BY <1>1, <1>2, <1>3, NowMoves

LEMMA ReplaceMoves ==
    ASSUME AkgTyped, NEW c \in Commands, Replace(c)
    PROVE  /\ AkgKeeps(c) /\ akg[c].at = "replace" /\ akg'[c].at = "over"
           /\ akg'[c].met = akg[c].met /\ akg'[c].doc = akg[c].doc
           /\ \/ spare = None /\ UNCHANGED <<document, spare>>
              \/ spare # None /\ document' = spare /\ spare' = None
           /\ UNCHANGED <<content, edits>>
BY OverMoves DEF Replace

LEMMA KillMoves ==
    ASSUME AkgTyped, NEW c \in Commands, KillAkg(c)
    PROVE  /\ AkgKeeps(c) /\ c \in Abroad /\ akg'[c].at = "over"
           /\ akg[c].at = "replace" => akg'[c].met = akg[c].met /\ akg'[c].doc = akg[c].doc
           /\ UNCHANGED <<document, spare, content, edits>>
BY OverMoves DEF KillAkg

-----------------------------------------------------------------------------
(* A command does one of these. *)
Advances(c) == \/ BeginAkg(c) \/ ReadDocument(c) \/ Resolve(c) \/ OpenSpare(c)
               \/ Fill(c) \/ Replace(c) \/ KillAkg(c)

LEMMA AkgCases ==
    ASSUME [AkgNext]_akgVars
    PROVE  \/ \E c \in Commands : Advances(c)
           \/ Edit
           \/ UNCHANGED <<document, spare, content, akg, edits>>
BY DEF AkgNext, akgVars, Advances, ServeAnother

LEMMA AdvancesMoves ==
    ASSUME AkgTyped, NEW c \in Commands, Advances(c)
    PROVE  /\ AkgKeeps(c) /\ akg[c].at # "over" /\ edits' = edits
           /\ akg'[c].at \in {"resolve", "open", "fill", "replace"} => akg'[c].doc # {}
<1>1. CASE BeginAkg(c)
  BY <1>1, BeginAkgMoves
<1>2. CASE ReadDocument(c)
  BY <1>2, ReadMoves
<1>3. CASE Resolve(c)
  <2>1. akg[c].at = "resolve" /\ akg[c].doc # {} /\ AkgKeeps(c) /\ edits' = edits
    BY <1>3, ResolveMoves DEF AkgTyped
  <2>2. akg'[c].at = "over" \/ akg'[c].doc = akg[c].doc
    BY <1>3, ResolveMoves DEF ResolveCall
  <2> QED
    BY <2>1, <2>2
<1>4. CASE OpenSpare(c)
  BY <1>4, OpenMoves DEF AkgTyped
<1>5. CASE Fill(c)
  BY <1>5, FillMoves DEF AkgTyped
<1>6. CASE Replace(c)
  BY <1>6, ReplaceMoves
<1>7. CASE KillAkg(c)
  BY <1>7, KillMoves DEF Abroad
<1> QED
  BY <1>1, <1>2, <1>3, <1>4, <1>5, <1>6, <1>7 DEF Advances

LEMMA OthersDoc ==
    ASSUME AkgTyped, NEW c \in Commands, Advances(c), NEW d \in Commands, d # c
    PROVE  OtherKeeps(d) /\ Doc(d)' = Doc(d)
<1>1. OtherKeeps(d)
  BY AdvancesMoves DEF AkgKeeps
<1> QED
  BY <1>1 DEF OtherKeeps, Doc

-----------------------------------------------------------------------------
(* The state keeps its shape. *)
LEMMA AkgTypedAdvances ==
    ASSUME AkgTyped, NEW c \in Commands, Advances(c)
    PROVE  AkgTyped'
<1>1. AkgKeeps(c) /\ edits' = edits
      /\ (akg'[c].at \in {"resolve", "open", "fill", "replace"} => akg'[c].doc # {})
  BY AdvancesMoves
<1>2. ASSUME NEW d \in Commands
      PROVE  /\ Shaped(akg'[d]) /\ akg'[d].final \in BOOLEAN /\ akg'[d].beside \subseteq Commands
             /\ akg'[d].at \in {"resolve", "open", "fill", "replace"} => akg'[d].doc # {}
  <2>1. CASE d = c
    BY <1>1, <2>1 DEF AkgKeeps
  <2>2. CASE d # c
    <3>1. OtherKeeps(d)
      BY <2>2, OthersDoc
    <3> QED
      BY <3>1 DEF OtherKeeps, AkgTyped
  <2> QED
    BY <2>1, <2>2
<1>3. document' \in Inodes /\ spare' \in {None} \cup Commands /\ content' = [f \in Inodes |-> content'[f]]
  <2>1. CASE BeginAkg(c) \/ ReadDocument(c) \/ Resolve(c) \/ KillAkg(c)
    BY <2>1, BeginAkgMoves, ReadMoves, ResolveMoves, KillMoves DEF AkgTyped
  <2>2. CASE OpenSpare(c)
    BY <2>2, OpenMoves DEF AkgTyped
  <2>3. CASE Fill(c)
    BY <2>3, FillMoves DEF AkgTyped
  <2>4. CASE Replace(c)
    BY <2>4, ReplaceMoves DEF AkgTyped, Inodes
  <2> QED
    BY <2>1, <2>2, <2>3, <2>4 DEF Advances
<1> QED
  BY <1>1, <1>2, <1>3 DEF AkgTyped, AkgKeeps

LEMMA AkgTypedStep ==
    ASSUME AkgTyped, [AkgNext]_akgVars
    PROVE  AkgTyped'
<1>1. CASE Edit
  <2>1. UNCHANGED <<document, spare, akg>> /\ edits' = edits + 1
    BY <1>1 DEF Edit
  <2>2. content' = [f \in Inodes |-> content'[f]]
    BY <1>1 DEF Edit, AkgTyped
  <2> QED
    BY <2>1, <2>2 DEF AkgTyped
<1>2. CASE UNCHANGED <<document, spare, content, akg, edits>>
  BY <1>2 DEF AkgTyped
<1> QED
  BY <1>1, <1>2, AkgCases, AkgTypedAdvances

-----------------------------------------------------------------------------
(* Commands that write at once have met. *)
LEMMA AkgMeetStep ==
    ASSUME AkgTyped, AkgMeet, [AkgNext]_akgVars
    PROVE  AkgMeet'
<1>1. ASSUME NEW c \in Commands, Advances(c) PROVE AkgMeet'
  <2>1. \A d \in Commands \ {c} : akg'[d].at = akg[d].at /\ akg[d].beside \subseteq akg'[d].beside
    BY <1>1, OthersDoc DEF OtherKeeps
  <2>2. CASE OpenSpare(c)
    <3>1. akg'[c].beside = Writing /\ \A d \in Writing : d # c /\ c \in akg'[d].beside
      BY <2>2, OpenMoves
    <3> QED
      BY <2>1, <3>1 DEF AkgMeet, Writing
  <2>3. CASE Fill(c)
    <3>1. akg[c].at = "fill" /\ akg'[c].beside = akg[c].beside
      BY <2>3, FillMoves
    <3> QED
      BY <2>1, <3>1 DEF AkgMeet, Writing
  <2>4. CASE ~OpenSpare(c) /\ ~Fill(c)
    <3>1. akg'[c].at \notin {"fill", "replace"}
      BY <1>1, <2>4, BeginAkgMoves, ReadMoves, ResolveMoves, ReplaceMoves, KillMoves DEF Advances, ResolveCall
    <3> QED
      BY <2>1, <3>1 DEF AkgMeet, Writing
  <2> QED
    BY <2>2, <2>3, <2>4
<1>2. CASE Edit
  BY <1>2 DEF Edit, AkgMeet, Writing
<1>3. CASE UNCHANGED <<document, spare, content, akg, edits>>
  BY <1>3 DEF AkgMeet, Writing
<1> QED
  BY <1>1, <1>2, <1>3, AkgCases

-----------------------------------------------------------------------------
(* The temporary file. *)

(* another command leaves it that *)
LEMMA OthersStages ==
    ASSUME AkgTyped, AkgMeet, FinalizeInv, NEW c \in Commands, Advances(c), NEW d \in Commands, d # c
    PROVE  Stages(d)'
<1>1. OtherKeeps(d) /\ Doc(d)' = Doc(d) /\ Stages(d)
  BY OthersDoc DEF FinalizeInv
<1>2. /\ akg'[d].at = akg[d].at /\ akg'[d].final = akg[d].final /\ akg'[d].file = akg[d].file
      /\ akg[d].beside \subseteq akg'[d].beside
  BY <1>1 DEF OtherKeeps
<1>3. SUFFICES ASSUME akg[d].at \in {"fill", "replace"}
               PROVE  (Overlapped(d) \/ Undisturbed(d))'
  BY <1>1, <1>2 DEF Stages
<1>4. CASE Overlapped(d)
  BY <1>2, <1>4 DEF Overlapped
<1>5. CASE Undisturbed(d)
  <2>1. CASE BeginAkg(c) \/ ReadDocument(c) \/ Resolve(c) \/ KillAkg(c)
    <3>1. UNCHANGED <<spare, content>>
      BY <2>1, BeginAkgMoves, ReadMoves, ResolveMoves, KillMoves
    <3> QED
      BY <3>1, <1>1, <1>2, <1>5 DEF Undisturbed
  <2>2. CASE OpenSpare(c)
    BY <1>3, <2>2, OpenMoves DEF Writing, Overlapped
  <2>3. CASE Fill(c) \/ Replace(c)
    <3>1. akg[c].at \in {"fill", "replace"}
      BY <2>3, FillMoves, ReplaceMoves
    <3>2. c \in akg[d].beside
      BY <1>3, <3>1 DEF AkgMeet, Writing
    <3> QED
      BY <1>2, <3>2 DEF Overlapped
  <2> QED
    BY <2>1, <2>2, <2>3 DEF Advances
<1> QED
  BY <1>1, <1>3, <1>4, <1>5 DEF Stages

(* and its own steps do as well *)
LEMMA OwnStages ==
    ASSUME AkgTyped, FinalizeInv, NEW c \in Commands, Advances(c)
    PROVE  Stages(c)'
<1>1. AkgKeeps(c) /\ Stages(c)
  BY AdvancesMoves DEF FinalizeInv
<1>2. akg[c].at = "idle" \/ akg'[c].at = "over" \/ akg'[c].final = akg[c].final
  BY <1>1 DEF AkgKeeps
<1>3. CASE BeginAkg(c) \/ ReadDocument(c) \/ Replace(c) \/ KillAkg(c)
  BY <1>3, BeginAkgMoves, ReadMoves, ReplaceMoves, KillMoves DEF Stages
<1>4. CASE Resolve(c)
  BY <1>2, <1>4, ResolveMoves DEF ResolveCall, Stages
<1>5. CASE OpenSpare(c)
  <2> DEFINE file == IF spare = None THEN c ELSE spare
  <2>1. /\ akg[c].at = "open" /\ akg'[c].at = "fill" /\ akg'[c].file = file
        /\ spare' = file /\ content' = [content EXCEPT ![file] = Empty]
    BY <1>5, OpenMoves
  <2>2. file \in Commands
    BY DEF AkgTyped
  <2>3. content'[file] = Empty
    BY <2>1, <2>2 DEF AkgTyped, Inodes
  <2>4. Undisturbed(c)'
    BY <2>1, <2>3 DEF Undisturbed
  <2> QED
    BY <1>1, <1>2, <2>1, <2>2, <2>4 DEF Stages
<1>6. CASE Fill(c)
  <2>1. /\ akg[c].at = "fill" /\ akg'[c].at = "replace" /\ akg'[c].file = akg[c].file /\ Doc(c)' = Doc(c)
        /\ \/ content' = [content EXCEPT ![akg[c].file] = Whole(Doc(c), TRUE, {c})]
           \/ content[akg[c].file] # Empty /\ content' = [content EXCEPT ![akg[c].file] = Mixed]
        /\ spare' = spare /\ akg'[c].beside = akg[c].beside
    BY <1>6, FillMoves DEF Doc
  <2>2. akg[c].final /\ akg[c].file \in Commands /\ (Overlapped(c) \/ Undisturbed(c))
    BY <1>1, <2>1 DEF Stages
  <2>3. CASE Overlapped(c)
    BY <1>2, <2>1, <2>2, <2>3 DEF Stages, Overlapped
  <2>4. CASE Undisturbed(c)
    <3>1. content' = [content EXCEPT ![akg[c].file] = Whole(Doc(c), TRUE, {c})]
      BY <2>1, <2>4 DEF Undisturbed
    <3>2. content'[akg[c].file] = Whole(Doc(c), TRUE, {c})
      BY <2>2, <3>1 DEF AkgTyped, Inodes
    <3>3. Undisturbed(c)'
      BY <2>1, <2>4, <3>2 DEF Undisturbed
    <3> QED
      BY <3>3, <1>2, <2>1, <2>2 DEF Stages
  <2> QED
    BY <2>2, <2>3, <2>4
<1> QED
  BY <1>3, <1>4, <1>5, <1>6 DEF Advances

(* the two paths *)
LEMMA PathsStep ==
    ASSUME AkgTyped, FinalizeInv, NEW c \in Commands, Advances(c)
    PROVE  /\ document' # spare'
           /\ \A d \in Commands : d \in {document', spare'} => akg'[d].at \in {"fill", "replace", "over"}
<1>1. /\ \A d \in Commands : d # c => akg'[d].at = akg[d].at
      /\ document # spare
      /\ \A d \in Commands : d \in {document, spare} => akg[d].at \in {"fill", "replace", "over"}
  BY OthersDoc DEF OtherKeeps, FinalizeInv
<1>2. CASE BeginAkg(c) \/ ReadDocument(c) \/ Resolve(c) \/ KillAkg(c) \/ Fill(c)
  <2>1. UNCHANGED <<document, spare>>
    BY <1>2, BeginAkgMoves, ReadMoves, ResolveMoves, KillMoves, FillMoves
  <2>2. akg[c].at \in {"idle", "read", "resolve"} \/ akg'[c].at \in {"replace", "over"}
    BY <1>2, BeginAkgMoves, ReadMoves, ResolveMoves, KillMoves, FillMoves
  <2> QED
    BY <1>1, <2>1, <2>2
<1>3. CASE OpenSpare(c)
  <2>1. /\ akg[c].at = "open" /\ akg'[c].at = "fill" /\ document' = document
        /\ spare' = (IF spare = None THEN c ELSE spare)
    BY <1>3, OpenMoves
  <2> QED
    BY <1>1, <2>1
<1>4. CASE Replace(c)
  <2>1. /\ akg'[c].at = "over"
        /\ \/ spare = None /\ UNCHANGED <<document, spare>>
           \/ spare # None /\ document' = spare /\ spare' = None
    BY <1>4, ReplaceMoves
  <2>2. None \notin Commands
    BY FinalizeAssumption
  <2> QED
    BY <1>1, <2>1, <2>2
<1> QED
  BY <1>2, <1>3, <1>4 DEF Advances

LEMMA FinalizeStep ==
    ASSUME AkgTyped, AkgMeet, FinalizeInv, [AkgNext]_akgVars
    PROVE  FinalizeInv'
<1>1. ASSUME NEW c \in Commands, Advances(c) PROVE FinalizeInv'
  BY <1>1, PathsStep, OthersStages, OwnStages DEF FinalizeInv
<1>2. ASSUME UNCHANGED <<document, spare, akg>>,
             \A f \in Commands : f # document => content'[f] = content[f]
      PROVE  FinalizeInv'
  <2>1. ASSUME NEW c \in Commands PROVE Stages(c)'
    <3>1. Doc(c)' = Doc(c) /\ Overlapped(c)' = Overlapped(c)
      BY <1>2 DEF Doc, Overlapped
    <3>2. Stages(c) /\ document # spare
      BY DEF FinalizeInv
    <3>3. akg[c].file \in Commands /\ Undisturbed(c) => Undisturbed(c)'
      BY <1>2, <3>1, <3>2 DEF Undisturbed
    <3> QED
      BY <1>2, <3>1, <3>2, <3>3 DEF Stages
  <2> QED
    BY <1>2, <2>1 DEF FinalizeInv
<1>3. CASE Edit
  <2>1. UNCHANGED <<document, spare, akg>>
    BY <1>3 DEF Edit
  <2>2. \A f \in Commands : f # document => content'[f] = content[f]
    BY <1>3 DEF Edit, AkgTyped, Inodes
  <2> QED
    BY <1>2, <2>1, <2>2
<1>4. CASE UNCHANGED <<document, spare, content, akg, edits>>
  BY <1>2, <1>4
<1> QED
  BY <1>1, <1>3, <1>4, AkgCases

(* who wrote a text keeps the document *)
LEMMA WriterKeeps ==
    ASSUME AkgTyped, NEW c \in Commands, Advances(c), NEW d \in Commands, akg[d].at \in {"replace", "over"}
    PROVE  akg'[d].at \in {"replace", "over"} /\ akg'[d].met = akg[d].met /\ akg'[d].doc = akg[d].doc
<1>1. CASE d # c
  BY <1>1, OthersDoc DEF OtherKeeps
<1>2. CASE d = c
  <2>1. akg[c].at = "replace"
    BY <1>2, AdvancesMoves
  <2>2. Replace(c) \/ KillAkg(c)
    BY <2>1, BeginAkgMoves, ReadMoves, ResolveMoves, OpenMoves, FillMoves DEF Advances
  <2> QED
    BY <1>2, <2>1, <2>2, ReplaceMoves, KillMoves
<1> QED
  BY <1>1, <1>2

(* What was written beside a command that goes on writing stays what it was. *)
LEMMA SparedStays ==
    ASSUME AkgTyped, SourceInv, NEW c \in Commands, Advances(c), NEW d \in Commands, Spared(d),
           spare \in Commands, spare' = spare, content'[spare] = content[spare],
           Doc(d)' = Doc(d), akg[d].beside \subseteq akg'[d].beside
    PROVE  Spared(d)'
<1>1. CASE content[spare] \in {Empty, Mixed, Whole(Doc(d), TRUE, {d})}
  BY <1>1 DEF Spared
<1>2. CASE content[spare] \in Others(d)
  <2>1. CASE content[spare] \in {Empty, Mixed}
    BY <2>1 DEF Spared
  <2>2. ASSUME NEW e \in akg[d].beside, NEW doc \in akg[e].doc, content[spare] = Whole(doc, TRUE, {e})
        PROVE  Spared(d)'
    <3>1. content[spare].final /\ content[spare].doc = {doc} /\ content[spare].by = {e}
      BY <2>2 DEF Whole
    <3>2. WrittenBy(e, doc)
      BY <3>1 DEF SourceInv, WrittenInv, Inodes
    <3>3. akg'[e].doc = akg[e].doc
      BY <3>2, WriterKeeps DEF WrittenBy
    <3>4. content'[spare'] = Whole(doc, TRUE, {e}) /\ e \in akg'[d].beside /\ doc \in akg'[e].doc
      BY <2>2, <3>3
    <3>5. Whole(doc, TRUE, {e}) \in {Whole(x, TRUE, {e}) : x \in akg'[e].doc}
      BY <3>4
    <3>6. Whole(doc, TRUE, {e}) \in Others(d)'
      BY <3>4, <3>5 DEF Others
    <3> QED
      BY <3>4, <3>6 DEF Spared
  <2> QED
    BY <1>2, <2>1, <2>2 DEF Others
<1> QED
  BY <1>1, <1>2 DEF Spared

LEMMA SpareAdvances ==
    ASSUME AkgTyped, AkgMeet, SpareInv, SourceInv, NEW c \in Commands, Advances(c), spare' # None,
           NEW d \in Commands, akg'[d].at \in {"fill", "replace"}
    PROVE  Spared(d)'
<1>1. CASE OpenSpare(c)
  <2> DEFINE file == IF spare = None THEN c ELSE spare
  <2>1. spare' = file /\ content' = [content EXCEPT ![file] = Empty] /\ file \in Inodes
    BY <1>1, OpenMoves DEF AkgTyped, Inodes
  <2> HIDE DEF file
  <2>2. content'[spare'] = Empty
    BY <2>1 DEF AkgTyped
  <2> QED
    BY <2>2 DEF Spared
<1>2. CASE Fill(c)
  <2>1. /\ akg[c].at = "fill" /\ spare' = spare /\ Doc(c)' = Doc(c) /\ akg'[c].beside = akg[c].beside
        /\ akg'[c].doc = akg[c].doc /\ akg[c].doc # {}
        /\ \/ content' = [content EXCEPT ![akg[c].file] = Whole(Doc(c), TRUE, {c})]
           \/ content' = [content EXCEPT ![akg[c].file] = Mixed]
    BY <1>2, FillMoves DEF Doc, AkgTyped
  <2>2. akg[d].at \in {"fill", "replace"} /\ Doc(d)' = Doc(d) /\ akg[d].beside \subseteq akg'[d].beside
    BY <2>1, OthersDoc DEF OtherKeeps
  <2>3. Spared(d) /\ spare \in Commands
    BY <2>1, <2>2 DEF SpareInv, Writing, AkgTyped
  <2>4. CASE content'[spare] = content[spare]
    BY <2>1, <2>2, <2>3, <2>4, SparedStays
  <2>5. CASE content'[spare] = Mixed
    BY <2>1, <2>5 DEF Spared
  <2>6. CASE content'[spare] = Whole(Doc(c), TRUE, {c})
    <3>1. CASE d = c
      BY <2>1, <2>6, <3>1 DEF Spared
    <3>2. CASE d # c
      <4>1. c \in akg'[d].beside
        BY <2>1, <2>2, <3>2 DEF AkgMeet, Writing
      <4>2. Doc(c) \in akg'[c].doc
        BY <2>1 DEF Doc
      <4>3. Whole(Doc(c), TRUE, {c}) \in {Whole(doc, TRUE, {c}) : doc \in akg'[c].doc}
        BY <4>2
      <4>4. Whole(Doc(c), TRUE, {c}) \in Others(d)'
        BY <4>1, <4>3 DEF Others
      <4> QED
        BY <2>1, <2>6, <4>4 DEF Spared
    <3> QED
      BY <3>1, <3>2
  <2>7. content'[spare] \in {content[spare], Mixed, Whole(Doc(c), TRUE, {c})}
    BY <2>1, <2>3 DEF AkgTyped, Inodes
  <2> QED
    BY <2>4, <2>5, <2>6, <2>7
<1>3. CASE Replace(c)
  BY <1>3, ReplaceMoves
<1>4. CASE BeginAkg(c) \/ ReadDocument(c) \/ Resolve(c) \/ KillAkg(c)
  <2>1. UNCHANGED <<spare, content>> /\ akg'[c].at \notin {"fill", "replace"}
    BY <1>4, BeginAkgMoves, ReadMoves, ResolveMoves, KillMoves DEF ResolveCall
  <2>2. d # c /\ akg[d].at \in {"fill", "replace"} /\ Doc(d)' = Doc(d) /\ akg[d].beside \subseteq akg'[d].beside
    BY <2>1, OthersDoc DEF OtherKeeps
  <2>3. Spared(d) /\ spare \in Commands
    BY <2>1, <2>2 DEF SpareInv, Writing, AkgTyped
  <2> QED
    BY <2>1, <2>2, <2>3, SparedStays
<1> QED
  BY <1>1, <1>2, <1>3, <1>4 DEF Advances

LEMMA SpareStep ==
    ASSUME AkgTyped, AkgMeet, FinalizeInv, SpareInv, SourceInv, [AkgNext]_akgVars
    PROVE  SpareInv'
<1>1. ASSUME NEW c \in Commands, Advances(c) PROVE SpareInv'
  BY <1>1, SpareAdvances DEF SpareInv, Writing
<1>2. ASSUME UNCHANGED <<spare, akg>>, spare # None => content'[spare] = content[spare]
      PROVE  SpareInv'
  <2>1. Writing' = Writing /\ \A c : Doc(c)' = Doc(c) /\ Others(c)' = Others(c)
    BY <1>2 DEF Writing, Doc, Others
  <2> QED
    BY <1>2, <2>1 DEF SpareInv, Spared
<1>3. CASE Edit
  <2>1. UNCHANGED <<spare, akg>> /\ document # spare
    BY <1>3 DEF Edit, FinalizeInv
  <2>2. spare # None => content'[spare] = content[spare]
    BY <1>3, <2>1 DEF Edit, AkgTyped, Inodes
  <2> QED
    BY <1>2, <2>1, <2>2
<1>4. CASE UNCHANGED <<document, spare, content, akg, edits>>
  BY <1>2, <1>4
<1> QED
  BY <1>1, <1>3, <1>4, AkgCases

-----------------------------------------------------------------------------
(* What is written has been resolved. *)

LEMMA OwnResolved ==
    ASSUME AkgTyped, SourceInv, NEW c \in Commands, Advances(c)
    PROVE  Resolved(c)'
<1>1. akg[c].at = "idle" \/ akg'[c].at = "over" \/ akg'[c].final = akg[c].final
  BY AdvancesMoves DEF AkgKeeps
<1>2. CASE ReadDocument(c)
  <2>1. SUFFICES ASSUME akg'[c].at = "resolve" PROVE SoFar(c)'
    BY <1>2, ReadMoves DEF Resolved
  <2>2. /\ Doc(c)' \in Documents /\ akg'[c].final = akg[c].final
        /\ ~HasErrors(CheckDocument(Doc(c)', akg[c].final)) /\ akg'[c].left = Calls(Doc(c)')
    BY <1>2, <2>1, ReadMoves DEF AkgTyped, SourceInv
  <2>3. Calls(Doc(c)') \ akg'[c].left = {}
    BY <2>2
  <2> QED
    BY <1>1, <2>2, <2>3 DEF SoFar
<1>3. CASE Resolve(c)
  <2>1. akg[c].at = "resolve" /\ SoFar(c)
    BY <1>3, ResolveMoves DEF SourceInv, Resolved
  <2>2. CASE akg'[c].at = "over"
    BY <2>2 DEF Resolved
  <2>3. ASSUME NEW call, NEW g, ResolveCall(c, call, g) PROVE Resolved(c)'
    <3> DEFINE doc == Doc(c)
    <3>1. /\ Doc(c)' = doc /\ akg'[c].met = akg[c].met \cup {g}
          /\ doc \in Documents /\ ~HasErrors(CheckDocument(doc, akg[c].final))
      BY <2>1, <2>3 DEF ResolveCall, Doc, SoFar
    <3>2. ASSUME ~akg'[c].errors, NEW other \in Calls(doc) \ akg'[c].left
          PROVE  Found(doc, other, akg'[c].met)
      <4>1. /\ ~akg[c].errors /\ Finding(c, call, g) = "none"
            /\ akg'[c].left = akg[c].left \ {call}
        BY <2>3, <3>2 DEF ResolveCall
      <4>2. CASE other = call
        <5>1. call = Start \/ ElementFinding(doc, call, g) = "none"
          BY <4>1 DEF Finding
        <5> QED
          BY <3>1, <4>2, <5>1 DEF Found
      <4>3. CASE other # call
        <5>1. other \in Calls(doc) \ akg[c].left
          BY <3>2, <4>1, <4>3
        <5>2. Found(doc, other, akg[c].met)
          BY <2>1, <4>1, <5>1 DEF SoFar
        <5> QED
          BY <3>1, <5>2 DEF Found
      <4> QED
        BY <4>2, <4>3
    <3>3. CASE akg'[c].at = "resolve"
      BY <1>1, <2>1, <3>1, <3>2, <3>3 DEF Resolved, SoFar
    <3>4. CASE akg'[c].at = "open"
      <4>1. akg'[c].left = {} /\ ~akg'[c].errors /\ akg[c].final
        BY <2>3, <3>4 DEF ResolveCall
      <4>2. akg[c].final = TRUE
        BY <4>1 DEF AkgTyped
      <4> QED
        BY <3>1, <3>2, <3>4, <4>1, <4>2 DEF Resolved, Settled
    <3> QED
      BY <2>3, <3>3, <3>4 DEF ResolveCall
  <2> QED
    BY <1>3, <2>2, <2>3, ResolveMoves
<1>4. CASE OpenSpare(c) \/ Fill(c)
  <2>1. /\ akg[c].at \in {"open", "fill"} /\ akg'[c].at \in {"fill", "replace"}
        /\ akg'[c].doc = akg[c].doc /\ akg'[c].met = akg[c].met
    BY <1>4, OpenMoves, FillMoves
  <2>2. Doc(c)' = Doc(c)
    BY <2>1 DEF Doc
  <2> QED
    BY <2>1, <2>2 DEF SourceInv, Resolved
<1>5. CASE BeginAkg(c) \/ Replace(c) \/ KillAkg(c)
  BY <1>5, BeginAkgMoves, ReplaceMoves, KillMoves DEF Resolved
<1> QED
  BY <1>2, <1>3, <1>4, <1>5 DEF Advances

(* What tells of a text that was written stays. *)
LEMMA WrittenStays ==
    ASSUME AkgTyped, NEW c \in Commands, Advances(c), NEW d, NEW doc, WrittenBy(d, doc)
    PROVE  WrittenBy(d, doc)'
<1>1. d \in Commands /\ akg[d].at \in {"replace", "over"}
  BY DEF WrittenBy
<1>2. akg'[d].at \in {"replace", "over"} /\ akg'[d].met = akg[d].met
  BY <1>1, WriterKeeps
<1> QED
  BY <1>1, <1>2 DEF WrittenBy

(* A step that marks nothing final, or what has been resolved, keeps that true of all that is. *)
LEMMA WrittenStep ==
    ASSUME AkgTyped, SourceInv, NEW c \in Commands, Advances(c)
    PROVE  WrittenInv' /\ \A f \in Inodes : content'[f].doc \subseteq Documents
<1>1. ASSUME NEW f \in Inodes, content'[f] = content[f], content[f].final,
             NEW doc \in content[f].doc, NEW d \in content[f].by
      PROVE  WrittenBy(d, doc)'
  BY <1>1, WrittenStays DEF SourceInv, WrittenInv
<1>2. CASE content' = content
  BY <1>1, <1>2 DEF SourceInv, WrittenInv
<1>3. CASE OpenSpare(c)
  <2> DEFINE file == IF spare = None THEN c ELSE spare
  <2>1. content' = [content EXCEPT ![file] = Empty]
    BY <1>3, OpenMoves
  <2> HIDE DEF file
  <2>2. ASSUME NEW f \in Inodes
        PROVE  content'[f] = content[f] \/ (content'[f].final = FALSE /\ content'[f].doc = {})
    BY <2>1 DEF AkgTyped, Empty
  <2> QED
    BY <1>1, <2>2 DEF SourceInv, WrittenInv
<1>4. CASE Fill(c)
  <2> DEFINE file == akg[c].file
  <2>1. /\ akg[c].at = "fill" /\ akg'[c].at = "replace" /\ akg'[c].met = akg[c].met
        /\ \/ content' = [content EXCEPT ![file] = Whole(Doc(c), TRUE, {c})]
           \/ content' = [content EXCEPT ![file] = Mixed]
    BY <1>4, FillMoves
  <2> HIDE DEF file
  <2>2. WrittenBy(c, Doc(c))' /\ Doc(c) \in Documents
    <3>1. Settled(Doc(c), akg[c].met)
      BY <2>1 DEF SourceInv, Resolved
    <3>2. akg'[c].doc = akg[c].doc
      BY <1>4, FillMoves
    <3> QED
      BY <2>1, <3>1, <3>2 DEF WrittenBy, Doc, Settled
  <2>3. Doc(c)' = Doc(c)
    BY <1>4, FillMoves DEF Doc
  <2>4. ASSUME NEW f \in Inodes, content'[f] # content[f]
        PROVE  \/ content'[f].doc = {Doc(c)} /\ content'[f].by = {c}
               \/ content'[f].doc = {} /\ content'[f].final = FALSE
    <3>1. content'[f] = Whole(Doc(c), TRUE, {c}) \/ content'[f] = Mixed
      BY <2>1, <2>4 DEF AkgTyped
    <3> QED
      BY <2>4, <3>1 DEF Whole, Mixed
  <2> QED
    BY <1>1, <2>2, <2>3, <2>4 DEF SourceInv, WrittenInv
<1> QED
  BY <1>2, <1>3, <1>4, BeginAkgMoves, ReadMoves, ResolveMoves, ReplaceMoves, KillMoves DEF Advances

LEMMA SourceStep ==
    ASSUME AkgTyped, SourceInv, [AkgNext]_akgVars
    PROVE  SourceInv'
<1>1. ASSUME NEW c \in Commands, Advances(c) PROVE SourceInv'
  <2>1. ASSUME NEW d \in Commands PROVE Resolved(d)'
    <3>1. Resolved(d)
      BY DEF SourceInv
    <3>2. CASE d = c
      BY <1>1, <3>2, OwnResolved
    <3>3. CASE d # c
      <4>1. OtherKeeps(d) /\ Doc(d)' = Doc(d)
        BY <1>1, <3>3, OthersDoc
      <4> QED
        BY <3>1, <4>1 DEF OtherKeeps, Resolved, SoFar
    <3> QED
      BY <3>2, <3>3
  <2> QED
    BY <1>1, <2>1, WrittenStep DEF SourceInv
<1>2. ASSUME UNCHANGED akg,
             \A f \in Inodes : \/ content'[f] = content[f]
                              \/ (content'[f].final = FALSE /\ content'[f].doc \subseteq Documents)
      PROVE  SourceInv'
  <2>1. \A c \in Commands : Doc(c)' = Doc(c) /\ Resolved(c)
    BY <1>2 DEF Doc, SourceInv
  <2>2. ASSUME NEW c \in Commands PROVE Resolved(c)'
    BY <1>2, <2>1 DEF Resolved, SoFar
  <2>3. WrittenInv'
    BY <1>2 DEF SourceInv, WrittenInv, WrittenBy
  <2> QED
    BY <1>2, <2>2, <2>3 DEF SourceInv
<1>3. CASE Edit
  <2>1. UNCHANGED akg /\ \E doc \in Documents : content' = [content EXCEPT ![document] = Whole(doc, FALSE, {})]
    BY <1>3 DEF Edit
  <2>2. \A f \in Inodes : \/ content'[f] = content[f]
                          \/ (content'[f].final = FALSE /\ content'[f].doc \subseteq Documents)
    BY <2>1 DEF AkgTyped, Whole
  <2> QED
    BY <1>2, <2>1, <2>2
<1>4. CASE UNCHANGED <<document, spare, content, akg, edits>>
  BY <1>2, <1>4
<1> QED
  BY <1>1, <1>3, <1>4, AkgCases

-----------------------------------------------------------------------------
LEMMA AkgStarts ==
    ASSUME AkgInit \/ AkgIdle
    PROVE  AkgInv
<1>1. /\ document = First /\ spare = None /\ edits \in Nat
      /\ \E w \in {Waiting, [Waiting EXCEPT !.at = "over"]} : akg = [c \in Commands |-> w]
  <2>1. CASE AkgInit
    <3>1. document = First /\ spare = None /\ edits = 0 /\ akg = [c \in Commands |-> Waiting]
      BY Zenon, <2>1 DEF AkgInit
    <3> QED
      BY <3>1
  <2>2. CASE AkgIdle
    <3>1. /\ document = First /\ spare = None /\ edits = MaxEdits
          /\ akg = [c \in Commands |-> [Waiting EXCEPT !.at = "over"]]
      BY Zenon, <2>2 DEF AkgIdle
    <3> QED
      BY <3>1, FinalizeAssumption
  <2> QED
    BY <2>1, <2>2
<1>2. content = [f \in Inodes |-> content[f]]
  BY DEF AkgInit, AkgIdle, Inodes
<1>3. ASSUME NEW c \in Commands
      PROVE  Shaped(akg[c]) /\ akg[c].at \in {"idle", "over"} /\ akg[c].final = FALSE /\ akg[c].beside = {}
  <2>1. akg[c] = Waiting \/ akg[c] = [Waiting EXCEPT !.at = "over"]
    BY <1>1
  <2> QED
    BY <2>1 DEF Shaped, AkgFields, Waiting
<1>4. AkgTyped
  <2>1. akg = [c \in Commands |-> akg[c]]
    BY <1>1
  <2> QED
    BY <1>1, <1>2, <1>3, <2>1 DEF AkgTyped, Inodes
<1>5. AkgMeet
  BY <1>3 DEF AkgMeet, Writing
<1>6. FinalizeInv
  <2>1. First # None /\ First \notin Commands /\ None \notin Commands
    BY FinalizeAssumption DEF First, None
  <2> QED
    BY <1>1, <1>3, <2>1 DEF FinalizeInv, Stages
<1>7. SourceInv
  <2>1. ASSUME NEW f \in Inodes PROVE content[f].final = FALSE /\ content[f].doc \subseteq Documents
    BY <2>1 DEF AkgInit, AkgIdle, Inodes, Whole, Empty
  <2> QED
    BY <1>3, <2>1 DEF SourceInv, Resolved, WrittenInv
<1>8. SpareInv
  BY <1>1 DEF SpareInv
<1> QED
  BY <1>4, <1>5, <1>6, <1>7, <1>8 DEF AkgInv

LEMMA AkgGoesOn == AkgInv /\ [AkgNext]_akgVars => AkgInv'
BY AkgTypedStep, AkgMeetStep, FinalizeStep, SpareStep, SourceStep DEF AkgInv

LEMMA AkgFamily ==
    /\ Init => AkgInit \/ AkgIdle
    /\ [Next]_commandVars => [AkgNext]_akgVars
<1>1. Init => AkgInit \/ AkgIdle
  BY DEF Init
<1>2. [Next]_commandVars => [AkgNext]_akgVars
  BY DEF Next, commandVars
<1> QED
  BY <1>1, <1>2

(* One document and its temporary file, whatever finalizes, checks, edits and      *)
(* services overlap, and whichever commands are killed.                           *)
THEOREM AkgInvariant == Spec => []AkgInv
<1>1. Init => AkgInv
  BY AkgFamily, AkgStarts
<1>2. AkgInv /\ [Next]_commandVars => AkgInv'
  BY AkgFamily, AkgGoesOn
<1> QED
  BY <1>1, <1>2, PTL DEF Spec

-----------------------------------------------------------------------------
(* What a final document says is part of the graph.                              *)

(* What a finalize accepts: the findings of a check without errors. *)
LEMMA FinalizeAccepts ==
    ASSUME NEW doc, ~HasErrors(CheckDocument(doc, TRUE))
    PROVE  /\ Firsts(doc) = ToSet(doc.datasets)
           /\ \A d \in Firsts(doc) : ~HasErrors(DatasetFindings(doc, "error", d))
           /\ ~HasErrors(NameFindings(doc, "error"))
<1> DEFINE duplicates == When(Repeated(doc) # {}, Error("duplicate_dataset"))
           all == duplicates \cup AllDatasetFindings(doc, "error") \cup NameFindings(doc, "error")
<1>1. CheckDocument(doc, TRUE) = IF ~doc.shaped THEN {Error("shape")}
                                 ELSE IF ~FieldsFit(doc.fields) THEN duplicates \cup {Error("edge_fields")}
                                 ELSE all
  BY DEF CheckDocument
<1>2. \A rule : Error(rule)[2] = "error"
  BY DEF Error
<1>3. \A f \in CheckDocument(doc, TRUE) : f[2] # "error"
  BY DEF HasErrors
<1> HIDE DEF duplicates
<1>4. CheckDocument(doc, TRUE) = all
  BY <1>1, <1>2, <1>3
<1>5. Firsts(doc) = ToSet(doc.datasets)
  <2>1. Repeated(doc) # {} => Error("duplicate_dataset") \in duplicates
    BY DEF duplicates, When
  <2>2. Repeated(doc) = {}
    BY <1>2, <1>3, <1>4, <2>1
  <2> QED
    BY <2>2 DEF Firsts, ToSet
<1>6. ASSUME NEW d \in Firsts(doc) PROVE ~HasErrors(DatasetFindings(doc, "error", d))
  <2>1. DatasetFindings(doc, "error", d) \subseteq AllDatasetFindings(doc, "error")
    BY DEF AllDatasetFindings
  <2> QED
    BY <1>3, <1>4, <2>1 DEF HasErrors
<1>7. ~HasErrors(NameFindings(doc, "error"))
  BY <1>3, <1>4 DEF HasErrors
<1> QED
  BY <1>5, <1>6, <1>7

(* Findings without an error report nothing that is one. *)
LEMMA NothingReported ==
    ASSUME NEW findings, ~HasErrors(findings), NEW condition, NEW rule, When(condition, <<rule, "error">>) \subseteq findings
    PROVE  ~condition
<1>1. SUFFICES ASSUME condition PROVE FALSE
  OBVIOUS
<1>2. <<rule, "error">> \in When(condition, <<rule, "error">>) /\ <<rule, "error">>[2] = "error"
  BY <1>1 DEF When
<1> QED
  BY <1>2 DEF HasErrors

(* what of a dataset is named is listed *)
LEMMA UsedListed ==
    ASSUME NEW doc, ~HasErrors(CheckDocument(doc, TRUE)), NEW d \in ToSet(doc.datasets)
    PROVE  d.used \subseteq DOMAIN d.columns
<1>1. ASSUME NEW c \in d.used, c \notin DOMAIN d.columns PROVE FALSE
  <2>1. d \in Firsts(doc) /\ ~HasErrors(DatasetFindings(doc, "error", d))
    BY FinalizeAccepts
  <2>2. <<"unlisted_column", "error">> \in RequireColumn(doc, "error", d.node, c)
    BY <1>1, <2>1 DEF RequireColumn, When
  <2>3. <<"unlisted_column", "error">> \in DatasetFindings(doc, "error", d)
    BY <2>2 DEF DatasetFindings, UsedFindings
  <2>4. <<"unlisted_column", "error">>[2] = "error"
    OBVIOUS
  <2> QED
    BY <2>1, <2>3, <2>4 DEF HasErrors
<1> QED
  BY <1>1

(* an edge is from the key it is listed under, has its own ID, and ends in a dataset of the document *)
LEMMA EdgesFit ==
    ASSUME NEW doc, ~HasErrors(CheckDocument(doc, TRUE)), NEW d \in ToSet(doc.datasets),
           NEW def \in ToSet(d.definitions), NEW k \in DOMAIN def.edges
    PROVE  LET e == def.edges[k]
           IN  /\ e.from = <<d.node, def.columns>> /\ e.id = CanonicalId(def.identity, e.from, e.to)
               /\ e.to[1] \in Nodes(doc) /\ e.flaw = "none"
               /\ ~\E j \in 1..(k - 1) : def.edges[j] \in ReadableEdges(def) /\ def.edges[j].id = e.id
<1> DEFINE e == def.edges[k]
           findings == EdgeFindings(doc, "error", d.node, def, k)
<1>1. \A f \in findings : f[2] # "error"
  <2>1. findings \subseteq DefinitionFindings(doc, "error", d.node, def)
    BY DEF DefinitionFindings
  <2>2. DefinitionFindings(doc, "error", d.node, def) \subseteq DatasetFindings(doc, "error", d)
    BY DEF DatasetFindings
  <2>3. ~HasErrors(DatasetFindings(doc, "error", d))
    BY FinalizeAccepts
  <2>4. \A f \in DatasetFindings(doc, "error", d) : f[2] # "error"
    BY <2>3 DEF HasErrors
  <2> QED
    BY <2>1, <2>2, <2>4
<1>2. e.flaw = "none"
  <2>1. e.flaw # "none" => <<e.flaw, "error">> \in findings
    BY DEF EdgeFindings, Error
  <2> QED
    BY <1>1, <2>1
<1> DEFINE earlier == \E j \in 1..(k - 1) : def.edges[j] \in ReadableEdges(def) /\ def.edges[j].id = e.id
           again   == When(earlier, Error("duplicate_edge"))
<1>3. findings = When(e.from # <<d.node, def.columns>>, Error("edge_start"))
                 \cup When(e.id # CanonicalId(def.identity, e.from, e.to), Error("edge_key"))
                 \cup again \cup RequireDataset(doc, "error", e.to[1])
  BY <1>2 DEF EdgeFindings
<1> HIDE DEF findings, earlier, e
<1>4. \A condition, rule : When(condition, <<rule, "error">>) \subseteq findings => ~condition
  BY <1>1, NothingReported DEF HasErrors
<1>5. e.from = <<d.node, def.columns>> /\ e.id = CanonicalId(def.identity, e.from, e.to)
  BY <1>3, <1>4 DEF Error
<1>6. e.to[1] \in Nodes(doc)
  BY <1>3, <1>4 DEF RequireDataset
<1>7. ~earlier
  BY <1>3, <1>4 DEF Error
<1> QED
  BY <1>2, <1>5, <1>6, <1>7 DEF e, earlier

(* what is said of the use of an edge is of one the definition holds, and of its ends *)
LEMMA UsageFits ==
    ASSUME NEW doc \in Documents, ~HasErrors(CheckDocument(doc, TRUE)), NEW d \in ToSet(doc.datasets),
           NEW def \in ToSet(d.definitions)
    PROVE  InUse(d, def)
<1>1. def.edges \in Seq(ToSet(def.edges))
  BY DocumentsAssumption
<1>2. ReadableEdges(def) = ToSet(def.edges)
  <2>1. \A k \in DOMAIN def.edges : def.edges[k].flaw = "none"
    BY EdgesFit
  <2> QED
    BY <2>1 DEF ReadableEdges, ToSet
<1>3. \A f \in UsageFindings(d.node, def) : f[2] # "error"
  <2>1. UsageFindings(d.node, def) \subseteq DefinitionFindings(doc, "error", d.node, def)
    BY DEF DefinitionFindings
  <2>2. DefinitionFindings(doc, "error", d.node, def) \subseteq DatasetFindings(doc, "error", d)
    BY DEF DatasetFindings
  <2>3. ~HasErrors(DatasetFindings(doc, "error", d))
    BY FinalizeAccepts
  <2> QED
    BY <2>1, <2>2, <2>3 DEF HasErrors
<1>4. SUFFICES ASSUME NEW u \in def.usage
               PROVE  \E e \in ToSet(def.edges) : u.edge = e.id /\ u.keep \subseteq {d.node, e.to[1]}
  BY DEF InUse
<1> DEFINE of == IF u.edge \notin {e.id : e \in ReadableEdges(def)} THEN {Error("usage_key")}
                 ELSE When(\E kept \in u.keep : kept \notin {d.node, EndOf(def, u.edge)}, Error("not_an_endpoint"))
<1>5. ~HasErrors(of)
  <2>1. of \subseteq UsageFindings(d.node, def)
    BY <1>2 DEF UsageFindings
  <2> QED
    BY <1>3, <2>1 DEF HasErrors
<1>6. u.edge \in {e.id : e \in ReadableEdges(def)}
  BY <1>5 DEF HasErrors, Error
<1>7. u.keep \subseteq {d.node, EndOf(def, u.edge)}
  BY <1>5, <1>6, NothingReported DEF Error
<1> DEFINE is == {i \in DOMAIN def.edges : def.edges[i] \in ReadableEdges(def) /\ def.edges[i].id = u.edge}
<1>8. PICK i \in DOMAIN def.edges : i \in is
  BY <1>6 DEF ReadableEdges, ToSet
<1>9. \A j \in is : j = i
  <2>1. \A j, k \in is : ~(j < k)
    <3>1. ASSUME NEW j \in is, NEW k \in is, j < k PROVE FALSE
      <4>1. j \in 1..(k - 1) /\ k \in DOMAIN def.edges
        BY <1>1, <3>1
      <4>2. def.edges[j] \in ReadableEdges(def) /\ def.edges[j].id = def.edges[k].id
        OBVIOUS
      <4> QED
        BY <4>1, <4>2, EdgesFit
    <3> QED
      BY <3>1
  <2>2. \A j \in is : j \in Int
    BY <1>1
  <2> QED
    BY <1>8, <2>1, <2>2
<1>10. EndOf(def, u.edge) = def.edges[i].to[1]
  <2>1. i \in is /\ \A j \in is : j <= i
    BY <1>1, <1>8, <1>9
  <2> HIDE DEF is
  <2>2. (CHOOSE x \in is : \A j \in is : j <= x) = i
    BY <1>9, <2>1
  <2> USE DEF is
  <2> QED
    BY <2>2 DEF EndOf
<1>11. def.edges[i] \in ToSet(def.edges) /\ def.edges[i].id = u.edge
  BY <1>8 DEF ToSet
<1> QED
  BY <1>7, <1>10, <1>11

(* what comparisons and gaps are about is in the document *)
LEMMA ComparisonHeld ==
    ASSUME NEW doc, ~HasErrors(CheckDocument(doc, TRUE)), NEW c \in doc.comparisons
    PROVE  c.anchors \subseteq Nodes(doc) /\ \A s \in c.shared : ListsColumn(doc, s)
<1>1. Firsts(doc) = ToSet(doc.datasets) /\ ~HasErrors(NameFindings(doc, "error"))
  BY FinalizeAccepts
<1>2. ~HasErrors(ComparisonFindings(doc, "error", c))
  <2>1. ComparisonFindings(doc, "error", c) \subseteq NameFindings(doc, "error")
    BY DEF NameFindings
  <2> QED
    BY <1>1, <2>1 DEF HasErrors
<1>3. ASSUME NEW n \in c.anchors PROVE n \in Nodes(doc)
  <2>1. RequireDataset(doc, "error", n) \subseteq ComparisonFindings(doc, "error", c)
    BY DEF ComparisonFindings
  <2> QED
    BY <1>2, <2>1, NothingReported DEF RequireDataset
<1>4. ASSUME NEW s \in c.shared PROVE ListsColumn(doc, s)
  <2>1. RequireDataset(doc, "error", s[1]) \cup RequireColumn(doc, "error", s[1], s[2]) \subseteq ComparisonFindings(doc, "error", c)
    BY DEF ComparisonFindings
  <2>2. s[1] \in Nodes(doc)
    BY <1>2, <2>1, NothingReported DEF RequireDataset
  <2>3. ~\E d \in Firsts(doc) : d.node = s[1] /\ s[2] \notin DOMAIN d.columns
    BY <1>2, <2>1, NothingReported DEF RequireColumn
  <2> QED
    BY <1>1, <2>2, <2>3 DEF Nodes, ListsColumn
<1> QED
  BY <1>3, <1>4

LEMMA GapHeld ==
    ASSUME NEW doc, ~HasErrors(CheckDocument(doc, TRUE)), NEW gap \in doc.gaps
    PROVE  gap.datasets \subseteq Nodes(doc) /\ gap.edges \subseteq DirectedEdges(doc)
<1>1. Firsts(doc) = ToSet(doc.datasets) /\ ~HasErrors(NameFindings(doc, "error"))
  BY FinalizeAccepts
<1>2. ~HasErrors(GapFindings(doc, "error", gap))
  <2>1. GapFindings(doc, "error", gap) \subseteq NameFindings(doc, "error")
    BY DEF NameFindings
  <2> QED
    BY <1>1, <2>1 DEF HasErrors
<1>3. ASSUME NEW n \in gap.datasets PROVE n \in Nodes(doc)
  <2>1. RequireDataset(doc, "error", n) \subseteq GapFindings(doc, "error", gap)
    BY DEF GapFindings
  <2> QED
    BY <1>2, <2>1, NothingReported DEF RequireDataset
<1>4. gap.edges \subseteq HeldEdges(doc)
  <2>1. When(~(gap.edges \subseteq HeldEdges(doc)), <<"dangling_reference", "error">>) \subseteq GapFindings(doc, "error", gap)
    BY DEF GapFindings
  <2> QED
    BY <1>2, <2>1, NothingReported
<1>5. HeldEdges(doc) \subseteq DirectedEdges(doc)
  BY <1>1 DEF HeldEdges, DirectedEdges, ReadableEdges
<1> QED
  BY <1>3, <1>4, <1>5

(* one identity from both ends *)
LEMMA SameIdentity ==
    ASSUME NEW i, NEW j, NEW a, NEW b, NEW from, NEW to, CanonicalId(i, a, b) = CanonicalId(j, from, to)
    PROVE  i = j
<1>1. <<a[1], i, a[2]>> \in CanonicalId(j, from, to)
  BY DEF CanonicalId
<1> QED
  BY <1>1 DEF CanonicalId

LEMMA DatasetServed ==
    ASSUME NEW d, NEW g, DatasetFinding(d, g) = "none"
    PROVE  ServedDataset(d, g)
BY DEF DatasetFinding, DatasetMatches, ServedDataset

LEMMA EdgeServed ==
    ASSUME NEW d, NEW def, NEW e, NEW g, EdgeFinding(d, def, e, g) = "none",
           e.from = <<d.node, def.columns>>, e.id = CanonicalId(def.identity, e.from, e.to)
    PROVE  ServedEdge(d, def, e, g)
<1> DEFINE from  == <<d.node, def.columns>>
           found == Directed(g, e.id, from)
<1>1. found # {} /\ \A served \in found : served.to = e.to /\ Alike(e.values, served.values)
  BY DEF EdgeFinding
<1>2. PICK served \in found : TRUE
  BY <1>1
<1>3. served.to = e.to /\ Alike(e.values, served.values)
  BY <1>1
<1>4. \E r \in g.relationships :
          /\ CanonicalId(r.identity, r.a, r.b) = e.id
          /\ \/ r.a = from /\ served = [to |-> r.b, values |-> r.forward]
             \/ r.b = from /\ served = [to |-> r.a, values |-> r.backward]
  BY <1>2 DEF Directed
<1>5. PICK r \in g.relationships :
          /\ CanonicalId(r.identity, r.a, r.b) = e.id
          /\ \/ r.a = from /\ served = [to |-> r.b, values |-> r.forward]
             \/ r.b = from /\ served = [to |-> r.a, values |-> r.backward]
  BY <1>4
<1>6. r.identity = def.identity
  BY <1>5, SameIdentity
<1>7. \/ r.a = from /\ r.b = e.to /\ Alike(e.values, r.forward)
      \/ r.b = from /\ r.a = e.to /\ Alike(e.values, r.backward)
  BY <1>3, <1>5
<1> QED
  BY <1>6, <1>7 DEF ServedEdge

LEMMA SettledIsSubgraph ==
    ASSUME NEW doc, NEW met, Settled(doc, met)
    PROVE  IsSubgraph(doc, met)
<1>1. doc \in Documents /\ ~HasErrors(CheckDocument(doc, TRUE)) /\ \A call \in Calls(doc) : Found(doc, call, met)
  BY DEF Settled
<1>2. /\ 0 \notin DOMAIN doc.datasets
      /\ \A d \in ToSet(doc.datasets) : 0 \notin DOMAIN d.definitions
  BY <1>1, DocumentsAssumption
<1>3. ASSUME NEW d \in ToSet(doc.datasets)
      PROVE  \E g \in met : ServedDataset(d, g)
  <2>1. PICK i \in DOMAIN doc.datasets : d = doc.datasets[i]
    BY <1>3 DEF ToSet
  <2>2. <<i, 0, 0>> \in Calls(doc) /\ <<i, 0, 0>> # Start
    BY <1>2, <2>1 DEF Calls, Start
  <2>3. PICK g \in met : ElementFinding(doc, <<i, 0, 0>>, g) = "none"
    BY <1>1, <2>2 DEF Found
  <2>4. DatasetFinding(d, g) = "none"
    BY <2>1, <2>3 DEF ElementFinding
  <2> QED
    BY <2>4, DatasetServed
<1>4. ASSUME NEW d \in ToSet(doc.datasets), NEW def \in ToSet(d.definitions), NEW e \in ToSet(def.edges)
      PROVE  e.to[1] \in Nodes(doc) /\ \E g \in met : ServedEdge(d, def, e, g)
  <2>1. PICK i \in DOMAIN doc.datasets : d = doc.datasets[i]
    BY <1>4 DEF ToSet
  <2>2. PICK j \in DOMAIN d.definitions : def = d.definitions[j]
    BY <1>4 DEF ToSet
  <2>3. PICK k \in DOMAIN def.edges : e = def.edges[k]
    BY <1>4 DEF ToSet
  <2>4. <<i, j, k>> \in Calls(doc)
    BY <2>1, <2>2, <2>3 DEF Calls
  <2>5. i # 0 /\ j # 0 /\ <<i, j, k>> # Start
    BY <1>2, <1>4 DEF Start
  <2>6. PICK g \in met : ElementFinding(doc, <<i, j, k>>, g) = "none"
    BY <1>1, <2>4, <2>5 DEF Found
  <2>7. EdgeFinding(d, def, e, g) = "none"
    BY <2>1, <2>2, <2>3, <2>5, <2>6 DEF ElementFinding
  <2>8. /\ e.from = <<d.node, def.columns>> /\ e.id = CanonicalId(def.identity, e.from, e.to)
        /\ e.to[1] \in Nodes(doc)
    BY <1>1, <1>4, <2>3, EdgesFit
  <2> QED
    BY <2>7, <2>8, EdgeServed
<1>5. \A d \in ToSet(doc.datasets) : d.used \subseteq DOMAIN d.columns
  BY <1>1, UsedListed
<1>6. IsServed(doc, met)
  BY <1>3, <1>4 DEF IsServed
<1>7. IsClosed(doc)
  BY <1>1, <1>4, <1>5, UsageFits, ComparisonHeld, GapHeld DEF IsClosed
<1> QED
  BY <1>6, <1>7 DEF IsSubgraph

(* A document marked final by finalize and not edited since is a closed part of the *)
(* graph, or the graphs, it was resolved against: whatever the documents and the    *)
(* graphs, and however edits, reloads of the service and other finalizes fall       *)
(* between the calls.                                                              *)
THEOREM FinalizedIsSubgraph == Spec => []FinalIsSubgraph
<1>1. AkgInv => FinalIsSubgraph
  <2>1. SUFFICES ASSUME AkgInv, content[document].final,
                        NEW doc \in content[document].doc, NEW c \in content[document].by
                 PROVE  IsSubgraph(doc, akg[c].met)
    BY DEF FinalIsSubgraph
  <2>2. WrittenBy(c, doc)
    BY <2>1 DEF AkgInv, AkgTyped, SourceInv, WrittenInv
  <2> QED
    BY <2>2, SettledIsSubgraph DEF WrittenBy
<1> QED
  BY <1>1, AkgInvariant, PTL

(* The document changes only by an edit, or by a finalize that replaces the whole   *)
(* of it with what it had read; with another that writes at the same time, it may   *)
(* get the text of that one, an empty or a mixed one.                              *)
LEMMA AdvanceRewritesWhole ==
    ASSUME AkgInv, NEW c \in Commands, Advances(c), content'[document'] # content[document]
    PROVE  /\ c \in Writing /\ akg[c].final
           /\ \/ content'[document'] = Whole(Doc(c), TRUE, {c})
              \/ akg[c].beside # {} /\ content'[document'] \in Others(c)
<1>1. AkgTyped /\ FinalizeInv /\ Stages(c) /\ document # spare
  BY DEF AkgInv, FinalizeInv
<1>2. CASE BeginAkg(c) \/ ReadDocument(c) \/ Resolve(c) \/ KillAkg(c)
  BY <1>2, <1>1, BeginAkgMoves, ReadMoves, ResolveMoves, KillMoves
<1>3. CASE OpenSpare(c)
  <2> DEFINE file == IF spare = None THEN c ELSE spare
  <2>1. akg[c].at = "open" /\ content' = [content EXCEPT ![file] = Empty] /\ document' = document
    BY <1>3, <1>1, OpenMoves
  <2>2. document # file
    BY <1>1, <2>1 DEF FinalizeInv
  <2>3. content'[document] = content[document]
    BY <1>1, <2>1, <2>2 DEF AkgTyped
  <2> QED
    BY <2>1, <2>3
<1>4. CASE Fill(c)
  <2>1. /\ akg[c].at = "fill" /\ document' = document
        /\ \/ content' = [content EXCEPT ![akg[c].file] = Whole(Doc(c), TRUE, {c})]
           \/ content' = [content EXCEPT ![akg[c].file] = Mixed]
    BY <1>4, <1>1, FillMoves
  <2>2. akg[c].file = document
    BY <1>1, <2>1 DEF AkgTyped
  <2>3. akg[c].beside # {} /\ akg[c].final
    BY <1>1, <2>1, <2>2 DEF Stages, Undisturbed, Overlapped
  <2>4. content'[document'] \in {Whole(Doc(c), TRUE, {c}), Mixed}
    BY <1>1, <2>1, <2>2 DEF AkgTyped
  <2> QED
    BY <2>1, <2>3, <2>4 DEF Writing, Others
<1>5. CASE Replace(c)
  <2>1. /\ akg[c].at = "replace" /\ content' = content
        /\ document' = document \/ (spare # None /\ document' = spare)
    BY <1>5, <1>1, ReplaceMoves
  <2>2. document' = spare /\ spare # None
    BY <2>1
  <2>3. Spared(c)
    BY <2>1, <2>2 DEF AkgInv, SpareInv, Writing
  <2>4. akg[c].final /\ (Overlapped(c) \/ Undisturbed(c))
    BY <1>1, <2>1 DEF Stages
  <2>5. CASE Undisturbed(c)
    BY <2>1, <2>2, <2>4, <2>5 DEF Undisturbed, Writing
  <2>6. CASE Overlapped(c)
    BY <2>1, <2>2, <2>3, <2>4, <2>6 DEF Overlapped, Spared, Others, Writing
  <2> QED
    BY <2>4, <2>5, <2>6
<1> QED
  BY <1>2, <1>3, <1>4, <1>5 DEF Advances

LEMMA StepRewritesWhole ==
    ASSUME AkgInv, [AkgNext]_akgVars, content'[document'] # content[document]
    PROVE  \/ edits' # edits
           \/ \E c \in Writing :
                  /\ akg[c].final
                  /\ \/ content'[document'] = Whole(Doc(c), TRUE, {c})
                     \/ akg[c].beside # {} /\ content'[document'] \in Others(c)
<1>1. AkgTyped
  BY DEF AkgInv
<1>2. CASE Edit
  <2>1. edits' # edits
    BY <1>1, <1>2 DEF Edit, AkgTyped
  <2> QED
    BY <2>1
<1>3. CASE UNCHANGED <<document, spare, content, akg, edits>>
  BY <1>3
<1> QED
  BY <1>2, <1>3, AkgCases, AdvanceRewritesWhole

(* What the author wrote is not lost to a check or to a finalize, whatever happens  *)
(* to it, and nothing that a killed finalize left behind gets into the document;    *)
(* only finalizes that write at the same time give it a text of theirs, an empty or *)
(* a mixed one.                                                                   *)
THEOREM DocumentRewrittenWhole == Spec => RewritesWhole
<1>1. AkgInv /\ [Next]_commandVars =>
          [content'[document'] # content[document] =>
               \/ edits' # edits
               \/ \E c \in Writing :
                      /\ akg[c].final
                      /\ \/ content'[document'] = Whole(Doc(c), TRUE, {c})
                         \/ akg[c].beside # {} /\ content'[document'] \in Others(c)]_akgVars
  BY AkgFamily, StepRewritesWhole
<1> QED
  BY <1>1, AkgInvariant, PTL DEF Spec, RewritesWhole

-----------------------------------------------------------------------------
(* Setups of the service and the commands that act on what was set up           *)

CommandFields == {"at", "action", "list", "loaded", "alone", "outcome"}
CommandShaped(r) == r = [field \in CommandFields |-> r[field]]

(* Only a setup empties and writes the list, and only an artifact that loads is    *)
(* started.                                                                       *)
CommandFits(o) ==
    /\ CommandShaped(operator[o])
    /\ o \in UnderWay => (operator[o].action = "setup" <=> operator[o].at \in {"empty", "write"})
    /\ operator[o].at = "operate" /\ operator[o].action # "stop" => operator[o].list.artifact \in Loadable
SetupTyped == operator = [o \in Maintainers |-> operator[o]] /\ \A o \in Maintainers : CommandFits(o)

(* nothing runs beside a command of which it is said that it was alone *)
AloneInv == \A o \in Maintainers : operator[o].alone => UnderWay \subseteq {o}

(* What a command was told of the list and of the job still holds, unless the list *)
(* was changed under it; what one found alone holds until another command begins.   *)
ListHolds == \A o \in UnderWay : operator[o].action # "setup" => operator[o].list = plist
FoundHolds(o) == operator[o].alone /\ operator[o].at \in {"probe", "operate"} /\ ~operator[o].loaded => jobs = {}
SaidHolds(o) ==
    operator[o].alone /\ operator[o].at = "over" =>
        /\ operator[o].outcome \in {"stopped", "not_running"} => jobs = {}
        /\ operator[o].outcome \in {"started", "running"} => jobs = {plist}
RunsAsSetUp ==
    ~disturbed => /\ jobs \subseteq {plist} /\ \A j \in jobs : j.artifact \in Loadable
                  /\ ListHolds
                  /\ \A o \in Maintainers : FoundHolds(o) /\ SaidHolds(o)

SetupInv == SetupTyped /\ AloneInv /\ RunsAsSetUp

-----------------------------------------------------------------------------
(* What becomes of the command that moves; the others stay as they are.           *)
CommandKeeps(o) ==
    /\ operator' = [p \in Maintainers |-> operator'[p]] /\ CommandShaped(operator'[o])
    /\ operator'[o].alone = operator[o].alone
    /\ \A p \in Maintainers \ {o} : operator'[p] = operator[p]

LEMMA GoesMoves ==
    ASSUME SetupTyped, NEW o \in Maintainers, NEW r, Goes(o, r), CommandShaped(r), r.alone = operator[o].alone
    PROVE  CommandKeeps(o) /\ operator'[o] = r
<1>1. operator = [p \in Maintainers |-> operator[p]] /\ operator' = [operator EXCEPT ![o] = r]
  BY DEF SetupTyped, Goes
<1>2. operator'[o] = r /\ \A p \in Maintainers \ {o} : operator'[p] = operator[p]
  BY <1>1
<1>3. operator' = [p \in Maintainers |-> operator'[p]]
  BY <1>1
<1> QED
  BY <1>2, <1>3 DEF CommandKeeps

LEMMA EndsMoves ==
    ASSUME SetupTyped, NEW o \in Maintainers, NEW outcome, Ends(o, outcome)
    PROVE  /\ CommandKeeps(o) /\ operator'[o].at = "over" /\ operator'[o].outcome = outcome
           /\ operator'[o].action = operator[o].action
<1> DEFINE r == [operator[o] EXCEPT !.at = "over", !.list = Unset, !.loaded = FALSE, !.outcome = outcome]
<1>1. Goes(o, r)
  BY DEF Ends
<1>2. CommandShaped(operator[o])
  BY DEF SetupTyped, CommandFits
<1>3. /\ CommandShaped(r) /\ r.alone = operator[o].alone /\ r.at = "over" /\ r.outcome = outcome
      /\ r.action = operator[o].action
  BY <1>2 DEF CommandShaped, CommandFields
<1> HIDE DEF r
<1> QED
  BY <1>1, <1>3, GoesMoves

(* a command that goes on keeps what it was told *)
LEMMA LabelMoves ==
    ASSUME SetupTyped, NEW o \in Maintainers, NEW label, Goes(o, [operator[o] EXCEPT !.at = label])
    PROVE  /\ CommandKeeps(o) /\ operator'[o].at = label /\ operator'[o].list = operator[o].list
           /\ operator'[o].action = operator[o].action /\ operator'[o].loaded = operator[o].loaded
<1> DEFINE r == [operator[o] EXCEPT !.at = label]
<1>1. CommandShaped(operator[o])
  BY DEF SetupTyped, CommandFits
<1>2. /\ CommandShaped(r) /\ r.alone = operator[o].alone /\ r.at = label /\ r.list = operator[o].list
      /\ r.action = operator[o].action /\ r.loaded = operator[o].loaded
  BY <1>1 DEF CommandShaped, CommandFields
<1> HIDE DEF r
<1> QED
  BY <1>2, GoesMoves DEF r

LEMMA AskMoves ==
    ASSUME SetupTyped, NEW o \in Maintainers, AskLoaded(o)
    PROVE  /\ CommandKeeps(o) /\ operator[o].at = "print" /\ operator'[o].at = "probe"
           /\ operator'[o].list = operator[o].list /\ operator'[o].action = operator[o].action
           /\ operator'[o].loaded <=> LoadedAs(operator[o].list.label) # {}
           /\ UNCHANGED <<plist, jobs>>
<1> DEFINE found == LoadedAs(operator[o].list.label) # {}
           r == [operator[o] EXCEPT !.loaded = found, !.at = "probe"]
<1>1. operator[o].at = "print" /\ Goes(o, r) /\ UNCHANGED <<plist, jobs>>
  BY DEF AskLoaded
<1>2. CommandShaped(operator[o])
  BY DEF SetupTyped, CommandFits
<1> HIDE DEF found
<1>3. /\ CommandShaped(r) /\ r.alone = operator[o].alone /\ r.at = "probe" /\ r.list = operator[o].list
      /\ r.action = operator[o].action /\ r.loaded = found
  BY <1>2 DEF CommandShaped, CommandFields
<1> HIDE DEF r
<1>4. CommandKeeps(o) /\ operator'[o] = r
  BY <1>1, <1>3, GoesMoves
<1> QED
  BY <1>1, <1>3, <1>4 DEF found

LEMMA ProbeMoves ==
    ASSUME SetupTyped, NEW o \in Maintainers, ProbeFirst(o)
    PROVE  /\ CommandKeeps(o) /\ operator[o].at = "probe" /\ UNCHANGED <<plist, jobs>>
           /\ operator'[o].action = operator[o].action
           /\ \/ /\ operator'[o].at = "over"
                 /\ \/ operator'[o].outcome = "running" /\ jobs # {}
                    \/ operator'[o].outcome \in {"stopped", "not_running"} /\ ~operator[o].loaded
                    \/ operator'[o].outcome \in {"starting_or_failing", "failed"}
              \/ /\ operator'[o].at = "operate" /\ operator'[o].list = operator[o].list
                 /\ operator'[o].loaded = operator[o].loaded
                 /\ operator[o].action = "stop" \/ operator[o].list.artifact \in Loadable
<1>1. operator[o].at = "probe" /\ UNCHANGED <<plist, jobs>>
  BY DEF ProbeFirst
<1>2. \/ MayAnswer(operator[o].list.socket) /\ Ends(o, "running")
      \/ Ends(o, "starting_or_failing") \/ Ends(o, "failed")
      \/ ~operator[o].loaded /\ (Ends(o, "stopped") \/ Ends(o, "not_running"))
      \/ /\ operator[o].action = "stop" \/ operator[o].list.artifact \in Loadable
         /\ Goes(o, [operator[o] EXCEPT !.at = "operate"])
  BY DEF ProbeFirst
<1>3. MayAnswer(operator[o].list.socket) => jobs # {}
  BY DEF MayAnswer
<1> QED
  BY <1>1, <1>2, <1>3, EndsMoves, LabelMoves

LEMMA OperateMoves ==
    ASSUME SetupTyped, NEW o \in Maintainers, Operate(o)
    PROVE  /\ CommandKeeps(o) /\ operator[o].at = "operate" /\ plist' = plist
           /\ operator'[o].action = operator[o].action
           /\ \/ /\ operator'[o].at = "over" /\ operator'[o].outcome \in {"failed", "stopped"}
                 /\ jobs' = jobs \ LoadedAs(operator[o].list.label)
              \/ operator'[o].at = "over" /\ operator'[o].outcome = "failed" /\ jobs' = jobs
              \/ /\ operator'[o].at = "poll" /\ operator'[o].list = operator[o].list
                 /\ \/ jobs' = jobs
                    \/ /\ operator[o].action # "stop" /\ jobs' = jobs \cup {plist}
                       /\ LoadedAs(plist.label) = {}
<1>1. operator[o].at = "operate" /\ plist' = plist
  BY DEF Operate
<1>2. \/ /\ Ends(o, "failed") \/ Ends(o, "stopped")
         /\ jobs' = jobs \ LoadedAs(operator[o].list.label)
      \/ Ends(o, "failed") /\ jobs' = jobs
      \/ Goes(o, [operator[o] EXCEPT !.at = "poll"]) /\ jobs' = jobs
      \/ /\ operator[o].action # "stop" /\ LoadedAs(plist.label) = {}
         /\ Goes(o, [operator[o] EXCEPT !.at = "poll"]) /\ jobs' = jobs \cup {plist}
  BY DEF Operate
<1> QED
  BY <1>1, <1>2, EndsMoves, LabelMoves

LEMMA PollMoves ==
    ASSUME SetupTyped, NEW o \in Maintainers, Poll(o)
    PROVE  /\ CommandKeeps(o) /\ operator[o].at = "poll" /\ UNCHANGED <<plist, jobs>>
           /\ operator'[o].action = operator[o].action /\ operator'[o].at = "over"
           /\ operator'[o].outcome = "not_ready" \/ (operator'[o].outcome = "started" /\ jobs # {})
<1>1. operator[o].at = "poll" /\ UNCHANGED <<plist, jobs>>
  BY DEF Poll
<1>2. (MayAnswer(operator[o].list.socket) /\ Ends(o, "started")) \/ Ends(o, "not_ready")
  BY DEF Poll
<1>3. MayAnswer(operator[o].list.socket) => jobs # {}
  BY DEF MayAnswer
<1> QED
  BY <1>1, <1>2, <1>3, EndsMoves

LEMMA SetsUpMoves ==
    ASSUME SetupTyped, NEW o \in Maintainers, EmptyList(o) \/ WriteList(o) \/ KillSetup(o)
    PROVE  /\ CommandKeeps(o) /\ operator[o].at \in {"empty", "write"} /\ jobs' = jobs
           /\ operator'[o].action = operator[o].action
           /\ \/ operator'[o].at = "write" /\ operator'[o].list = operator[o].list
              \/ operator'[o].at = "over" /\ operator'[o].outcome \in {"set_up", "killed"}
<1>1. operator[o].at \in {"empty", "write"} /\ jobs' = jobs
  BY DEF EmptyList, WriteList, KillSetup
<1>2. Goes(o, [operator[o] EXCEPT !.at = "write"]) \/ Ends(o, "set_up") \/ Ends(o, "killed")
  BY DEF EmptyList, WriteList, KillSetup
<1> QED
  BY <1>1, <1>2, EndsMoves, LabelMoves

(* what a command that others know nothing of keeps when one begins, or at the end  *)
(* of the login *)
Forgotten(p) == IF p \in UnderWay THEN [operator[p] EXCEPT !.alone = FALSE] ELSE AtRest

LEMMA ForgottenMoves ==
    ASSUME SetupTyped, NEW p \in Maintainers, operator'[p] = Forgotten(p)
    PROVE  /\ CommandFits(p)' /\ ~operator'[p].alone /\ (p \in UnderWay' <=> p \in UnderWay)
           /\ p \in UnderWay => operator'[p].action = operator[p].action /\ operator'[p].list = operator[p].list
<1>1. CommandFits(p) /\ CommandShaped(operator[p])
  BY DEF SetupTyped, CommandFits
<1>2. CASE p \in UnderWay
  <2> DEFINE r == [operator[p] EXCEPT !.alone = FALSE]
  <2>1. /\ CommandShaped(r) /\ ~r.alone /\ r.at = operator[p].at /\ r.action = operator[p].action
        /\ r.list = operator[p].list
    BY <1>1 DEF CommandShaped, CommandFields
  <2>2. operator'[p] = r
    BY <1>2 DEF Forgotten
  <2> HIDE DEF r
  <2> QED
    BY <1>1, <1>2, <2>1, <2>2 DEF CommandFits, UnderWay
<1>3. CASE p \notin UnderWay
  <2>1. CommandShaped(AtRest) /\ ~AtRest.alone /\ AtRest.at = "over"
    BY DEF CommandShaped, CommandFields, AtRest
  <2>2. operator'[p] = AtRest
    BY <1>3 DEF Forgotten
  <2> QED
    BY <1>3, <2>1, <2>2 DEF CommandFits, UnderWay
<1> QED
  BY <1>2, <1>3

LEMMA TakesMoves ==
    ASSUME NEW o \in Maintainers, NEW command, CommandShaped(command), Takes(o, command)
    PROVE  /\ operator' = [p \in Maintainers |-> operator'[p]]
           /\ \A p \in Maintainers \ {o} : operator'[p] = Forgotten(p)
           /\ CommandShaped(operator'[o]) /\ (operator'[o].alone => UnderWay = {})
           /\ operator'[o].at = command.at /\ operator'[o].action = command.action
           /\ operator'[o].list = command.list /\ operator'[o].outcome = command.outcome
<1> DEFINE nobody == UnderWay = {}
           r == [command EXCEPT !.alone = nobody]
<1>1. operator' = [p \in Maintainers |-> IF p = o THEN r ELSE Forgotten(p)]
  BY DEF Takes, Forgotten
<1>2. /\ operator' = [p \in Maintainers |-> operator'[p]]
      /\ \A p \in Maintainers \ {o} : operator'[p] = Forgotten(p)
      /\ operator'[o] = r
  BY <1>1
<1> HIDE DEF nobody
<1>3. /\ CommandShaped(r) /\ (r.alone => nobody) /\ r.at = command.at /\ r.action = command.action
      /\ r.list = command.list /\ r.outcome = command.outcome
  BY DEF CommandShaped, CommandFields
<1> HIDE DEF r
<1> QED
  BY <1>2, <1>3 DEF nobody

Begins(o) == BeginSetup(o) \/ \E action \in {"start", "stop", "reload", "status"} : BeginAction(o, action)

LEMMA BeginsMoves ==
    ASSUME NEW o \in Maintainers, Begins(o)
    PROVE  /\ o \notin UnderWay /\ UNCHANGED <<plist, jobs>>
           /\ operator' = [p \in Maintainers |-> operator'[p]]
           /\ \A p \in Maintainers \ {o} : operator'[p] = Forgotten(p)
           /\ CommandShaped(operator'[o]) /\ (operator'[o].alone => UnderWay = {})
           /\ operator'[o].outcome = "none"
           /\ \/ operator'[o].at = "over"
              \/ operator'[o].at = "empty" /\ operator'[o].action = "setup"
              \/ /\ operator'[o].at = "print" /\ operator'[o].action # "setup"
                 /\ operator'[o].list = plist
<1>1. CASE BeginSetup(o)
  <2>1. PICK told \in Configurations :
            Takes(o, [AtRest EXCEPT !.action = "setup", !.list = told,
                         !.at = IF told.artifact \in Loadable THEN "empty" ELSE "over"])
    BY Zenon, <1>1 DEF BeginSetup
  <2> DEFINE label == IF told.artifact \in Loadable THEN "empty" ELSE "over"
             r == [AtRest EXCEPT !.action = "setup", !.list = told, !.at = label]
  <2>2. label \in {"empty", "over"}
    OBVIOUS
  <2> HIDE DEF label
  <2>3. CommandShaped(r) /\ r.action = "setup" /\ r.at = label /\ r.outcome = "none"
    BY DEF CommandShaped, CommandFields, AtRest
  <2> HIDE DEF r
  <2>4. Takes(o, r)
    BY <2>1 DEF r, label
  <2>5. o \notin UnderWay /\ UNCHANGED <<plist, jobs>>
    BY <1>1 DEF BeginSetup
  <2> QED
    BY <2>2, <2>3, <2>4, <2>5, TakesMoves
<1>2. ASSUME NEW action \in {"start", "stop", "reload", "status"}, BeginAction(o, action)
      PROVE  /\ o \notin UnderWay /\ UNCHANGED <<plist, jobs>>
             /\ \E label \in {"print", "over"} :
                    Takes(o, [AtRest EXCEPT !.action = action, !.list = plist, !.at = label])
  BY <1>2 DEF BeginAction
<1>3. ASSUME NEW action \in {"start", "stop", "reload", "status"}, NEW label \in {"print", "over"},
             Takes(o, [AtRest EXCEPT !.action = action, !.list = plist, !.at = label])
      PROVE  /\ operator' = [p \in Maintainers |-> operator'[p]]
             /\ \A p \in Maintainers \ {o} : operator'[p] = Forgotten(p)
             /\ CommandShaped(operator'[o]) /\ (operator'[o].alone => UnderWay = {})
             /\ operator'[o].at = label /\ operator'[o].action = action
             /\ operator'[o].list = plist /\ operator'[o].outcome = "none"
  <2> DEFINE r == [AtRest EXCEPT !.action = action, !.list = plist, !.at = label]
  <2>1. CommandShaped(r) /\ r.action = action /\ r.at = label /\ r.list = plist /\ r.outcome = "none"
    BY DEF CommandShaped, CommandFields, AtRest
  <2> HIDE DEF r
  <2>2. Takes(o, r)
    BY <1>3 DEF r
  <2> QED
    BY <2>1, <2>2, TakesMoves
<1> QED
  BY <1>1, <1>2, <1>3 DEF Begins

-----------------------------------------------------------------------------
SetsUp(o) == EmptyList(o) \/ WriteList(o) \/ KillSetup(o)
Acts(o)   == AskLoaded(o) \/ ProbeFirst(o) \/ Operate(o) \/ Poll(o)

LEMMA SetupCases ==
    ASSUME [SetupNext]_setupVars
    PROVE  \/ History /\ \E o \in Maintainers : Begins(o) \/ SetsUp(o) \/ Acts(o)
           \/ History /\ LogOut
           \/ UNCHANGED <<plist, jobs, operator, disturbed>>
BY DEF SetupNext, setupVars, Begins, SetsUp, Acts

LEMMA HistoryTells ==
    ASSUME History, ~disturbed'
    PROVE  \/ jobs' = {} /\ UnderWay' = {}
           \/ /\ ~disturbed
              /\ plist' = plist \/ (jobs = {} /\ \A o \in UnderWay : operator[o].action = "setup")
BY DEF History

(* a command that moves *)
LEMMA CommandMoves ==
    ASSUME SetupTyped, NEW o \in Maintainers, SetsUp(o) \/ Acts(o)
    PROVE  /\ CommandKeeps(o) /\ o \in UnderWay /\ CommandFits(o)'
           /\ operator'[o].action = operator[o].action
<1>1. CommandFits(o)
  BY DEF SetupTyped
<1>2. CASE SetsUp(o)
  BY <1>1, <1>2, SetsUpMoves DEF SetsUp, CommandFits, UnderWay, CommandKeeps
<1>3. CASE AskLoaded(o)
  BY <1>1, <1>3, AskMoves DEF CommandFits, UnderWay, CommandKeeps
<1>4. CASE ProbeFirst(o)
  BY <1>1, <1>4, ProbeMoves DEF CommandFits, UnderWay, CommandKeeps
<1>5. CASE Operate(o)
  BY <1>1, <1>5, OperateMoves DEF CommandFits, UnderWay, CommandKeeps
<1>6. CASE Poll(o)
  BY <1>1, <1>6, PollMoves DEF CommandFits, UnderWay, CommandKeeps
<1> QED
  BY <1>2, <1>3, <1>4, <1>5, <1>6 DEF Acts

LEMMA SetupTypedStep ==
    ASSUME SetupTyped, [SetupNext]_setupVars
    PROVE  SetupTyped'
<1>1. ASSUME NEW o \in Maintainers, Begins(o) PROVE SetupTyped'
  <2>1. CommandFits(o)'
    BY <1>1, BeginsMoves DEF CommandFits, UnderWay
  <2>2. \A p \in Maintainers \ {o} : CommandFits(p)'
    BY <1>1, BeginsMoves, ForgottenMoves
  <2>3. operator' = [p \in Maintainers |-> operator'[p]]
    BY <1>1, BeginsMoves
  <2> QED
    BY <2>1, <2>2, <2>3 DEF SetupTyped
<1>2. ASSUME NEW o \in Maintainers, SetsUp(o) \/ Acts(o) PROVE SetupTyped'
  <2>1. CommandKeeps(o) /\ CommandFits(o)'
    BY <1>2, CommandMoves
  <2>2. \A p \in Maintainers \ {o} : CommandFits(p)'
    BY <2>1 DEF SetupTyped, CommandFits, CommandKeeps, UnderWay
  <2> QED
    BY <2>1, <2>2 DEF SetupTyped, CommandKeeps
<1>3. CASE LogOut
  <2>1. operator' = [o \in Maintainers |-> Forgotten(o)]
    BY <1>3 DEF LogOut, Forgotten
  <2>2. operator' = [o \in Maintainers |-> operator'[o]] /\ \A o \in Maintainers : operator'[o] = Forgotten(o)
    BY <2>1
  <2> QED
    BY <2>2, ForgottenMoves DEF SetupTyped
<1>4. CASE UNCHANGED <<plist, jobs, operator, disturbed>>
  BY <1>4 DEF SetupTyped, CommandFits, UnderWay
<1> QED
  BY <1>1, <1>2, <1>3, <1>4, SetupCases

LEMMA AloneStep ==
    ASSUME SetupTyped, AloneInv, [SetupNext]_setupVars
    PROVE  AloneInv'
<1>1. ASSUME NEW o \in Maintainers, Begins(o) PROVE AloneInv'
  <2>1. \A p \in Maintainers \ {o} : ~operator'[p].alone /\ (p \in UnderWay' <=> p \in UnderWay)
    BY <1>1, BeginsMoves, ForgottenMoves
  <2>2. operator'[o].alone => UnderWay' \subseteq {o}
    BY <1>1, <2>1, BeginsMoves DEF UnderWay
  <2> QED
    BY <2>1, <2>2 DEF AloneInv
<1>2. ASSUME NEW o \in Maintainers, SetsUp(o) \/ Acts(o) PROVE AloneInv'
  <2>1. CommandKeeps(o) /\ o \in UnderWay
    BY <1>2, CommandMoves
  <2>2. UnderWay' \subseteq UnderWay /\ \A p \in Maintainers : operator'[p].alone = operator[p].alone
    BY <2>1 DEF CommandKeeps, UnderWay
  <2> QED
    BY <2>2 DEF AloneInv
<1>3. CASE LogOut
  <2>1. \A o \in Maintainers : operator'[o] = Forgotten(o)
    BY <1>3 DEF LogOut, Forgotten
  <2> QED
    BY <2>1, ForgottenMoves DEF AloneInv
<1>4. CASE UNCHANGED <<plist, jobs, operator, disturbed>>
  BY <1>4 DEF AloneInv, UnderWay
<1> QED
  BY <1>1, <1>2, <1>3, <1>4, SetupCases

-----------------------------------------------------------------------------
(* of the other commands nothing is said while one is under way *)
LEMMA OthersSilent ==
    ASSUME AloneInv, NEW o \in UnderWay, CommandKeeps(o), NEW p \in Maintainers, p # o
    PROVE  FoundHolds(p)' /\ SaidHolds(p)'
<1>1. ~operator[p].alone /\ operator'[p] = operator[p]
  BY DEF AloneInv, CommandKeeps, UnderWay
<1> QED
  BY <1>1 DEF FoundHolds, SaidHolds

LEMMA SetsUpRuns ==
    ASSUME SetupInv, NEW o \in Maintainers, SetsUp(o), History
    PROVE  RunsAsSetUp'
<1>1. /\ CommandKeeps(o) /\ o \in UnderWay /\ jobs' = jobs /\ SetupTyped /\ CommandFits(o) /\ AloneInv
      /\ operator'[o].at \in {"write", "over"} /\ operator'[o].action = operator[o].action
      /\ operator'[o].at = "over" => operator'[o].outcome \in {"set_up", "killed"}
      /\ operator[o].at \in {"empty", "write"}
  BY CommandMoves, SetsUpMoves DEF SetsUp, SetupInv, SetupTyped
<1>2. SUFFICES ASSUME ~disturbed' PROVE RunsAsSetUp'
  BY DEF RunsAsSetUp
<1>3. FoundHolds(o)' /\ SaidHolds(o)'
  BY <1>1 DEF FoundHolds, SaidHolds
<1>4. \A p \in Maintainers : FoundHolds(p)' /\ SaidHolds(p)'
  BY <1>1, <1>3, OthersSilent
<1>5. CASE jobs' = {} /\ UnderWay' = {}
  BY <1>4, <1>5 DEF RunsAsSetUp, ListHolds
<1>6. CASE /\ ~disturbed
           /\ plist' = plist \/ (jobs = {} /\ \A p \in UnderWay : operator[p].action = "setup")
  <2>1. jobs' \subseteq {plist'} /\ \A j \in jobs' : j.artifact \in Loadable
    BY <1>1, <1>6 DEF SetupInv, RunsAsSetUp
  <2>2. ASSUME NEW p \in UnderWay', operator'[p].action # "setup" PROVE operator'[p].list = plist'
    <3>1. p # o /\ operator'[p] = operator[p] /\ p \in UnderWay
      BY <1>1, <2>2 DEF CommandFits, CommandKeeps, UnderWay
    <3> QED
      BY <1>6, <2>2, <3>1 DEF SetupInv, RunsAsSetUp, ListHolds
  <2> QED
    BY <1>4, <2>1, <2>2 DEF RunsAsSetUp, ListHolds
<1> QED
  BY <1>2, <1>5, <1>6, HistoryTells

(* the jobs after a step of another command, and what it may say of them *)
LEMMA ActsJobs ==
    ASSUME SetupInv, NEW o \in Maintainers, Acts(o), ~disturbed
    PROVE  /\ jobs' \subseteq {plist} /\ \A j \in jobs' : j.artifact \in Loadable
           /\ FoundHolds(o)' /\ SaidHolds(o)'
           /\ o \in UnderWay' => operator'[o].list = operator[o].list
<1>1. /\ CommandKeeps(o) /\ o \in UnderWay /\ SetupTyped /\ CommandFits(o)
      /\ jobs \subseteq {plist} /\ (\A j \in jobs : j.artifact \in Loadable)
      /\ operator[o].action # "setup" => operator[o].list = plist
      /\ FoundHolds(o) /\ operator'[o].alone = operator[o].alone
  BY CommandMoves DEF SetupInv, SetupTyped, RunsAsSetUp, ListHolds, CommandKeeps
<1>2. CASE AskLoaded(o)
  <2>1. operator[o].action # "setup" /\ operator[o].list = plist
    BY <1>1, <1>2, AskMoves DEF CommandFits
  <2>2. ~operator'[o].loaded => jobs' = {}
    BY <1>1, <1>2, <2>1, AskMoves DEF LoadedAs
  <2> QED
    BY <1>1, <1>2, <2>2, AskMoves DEF FoundHolds, SaidHolds, UnderWay
<1>3. CASE ProbeFirst(o)
  <2>1. operator[o].at = "probe" /\ UNCHANGED <<plist, jobs>>
    BY <1>1, <1>3, ProbeMoves
  <2>2. SaidHolds(o)'
    BY <1>1, <1>3, <2>1, ProbeMoves DEF FoundHolds, SaidHolds
  <2>3. FoundHolds(o)'
    BY <1>1, <1>3, <2>1, ProbeMoves DEF FoundHolds
  <2>4. o \in UnderWay' => operator'[o].list = operator[o].list
    BY <1>1, <1>3, ProbeMoves DEF UnderWay
  <2> QED
    BY <1>1, <2>1, <2>2, <2>3, <2>4
<1>4. CASE Operate(o)
  <2>1. operator[o].at = "operate" /\ plist' = plist /\ operator[o].action # "setup" /\ operator[o].list = plist
    BY <1>1, <1>4, OperateMoves DEF CommandFits
  <2>2. LoadedAs(operator[o].list.label) = jobs
    BY <1>1, <2>1 DEF LoadedAs
  <2>3. /\ \/ jobs' = {} /\ operator'[o].at = "over" /\ operator'[o].outcome \in {"failed", "stopped"}
           \/ jobs' = jobs /\ operator'[o].at = "over" /\ operator'[o].outcome = "failed"
           \/ /\ operator'[o].at = "poll" /\ operator'[o].list = operator[o].list
              /\ jobs' = jobs \/ (operator[o].action # "stop" /\ jobs' = jobs \cup {plist})
    BY <1>1, <1>4, <2>2, OperateMoves
  <2>4. jobs' \subseteq {plist} /\ \A j \in jobs' : j.artifact \in Loadable
    BY <1>1, <2>1, <2>3 DEF CommandFits
  <2> QED
    BY <2>3, <2>4 DEF FoundHolds, SaidHolds, UnderWay
<1>5. CASE Poll(o)
  BY <1>1, <1>5, PollMoves DEF FoundHolds, SaidHolds, UnderWay
<1> QED
  BY <1>2, <1>3, <1>4, <1>5 DEF Acts

LEMMA ActsRuns ==
    ASSUME SetupInv, NEW o \in Maintainers, Acts(o), History
    PROVE  RunsAsSetUp'
<1>1. /\ CommandKeeps(o) /\ o \in UnderWay /\ SetupTyped /\ AloneInv /\ plist' = plist
      /\ operator'[o].action = operator[o].action
  BY CommandMoves, AskMoves, ProbeMoves, OperateMoves, PollMoves DEF Acts, SetupInv
<1>2. SUFFICES ASSUME ~disturbed' PROVE RunsAsSetUp'
  BY DEF RunsAsSetUp
<1>3. \A p \in Maintainers \ {o} : FoundHolds(p)' /\ SaidHolds(p)'
  BY <1>1, OthersSilent
<1>4. CASE ~disturbed
  <2>1. /\ jobs' \subseteq {plist'} /\ \A j \in jobs' : j.artifact \in Loadable
        /\ FoundHolds(o)' /\ SaidHolds(o)'
        /\ o \in UnderWay' => operator'[o].list = operator[o].list
    BY <1>1, <1>4, ActsJobs
  <2>2. ASSUME NEW p \in UnderWay', operator'[p].action # "setup" PROVE operator'[p].list = plist'
    <3>1. p \in UnderWay /\ operator'[p].list = operator[p].list /\ operator'[p].action = operator[p].action
      BY <1>1, <2>1, <2>2 DEF CommandKeeps, UnderWay
    <3> QED
      BY <1>1, <1>4, <2>2, <3>1 DEF SetupInv, RunsAsSetUp, ListHolds
  <2> QED
    BY <1>3, <2>1, <2>2 DEF RunsAsSetUp, ListHolds
<1>5. CASE jobs' = {} /\ UnderWay' = {}
  <2>1. FoundHolds(o)'
    BY <1>5 DEF FoundHolds
  <2>2. operator'[o].at = "over" /\ operator'[o].outcome \in {"started", "running"} => jobs' # {}
    BY <1>1, AskMoves, ProbeMoves, OperateMoves, PollMoves DEF Acts
  <2>3. SaidHolds(o)'
    BY <1>5, <2>2 DEF SaidHolds
  <2> QED
    BY <1>3, <1>5, <2>1, <2>3 DEF RunsAsSetUp, ListHolds
<1> QED
  BY <1>2, <1>4, <1>5, HistoryTells

LEMMA RunsStep ==
    ASSUME SetupInv, [SetupNext]_setupVars
    PROVE  RunsAsSetUp'
<1>1. SetupTyped /\ AloneInv
  BY DEF SetupInv
<1>2. ASSUME NEW o \in Maintainers, Begins(o), History PROVE RunsAsSetUp'
  <2>1. SUFFICES ASSUME ~disturbed' PROVE RunsAsSetUp'
    BY DEF RunsAsSetUp
  <2>2. \A p \in Maintainers \ {o} : FoundHolds(p)' /\ SaidHolds(p)'
    BY <1>1, <1>2, BeginsMoves, ForgottenMoves DEF FoundHolds, SaidHolds
  <2>3. FoundHolds(o)' /\ SaidHolds(o)'
    BY <1>2, BeginsMoves DEF FoundHolds, SaidHolds
  <2>4. CASE jobs' = {} /\ UnderWay' = {}
    BY <2>2, <2>3, <2>4 DEF RunsAsSetUp, ListHolds
  <2>5. CASE ~disturbed
    <3>1. UNCHANGED <<plist, jobs>>
      BY <1>2, BeginsMoves
    <3>2. ASSUME NEW p \in UnderWay', operator'[p].action # "setup" PROVE operator'[p].list = plist
      <4>1. CASE p = o
        BY <1>2, <3>2, <4>1, BeginsMoves DEF UnderWay
      <4>2. CASE p # o
        <5>1. /\ p \in UnderWay /\ operator'[p].list = operator[p].list
              /\ operator'[p].action = operator[p].action
          BY <1>1, <1>2, <3>2, <4>2, BeginsMoves, ForgottenMoves DEF UnderWay
        <5> QED
          BY <2>5, <3>2, <5>1 DEF SetupInv, RunsAsSetUp, ListHolds
      <4> QED
        BY <4>1, <4>2
    <3> QED
      BY <2>2, <2>3, <2>5, <3>1, <3>2 DEF SetupInv, RunsAsSetUp, ListHolds
  <2> QED
    BY <1>2, <2>1, <2>4, <2>5, HistoryTells
<1>3. CASE LogOut /\ History
  <2>1. /\ jobs' = {} /\ plist' = plist
        /\ \A p \in Maintainers : operator'[p] = Forgotten(p)
    BY <1>3 DEF LogOut, Forgotten
  <2>2. \A p \in Maintainers :
            /\ FoundHolds(p)' /\ SaidHolds(p)' /\ (p \in UnderWay' <=> p \in UnderWay)
            /\ p \in UnderWay => operator'[p].action = operator[p].action /\ operator'[p].list = operator[p].list
    BY <1>1, <2>1, ForgottenMoves DEF FoundHolds, SaidHolds
  <2>3. ~disturbed' /\ UnderWay' # {} => ~disturbed
    BY <1>3, HistoryTells
  <2>4. ~disturbed' => ListHolds'
    BY <2>1, <2>2, <2>3 DEF SetupInv, RunsAsSetUp, ListHolds, UnderWay
  <2> QED
    BY <2>1, <2>2, <2>4 DEF RunsAsSetUp
<1>4. CASE UNCHANGED <<plist, jobs, operator, disturbed>>
  BY <1>4 DEF SetupInv, RunsAsSetUp, ListHolds, FoundHolds, SaidHolds, UnderWay
<1> QED
  BY <1>2, <1>3, <1>4, SetupCases, SetsUpRuns, ActsRuns

-----------------------------------------------------------------------------
LEMMA SetupStarts ==
    ASSUME SetupInit
    PROVE  SetupInv
<1>1. jobs = {} /\ operator = [o \in Maintainers |-> AtRest]
  BY DEF SetupInit
<1>2. CommandShaped(AtRest) /\ AtRest.at = "over" /\ ~AtRest.alone
  BY DEF CommandShaped, CommandFields, AtRest
<1>3. operator = [o \in Maintainers |-> operator[o]] /\ \A o \in Maintainers : operator[o] = AtRest
  BY <1>1
<1>4. UnderWay = {}
  BY <1>2, <1>3 DEF UnderWay
<1> QED
  BY <1>1, <1>2, <1>3, <1>4
  DEF SetupInv, SetupTyped, CommandFits, AloneInv, RunsAsSetUp, ListHolds, FoundHolds, SaidHolds

LEMMA SetupFamily ==
    /\ Init => SetupInit
    /\ [Next]_commandVars => [SetupNext]_setupVars
<1>1. Init => SetupInit
  BY DEF Init, SetupIdle
<1>2. [Next]_commandVars => [SetupNext]_setupVars
  BY DEF Next, commandVars
<1> QED
  BY <1>1, <1>2

(* The property list, the jobs that launchd has loaded and the commands between     *)
(* them, whatever setups and commands overlap.                                     *)
THEOREM SetupInvariant == Spec => []SetupInv
<1>1. Init => SetupInv
  BY SetupFamily, SetupStarts
<1>2. SetupInv /\ [Next]_commandVars => SetupInv'
  BY SetupFamily, SetupTypedStep, AloneStep, RunsStep DEF SetupInv
<1> QED
  BY <1>1, <1>2, PTL DEF Spec

(* Unless somebody sets the service up anew beside it, one service runs at most,    *)
(* the one that was set up, with an artifact that loads; and what a command said    *)
(* while nothing else happened is so.                                              *)
THEOREM OneServiceRuns == Spec => []OneServiceAsSetUp
<1>1. SetupInv => OneServiceAsSetUp
  BY DEF SetupInv, RunsAsSetUp, SaidHolds, OneServiceAsSetUp, UnderWay
<1> QED
  BY <1>1, SetupInvariant, PTL

-----------------------------------------------------------------------------
(* The export: a forest over the datasets                                       *)

(* the sets of nodes that no link of the forest leaves or enters *)
Uncrossed(f, N, S) == \A n \in N : n \in S <=> f[n] \in S

(* Wherever one starts, the links lead to a root: no set of nodes links only into *)
(* itself without one.                                                            *)
Grounded(f, N) == \A T \in SUBSET N : T # {} => \E n \in T : f[n] = n \/ f[n] \notin T

Roots(f, N) == {n \in N : f[n] = n}
Trees(f, N) == {part \in (SUBSET N) \ {{}} :
    Uncrossed(f, N, part) /\ ~\E less \in (SUBSET part) \ {{}, part} : Uncrossed(f, N, less)}

(* A node that becomes its grandparent's child stays in its tree. *)
LEMMA Halved ==
    ASSUME NEW N, NEW f \in [N -> N], NEW w \in N, f[w] # w,
           NEW g, g = [f EXCEPT ![w] = f[f[w]]]
    PROVE  /\ g \in [N -> N]
           /\ \A r \in N : f[r] = r => g[r] = r
           /\ \A S : Uncrossed(g, N, S) <=> Uncrossed(f, N, S)
           /\ Grounded(f, N) => Grounded(g, N)
<1>1. /\ g \in [N -> N] /\ g[w] = f[f[w]] /\ \A n \in N : n # w => g[n] = f[n]
      /\ f[w] \in N /\ f[f[w]] \in N
  OBVIOUS
<1>2. g[f[w]] = f[f[w]]
  BY <1>1
<1>3. ASSUME NEW S
      PROVE  Uncrossed(g, N, S) <=> Uncrossed(f, N, S)
  BY <1>1, <1>2 DEF Uncrossed
<1>4. ASSUME Grounded(f, N), NEW T \in SUBSET N, T # {},
             \A n \in T : g[n] # n /\ g[n] \in T
      PROVE  FALSE
  <2>1. CASE w \notin T
    <3>1. \A n \in T : f[n] # n /\ f[n] \in T
      BY <1>1, <1>4, <2>1
    <3> QED
      BY <1>4, <3>1 DEF Grounded
  <2>2. CASE w \in T
    <3> DEFINE U == T \cup {f[w]}
    <3>1. f[f[w]] \in T /\ f[f[w]] # f[w]
      BY <1>1, <1>2, <1>4, <2>2
    <3>2. \A n \in U : f[n] # n /\ f[n] \in U
      BY <1>1, <1>4, <3>1
    <3>3. U \in SUBSET N /\ U # {}
      BY <1>1
    <3> HIDE DEF U
    <3> QED
      BY <1>4, <3>2, <3>3 DEF Grounded
  <2> QED
    BY <2>1, <2>2
<1>5. Grounded(f, N) => Grounded(g, N)
  BY <1>4 DEF Grounded
<1> QED
  BY <1>1, <1>3, <1>5

(* Two trees that meet at their roots are one. *)
LEMMA Met ==
    ASSUME NEW N, NEW f \in [N -> N], NEW w \in N, NEW r \in N, f[w] = w, f[r] = r,
           NEW g, g = [f EXCEPT ![w] = r]
    PROVE  /\ g \in [N -> N]
           /\ \A S : Uncrossed(g, N, S) <=> Uncrossed(f, N, S) /\ (w \in S <=> r \in S)
           /\ Grounded(f, N) => Grounded(g, N)
<1>1. g \in [N -> N] /\ g[w] = r /\ g[r] = r /\ \A n \in N : n # w => g[n] = f[n]
  OBVIOUS
<1>2. ASSUME NEW S
      PROVE  Uncrossed(g, N, S) <=> Uncrossed(f, N, S) /\ (w \in S <=> r \in S)
  BY <1>1 DEF Uncrossed
<1>3. ASSUME Grounded(f, N), NEW T \in SUBSET N, T # {},
             \A n \in T : g[n] # n /\ g[n] \in T
      PROVE  FALSE
  <2>1. w \notin T
    BY <1>1, <1>3
  <2>2. \A n \in T : f[n] # n /\ f[n] \in T
    BY <1>1, <1>3, <2>1
  <2> QED
    BY <1>3, <2>2 DEF Grounded
<1>4. Grounded(f, N) => Grounded(g, N)
  BY <1>3 DEF Grounded
<1> QED
  BY <1>1, <1>2, <1>4

(* There are as many trees as roots. *)
LEMMA OneRootEach ==
    ASSUME NEW N, IsFiniteSet(N), NEW f \in [N -> N], Grounded(f, N)
    PROVE  Cardinality(Roots(f, N)) = Cardinality(Trees(f, N))
<1> DEFINE wholes(r) == {S \in SUBSET N : r \in S /\ Uncrossed(f, N, S)}
           tree(r) == {n \in N : \A S \in SUBSET N : r \in S /\ Uncrossed(f, N, S) => n \in S}
           rooted == [r \in Roots(f, N) |-> tree(r)]
<1>1. \A S \in SUBSET N : Uncrossed(f, N, S) => Uncrossed(f, N, N \ S)
  BY DEF Uncrossed
<1>2. ASSUME NEW r \in N
      PROVE  r \in tree(r) /\ tree(r) \in SUBSET N /\ Uncrossed(f, N, tree(r))
  <2>1. ASSUME NEW n \in N
        PROVE  n \in tree(r) <=> f[n] \in tree(r)
    <3>1. f[n] \in N /\ \A S \in SUBSET N : Uncrossed(f, N, S) => (n \in S <=> f[n] \in S)
      BY DEF Uncrossed
    <3> QED
      BY <3>1
  <2> QED
    BY <2>1 DEF Uncrossed
<1>3. ASSUME NEW r \in N, NEW less \in SUBSET tree(r), less # {}, Uncrossed(f, N, less)
      PROVE  less = tree(r)
  <2>1. CASE r \in less
    BY <1>3, <2>1
  <2>2. CASE r \notin less
    <3>1. N \ less \in SUBSET N /\ r \in N \ less /\ Uncrossed(f, N, N \ less)
      BY <1>1, <1>3, <2>2
    <3>2. \A n \in tree(r) : n \in N \ less
      BY <3>1
    <3> QED
      BY <1>3, <3>2
  <2> QED
    BY <2>1, <2>2
<1>4. ASSUME NEW r \in N
      PROVE  tree(r) \in Trees(f, N)
  BY <1>2, <1>3 DEF Trees
<1>5. ASSUME NEW r \in Roots(f, N), NEW s \in Roots(f, N), r # s
      PROVE  s \notin tree(r)
  <2> DEFINE below(X) == \A n \in N : f[n] \in X => n \in X
             down == {n \in N : \A X \in SUBSET N : r \in X /\ below(X) => n \in X}
  <2>1. r \in N /\ s \in N /\ f[r] = r /\ f[s] = s
    BY DEF Roots
  <2>2. r \in down /\ below(down)
    BY <2>1
  <2>3. ASSUME NEW n \in down, f[n] \notin down
        PROVE  FALSE
    <3>1. n # r
      BY <2>1, <2>2, <2>3
    <3>2. below(down \ {n})
      BY <2>2, <2>3
    <3>3. down \ {n} \in SUBSET N /\ r \in down \ {n}
      BY <2>2, <3>1
    <3> QED
      BY <3>2, <3>3
  <2>4. s \notin down
    <3>1. below(N \ {s})
      BY <2>1
    <3> QED
      BY <1>5, <2>1, <3>1
  <2>5. Uncrossed(f, N, down)
    BY <2>2, <2>3 DEF Uncrossed
  <2>6. down \in SUBSET N
    OBVIOUS
  <2> HIDE DEF down
  <2> QED
    BY <2>2, <2>4, <2>5, <2>6
<1>6. ASSUME NEW part \in Trees(f, N)
      PROVE  \E r \in Roots(f, N) : rooted[r] = part
  <2>1. part \in SUBSET N /\ part # {} /\ Uncrossed(f, N, part)
        /\ \A less \in SUBSET part : less # {} /\ Uncrossed(f, N, less) => less = part
    BY DEF Trees
  <2>2. PICK r \in part : f[r] = r \/ f[r] \notin part
    BY <2>1 DEF Grounded
  <2>3. r \in N /\ f[r] = r
    BY <2>1, <2>2 DEF Uncrossed
  <2>4. tree(r) \in SUBSET part
    BY <2>1, <2>3
  <2>5. tree(r) = part
    BY <1>2, <2>1, <2>3, <2>4
  <2> QED
    BY <2>3, <2>5 DEF Roots
<1>7. rooted \in [Roots(f, N) -> Trees(f, N)]
  BY <1>4 DEF Roots
<1>8. \A r, s \in Roots(f, N) : rooted[r] = rooted[s] => r = s
  <2> TAKE r, s \in Roots(f, N)
  <2>1. s \in tree(s)
    BY <1>2 DEF Roots
  <2> QED
    BY <1>5, <2>1
<1> HIDE DEF rooted
<1>9. rooted \in Bijection(Roots(f, N), Trees(f, N))
  BY <1>6, <1>7, <1>8 DEF Bijection, Injection, IsInjective, Surjection
<1>10. IsFiniteSet(Roots(f, N))
  <2>1. Roots(f, N) \in SUBSET N
    BY DEF Roots
  <2> QED
    BY <2>1, FS_Subset
<1> QED
  BY <1>9, <1>10, FS_Bijection DEF ExistsBijection

-----------------------------------------------------------------------------
(* The export: the edges of a document                                          *)

Inside     == export.doc.datasets
Pairs    == Inside \X DOMAIN export.doc.called
TreeOf(S) == Uncrossed(export.parent, Inside, S)

ExportFields ==
    export = [at |-> export.at, doc |-> export.doc, left |-> export.left, parent |-> export.parent,
              walk |-> export.walk, root |-> export.root, count |-> export.count]

(* An edge with both ends in the document joins them. *)
Fits(edge, S) == edge[2] \in Inside => (edge[1] \in S <=> edge[2] \in S)

(* What is apart in the document is so in the forest and for the edges left. *)
ForestTells == \A S \in SUBSET Inside :
    Apart(export.doc, S) <=> TreeOf(S) /\ \A i \in DOMAIN export.left : Fits(export.left[i], S)

(* While an edge is joined, its end is in the tree of the node that the search    *)
(* has got to, or has found as root; then so is its start.                        *)
SearchTells ==
    LET edge == Head(export.left) IN
    /\ export.at \in {"end", "start"} => export.left # <<>> /\ edge[2] \in Inside /\ export.walk \in Inside
    /\ export.at = "end" =>
           \A S \in SUBSET Inside : TreeOf(S) => (export.walk \in S <=> edge[2] \in S)
    /\ export.at = "start" =>
           /\ export.root \in Inside /\ export.parent[export.root] = export.root
           /\ \A S \in SUBSET Inside : TreeOf(S) => (export.root \in S <=> edge[2] \in S)
           /\ \A S \in SUBSET Inside : TreeOf(S) => (export.walk \in S <=> edge[1] \in S)

ExportTyped ==
    /\ ExportFields
    /\ export.doc \in Exported
    /\ export.at \in {"take", "end", "start", "over"}
    /\ export.left \in Seq(Pairs)
    /\ export.parent \in [Inside -> Inside]

CountTells == export.at = "over" => export.left = <<>> /\ export.count = Cardinality(Roots(export.parent, Inside))

ExportUnderWay ==
    ExportTyped /\ Grounded(export.parent, Inside) /\ ForestTells /\ SearchTells /\ CountTells
ExportInv == ExportIdle \/ ExportUnderWay

(* No edge of the document leaves a set: of every edge both ends or none are in it. *)
LEMMA EdgesApart ==
    ASSUME export.doc \in Exported, NEW S \in SUBSET Inside
    PROVE  Apart(export.doc, S) <=> \A i \in DOMAIN export.doc.edges : Fits(export.doc.edges[i], S)
<1> DEFINE edges == export.doc.edges
<1>1. edges \in Seq(Pairs)
  BY ExportAssumption DEF Pairs, Inside
<1>2. ASSUME NEW i \in DOMAIN edges
      PROVE  (LET ends == ToSet(edges[i]) IN ends \subseteq Inside => ends \subseteq S \/ ends \cap S = {})
                 <=> Fits(edges[i], S)
  <2>1. edges[i] = <<edges[i][1], edges[i][2]>> /\ edges[i][1] \in Inside
    <3>1. edges[i] \in Pairs
      BY <1>1
    <3> QED
      BY <3>1 DEF Pairs
  <2>2. ToSet(edges[i]) = {edges[i][1], edges[i][2]}
    <3> DEFINE a == edges[i][1]
               b == edges[i][2]
    <3>1. ToSet(<<a, b>>) = {a, b}
      BY DEF ToSet
    <3> HIDE DEF a, b
    <3> QED
      BY <2>1, <3>1 DEF a, b
  <2> QED
    BY <2>1, <2>2 DEF Fits
<1> QED
  BY <1>2 DEF Apart, Inside

(* At first every dataset is a tree, and all edges are left. *)
LEMMA ExportStarts ==
    ASSUME ExportInit
    PROVE  ExportUnderWay
<1>1. PICK doc \in Exported : export = [NoExport EXCEPT !.at = "take", !.doc = doc, !.left = doc.edges,
                                                        !.parent = [n \in doc.datasets |-> n]]
  BY DEF ExportInit
<1>2. /\ export.at = "take" /\ export.doc = doc /\ export.left = doc.edges
      /\ export.parent = [n \in doc.datasets |-> n] /\ ExportFields
  BY <1>1 DEF NoExport, ExportFields
<1>3. Inside = doc.datasets /\ doc.edges \in Seq(Pairs)
  BY <1>2, ExportAssumption DEF Inside, Pairs
<1>4. Grounded(export.parent, Inside) /\ \A S : TreeOf(S)
  BY <1>2, <1>3 DEF Grounded, TreeOf, Uncrossed
<1>5. ForestTells
  BY <1>2, <1>4, EdgesApart DEF ForestTells
<1> QED
  BY <1>2, <1>3, <1>4, <1>5 DEF ExportUnderWay, ExportTyped, SearchTells, CountTells

(* what a step leaves as it is *)
LEMMA ExportDocument ==
    ASSUME ExportUnderWay, ExportNext
    PROVE  /\ export'.doc = export.doc /\ Inside' = Inside /\ Pairs' = Pairs /\ ExportFields'
           /\ \A e, S : Fits(e, S)' <=> Fits(e, S)
           /\ \A S : Apart(export'.doc, S) <=> Apart(export.doc, S)
           /\ export.at # "over"
<1>1. export'.doc = export.doc /\ ExportFields' /\ export.at # "over"
  BY DEF ExportUnderWay, ExportTyped, ExportFields, ExportNext, TakeEdge, Climb, Turn, Meet, Count
<1>2. Inside' = Inside
  BY <1>1 DEF Inside
<1> QED
  BY <1>1, <1>2 DEF Pairs, Fits

(* An edge that leads out of the document joins nothing. *)
LEMMA TakesEdge ==
    ASSUME ExportUnderWay, TakeEdge
    PROVE  ExportUnderWay'
<1> DEFINE edge == Head(export.left)
<1>1. /\ export'.doc = export.doc /\ Inside' = Inside /\ Pairs' = Pairs /\ ExportFields'
      /\ \A e, S : Fits(e, S)' <=> Fits(e, S)
      /\ \A S : Apart(export'.doc, S) <=> Apart(export.doc, S)
  BY ExportDocument DEF ExportNext
<1>2. ExportFields /\ export.left \in Seq(Pairs) /\ export.left # <<>> /\ export.at = "take"
  BY DEF TakeEdge, ExportUnderWay, ExportTyped
<1>3. export'.parent = export.parent /\ \A S : TreeOf(S)' <=> TreeOf(S)
  BY <1>1, <1>2 DEF TakeEdge, ExportFields, TreeOf
<1>4. CASE edge[2] \in Inside
  <2>1. export'.at = "end" /\ export'.walk = edge[2] /\ export'.left = export.left
    BY <1>2, <1>4 DEF TakeEdge, ExportFields, Inside
  <2> QED
    BY <1>1, <1>2, <1>3, <1>4, <2>1
    DEF ExportUnderWay, ExportTyped, ForestTells, SearchTells, CountTells
<1>5. CASE edge[2] \notin Inside
  <2>1. export'.at = "take" /\ export'.left = Tail(export.left)
    BY <1>2, <1>5 DEF TakeEdge, ExportFields, Inside
  <2>2. /\ Tail(export.left) \in Seq(Pairs)
        /\ \A i \in DOMAIN Tail(export.left) : Tail(export.left)[i] = export.left[i + 1] /\ i + 1 \in DOMAIN export.left
        /\ \A i \in DOMAIN export.left : i = 1 \/ (i - 1 \in DOMAIN Tail(export.left) /\ export.left[i] = Tail(export.left)[i - 1])
        /\ edge = export.left[1]
    BY <1>2
  <2>3. \A S : (\A i \in DOMAIN export.left : Fits(export.left[i], S))
                   <=> \A i \in DOMAIN Tail(export.left) : Fits(Tail(export.left)[i], S)
    <3> TAKE S
    <3>1. Fits(edge, S)
      BY <1>5 DEF Fits
    <3> HIDE DEF edge
    <3> QED
      BY <2>2, <3>1
  <2>4. ForestTells'
    BY <1>1, <1>3, <2>1, <2>3 DEF ExportUnderWay, ForestTells
  <2> QED
    BY <1>1, <1>3, <2>1, <2>2, <2>4
    DEF ExportUnderWay, ExportTyped, SearchTells, CountTells
<1> QED
  BY <1>4, <1>5

(* A step towards the root leaves the trees as they are. *)
LEMMA Climbs ==
    ASSUME ExportUnderWay, Climb
    PROVE  ExportUnderWay'
<1> DEFINE w == export.walk
           f == export.parent
           g == [f EXCEPT ![w] = f[f[w]]]
<1>1. /\ export'.doc = export.doc /\ Inside' = Inside /\ Pairs' = Pairs /\ ExportFields'
      /\ \A e, S : Fits(e, S)' <=> Fits(e, S)
      /\ \A S : Apart(export'.doc, S) <=> Apart(export.doc, S)
  BY ExportDocument DEF ExportNext
<1>2. /\ ExportFields /\ f \in [Inside -> Inside] /\ w \in Inside /\ f[w] # w /\ f[w] \in Inside
      /\ export.at \in {"end", "start"}
  BY DEF Climb, ExportUnderWay, ExportTyped, SearchTells
<1>3. export'.at = export.at /\ export'.left = export.left /\ export'.root = export.root
      /\ export'.parent = g /\ export'.walk = f[f[w]]
  BY <1>2 DEF Climb, ExportFields
<1>4. /\ g \in [Inside -> Inside]
      /\ \A r \in Inside : f[r] = r => g[r] = r
      /\ \A S : Uncrossed(g, Inside, S) <=> Uncrossed(f, Inside, S)
      /\ Grounded(f, Inside) => Grounded(g, Inside)
  BY <1>2, Halved
<1>5. \A S : TreeOf(S)' <=> TreeOf(S)
  BY <1>1, <1>3, <1>4 DEF TreeOf
<1>6. \A S : TreeOf(S) => (w \in S <=> f[f[w]] \in S)
  BY <1>2 DEF TreeOf, Uncrossed
<1> HIDE DEF w, f, g
<1>7. ExportTyped' /\ Grounded(export.parent, Inside)' /\ CountTells'
  BY <1>1, <1>2, <1>3, <1>4 DEF ExportUnderWay, ExportTyped, CountTells, f
<1>8. ForestTells'
  BY <1>1, <1>3, <1>5 DEF ExportUnderWay, ForestTells
<1>9. SearchTells'
  <2>1. export'.walk \in Inside
    BY <1>2, <1>3
  <2> QED
    BY <1>1, <1>2, <1>3, <1>4, <1>5, <1>6, <2>1 DEF ExportUnderWay, SearchTells, w, f
<1> QED
  BY <1>7, <1>8, <1>9 DEF ExportUnderWay

(* The root of the edge's end is known when the start is looked for. *)
LEMMA Turns ==
    ASSUME ExportUnderWay, Turn
    PROVE  ExportUnderWay'
<1>1. /\ export'.doc = export.doc /\ Inside' = Inside /\ Pairs' = Pairs /\ ExportFields'
      /\ \A e, S : Fits(e, S)' <=> Fits(e, S)
      /\ \A S : Apart(export'.doc, S) <=> Apart(export.doc, S)
  BY ExportDocument DEF ExportNext
<1>2. /\ ExportFields /\ export.at = "end" /\ export.parent[export.walk] = export.walk
      /\ export.left \in Seq(Pairs) /\ export.left # <<>>
  BY DEF Turn, ExportUnderWay, ExportTyped, SearchTells
<1>3. /\ export'.at = "start" /\ export'.left = export.left /\ export'.root = export.walk
      /\ export'.parent = export.parent /\ export'.walk = Head(export.left)[1]
  BY <1>2 DEF Turn, ExportFields
<1>4. Head(export.left)[1] \in Inside
  <2>1. Head(export.left) \in Pairs
    BY <1>2
  <2> QED
    BY <2>1 DEF Pairs
<1>5. \A S : TreeOf(S)' <=> TreeOf(S)
  BY <1>1, <1>3 DEF TreeOf
<1>6. ExportTyped' /\ Grounded(export.parent, Inside)' /\ CountTells' /\ ForestTells'
  BY <1>1, <1>2, <1>3, <1>5 DEF ExportUnderWay, ExportTyped, CountTells, ForestTells
<1>7. SearchTells'
  BY <1>1, <1>2, <1>3, <1>4, <1>5 DEF ExportUnderWay, SearchTells
<1> QED
  BY <1>6, <1>7 DEF ExportUnderWay

(* The trees of the two ends become one, and the edge need not be left. *)
LEMMA Meets ==
    ASSUME ExportUnderWay, Meet
    PROVE  ExportUnderWay'
<1> DEFINE edge == Head(export.left)
           w == export.walk
           r == export.root
           f == export.parent
           g == [f EXCEPT ![w] = r]
<1>1. /\ export'.doc = export.doc /\ Inside' = Inside /\ Pairs' = Pairs /\ ExportFields'
      /\ \A e, S : Fits(e, S)' <=> Fits(e, S)
      /\ \A S : Apart(export'.doc, S) <=> Apart(export.doc, S)
  BY ExportDocument DEF ExportNext
<1>2. /\ ExportFields /\ f \in [Inside -> Inside] /\ w \in Inside /\ f[w] = w /\ r \in Inside /\ f[r] = r
      /\ export.at = "start" /\ export.left \in Seq(Pairs) /\ export.left # <<>> /\ edge[2] \in Inside
  BY DEF Meet, ExportUnderWay, ExportTyped, SearchTells
<1>3. /\ export'.at = "take" /\ export'.left = Tail(export.left) /\ export'.parent = g
  BY <1>2 DEF Meet, ExportFields
<1>4. /\ g \in [Inside -> Inside]
      /\ \A S : Uncrossed(g, Inside, S) <=> Uncrossed(f, Inside, S) /\ (w \in S <=> r \in S)
      /\ Grounded(f, Inside) => Grounded(g, Inside)
  BY <1>2, Met
<1>5. \A S : TreeOf(S)' <=> TreeOf(S) /\ (w \in S <=> r \in S)
  BY <1>1, <1>3, <1>4 DEF TreeOf
<1>6. \A S \in SUBSET Inside : TreeOf(S) => ((w \in S <=> r \in S) <=> Fits(edge, S))
  BY <1>2 DEF ExportUnderWay, SearchTells, Fits
<1>7. /\ Tail(export.left) \in Seq(Pairs)
      /\ \A i \in DOMAIN Tail(export.left) : Tail(export.left)[i] = export.left[i + 1] /\ i + 1 \in DOMAIN export.left
      /\ \A i \in DOMAIN export.left : i = 1 \/ (i - 1 \in DOMAIN Tail(export.left) /\ export.left[i] = Tail(export.left)[i - 1])
      /\ edge = export.left[1] /\ 1 \in DOMAIN export.left
  BY <1>2
<1> HIDE DEF w, r, f, g, edge
<1>8. \A S : (\A i \in DOMAIN export.left : Fits(export.left[i], S))
                 <=> Fits(edge, S) /\ \A i \in DOMAIN Tail(export.left) : Fits(Tail(export.left)[i], S)
  BY <1>7
<1>9. ForestTells'
  BY <1>1, <1>3, <1>5, <1>6, <1>8 DEF ExportUnderWay, ForestTells
<1>10. ExportTyped' /\ Grounded(export.parent, Inside)' /\ CountTells' /\ SearchTells'
  BY <1>1, <1>2, <1>3, <1>4, <1>7 DEF ExportUnderWay, ExportTyped, CountTells, SearchTells, f
<1> QED
  BY <1>9, <1>10 DEF ExportUnderWay

(* The roots are counted when no edge is left. *)
LEMMA Counts ==
    ASSUME ExportUnderWay, Count
    PROVE  ExportUnderWay'
<1>1. /\ export'.doc = export.doc /\ Inside' = Inside /\ Pairs' = Pairs /\ ExportFields'
      /\ \A e, S : Fits(e, S)' <=> Fits(e, S)
      /\ \A S : Apart(export'.doc, S) <=> Apart(export.doc, S)
  BY ExportDocument DEF ExportNext
<1>2. ExportFields /\ export.left = <<>> /\ export.parent \in [Inside -> Inside] /\ export.at = "take"
  BY DEF Count, ExportUnderWay, ExportTyped
<1>3. /\ export'.at = "over" /\ export'.left = export.left /\ export'.parent = export.parent
      /\ export'.count = Cardinality(Roots(export.parent, Inside))
  BY <1>2 DEF Count, ExportFields, Roots
<1>4. \A S : TreeOf(S)' <=> TreeOf(S)
  BY <1>1, <1>3 DEF TreeOf
<1> QED
  BY <1>1, <1>2, <1>3, <1>4
  DEF ExportUnderWay, ExportTyped, CountTells, ForestTells, SearchTells

(* ExportInv is inductive. *)
LEMMA ExportGoesOn == ExportInv /\ [ExportNext]_export => ExportInv'
<1>1. ASSUME ExportIdle, [ExportNext]_export
      PROVE  ExportIdle'
  BY <1>1 DEF ExportIdle, NoExport, ExportNext, TakeEdge, Climb, Turn, Meet, Count
<1>2. ASSUME ExportUnderWay, ExportNext
      PROVE  ExportUnderWay'
  BY <1>2, TakesEdge, Climbs, Turns, Meets, Counts DEF ExportNext
<1>3. ASSUME ExportUnderWay, UNCHANGED export
      PROVE  ExportUnderWay'
  BY <1>3 DEF ExportUnderWay, ExportTyped, ExportFields, ForestTells, SearchTells, CountTells, Inside, Pairs, TreeOf, Fits
<1> QED
  BY <1>1, <1>2, <1>3 DEF ExportInv

(* What the other programs do leaves the export alone. *)
LEMMA ExportFamily ==
    /\ Init => ExportInit \/ ExportIdle
    /\ [Next]_commandVars => [ExportNext]_export
<1>1. Init => ExportInit \/ ExportIdle
  BY DEF Init
<1>2. [Next]_commandVars => [ExportNext]_export
  BY DEF Next, commandVars
<1> QED
  BY <1>1, <1>2

(* Throughout an export the forest tells which datasets are apart: the sets that   *)
(* no link and none of the edges left crosses are those no edge of the document    *)
(* leaves (akg/export.py, _component_count).                                       *)
THEOREM ExportInvariant == Spec => []ExportInv
<1>1. Init => ExportInv
  BY ExportFamily, ExportStarts DEF ExportInv
<1>2. ExportInv /\ [Next]_commandVars => ExportInv'
  BY ExportFamily, ExportGoesOn
<1> QED
  BY <1>1, <1>2, PTL DEF Spec

(* No two nodes are called by one name unless they have one name in full. *)
LEMMA NamesApart ==
    ASSUME NEW doc, NEW m \in Named(doc), NEW n \in Named(doc), Alias(doc, m) = Alias(doc, n)
    PROVE  doc.called[m] = doc.called[n]
<1>1. \A x : Last(<<x>>) = x
  BY DEF Last
<1>2. ASSUME NEW a, NEW b, a \in Named(doc), b \in Named(doc), Alias(doc, a) = doc.called[a], Alias(doc, b) = Short(doc, b),
             doc.called[a] = Short(doc, b)
      PROVE  Short(doc, a) = Short(doc, b)
  BY <1>1, <1>2 DEF Short
<1> QED
  BY <1>2 DEF Alias

(* When the count is made, the roots are as many as the components. *)
LEMMA CountsComponents ==
    ASSUME ExportUnderWay, export.at = "over"
    PROVE  export.count = Cardinality(Components(export.doc))
<1>1. /\ export.count = Cardinality(Roots(export.parent, Inside)) /\ export.left = <<>>
      /\ export.parent \in [Inside -> Inside] /\ Grounded(export.parent, Inside) /\ IsFiniteSet(Inside)
  BY ExportAssumption DEF ExportUnderWay, ExportTyped, CountTells, Inside
<1>2. \A S \in SUBSET Inside : Apart(export.doc, S) <=> Uncrossed(export.parent, Inside, S)
  BY <1>1 DEF ExportUnderWay, ForestTells, TreeOf
<1>3. Components(export.doc) = Trees(export.parent, Inside)
  <2>1. \A part \in SUBSET Inside : SUBSET part \subseteq SUBSET Inside
    OBVIOUS
  <2> QED
    BY <1>2, <2>1 DEF Components, Trees, Inside
<1> QED
  BY <1>1, <1>3, OneRootEach

(* Of any document the export counts the components there are, in whatever order   *)
(* and direction its edges are listed, and calls no two nodes by one name unless   *)
(* they have one name in full (akg/export.py, _component_count and _aliases).      *)
THEOREM ExportsRead == Spec => []ExportReads
<1>1. ExportUnderWay => ExportReads
  BY CountsComponents, NamesApart DEF ExportReads
<1>2. ExportIdle => ExportReads
  <2>1. ASSUME ExportIdle
        PROVE  export.count = Cardinality(Components(export.doc))
    <3>1. export.count = 0 /\ Components(export.doc) = {}
      BY <2>1 DEF ExportIdle, NoExport, Components
    <3> QED
      BY <3>1, FS_EmptySet
  <2> QED
    BY <2>1, NamesApart DEF ExportReads
<1> QED
  BY <1>1, <1>2, ExportInvariant, PTL DEF ExportInv
=============================================================================
