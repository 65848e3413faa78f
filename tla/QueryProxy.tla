------------------------------ MODULE QueryProxy ------------------------------
(* skills/query-graph-api/scripts/query.py: calls that an agent sends to the     *)
(* service through a proxy, which keeps two files for one question: the context  *)
(* (File A: the question and the names of logical entities) and the traversals   *)
(* (File B: one section per navigation that was answered).  Nothing locks the    *)
(* files; calls may overlap, fail and be killed between any two steps.           *)
EXTENDS Integers, FiniteSets, Sequences

CONSTANTS Proxies,      \* calls of the proxy, each run once
          Requests,     \* what agents ask: records [params, question, name, method, pieces]
          Contexts,     \* what File A may hold to begin with
          MaxRunning,   \* bound: calls under way at once
          MaxUnsaved,   \* bound: writes that fail
          MaxKilled     \* bound: calls killed

(* a question or a name that is not given, and one of spaces *)
NotGiven == "not given"
Blank    == "blank"
(* what File A is: there is none, or one that is not a context, or a context *)
Held(question, names) == [kind |-> "context", question |-> question, names |-> names]
NoFile    == [kind |-> "no file", question |-> NotGiven, names |-> {}]
Malformed == [kind |-> "malformed", question |-> NotGiven, names |-> {}]

ASSUME ProxyAssumption ==
    /\ \A r \in Requests : /\ r.params \in BOOLEAN /\ r.method \in {"traversal", "lookup"}
                           /\ r.pieces \in Nat \ {0}
    /\ MaxRunning \in Nat /\ MaxUnsaved \in Nat /\ MaxKilled \in Nat

VARIABLES
    context,    \* File A: NoFile, Malformed or Held(question, names)
    traversals, \* File B: the pieces of sections in it, as <<proxy, number of the piece>>
    proxy,      \* proxy[p]: how far call p is and what it has read
    unsaved, killed

proxyVars == <<context, traversals, proxy, unsaved, killed>>

NothingAsked == [params |-> FALSE, question |-> NotGiven, name |-> NotGiven, method |-> "lookup", pieces |-> 1]
NotBegun == [at |-> "idle", asked |-> NothingAsked, context |-> NoFile, saved |-> FALSE,
             written |-> 0, beside |-> {}, outcome |-> "none"]

ProxyInit == /\ context \in Contexts \cup {NoFile} /\ traversals = <<>> /\ unsaved = 0 /\ killed = 0
             /\ proxy = [p \in Proxies |-> NotBegun]

(* where nothing is asked *)
ProxyIdle == /\ context = NoFile /\ traversals = <<>> /\ unsaved = 0 /\ killed = 0
             /\ proxy = [p \in Proxies |-> [NotBegun EXCEPT !.at = "over"]]

Running == {p \in Proxies : proxy[p].at \notin {"idle", "over"}}

Go(p, changed) == proxy' = [proxy EXCEPT ![p] = changed]
End(p, outcome) == Go(p, [proxy[p] EXCEPT !.at = "over", !.outcome = outcome])

-----------------------------------------------------------------------------
BeginProxy(p) ==
    /\ proxy[p].at = "idle"
    /\ Cardinality(Running) < MaxRunning
    /\ \E r \in Requests :
           proxy' = [q \in Proxies |->
               IF q = p THEN [NotBegun EXCEPT !.at = "load", !.asked = r, !.beside = Running]
               ELSE IF q \in Running THEN [proxy[q] EXCEPT !.beside = @ \cup {p}]
               ELSE proxy[q]]
    /\ UNCHANGED <<context, traversals, unsaved, killed>>

(* Mutated form: a different question is not refused. *)
RefusedUnlessNamed(r) ==
    ~r.params \/ context = Malformed \/ r.name = Blank
        \/ (context = NoFile /\ r.question \in {NotGiven, Blank})

(* load_context: what makes it, or the arguments before it, refuse *)
Refused(r) ==
    \/ ~r.params
    \/ context = NoFile /\ r.question \in {NotGiven, Blank}
    \/ context = Malformed
    \/ context.kind = "context" /\ r.question \notin {NotGiven, context.question}
    \/ r.name = Blank

(* A context is replaced, never removed: whether the file exists and what it      *)
(* holds are read as if at once.                                                  *)
LoadContext(p) ==
    LET r == proxy[p].asked
        question == IF r.question = NotGiven THEN context.question ELSE r.question
    IN  /\ proxy[p].at = "load"
        /\ \/ Refused(r) /\ End(p, "refused")
           \/ /\ ~Refused(r)
              /\ Go(p, [proxy[p] EXCEPT !.at = "save",
                     !.context = Held(question, context.names \cup ({r.name} \ {NotGiven}))])
        /\ UNCHANGED <<context, traversals, unsaved, killed>>

Unsavable == unsaved < MaxUnsaved /\ unsaved' = unsaved + 1

(* save_context: the temporary file has a name nobody else uses *)
SaveContext(p) ==
    /\ proxy[p].at = "save"
    /\ \/ /\ context' = proxy[p].context
          /\ Go(p, [proxy[p] EXCEPT !.at = "touch", !.saved = TRUE])
          /\ UNCHANGED unsaved
       \/ Unsavable /\ End(p, "refused") /\ UNCHANGED context
    /\ UNCHANGED <<traversals, killed>>

(* File B is created; an absent one is an empty one here *)
TouchTraversals(p) ==
    /\ proxy[p].at = "touch"
    /\ \/ Go(p, [proxy[p] EXCEPT !.at = "call"]) /\ UNCHANGED unsaved
       \/ Unsavable /\ End(p, "refused")
    /\ UNCHANGED <<context, traversals, killed>>

(* The service answers with a result or an error, or there is no answer. *)
CallService(p) ==
    /\ proxy[p].at = "call"
    /\ \/ End(p, "unreachable")
       \/ proxy[p].asked.method = "lookup" /\ End(p, "answered")
       \/ proxy[p].asked.method = "traversal" /\ Go(p, [proxy[p] EXCEPT !.at = "append"])
    /\ UNCHANGED <<context, traversals, unsaved, killed>>

(* one more piece of its section is written; after the last one the call is over *)
Wrote(p) ==
    LET n == proxy[p].written + 1
    IN  IF n = proxy[p].asked.pieces
        THEN Go(p, [proxy[p] EXCEPT !.at = "over", !.outcome = "answered", !.written = n])
        ELSE Go(p, [proxy[p] EXCEPT !.written = n])

(* Mutated form: the section is put in place of the ones before it. *)
AppendPieceOver(p) ==
    /\ proxy[p].at = "append"
    /\ traversals' = Append(IF proxy[p].written = 0 THEN <<>> ELSE traversals, <<p, proxy[p].written + 1>>)
    /\ Wrote(p)
    /\ UNCHANGED <<context, unsaved, killed>>

(* append_traversal: what does not fit the buffer of the file is written in       *)
(* pieces, each at what is the end of the file by then                            *)
AppendPiece(p) ==
    /\ proxy[p].at = "append"
    /\ \/ /\ traversals' = Append(traversals, <<p, proxy[p].written + 1>>)
          /\ Wrote(p)
          /\ UNCHANGED unsaved
       \/ Unsavable /\ End(p, "unsaved") /\ UNCHANGED traversals
    /\ UNCHANGED <<context, killed>>

KillProxy(p) ==
    /\ p \in Running /\ killed < MaxKilled
    /\ killed' = killed + 1
    /\ End(p, "killed")
    /\ UNCHANGED <<context, traversals, unsaved>>

ProxyNext == \E p \in Proxies :
    \/ BeginProxy(p) \/ LoadContext(p) \/ SaveContext(p) \/ TouchTraversals(p)
    \/ CallService(p) \/ AppendPiece(p) \/ KillProxy(p)

-----------------------------------------------------------------------------
PlacesOf(file, p) == {i \in DOMAIN file : file[i][1] = p}
(* of the section of p the first n pieces stand in a file, in order, and no more *)
InOrder(file, p, n) ==
    \E at \in [1..n -> PlacesOf(file, p)] :
        /\ \A k \in 1..n : file[at[k]] = <<p, k>>
        /\ \A k, l \in 1..n : k < l => at[k] < at[l]
        /\ PlacesOf(file, p) = {at[k] : k \in 1..n}
InOnePiece(file, p, n) == \E i \in 0..(Len(file) - n) : \A k \in 1..n : file[i + k] = <<p, k>>
Navigated(p) == proxy[p].outcome = "answered" /\ proxy[p].asked.method = "traversal"

(* File B holds the whole section of every navigation whose proxy said nothing of *)
(* a failure, whatever other calls wrote meanwhile; no section of a lookup, of a  *)
(* refused call or of one without an answer; and the section of a call that no    *)
(* other overlapped is in one piece.                                              *)
EvidenceComplete ==
    \A p \in Proxies :
        /\ Navigated(p) => InOrder(traversals, p, proxy[p].asked.pieces)
        /\ Navigated(p) /\ proxy[p].beside = {} => InOnePiece(traversals, p, proxy[p].asked.pieces)
        /\ PlacesOf(traversals, p) # {} =>
               /\ proxy[p].asked.method = "traversal"
               /\ proxy[p].outcome \notin {"refused", "unreachable"}

(* What a call has saved in File A stays there, its question and every name it    *)
(* knew, as do the question and the names of calls that saved before; only a      *)
(* call that overlapped it, and saved what it had read before, takes it back.     *)
(* Two calls that create the context at once may so ask two different questions.  *)
ContextKept ==
    \A p \in Proxies : proxy[p].saved =>
        \/ /\ context.kind = "context"
           /\ context.question = proxy[p].context.question
           /\ proxy[p].context.names \subseteq context.names
        \/ \E q \in proxy[p].beside : proxy[q].saved

=============================================================================
