------------------------------ MODULE GraphBuild ------------------------------
(* builder/__init__.py, of a validated intermediary: a relationship is derived    *)
(* for every two definitions of one logical entity and named by a text made of    *)
(* the names of its ends; a snapshot in which two have one name is refused.  Of a *)
(* snapshot that is built the unknown claims are reported, and the label of a     *)
(* directed edge is written and split again, as the AKG commands and the export   *)
(* do (service/views.py).  A name is a sequence of characters, which are their    *)
(* code points.                                                                   *)
EXTENDS Integers, SequencesExt, Derivation

CONSTANT Intermediaries   \* sequences of nodes [id, definitions]; a definition is one of
                          \* Derivation, without its node, and with its columns

Space == 32  Quote == 34  Plus == 43  Comma == 44  Dash == 45  Colon == 58  Above == 62
Opening == 91  Backslash == 92  Closing == 93  Underscore == 95

(* what a curator calls something, and what is said of a key: its identity, the   *)
(* columns, and the claims                                                        *)
GivenNames == Seq(Nat) \ {<<>>}
DefinitionsOf == [identity : GivenNames, columns : Seq(GivenNames) \ {<<>>},
                  universe : {"complete", "partial", "unknown"}, unique : {"one", "many", "unknown"},
                  total : {"yes", "no", "unknown"}, conforms : {"yes", "no", "unknown"}]

(* IntermediaryNode, IntermediaryDefinition: nodes have different IDs, and the    *)
(* definitions of one node different keys                                         *)
ASSUME IntermediariesAssumption ==
    /\ Intermediaries \subseteq Seq([id : GivenNames, definitions : Seq(DefinitionsOf)])
    /\ \A nodes \in Intermediaries : \A i, j \in DOMAIN nodes :
           /\ nodes[i].id = nodes[j].id => i = j
           /\ \A k, l \in DOMAIN nodes[i].definitions :
                  LET d == nodes[i].definitions[k]  e == nodes[i].definitions[l]
                  IN  d.identity = e.identity /\ d.columns = e.columns => k = l

Arrow == <<Space, Dash, Above, Space>>
Joined(parts, between) ==
    FlattenSeq([i \in DOMAIN parts |-> IF i = 1 THEN parts[i] ELSE between \o parts[i]])
Stands(mark, text, i) == \A k \in DOMAIN mark : i + k - 1 \in DOMAIN text /\ text[i + k - 1] = mark[k]
Holds(text, mark) == \E i \in DOMAIN text : Stands(mark, text, i)

(* the order of sequences, given that of their elements *)
Before(s, t, Less(_, _)) == \E i \in DOMAIN t :
    /\ i \notin DOMAIN s \/ Less(s[i], t[i])
    /\ \A j \in 1..(i - 1) : j \in DOMAIN s /\ s[j] = t[j]
TextLess(s, t) == Before(s, t, <)
KeyLess(d, e)  == Before(<<<<d.node>>, <<d.identity>>, d.columns>>, <<<<e.node>>, <<e.identity>>, e.columns>>,
                         LAMBDA s, t : Before(s, t, TextLess))

VARIABLE graphBuild
(* how far the build is (at), of which intermediary; the logical entities left to *)
(* relate; the relationships [id, a, b]; what is reported to be unknown; a label  *)
(* that is split, from which position on, the sides read before, and the one that *)
(* is being read                                                                  *)

EmptySide == [node |-> <<>>, columns |-> <<>>]
Unbuilt == [at |-> "over", of |-> <<>>, left |-> {}, edges |-> {}, unknown |-> {},
            label |-> <<>>, index |-> 1, side |-> EmptySide, sides |-> <<>>, written |-> <<>>]

(* what is said of a key, with the dataset it is a key of *)
KeyOf(id, d) == [node |-> id, identity |-> d.identity, columns |-> d.columns,
                 universe |-> d.universe, unique |-> d.unique, total |-> d.total, conforms |-> d.conforms]
AllDefinitions(nodes) == UNION {
    {KeyOf(nodes[i].id, nodes[i].definitions[k]) : k \in DOMAIN nodes[i].definitions} : i \in DOMAIN nodes}

BuildInit == \E nodes \in Intermediaries :
    graphBuild = [Unbuilt EXCEPT !.at = "derive", !.of = nodes,
                                 !.left = {d.identity : d \in AllDefinitions(nodes)}]
BuildIdle == graphBuild = Unbuilt

-----------------------------------------------------------------------------
(* _side, edge_id_for of ends in canonical order *)
Side(d)      == d.node \o <<Colon>> \o d.identity \o <<Colon>> \o Joined(d.columns, <<Plus>>)
EdgeText(a, b) == Side(a) \o <<Underscore, Underscore>> \o Side(b)

(* derive_relationships: all pairs of one logical entity, the least that is left *)
Derive ==
    /\ graphBuild.at = "derive"
    /\ graphBuild.left # {}
    /\ LET identity == CHOOSE i \in graphBuild.left : \A j \in graphBuild.left \ {i} : TextLess(i, j)
           members  == {d \in AllDefinitions(graphBuild.of) : d.identity = identity}
       IN  graphBuild' = [graphBuild EXCEPT
               !.left  = @ \ {identity},
               !.edges = @ \cup {[id |-> EdgeText(p[1], p[2]), a |-> p[1], b |-> p[2]] :
                                    p \in {q \in members \X members : KeyLess(q[1], q[2])}}]

(* unknown_field_locations: of definitions by their keys, of relationships by     *)
(* their IDs                                                                      *)
UnknownOf(d) == {f \in {"universe", "unique", "total", "conforms"} : d[f] = "unknown"}
Claims(a, b, direction) ==
    {<<direction, "multiplicity">> : m \in {DerivedMultiplicity(a, b)} \cap {<<"unknown", "unknown">>}}
    \cup {<<direction, "match_existence">> : e \in {DerivedMatchExistence(a, b)} \cap {"unknown"}}
Reported(edges) ==
    (UNION {{<<<<d.node, d.identity, d.columns>>, f>> : f \in UnknownOf(d)} : d \in AllDefinitions(graphBuild.of)})
    \cup UNION {{<<r.id, c>> : c \in Claims(r.a, r.b, "a_to_b") \cup Claims(r.b, r.a, "b_to_a")} : r \in edges}

(* GraphSnapshot.validate_graph; that nodes are distinct and that what they use   *)
(* is registered holds of a validated intermediary                                *)
ValidateGraph ==
    /\ graphBuild.at = "derive"
    /\ graphBuild.left = {}
    /\ graphBuild' =
           IF \A r, s \in graphBuild.edges : r.id = s.id => r = s
           THEN [graphBuild EXCEPT !.at = "built", !.unknown = Reported(graphBuild.edges)]
           ELSE [graphBuild EXCEPT !.at = "refused"]

-----------------------------------------------------------------------------
(* Mutated form: a column name with a bracket is not quoted. *)
DelimitedByCommas(name) == \E mark \in {<<Comma>>, <<Quote>>} : Holds(name, mark)

(* the marks of _QUOTED *)
Delimited(name) ==
    \E mark \in {<<Comma>>, <<Opening>>, <<Closing>>, <<Quote>>, <<Dash, Above>>} : Holds(name, mark)

(* json.dumps; a control character, which it also escapes, stands for itself *)
Quoted(name) ==
    <<Quote>> \o FlattenSeq([i \in DOMAIN name |->
        IF name[i] \in {Quote, Backslash} THEN <<Backslash, name[i]>> ELSE <<name[i]>>]) \o <<Quote>>

(* definition_label *)
Shown(name) == IF Delimited(name) THEN Quoted(name) ELSE name
DefinitionLabel(d) ==
    d.node \o <<Opening>> \o Joined([i \in DOMAIN d.columns |-> Shown(d.columns[i])], <<Comma>>) \o <<Closing>>

(* a directed edge is labelled, _edge_array, for whoever splits the label again *)
WriteLabel ==
    /\ graphBuild.at = "built"
    /\ \E r \in graphBuild.edges, back \in BOOLEAN :
           LET ends == IF back THEN <<r.b, r.a>> ELSE <<r.a, r.b>>
           IN  graphBuild' = [graphBuild EXCEPT
                   !.at = "node", !.label = DefinitionLabel(ends[1]) \o Arrow \o DefinitionLabel(ends[2]),
                   !.written = [i \in 1..2 |-> [node |-> ends[i].node, columns |-> ends[i].columns]]]

(* str.find from a position on: 0 where there is none *)
Least(S) == CHOOSE i \in S : \A j \in S : i <= j
Find(char, from) ==
    LET places == {i \in from..Len(graphBuild.label) : graphBuild.label[i] = char}
    IN  IF places = {} THEN 0 ELSE Least(places)
At(i, text) == Stands(text, graphBuild.label, i)
NotAnEdge == graphBuild' = [graphBuild EXCEPT !.at = "not an edge"]

(* split_edge_label: the node of a side is what stands before its bracket *)
ReadNode ==
    /\ graphBuild.at = "node"
    /\ LET bracket == Find(Opening, graphBuild.index)
       IN  IF bracket = 0 THEN NotAnEdge
           ELSE graphBuild' = [graphBuild EXCEPT
                    !.at = "column", !.index = bracket + 1,
                    !.side = [EmptySide EXCEPT !.node = SubSeq(graphBuild.label, graphBuild.index, bracket - 1)]]

(* JSONDecoder.raw_decode of the text in quotes from position i on: what it says, *)
(* and the position after it.  Of the backslashes in a row the 1st, 3rd ... escape. *)
Escapes(i, k) ==
    /\ k > i /\ graphBuild.label[k] = Backslash
    /\ LET run == {j \in (i + 1)..k : \A l \in j..k : graphBuild.label[l] = Backslash}
       IN  Cardinality(run) % 2 = 1
Decoded(i) ==
    LET end  == Least({j \in (i + 1)..Len(graphBuild.label) : graphBuild.label[j] = Quote /\ ~Escapes(i, j - 1)})
        said == {k \in (i + 1)..(end - 1) : ~Escapes(i, k)}
        Nth(n) == CHOOSE k \in said : Cardinality({l \in said : l < k}) = n - 1
    IN  <<[n \in 1..Cardinality(said) |-> graphBuild.label[Nth(n)]], end + 1>>

(* the name from position i on, and the position after it: <<>> where it has no end *)
ColumnAt(i) ==
    LET stops == {Find(Comma, i), Find(Closing, i)} \ {0}
    IN  IF At(i, <<Quote>>) THEN Decoded(i)
        ELSE IF stops = {} THEN <<>> ELSE <<SubSeq(graphBuild.label, i, Least(stops) - 1), Least(stops)>>

(* one column; the last of a side is followed by its end *)
ReadColumn ==
    /\ graphBuild.at = "column"
    /\ LET read  == ColumnAt(graphBuild.index)
           after == read[2]
           side  == [graphBuild.side EXCEPT !.columns = Append(@, read[1])]
           first == graphBuild.sides = <<>>
           end   == after + 1 + (IF first THEN Len(Arrow) ELSE 0)
       IN  IF read = <<>> THEN NotAnEdge
           ELSE IF At(after, <<Comma>>)
           THEN graphBuild' = [graphBuild EXCEPT !.index = after + 1, !.side = side]
           ELSE IF ~At(after, <<Closing>>) \/ (first /\ ~At(after + 1, Arrow))
                   \/ (~first /\ end # Len(graphBuild.label) + 1)
           THEN NotAnEdge
           ELSE graphBuild' = [graphBuild EXCEPT !.at = IF first THEN "node" ELSE "split", !.index = end,
                                                 !.sides = Append(@, side), !.side = EmptySide]

BuildNext == Derive \/ ValidateGraph \/ WriteLabel \/ ReadNode \/ ReadColumn

-----------------------------------------------------------------------------
(* names of which an ID can be made: without underscores where they would be      *)
(* taken for the separator of the sides, and without the separators of a side     *)
(* except in the node, which comes first                                          *)
Plain(d) ==
    /\ ~Holds(Side(d), <<Underscore, Underscore>>)
    /\ Side(d)[Len(Side(d))] # Underscore
    /\ ~Holds(d.identity, <<Colon>>)
    /\ \A i \in DOMAIN d.columns : ~Holds(d.columns[i], <<Colon>>) /\ ~Holds(d.columns[i], <<Plus>>)
PlainNames == \A d \in AllDefinitions(graphBuild.of) : Plain(d)

(* An intermediary of plain names is never refused: every two definitions of one  *)
(* logical entity are related, once, by a relationship that its ID tells from     *)
(* every other.                                                                   *)
EveryPairOnce ==
    graphBuild.at # "over" /\ PlainNames =>
        /\ graphBuild.at # "refused"
        /\ graphBuild.at # "derive" =>
               \A d, e \in AllDefinitions(graphBuild.of) :
                   d # e /\ d.identity = e.identity => Cardinality({r \in graphBuild.edges : {r.a, r.b} = {d, e}}) = 1

(* A label is split into the ends it was written for, whatever names the columns  *)
(* have, unless a dataset has a bracket in its own.                               *)
LabelReadBack ==
    (\A d \in AllDefinitions(graphBuild.of) : ~Holds(d.node, <<Opening>>)) =>
        /\ graphBuild.at # "not an edge"
        /\ graphBuild.at = "split" => graphBuild.sides = graphBuild.written

(* The report has an unknown claim of a relationship only beside an unknown       *)
(* property of the definitions at its ends, or where the one it starts from       *)
(* covers a part of its entity and so cannot be compared.                         *)
UnknownExplained ==
    graphBuild.at \in {"built", "split"} =>
        \A r \in graphBuild.edges, u \in graphBuild.unknown :
            u[1] = r.id => \/ \E d \in {r.a, r.b} : \E v \in graphBuild.unknown :
                                  v[1] = <<d.node, d.identity, d.columns>>
                           \/ u[2] = <<"a_to_b", "match_existence">> /\ r.a.universe = "partial"
                           \/ u[2] = <<"b_to_a", "match_existence">> /\ r.b.universe = "partial"

(* What a build derives, reports and labels can be read back from the texts it    *)
(* writes.                                                                        *)
NamesReadBack == EveryPairOnce /\ LabelReadBack /\ UnknownExplained
=============================================================================
