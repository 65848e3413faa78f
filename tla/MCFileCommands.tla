---------------------------- MODULE MCFileCommands ----------------------------
(* The TLC instance of FileCommands.                                             *)
EXTENDS FileCommands

(* the query proxy *)
Ask(params, question, name, method, pieces) ==
    [params |-> params, question |-> question, name |-> name, method |-> method, pieces |-> pieces]
SomeRequests == {Ask(TRUE, "q1", "n1", "traversal", 2), Ask(TRUE, NotGiven, "n2", "traversal", 1),
                 Ask(TRUE, "q2", NotGiven, "lookup", 1), Ask(TRUE, "q1", Blank, "lookup", 1),
                 Ask(FALSE, "q1", "n1", "traversal", 1)}
SomeContexts == {Malformed, Held("q1", {})}

-----------------------------------------------------------------------------
(* AKG documents and graphs: datasets A and B related on k *)
AEnd == <<"A", "k">>
BEnd == <<"B", "k">>
EdgeID(from, to) == CanonicalId("i", from, to)
Many == [multiplicity |-> "many:1"]
One  == [multiplicity |-> "1:many"]

Graph(api, said, forward, backward) ==
    [api |-> api,
     datasets |-> [n \in {"A", "B"} |-> [facts |-> [grain |-> n, rows |-> said], columns |-> [k |-> "key", x |-> said]]],
     relationships |-> {[identity |-> "i", a |-> AEnd, b |-> BEnd, forward |-> forward, backward |-> backward]}]
SomeGraphs == {Graph("v1", "old", Many, One), Graph("v1", "new", One, Many)}

DocEdge(flaw, from, to, id, values) == [flaw |-> flaw, from |-> from, to |-> to, id |-> id, values |-> values]
Definition(edges, usage) == [identity |-> "i", columns |-> "k", edges |-> edges, usage |-> usage]
Dataset(n, said, used, definitions) ==
    [node |-> n, facts |-> [rows |-> said], columns |-> [x |-> said], used |-> used, definitions |-> definitions]
Document(datasets) ==
    [shaped |-> TRUE, fields |-> <<"edge", "multiplicity", "edge_id">>, api |-> "v1", datasets |-> datasets,
     comparisons |-> {[anchors |-> {"A", "B"}, shared |-> {<<"A", "x">>, <<"B", "x">>}]},
     gaps |-> {[datasets |-> {"B"}, edges |-> {<<"A", EdgeID(AEnd, BEnd)>>}]}]

AtoB(values) == DocEdge("none", AEnd, BEnd, EdgeID(AEnd, BEnd), values)
Keeping(n) == {[edge |-> EdgeID(AEnd, BEnd), keep |-> {n}]}
WithEdge(said, e, usage) == Document(<<Dataset("A", said, {"x"}, <<Definition(<<e>>, usage)>>), Dataset("B", said, {}, <<>>)>>)

(* one that one graph has, one of neither alone, and ones with something wrong: of *)
(* a dataset in part one graph's and in part the other's, without an end, with a    *)
(* comparison over an unlisted column, a gap of an edge not held, an edge reversed   *)
Good == WithEdge("old", AtoB(Many), Keeping("B"))
SomeDocuments == {
    Good, WithEdge("new", AtoB(Many), {}),
    [Good EXCEPT !.datasets[2].facts = [rows |-> "new"]],
    [Good EXCEPT !.comparisons = {}, !.gaps = {}, !.datasets = <<@[1]>>],
    [Good EXCEPT !.comparisons = {[anchors |-> {"A"}, shared |-> {<<"B", "k">>}]}],
    [Good EXCEPT !.gaps = {[datasets |-> {}, edges |-> {<<"B", EdgeID(AEnd, BEnd)>>}]}],
    WithEdge("old", DocEdge("none", BEnd, AEnd, EdgeID(AEnd, BEnd), One), Keeping("C"))}

-----------------------------------------------------------------------------
(* intermediaries of one or two node files *)
SomeNames   == {"i", "n", "m"}
SomePaths   == [i |-> "i", n |-> "n", dotn |-> "n", m |-> "m", up |-> "n", readme |-> "readme", link |-> "link"]
Manifest(identities, nodes) ==
    [text |-> "mapping", extra |-> FALSE, version |-> Version, identities |-> identities, nodes |-> nodes]
SomeManifests == {Manifest("i", <<"n">>), Manifest("i", <<"n", "m">>), Manifest("i", <<"n", "dotn">>),
                  Manifest("i", <<"up">>), Manifest("i", <<"n", "n">>), Manifest("i", <<"readme">>),
                  Manifest("i", <<"link", "n">>), NoManifest}

YamlNode(id, sound, columns, definitions, grain) ==
    [id |-> id, sound |-> sound, columns |-> columns, definitions |-> definitions, grain |-> grain]
Simple(id, identity) == YamlNode(id, TRUE, <<"k", "x">>, <<<<identity, {"k"}>>>>, {<<identity, {"k"}>>})
File(key, identities, nodes) ==
    [text |-> "mapping", keys |-> {"schema_version", key}, version |-> Version, shaped |-> TRUE,
     identities |-> identities, nodes |-> nodes]
Identities(ids) == File("logical_identities", [i \in ids |-> TRUE], <<>>)
NodeFile(nodes) == File("nodes", <<>>, nodes)
Complete == [File("nodes", [i \in {"e"} |-> TRUE], <<Simple("A", "e")>>) EXCEPT
                 !.keys = {"schema_version", "logical_identities", "nodes"}]

IdentityFiles == {Identities({"e"}), Identities({"f"}), Complete}
NodeFiles == {NodeFile(<<Simple("A", "e")>>), NodeFile(<<Simple("B", "e")>>), NodeFile(<<Simple("A", "f"), Simple("A", "f")>>),
              NodeFile(<<YamlNode("A", TRUE, <<"k">>, <<<<"e", {"x"}>>>>, {})>>),
              NodeFile(<<YamlNode("A", TRUE, <<"k">>, <<>>, {<<"e", {"k"}>>})>>),
              [NodeFile(<<Simple("A", "e")>>) EXCEPT !.version = "3"],
              [NodeFile(<<>>) EXCEPT !.text = "broken"]}
SomeFiles == IdentityFiles \cup NodeFiles
AllNames == SomeNames \cup {"readme", "link"}
InFiles(fi, fn, fm, odd) ==
    [f \in AllNames |-> CASE f = "i" -> fi [] f = "n" -> fn [] f = "m" -> fm
                          [] f = odd -> NodeFile(<<Simple("B", "e")>>) [] OTHER -> Gone]
SomeDirectories ==
    {InFiles(fi, fn, fm, "none") : fi \in IdentityFiles, fn \in NodeFiles \cup {Gone},
                                   fm \in {Gone, NodeFile(<<Simple("B", "e")>>), NodeFile(<<Simple("A", "e")>>)}}
    \cup {InFiles(Identities({"e"}), NodeFile(<<Simple("A", "e")>>), Gone, odd) : odd \in {"readme", "link"}}
    \cup {InFiles(Gone, Gone, Gone, "none")}

-----------------------------------------------------------------------------
(* documents that are exported: up to four datasets, o not always one of them *)
SomeNamesInFull == {[a |-> <<"s", "a">>, b |-> <<"t", "b">>, c |-> <<"s", "c">>, d |-> d, o |-> o] :
                        d \in {<<"d">>, <<"t", "a">>}, o \in {<<"o">>, <<"b">>, <<"u", "d">>}}
SomeEdges == {<<>>, <<<<"a", "b">>, <<"c", "d">>, <<"b", "o">>, <<"d", "a">>>>,
              <<<<"a", "b">>, <<"b", "c">>, <<"c", "d">>, <<"a", "d">>>>, <<<<"b", "a">>, <<"c", "a">>, <<"c", "o">>>>,
              <<<<"a", "b">>, <<"c", "b">>, <<"a", "d">>, <<"d", "c">>>>, <<<<"a", "b">>, <<"c", "d">>, <<"a", "c">>, <<"a", "a">>>>}
SomeExported == {[datasets |-> {"a", "b", "c", "d"}, called |-> names, edges |-> edges] :
                     names \in SomeNamesInFull, edges \in SomeEdges}

-----------------------------------------------------------------------------
(* intermediaries that are built; names are texts of letters a, b, x, y (97, 98,  *)
(* 120, 121), of A and B (65, 66) and of the characters that mark something        *)
Key(identity, columns, claims) == [identity |-> identity, columns |-> columns] @@ claims
On(id, definitions) == [id |-> id, definitions |-> definitions]
Certain   == [universe |-> "complete", unique |-> "one", total |-> "yes", conforms |-> "yes"]
InPart    == [universe |-> "partial", unique |-> "many", total |-> "no", conforms |-> "yes"]
Unsure    == [universe |-> "partial", unique |-> "unknown", total |-> "yes", conforms |-> "yes"]
anEntity  == <<105>>
OddNames  == {<<98>>, <<97, Plus, 98>>, <<97, Comma>>, <<Opening, 98>>, <<Quote, Backslash, Quote>>, <<Closing>>,
              <<Dash, Above>>, <<97, Backslash>>, <<Space, 98>>}
WithOddNames ==
    {<<On(<<65>>, <<Key(anEntity, <<<<97>>>>, c), Key(anEntity, <<x>>, Unsure)>>),
       On(<<66>>, <<Key(anEntity, <<<<97>>, <<98>>>>, d)>>)>> : c \in {Certain, InPart}, d \in {InPart, Unsure}, x \in OddNames}
OfTwoColumns ==
    {<<On(<<65, Colon, 66>>, <<Key(anEntity, <<x, y>>, Certain), Key(i, <<y>>, Certain)>>),
       On(<<65, Underscore, 66>>, <<Key(i, <<y>>, InPart), Key(i, <<x>>, InPart)>>)>> :
        x \in {<<Quote, Backslash, Quote>>, <<Dash, Above>>}, y \in {<<97, Comma>>, <<97, Backslash>>, <<98>>}, i \in {<<102>>, anEntity}}
(* x_ of A with y of B, and x of A with y of _B; a and b of A, and a+b of A *)
NamedAlike == {<<On(<<65>>, <<Key(anEntity, <<<<120>>>>, Certain), Key(anEntity, <<<<120, Underscore>>>>, Certain)>>),
             On(<<66>>, <<Key(anEntity, <<<<121>>>>, Certain)>>), On(<<Underscore, 66>>, <<Key(anEntity, <<<<121>>>>, Certain)>>)>>,
           <<On(<<65>>, <<Key(anEntity, <<<<97>>, <<98>>>>, Certain), Key(anEntity, <<<<97, Plus, 98>>>>, InPart)>>),
             On(<<66>>, <<Key(anEntity, <<<<97>>>>, InPart)>>)>>}
WithBracket == {<<On(<<65>>, <<Key(anEntity, <<<<97>>>>, Certain)>>), On(<<Opening, Closing>>, <<Key(anEntity, <<<<97>>>>, InPart)>>)>>}
SomeIntermediaries == WithOddNames \cup OfTwoColumns \cup NamedAlike \cup WithBracket

-----------------------------------------------------------------------------
(* what the service is set up as *)
As(label, socket, artifact) == [label |-> label, socket |-> socket, artifact |-> artifact]
SomeConfigurations == {As("default", "s1", "whole"), As("default", "s1", "broken"), As("own", "s1", "whole"), As("own", "s2", "whole")}
=============================================================================
