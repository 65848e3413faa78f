------------------------------- MODULE AkgCheck -------------------------------
(* The checks of one AKG document: check_document of akg/check.py.  A document   *)
(* is a record [shaped, fields, api, datasets, comparisons, gaps]:               *)
(*   a dataset  [node, facts, columns, used, definitions], columns a function    *)
(*              from the names listed to what is said of them, facts one from    *)
(*              its other fields, those of an accessor or a descriptor each;     *)
(*   its entity definitions, group by group  [identity, columns, edges, usage];  *)
(*   a directed edge array  [flaw, from, to, id, values], flaw naming what keeps *)
(*              it from being read, from and to pairs <<node, columns>>;         *)
(*   a comparison  [anchors, shared], a gap  [datasets, edges].                  *)
(* A key column list is one value: canonical order is the business of the model. *)
EXTENDS Naturals, SequencesExt

When(condition, finding) == IF condition THEN {finding} ELSE {}
Error(rule) == <<rule, "error">>
HasErrors(findings) == \E f \in findings : f[2] = "error"

(* edge_id_for: the same from both ends *)
CanonicalId(identity, from, to) == {<<from[1], identity, from[2]>>, <<to[1], identity, to[2]>>}

(* EDGE_FIELDS of service/views.py: the positions of directed-edge arrays *)
ApiEdgeFields == {"edge", "identity_id", "multiplicity", "match_existence", "reverse_multiplicity",
                  "reverse_match_existence", "from_description", "to_description", "annotation", "edge_id"}

FieldsFit(fields) ==
    /\ fields[1] = "edge" /\ fields[Len(fields)] = "edge_id"
    /\ IsInjective(fields) /\ ToSet(fields) \subseteq ApiEdgeFields

(* the datasets by node; of two with one node, the first *)
Repeated(doc) == {j \in DOMAIN doc.datasets : \E k \in DOMAIN doc.datasets :
                      k < j /\ doc.datasets[k].node = doc.datasets[j].node}
Firsts(doc) == {doc.datasets[i] : i \in DOMAIN doc.datasets \ Repeated(doc)}
Nodes(doc) == {d.node : d \in ToSet(doc.datasets)}

RequireDataset(doc, dangling, node) ==
    When(node \notin Nodes(doc), <<"dangling_reference", dangling>>)

RequireColumn(doc, dangling, node, column) ==
    When(\E d \in Firsts(doc) : d.node = node /\ column \notin DOMAIN d.columns,
         <<"unlisted_column", dangling>>)

-----------------------------------------------------------------------------
ReadableEdges(def) == {e \in ToSet(def.edges) : e.flaw = "none"}

EdgeFindings(doc, dangling, node, def, i) ==
    LET e == def.edges[i] IN
    IF e.flaw # "none" THEN {Error(e.flaw)}
    ELSE When(e.from # <<node, def.columns>>, Error("edge_start"))
         \cup When(e.id # CanonicalId(def.identity, e.from, e.to), Error("edge_key"))
         \cup When(\E j \in 1..(i - 1) : def.edges[j] \in ReadableEdges(def) /\ def.edges[j].id = e.id,
                   Error("duplicate_edge"))
         \cup RequireDataset(doc, dangling, e.to[1])

(* the dataset an edge of a definition ends in; of two with one ID, the last *)
EndOf(def, id) == LET is == {i \in DOMAIN def.edges : def.edges[i] \in ReadableEdges(def) /\ def.edges[i].id = id}
                  IN  def.edges[CHOOSE i \in is : \A j \in is : j <= i].to[1]

(* usage is looked at only where every edge of the definition could be read *)
UsageFindings(node, def) ==
    IF ToSet(def.edges) # ReadableEdges(def) THEN {}
    ELSE UNION {
        IF u.edge \notin {e.id : e \in ReadableEdges(def)} THEN {Error("usage_key")}
        ELSE When(\E kept \in u.keep : kept \notin {node, EndOf(def, u.edge)}, Error("not_an_endpoint"))
        : u \in def.usage}

DefinitionFindings(doc, dangling, node, def) ==
    (UNION {EdgeFindings(doc, dangling, node, def, i) : i \in DOMAIN def.edges})
        \cup UsageFindings(node, def)

(* the directed edges the document holds, as gaps name them *)
HeldEdges(doc) == UNION {UNION {{<<d.node, e.id>> : e \in ReadableEdges(def)}
                                : def \in ToSet(d.definitions)} : d \in Firsts(doc)}

UsedFindings(doc, dangling, d) == UNION {RequireColumn(doc, dangling, d.node, c) : c \in d.used}
DatasetFindings(doc, dangling, d) ==
    UsedFindings(doc, dangling, d)
        \cup UNION {DefinitionFindings(doc, dangling, d.node, def) : def \in ToSet(d.definitions)}

(* Mutated form: only the datasets of a shared column are looked up. *)
ComparedDatasets(doc, dangling, c) ==
    UNION {RequireDataset(doc, dangling, n) : n \in c.anchors \cup {s[1] : s \in c.shared}}

ComparisonFindings(doc, dangling, c) ==
    (UNION {RequireDataset(doc, dangling, n) : n \in c.anchors})
        \cup UNION {RequireDataset(doc, dangling, s[1]) \cup RequireColumn(doc, dangling, s[1], s[2])
                    : s \in c.shared}

(* Mutated form: the edge of a gap may be that of another dataset. *)
GapsByEdge(doc, dangling, g) ==
    (UNION {RequireDataset(doc, dangling, n) : n \in g.datasets})
        \cup When(~({e[2] : e \in g.edges} \subseteq {e[2] : e \in HeldEdges(doc)}), <<"dangling_reference", dangling>>)

GapFindings(doc, dangling, g) ==
    (UNION {RequireDataset(doc, dangling, n) : n \in g.datasets})
        \cup When(~(g.edges \subseteq HeldEdges(doc)), <<"dangling_reference", dangling>>)

-----------------------------------------------------------------------------
AllDatasetFindings(doc, dangling) == UNION {DatasetFindings(doc, dangling, d) : d \in Firsts(doc)}
NameFindings(doc, dangling) ==
    (UNION {ComparisonFindings(doc, dangling, c) : c \in doc.comparisons})
        \cup UNION {GapFindings(doc, dangling, g) : g \in doc.gaps}

(* Mutated form: to finalize, dangling references are warnings as well. *)
CheckDocumentAsDraft(doc, final) ==
    IF ~doc.shaped THEN {Error("shape")}
    ELSE AllDatasetFindings(doc, "warning")

(* check_document and _references: what is wrong with a document, as <<rule, severity>>.     *)
(* Dangling references are errors to finalize, warnings otherwise.                *)
CheckDocument(doc, final) ==
    LET dangling   == IF final THEN "error" ELSE "warning"
        duplicates == When(Repeated(doc) # {}, Error("duplicate_dataset"))
    IN  IF ~doc.shaped THEN {Error("shape")}
        ELSE IF ~FieldsFit(doc.fields) THEN duplicates \cup {Error("edge_fields")}
        ELSE duplicates \cup AllDatasetFindings(doc, dangling) \cup NameFindings(doc, dangling)

=============================================================================
