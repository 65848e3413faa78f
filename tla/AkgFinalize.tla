----------------------------- MODULE AkgFinalize -----------------------------
(* The commands check and finalize of akg/cli.py over one document: what they    *)
(* read, the calls by which resolve.py compares it with the graph, one by one,   *)
(* and the replacement of the file through a temporary one whose name every      *)
(* finalize of the document uses.  An author edits the document meanwhile, the   *)
(* service changes the graph it serves, and commands may be killed.              *)
(*                                                                               *)
(* A graph is a record [api, datasets, relationships]: datasets a function from  *)
(* nodes to [facts, columns], a relationship [identity, a, b, forward, backward] *)
(* with ends <<node, columns>> and its directed values read from a and from b.   *)
EXTENDS AkgCheck

CONSTANTS Commands,     \* runs of check and finalize, each once
          Documents,    \* what the author may write
          Graphs,       \* the graphs that are served or that the YAML describes
          MaxEdits, MaxReloads, MaxAkgKilled, MaxAbroad   \* bounds; MaxAbroad: commands under way at once

(* files are inodes: that of the first document, and one that each command may create *)
First == "first document"
None  == "none"

ASSUME FinalizeAssumption ==
    /\ MaxEdits \in Nat /\ MaxReloads \in Nat /\ MaxAkgKilled \in Nat /\ MaxAbroad \in Nat
    /\ First \notin Commands /\ None \notin Commands
(* a document lists its datasets, a dataset its definitions, a definition its edges *)
ASSUME DocumentsAssumption ==
    \A doc \in Documents :
        /\ doc.datasets \in Seq(ToSet(doc.datasets))
        /\ \A d \in ToSet(doc.datasets) : /\ d.definitions \in Seq(ToSet(d.definitions))
                                          /\ \A def \in ToSet(d.definitions) : def.edges \in Seq(ToSet(def.edges))

Empty == [text |-> "empty", doc |-> {}, final |-> FALSE, by |-> {}]
Mixed == [text |-> "mixed", doc |-> {}, final |-> FALSE, by |-> {}]
Whole(doc, final, by) == [text |-> "whole", doc |-> {doc}, final |-> final, by |-> by]

VARIABLES
    document,  \* the file at the path of the document
    spare,     \* the file at the path of its temporary one, or None
    content,   \* content[f]: Empty, Mixed or the whole text of a document, and whose it is
    serving,   \* the graph the service serves
    akg,       \* akg[c]: how far command c is
    edits, reloads, akgKilled

akgVars == <<document, spare, content, serving, akg, edits, reloads, akgKilled>>

Waiting == [at |-> "idle", final |-> FALSE, yaml |-> FALSE, doc |-> {}, graph |-> {}, left |-> {},
            errors |-> FALSE, met |-> {}, file |-> None, beside |-> {}]

AkgInit == /\ document = First /\ spare = None /\ serving \in Graphs
           /\ \E doc \in Documents :
                  content = [f \in {First} \cup Commands |-> IF f = First THEN Whole(doc, FALSE, {}) ELSE Empty]
           /\ akg = [c \in Commands |-> Waiting]
           /\ edits = 0 /\ reloads = 0 /\ akgKilled = 0

(* where no document is worked on *)
AkgIdle == /\ document = First /\ spare = None /\ content = [f \in {First} \cup Commands |-> Empty]
           /\ serving = CHOOSE g \in Graphs : TRUE
           /\ akg = [c \in Commands |-> [Waiting EXCEPT !.at = "over"]]
           /\ edits = MaxEdits /\ reloads = MaxReloads /\ akgKilled = 0

Abroad  == {c \in Commands : akg[c].at \notin {"idle", "over"}}
Writing == {c \in Commands : akg[c].at \in {"fill", "replace"}}
Doc(c) == CHOOSE doc \in akg[c].doc : TRUE

Now(c, changed) == akg' = [akg EXCEPT ![c] = changed]

(* A command that is over keeps what tells of the text it may have written. *)
Over(c) == LET wrote == akg[c].at = "replace"
           IN  Now(c, [Waiting EXCEPT !.at = "over", !.doc = IF wrote THEN akg[c].doc ELSE {},
                                      !.met = IF wrote THEN akg[c].met ELSE {}])

-----------------------------------------------------------------------------
BeginAkg(c) ==
    /\ akg[c].at = "idle" /\ Cardinality(Abroad) < MaxAbroad
    /\ \E final \in BOOLEAN, yaml \in BOOLEAN :
           Now(c, [Waiting EXCEPT !.at = "read", !.final = final, !.yaml = yaml])
    /\ UNCHANGED <<document, spare, content, serving, edits, reloads, akgKilled>>

(* The calls by which a document is resolved, by what they are about: the graph at  *)
(* Start, dataset i at <<i, 0, 0>>, and edge k of its definition j at <<i, j, k>>;  *)
(* and their order.                                                               *)
Start == <<0, 0, 0>>
Calls(doc) ==
    {Start} \cup UNION {{<<i, 0, 0>>} \cup UNION {{<<i, j, k>> : k \in DOMAIN doc.datasets[i].definitions[j].edges}
                                                  : j \in DOMAIN doc.datasets[i].definitions}
                        : i \in DOMAIN doc.datasets}
Precedes(p, q) == \/ p[1] < q[1]
                  \/ p[1] = q[1] /\ p[2] < q[2]
                  \/ p[1] = q[1] /\ p[2] = q[2] /\ p[3] < q[3]

(* load_payload, check_document and _graph_source.  A check without a source ends *)
(* here; a source that does not load ends the command as well.                    *)
ReadDocument(c) ==
    /\ akg[c].at = "read"
    /\ LET read   == content[document]
           broken == \/ read.text # "whole"
                     \/ \E doc \in read.doc : HasErrors(CheckDocument(doc, akg[c].final))
       IN  \/ Over(c) /\ (broken \/ ~akg[c].final \/ akg[c].yaml)
           \/ /\ ~broken
              /\ \E doc \in read.doc, g \in Graphs :
                     /\ ~akg[c].yaml => g = serving
                     /\ Now(c, [akg[c] EXCEPT !.at = "resolve", !.doc = {doc}, !.left = Calls(doc),
                                              !.graph = IF akg[c].yaml THEN {g} ELSE {}])
    /\ UNCHANGED <<document, spare, content, serving, edits, reloads, akgKilled>>

(* get_relationship read from one end: the positions it presents, if there is one *)
Directed(g, id, from) ==
    {[to |-> r.b, values |-> r.forward] : r \in {s \in g.relationships :
        CanonicalId(s.identity, s.a, s.b) = id /\ s.a = from}}
    \cup {[to |-> r.a, values |-> r.backward] : r \in {s \in g.relationships :
        CanonicalId(s.identity, s.a, s.b) = id /\ s.b = from}}

(* _compare_dataset and _compare_items: what both the document and the graph say, *)
(* and each listed column, for which the listed entity definitions, compared the  *)
(* same way, are left out *)
Alike(said, served) == \A f \in DOMAIN said \cap DOMAIN served : said[f] = served[f]
(* Mutated form: of a dataset only the columns are compared. *)
ColumnsMatch(d, record) ==
    \A c \in DOMAIN d.columns : c \in DOMAIN record.columns /\ d.columns[c] = record.columns[c]

DatasetMatches(d, record) ==
    /\ Alike(d.facts, record.facts)
    /\ \A c \in DOMAIN d.columns : c \in DOMAIN record.columns /\ d.columns[c] = record.columns[c]

(* what one call finds against the graph: nothing, a mismatch, or no such element *)
DatasetFinding(d, g) ==
    IF d.node \notin DOMAIN g.datasets THEN "unknown"
    ELSE IF DatasetMatches(d, g.datasets[d.node]) THEN "none" ELSE "mismatch"
EdgeFinding(d, def, e, g) ==
    LET found == Directed(g, e.id, <<d.node, def.columns>>)
    IN  IF found = {} THEN "unknown"
        ELSE IF \A served \in found : served.to = e.to /\ Alike(e.values, served.values) THEN "none"
        ELSE "mismatch"
ElementFinding(doc, call, g) ==
    LET d == doc.datasets[call[1]]
    IN  IF call[2] = 0 THEN DatasetFinding(d, g)
        ELSE EdgeFinding(d, d.definitions[call[2]], d.definitions[call[2]].edges[call[3]], g)
Finding(c, call, g) ==
    IF call # Start THEN ElementFinding(Doc(c), call, g)
    ELSE IF akg[c].yaml \/ Doc(c).api \in {None, g.api} THEN "none"
    ELSE "mismatch"

GraphOf(c)  == IF akg[c].yaml THEN CHOOSE loaded \in akg[c].graph : TRUE ELSE serving
NextCall(c) == CHOOSE p \in akg[c].left : \A q \in akg[c].left \ {p} : Precedes(p, q)

(* resolve_document, one call; the edges of an unknown dataset are not asked for. *)
(* A service that does not answer ends the command.                               *)
Resolve(c) ==
    /\ akg[c].at = "resolve"
    /\ \/ ~akg[c].yaml /\ Over(c)
       \/ LET g     == GraphOf(c)
              call  == NextCall(c)
              f     == Finding(c, call, g)
              rest  == akg[c].left \ (IF f = "unknown" /\ call[2] = 0 THEN {p \in akg[c].left : p[1] = call[1]}
                                      ELSE {call})
              wrong == akg[c].errors \/ f # "none"
          IN  IF rest = {} /\ (wrong \/ ~akg[c].final) THEN Over(c)
              ELSE Now(c, [akg[c] EXCEPT !.left = rest, !.errors = wrong, !.met = @ \cup {g},
                                         !.at = IF rest = {} THEN "open" ELSE "resolve"])
    /\ UNCHANGED <<document, spare, content, serving, edits, reloads, akgKilled>>

-----------------------------------------------------------------------------
(* The command goes on to write; the commands that write by then have it beside    *)
(* them, and it has them.                                                         *)
Writes(c, file) ==
    akg' = [d \in Commands |->
        IF d = c THEN [akg[c] EXCEPT !.at = "fill", !.file = file, !.beside = Writing]
        ELSE IF d \in Writing THEN [akg[d] EXCEPT !.beside = @ \cup {c}]
        ELSE akg[d]]

(* Mutated form: the document itself is written. *)
OpenInPlace(c) ==
    /\ akg[c].at = "open"
    /\ content' = [content EXCEPT ![document] = Empty]
    /\ Writes(c, document)
    /\ spare' = c
    /\ UNCHANGED <<document, serving, edits, reloads, akgKilled>>

(* Mutated form: a temporary file that is there already is not emptied. *)
OpenLeftOver(c) ==
    /\ akg[c].at = "open"
    /\ spare' = IF spare = None THEN c ELSE spare
    /\ Writes(c, spare')
    /\ UNCHANGED <<document, content, serving, edits, reloads, akgKilled>>

(* write_payload: the temporary file is created, or emptied if there is one *)
OpenSpare(c) ==
    /\ akg[c].at = "open"
    /\ LET file == IF spare = None THEN c ELSE spare
       IN  /\ spare' = file
           /\ content' = [content EXCEPT ![file] = Empty]
           /\ Writes(c, file)
    /\ UNCHANGED <<document, serving, edits, reloads, akgKilled>>

(* It is written through the open file, wherever that is by now.  Over the text   *)
(* of another command it leaves what is longer.                                   *)
Fill(c) ==
    /\ akg[c].at = "fill"
    /\ \/ content' = [content EXCEPT ![akg[c].file] = Whole(Doc(c), TRUE, {c})]
       \/ content[akg[c].file] # Empty /\ content' = [content EXCEPT ![akg[c].file] = Mixed]
    /\ Now(c, [akg[c] EXCEPT !.at = "replace"])
    /\ UNCHANGED <<document, spare, serving, edits, reloads, akgKilled>>

(* os.replace; there may be nothing left to rename *)
Replace(c) ==
    /\ akg[c].at = "replace"
    /\ \/ spare = None /\ UNCHANGED <<document, spare>>
       \/ spare # None /\ document' = spare /\ spare' = None
    /\ Over(c)
    /\ UNCHANGED <<content, serving, edits, reloads, akgKilled>>

KillAkg(c) ==
    /\ c \in Abroad /\ akgKilled < MaxAkgKilled
    /\ akgKilled' = akgKilled + 1
    /\ Over(c)
    /\ UNCHANGED <<document, spare, content, serving, edits, reloads>>

(* The author writes the document, the status included. *)
Edit ==
    /\ edits < MaxEdits /\ edits' = edits + 1
    /\ \E doc \in Documents : content' = [content EXCEPT ![document] = Whole(doc, FALSE, {})]
    /\ UNCHANGED <<document, spare, serving, akg, reloads, akgKilled>>

(* The service is restarted with another artifact. *)
ServeAnother ==
    /\ reloads < MaxReloads /\ reloads' = reloads + 1
    /\ serving' \in Graphs \ {serving}
    /\ UNCHANGED <<document, spare, content, akg, edits, akgKilled>>

AkgNext ==
    \/ \E c \in Commands : \/ BeginAkg(c) \/ ReadDocument(c) \/ Resolve(c) \/ OpenSpare(c)
                           \/ Fill(c) \/ Replace(c) \/ KillAkg(c)
    \/ Edit \/ ServeAnother

-----------------------------------------------------------------------------
(* Each dataset and each edge of a document is that of one of the graphs: the facts *)
(* and the edge values that both give are the same, and every listed column is there *)
(* with what is said of it.  Whatever the document names elsewhere, the ends of its  *)
(* edges, the columns and edges in use, and what comparisons and gaps are about, it  *)
(* holds itself.  The API version it records is left aside.                        *)
ServedDataset(d, g) ==
    /\ d.node \in DOMAIN g.datasets
    /\ Alike(d.facts, g.datasets[d.node].facts)
    /\ DOMAIN d.columns \subseteq DOMAIN g.datasets[d.node].columns
    /\ \A c \in DOMAIN d.columns : d.columns[c] = g.datasets[d.node].columns[c]
ServedEdge(d, def, e, g) ==
    \E r \in g.relationships :
        /\ r.identity = def.identity
        /\ \/ r.a = <<d.node, def.columns>> /\ r.b = e.to /\ Alike(e.values, r.forward)
           \/ r.b = <<d.node, def.columns>> /\ r.a = e.to /\ Alike(e.values, r.backward)
IsServed(doc, graphs) ==
    \A d \in ToSet(doc.datasets) :
        /\ \E g \in graphs : ServedDataset(d, g)
        /\ \A def \in ToSet(d.definitions) : \A e \in ToSet(def.edges) : \E g \in graphs : ServedEdge(d, def, e, g)
ListsColumn(doc, column) == \E d \in ToSet(doc.datasets) : d.node = column[1] /\ column[2] \in DOMAIN d.columns
DirectedEdges(doc) ==
    UNION {UNION {{<<d.node, e.id>> : e \in ToSet(def.edges)} : def \in ToSet(d.definitions)} : d \in ToSet(doc.datasets)}
InUse(d, def) ==
    \A u \in def.usage : \E e \in ToSet(def.edges) : u.edge = e.id /\ u.keep \subseteq {d.node, e.to[1]}
IsClosed(doc) ==
    /\ \A d \in ToSet(doc.datasets) :
           /\ d.used \subseteq DOMAIN d.columns
           /\ \A def \in ToSet(d.definitions) :
                  InUse(d, def) /\ \A e \in ToSet(def.edges) : e.to[1] \in Nodes(doc)
    /\ \A c \in doc.comparisons : c.anchors \subseteq Nodes(doc) /\ \A s \in c.shared : ListsColumn(doc, s)
    /\ \A gap \in doc.gaps : gap.datasets \subseteq Nodes(doc) /\ gap.edges \subseteq DirectedEdges(doc)
IsSubgraph(doc, graphs) == IsServed(doc, graphs) /\ IsClosed(doc)

(* A document that finalize has marked final, and nobody has edited since, is a   *)
(* closed part of the graph it was resolved against: of one graph, or, where the  *)
(* service changed it meanwhile, each dataset and each edge of one of them.       *)
FinalIsSubgraph ==
    LET shown == content[document] IN
    shown.final => \A doc \in shown.doc, c \in shown.by : IsSubgraph(doc, akg[c].met)

(* The document changes only by an edit or by a finalize, which replaces all of   *)
(* it with what it had read; nothing of an earlier, killed finalize gets into it.  *)
(* Only where another finalize wrote the temporary file of the same name at the    *)
(* same time may the document get the text of that one, an empty or a mixed one.   *)
Others(c) == {Empty, Mixed} \cup UNION {{Whole(doc, TRUE, {d}) : doc \in akg[d].doc} : d \in akg[c].beside}
RewritesWhole ==
    [][content'[document'] # content[document] =>
           \/ edits' # edits
           \/ \E c \in Writing :
                  /\ akg[c].final
                  /\ \/ content'[document'] = Whole(Doc(c), TRUE, {c})
                     \/ akg[c].beside # {} /\ content'[document'] \in Others(c)]_akgVars

(* A document that can be read stays so: "Replace the document atomically, keeping  *)
(* its JSON or YAML form." (check.py:60).                                          *)
DocumentStaysWhole ==
    [][content[document].text = "whole" => content'[document'].text = "whole"]_akgVars

=============================================================================
