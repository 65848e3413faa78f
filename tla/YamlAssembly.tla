----------------------------- MODULE YamlAssembly -----------------------------
(* builder/intermediary.py: what load_intermediary_yaml accepts, of a single file *)
(* or of a directory of collection files that a manifest beside it lists.  Every  *)
(* read of the disk is a step, and a curator may rewrite files meanwhile.         *)
(*                                                                                *)
(* A file is a record [text, keys, version, shaped, identities, nodes]: text is   *)
(* "broken" (not YAML), "scalar" or "mapping"; keys its top-level keys; shaped    *)
(* whether its collections have their types; identities a function from IDs to    *)
(* whether the definition is sound; nodes a sequence of [id, sound, columns,      *)
(* definitions, grain], the last two of pairs <<identity, key columns>>.          *)
EXTENDS Naturals, SequencesExt

CONSTANTS Manifests,    \* what the manifest may be
          Files,        \* what a file may be
          Directories,  \* what the directory may be to begin with: functions to Files and Gone
          NameOf,       \* NameOf[raw]: the file a path in a manifest names
          Escaping,     \* paths in manifests that are absolute or contain ".."
          Outside,      \* files that resolve outside the directory
          Unsuffixed,   \* files that are not .yaml or .yml
          MaxRewrites   \* bound: files rewritten, added or removed

Version == "4"
NoText  == "blank"
Gone    == [text |-> "gone", keys |-> {}, version |-> NoText, shaped |-> FALSE, identities |-> <<>>, nodes |-> <<>>]
NoManifest == [text |-> "absent", extra |-> FALSE, version |-> NoText, identities |-> NoText, nodes |-> <<>>]
Names   == DOMAIN CHOOSE d \in Directories : TRUE
Directory == "the directory"

ASSUME AssemblyAssumption ==
    /\ MaxRewrites \in Nat /\ Directory \notin Names
    /\ Directories \subseteq [Names -> Files \cup {Gone}]
    /\ \A m \in Manifests :
           /\ m.nodes \in Seq(ToSet(m.nodes))
           /\ m.text = "mapping" => \A path \in {m.identities} \cup ToSet(m.nodes) : NameOf[path] \in Names
    /\ \A file \in Files : /\ file.text \in {"broken", "scalar", "mapping"}
                           /\ file.nodes \in Seq(ToSet(file.nodes))
                           /\ "nodes" \notin file.keys => file.nodes = <<>>

VARIABLES
    manifest,   \* the manifest on disk
    files,      \* files[n]: the file named n, or Gone
    assembly,   \* how far the run is, and what it has read
    rewrites,
    held        \* the files there have been since the run began, as <<name, file>>

assemblyVars == <<manifest, files, assembly, rewrites, held>>

(* the identities and nodes read so far: the payload *)
Nothing == [identities |-> <<>>, nodes |-> <<>>]
NotStarted == [at |-> "idle", target |-> Directory, entries |-> <<>>, next |-> 1, listed |-> {},
               findings |-> {}, payload |-> Nothing, outcome |-> "none"]

Present == {n \in Names : files[n] # Gone}
OnDisk    == {<<n, files[n]>> : n \in Present}

AssemblyInit == /\ manifest \in Manifests /\ files \in Directories
                /\ assembly = NotStarted /\ rewrites = 0 /\ held = {}

(* where nothing is assembled *)
AssemblyIdle == /\ manifest = NoManifest /\ files = [n \in Names |-> Gone]
                /\ assembly = [NotStarted EXCEPT !.at = "over"] /\ rewrites = 0 /\ held = {}

Proceed(changed) == assembly' = changed /\ UNCHANGED <<manifest, files, rewrites, held>>
Refuse(rules)    == Proceed([assembly EXCEPT !.at = "over", !.outcome = "refused", !.findings = rules])
Fail             == Proceed([assembly EXCEPT !.at = "over", !.outcome = "failed"])

If(condition, rule) == IF condition THEN {rule} ELSE {}

-----------------------------------------------------------------------------
(* IntermediaryNode: columns are unique, definitions use them and are unique, and  *)
(* a grain component with an identity is one of the definitions                   *)
NodeFits(node) ==
    /\ node.sound /\ node.id # NoText /\ node.columns # <<>>
    /\ IsInjective(node.columns) /\ IsInjective(node.definitions)
    /\ \A i \in DOMAIN node.definitions : node.definitions[i][2] \subseteq ToSet(node.columns)
    /\ \A part \in node.grain : /\ part[2] \subseteq ToSet(node.columns)
                                /\ part[1] # NoText => part \in ToSet(node.definitions)

Used(node) == {node.definitions[i][1] : i \in DOMAIN node.definitions}

(* IntermediaryDefinition: the whole payload, its nodes a sequence or a function  *)
(* from the places where they are                                                 *)
DefinitionFits(payload) ==
    /\ DOMAIN payload.identities # {} /\ DOMAIN payload.nodes # {}
    /\ \A i \in DOMAIN payload.identities : payload.identities[i] /\ i # NoText
    /\ \A i \in DOMAIN payload.nodes : /\ NodeFits(payload.nodes[i])
                                       /\ Used(payload.nodes[i]) \subseteq DOMAIN payload.identities
    /\ \A i, j \in DOMAIN payload.nodes : payload.nodes[i].id = payload.nodes[j].id => i = j

PayloadOf(file) == [identities |-> file.identities, nodes |-> file.nodes]
FileFits(file) ==
    /\ file.text = "mapping" /\ file.shaped /\ file.version = Version
    /\ file.keys = {"schema_version", "logical_identities", "nodes"}
    /\ DefinitionFits(PayloadOf(file))

-----------------------------------------------------------------------------
BeginAssembly ==
    /\ assembly.at = "idle"
    /\ \E target \in {Directory} \cup Present :
           assembly' = [NotStarted EXCEPT !.at = IF target = Directory THEN "manifest" ELSE "validate one",
                                          !.target = target]
    /\ held' = OnDisk
    /\ UNCHANGED <<manifest, files, rewrites>>

(* A single file is read to be validated and read again to be loaded. *)
ValidateOne ==
    /\ assembly.at = "validate one"
    /\ LET file == files[assembly.target]
       IN  \/ file = Gone /\ Fail
           \/ file # Gone /\ ~FileFits(file) /\ Refuse({"validation"})
           \/ file # Gone /\ FileFits(file) /\ Proceed([assembly EXCEPT !.at = "load one"])

LoadOne ==
    /\ assembly.at = "load one"
    /\ LET file == files[assembly.target]
       IN  IF file = Gone \/ ~FileFits(file) THEN Fail
           ELSE Proceed([assembly EXCEPT !.at = "over", !.outcome = "accepted", !.payload = PayloadOf(file)])

-----------------------------------------------------------------------------
(* IntermediaryDirectoryManifest *)
ManifestFits(m) ==
    /\ m.text = "mapping" /\ ~m.extra /\ m.version = Version
    /\ m.nodes # <<>> /\ NoText \notin {m.identities} \cup ToSet(m.nodes)
    /\ IsInjective(<<m.identities>> \o m.nodes)

Entries(m) == <<[collection |-> "logical_identities", path |-> m.identities]>>
              \o [i \in DOMAIN m.nodes |-> [collection |-> "nodes", path |-> m.nodes[i]]]

(* the version of the manifest is the only one there is: that of the files below  *)
ReadManifest ==
    /\ assembly.at = "manifest"
    /\ IF ManifestFits(manifest)
       THEN Proceed([assembly EXCEPT !.at = "entries", !.entries = Entries(manifest)])
       ELSE Refuse({"manifest"})

Entry == assembly.entries[assembly.next]
OnFrom(stage, changed) ==   \* the next entry, or after the last one the next stage
    Proceed(IF assembly.next < Len(assembly.entries)
            THEN [changed EXCEPT !.next = @ + 1]
            ELSE [changed EXCEPT !.next = 1, !.at = stage])

(* what is wrong with one path of the manifest; each rule keeps the later ones    *)
(* from being looked at                                                           *)
EntryRule(path, listed) ==
    LET name == NameOf[path]
    IN  CASE path \in Escaping    -> {"invalid_collection_path"}
          [] name \in listed      -> {"duplicate_manifest_path"}
          [] name \in Unsuffixed  -> {"unsupported_file"}
          [] name \in Outside     -> {"path_outside_directory"}
          [] files[name] = Gone   -> {"missing_file"}
          [] OTHER                -> {}

CheckEntry ==
    /\ assembly.at = "entries"
    /\ OnFrom("scan", [assembly EXCEPT
           !.findings = @ \cup EntryRule(Entry.path, assembly.listed),
           !.listed   = @ \cup If(Entry.path \notin Escaping, NameOf[Entry.path])])

(* Mutated form: files that the manifest does not list are let be. *)
ScanListedOnly ==
    /\ assembly.at = "scan"
    /\ IF assembly.findings = {} THEN Proceed([assembly EXCEPT !.at = "read"])
       ELSE Refuse(assembly.findings)

(* every file below the directory must be listed *)
Scan ==
    /\ assembly.at = "scan"
    /\ LET rules == assembly.findings
                    \cup If(Present = {}, "missing_yaml")
                    \cup If(Present \cap Unsuffixed # {}, "unsupported_file")
                    \cup If(~((Present \ Unsuffixed) \subseteq assembly.listed), "unlisted_file")
       IN  IF rules = {} THEN Proceed([assembly EXCEPT !.at = "read"]) ELSE Refuse(rules)

Ids(nodes) == {nodes[i].id : i \in DOMAIN nodes}

(* a node has the ID of one that was read before it *)
Repeats(nodes, known) ==
    \E i \in DOMAIN nodes : /\ nodes[i].id # NoText
                            /\ nodes[i].id \in known \/ \E j \in 1..(i - 1) : nodes[j].id = nodes[i].id

Usable(file, collection) == file.text = "mapping" /\ collection \in file.keys /\ file.shaped

(* what one collection file breaks, beside what was read before *)
CollectionRules(file, collection, sofar) ==
    LET keys == {"schema_version", collection}
        readable == file.text = "mapping"
        repeated == IF collection = "nodes" THEN Repeats(file.nodes, Ids(sofar.nodes))
                    ELSE DOMAIN file.identities \cap DOMAIN sofar.identities # {}
    IN  If(file.text = "broken", "yaml_syntax") \cup If(file.text = "scalar", "mapping_type")
        \cup If(readable /\ keys \ file.keys # {}, "missing")
        \cup If(readable /\ file.keys \ keys # {}, "extra")
        \cup If(readable /\ file.version # Version, "conflicting_schema_version")
        \cup If(readable /\ ~Usable(file, collection), "collection_type")
        \cup If(Usable(file, collection) /\ repeated, "duplicate_definition")

(* The code leaves a repeated node out: with that finding the payload is not used, *)
(* and the IDs in it are the same with the node.                                   *)
Extended(sofar, file, collection) ==
    CASE ~Usable(file, collection) -> sofar
      [] Usable(file, collection) /\ collection = "nodes" -> [sofar EXCEPT !.nodes = @ \o file.nodes]
      [] OTHER -> [sofar EXCEPT !.identities = file.identities]

(* One collection file is read and joined to what was read before.  A file that   *)
(* is gone by now fails the run.                                                  *)
ReadCollection ==
    /\ assembly.at = "read"
    /\ LET file == files[NameOf[Entry.path]]
       IN  \/ file = Gone /\ Fail
           \/ /\ file # Gone
              /\ OnFrom("validate", [assembly EXCEPT
                     !.findings = @ \cup CollectionRules(file, Entry.collection, assembly.payload),
                     !.payload  = Extended(@, file, Entry.collection)])

(* what was read is validated as a whole *)
Validate ==
    /\ assembly.at = "validate"
    /\ LET rules == IF assembly.findings # {} THEN assembly.findings
                    ELSE If(~DefinitionFits(assembly.payload), "validation")
       IN  IF rules = {} THEN Proceed([assembly EXCEPT !.at = "over", !.outcome = "accepted"])
           ELSE Refuse(rules)

Rewrite ==
    /\ assembly.at \notin {"idle", "over"} /\ rewrites < MaxRewrites
    /\ rewrites' = rewrites + 1
    /\ \E n \in Names, file \in Files \cup {Gone} :
           files' = [files EXCEPT ![n] = file] /\ held' = held \cup ({<<n, file>>} \ {<<n, Gone>>})
    /\ UNCHANGED <<manifest, assembly>>

AssemblyNext ==
    \/ BeginAssembly \/ ValidateOne \/ LoadOne \/ ReadManifest \/ CheckEntry \/ Scan
    \/ ReadCollection \/ Validate \/ Rewrite

-----------------------------------------------------------------------------
(* what a directory must be, said of all its files at once *)
Collection(paths) == {files[NameOf[p]] : p \in paths}
Fitting(paths, key) == \A f \in Collection(paths) :
    f.text = "mapping" /\ f.version = Version /\ f.shaped /\ f.keys = {"schema_version", key}

DirectoryFits ==
    LET paths == {manifest.identities} \cup ToSet(manifest.nodes)
        places == UNION {{<<p, k>> : k \in DOMAIN files[NameOf[p]].nodes} : p \in ToSet(manifest.nodes)}
    IN  /\ ManifestFits(manifest)
        /\ paths \cap Escaping = {} /\ \A p, q \in paths : NameOf[p] = NameOf[q] => p = q
        /\ Present = {NameOf[p] : p \in paths} /\ Present \cap (Unsuffixed \cup Outside) = {}
        /\ Fitting({manifest.identities}, "logical_identities")
        /\ Fitting(ToSet(manifest.nodes), "nodes")
        /\ DefinitionFits([identities |-> files[NameOf[manifest.identities]].identities,
                           nodes |-> [place \in places |-> files[NameOf[place[1]]].nodes[place[2]]]])

(* Of files that nobody rewrites, exactly those are accepted that as a whole are  *)
(* what the schema and the manifest ask for, none is left unread, and what is     *)
(* accepted is all that they say.                                                 *)
AcceptsExactly ==
    assembly.at = "over" /\ rewrites = 0 =>
        /\ assembly.outcome # "failed"
        /\ assembly.outcome = "accepted" <=>
               IF assembly.target = Directory THEN DirectoryFits ELSE FileFits(files[assembly.target])
        /\ assembly.outcome = "accepted" =>
               /\ assembly.target = Directory => ToSet(assembly.payload.nodes) = UNION {ToSet(files[n].nodes) : n \in Present}
               /\ assembly.target # Directory => assembly.payload = PayloadOf(files[assembly.target])

(* What is accepted is consistent whatever is rewritten between the checks and    *)
(* the reads: each node has one definition, which a file held during the run, and *)
(* every identity it uses is registered.                                          *)
AcceptedIsConsistent ==
    assembly.outcome = "accepted" =>
        LET read == assembly.payload
        IN  /\ \A i, j \in DOMAIN read.nodes : read.nodes[i].id = read.nodes[j].id => i = j
            /\ \A i \in DOMAIN read.nodes : /\ Used(read.nodes[i]) \subseteq DOMAIN read.identities
                                            /\ \E h \in held : read.nodes[i] \in ToSet(h[2].nodes)

(* A run accepts what is right, all of it, and nothing else, as long as nobody    *)
(* writes; and nothing inconsistent even then.                                    *)
AcceptedAsWritten == AcceptsExactly /\ AcceptedIsConsistent
=============================================================================
