---------------------------- MODULE BuilderProofs ----------------------------
(* Proofs about the builder among the file commands, for any intermediaries: an   *)
(* assembly of YAML files reports what it read, for any manifests, directories    *)
(* and files and any rewriting of them; and of a graph that is built the texts    *)
(* are read back as what they were written for.                                   *)
EXTENDS FileCommands, SequenceLemmas

-----------------------------------------------------------------------------
(* The assembly                                                                 *)

Listing == Entries(manifest)
PathAt(i) == Listing[i].path
FileAt(i) == files[NameOf[PathAt(i)]]

AssemblyFields == {"at", "target", "entries", "next", "listed", "findings", "payload", "outcome"}
InDirectory == {"manifest", "entries", "scan", "read", "validate"}
Stages == InDirectory \cup {"idle", "validate one", "load one", "over"}

AssemblyTyped ==
    /\ manifest \in Manifests \cup {NoManifest} /\ rewrites \in Nat
    /\ files \in [Names -> Files \cup {Gone}]
    /\ assembly = [field \in AssemblyFields |-> assembly[field]]
    /\ assembly.at \in Stages
    /\ assembly.payload = [identities |-> assembly.payload.identities, nodes |-> assembly.payload.nodes]
    /\ assembly.payload.nodes \in Seq(ToSet(assembly.payload.nodes))

(* What is fixed once a stage is reached, whatever is rewritten. *)
StageInv ==
    /\ assembly.at \in InDirectory => assembly.target = Directory
    /\ assembly.at \in {"validate one", "load one"} => assembly.target \in Names
    /\ assembly.at \in {"entries", "scan", "read", "validate"} =>
           ManifestFits(manifest) /\ assembly.entries = Listing
    /\ assembly.at \in {"entries", "read"} => assembly.next \in 1..Len(Listing)
    /\ assembly.at \in {"manifest", "scan"} => assembly.next = 1
    /\ assembly.at = "manifest" => assembly.findings = {} /\ assembly.listed = {}
    /\ assembly.at \notin {"read", "validate", "over"} => assembly.payload = Nothing
    /\ assembly.at # "over" => assembly.outcome = "none"

(* What was read was held by a file since the run began, and only what fits is    *)
(* accepted.                                                                      *)
HeldInv ==
    /\ assembly.at # "idle" => OnDisk \subseteq held
    /\ \A node \in ToSet(assembly.payload.nodes) : \E h \in held : node \in ToSet(h[2].nodes)
    /\ assembly.outcome = "accepted" => DefinitionFits(assembly.payload)

(* the entries that the stage has passed *)
Passed == IF assembly.at \in {"entries", "read"} THEN 1..(assembly.next - 1) ELSE 1..Len(Listing)

(* The entries' part of DirectoryFits, by positions. *)
EntryFits(i) ==
    /\ PathAt(i) \notin Escaping /\ NameOf[PathAt(i)] \notin Unsuffixed \cup Outside /\ FileAt(i) # Gone
    /\ \A j \in 1..(i - 1) : NameOf[PathAt(j)] # NameOf[PathAt(i)]
EntriesInv ==
    /\ assembly.at \in {"entries", "scan"} =>
           /\ assembly.findings = {} <=> \A i \in Passed : EntryFits(i)
           /\ assembly.listed = {NameOf[PathAt(i)] : i \in {j \in Passed : PathAt(j) \notin Escaping}}
    /\ assembly.at \in {"read", "validate"} =>
           /\ \A i \in 1..Len(Listing) : EntryFits(i)
           /\ Present = {NameOf[PathAt(i)] : i \in 1..Len(Listing)}

(* The files' part, and how what is read so far lies in the payload. *)
CollectionFits(i) ==
    LET f == FileAt(i) IN
    f.text = "mapping" /\ f.version = Version /\ f.shaped /\ f.keys = {"schema_version", Listing[i].collection}
NodePlaces(passed) == UNION {{<<PathAt(i), k>> : k \in DOMAIN FileAt(i).nodes} : i \in passed \ {1}}
NodeAt(q) == files[NameOf[q[1]]].nodes[q[2]]
OnceEach(passed) ==
    \A q, r \in NodePlaces(passed) : NodeAt(q).id = NodeAt(r).id /\ NodeAt(q).id # NoText => q = r
PutTogether(payload, passed) ==
    /\ payload.identities = IF 1 \in passed THEN FileAt(1).identities ELSE <<>>
    /\ ToSet(payload.nodes) = {NodeAt(q) : q \in NodePlaces(passed)}
    /\ \A x, y \in DOMAIN payload.nodes :
           payload.nodes[x].id = payload.nodes[y].id /\ payload.nodes[x].id # NoText => x = y
ReadInv ==
    assembly.at \in {"read", "validate"} =>
        /\ assembly.findings = {} <=> (\A i \in Passed : CollectionFits(i)) /\ OnceEach(Passed)
        /\ assembly.findings = {} => PutTogether(assembly.payload, Passed)

SingleInv ==
    /\ assembly.at = "validate one" => files[assembly.target] # Gone
    /\ assembly.at = "load one" => FileFits(files[assembly.target])

(* As long as nobody writes. *)
UndisturbedInv == rewrites = 0 => EntriesInv /\ ReadInv /\ SingleInv

AssemblyInv == AssemblyTyped /\ StageInv /\ HeldInv /\ UndisturbedInv /\ AcceptsExactly

-----------------------------------------------------------------------------
(* Sequences of nodes and the entries of a manifest                             *)

(* What a concatenation has at its places. *)
LEMMA InOneRow ==
    ASSUME NEW s, NEW t, s \in Seq(ToSet(s)), t \in Seq(ToSet(t))
    PROVE  /\ s \o t \in Seq(ToSet(s \o t)) /\ Len(s \o t) = Len(s) + Len(t)
           /\ \A i \in 1..Len(s) : (s \o t)[i] = s[i]
           /\ \A i \in 1..Len(t) : (s \o t)[Len(s) + i] = t[i]
           /\ ToSet(s \o t) = ToSet(s) \cup ToSet(t)
<1> DEFINE all == ToSet(s) \cup ToSet(t)
<1>1. s \in Seq(all) /\ t \in Seq(all)
  BY SeqDef, LenProperties DEF ToSet
<1>2. /\ s \o t \in Seq(all) /\ Len(s \o t) = Len(s) + Len(t)
      /\ \A i \in 1..Len(s) : (s \o t)[i] = s[i]
      /\ \A i \in Len(s) + 1..Len(s) + Len(t) : (s \o t)[i] = t[i - Len(s)]
  BY <1>1, ConcatProperties
<1>3. \A i \in 1..Len(t) : (s \o t)[Len(s) + i] = t[i]
  BY <1>1, <1>2, LenProperties
<1>4. DOMAIN s = 1..Len(s) /\ DOMAIN t = 1..Len(t) /\ DOMAIN (s \o t) = 1..(Len(s) + Len(t)) /\ Len(s) \in Nat /\ Len(t) \in Nat
  BY <1>1, <1>2, LenProperties
<1>5. ToSet(s \o t) = all
  <2>1. \A x \in ToSet(s) : x \in ToSet(s \o t)
    BY <1>2, <1>4 DEF ToSet
  <2>2. \A x \in ToSet(t) : x \in ToSet(s \o t)
    <3> SUFFICES ASSUME NEW i \in 1..Len(t) PROVE t[i] \in ToSet(s \o t)
      BY <1>4 DEF ToSet
    <3>1. Len(s) + i \in DOMAIN (s \o t)
      BY <1>4
    <3> QED
      BY <1>3, <3>1 DEF ToSet
  <2>3. ToSet(s \o t) \subseteq all
    BY <1>2, <1>4 DEF ToSet
  <2> QED
    BY <2>1, <2>2, <2>3
<1> QED
  BY <1>2, <1>3, <1>5

(* the manifest that the entries come from *)
LEMMA EntriesListed ==
    ASSUME AssemblyTyped, ManifestFits(manifest)
    PROVE  /\ Len(Listing) \in Nat /\ Len(Listing) > 1
           /\ Listing[1] = [collection |-> "logical_identities", path |-> manifest.identities]
           /\ \A i \in 2..Len(Listing) : /\ Listing[i] = [collection |-> "nodes", path |-> manifest.nodes[i - 1]]
                                         /\ i - 1 \in DOMAIN manifest.nodes
           /\ \A i, j \in 1..Len(Listing) : PathAt(i) = PathAt(j) => i = j
           /\ \A i \in 1..Len(Listing) : NameOf[PathAt(i)] \in Names
           /\ {PathAt(i) : i \in 1..Len(Listing)} = {manifest.identities} \cup ToSet(manifest.nodes)
           /\ {PathAt(i) : i \in 2..Len(Listing)} = ToSet(manifest.nodes)
<1> DEFINE m == manifest
           head == <<[collection |-> "logical_identities", path |-> m.identities]>>
           tail == [i \in DOMAIN m.nodes |-> [collection |-> "nodes", path |-> m.nodes[i]]]
<1>1. m \in Manifests /\ m.nodes \in Seq(ToSet(m.nodes)) /\ m.nodes # <<>> /\ m.text = "mapping"
  BY AssemblyAssumption DEF AssemblyTyped, ManifestFits, NoManifest
<1>2. DOMAIN m.nodes = 1..Len(m.nodes) /\ Len(m.nodes) \in Nat /\ Len(m.nodes) > 0
  BY <1>1, LenProperties, EmptySeq
<1>3. tail \in Seq(ToSet(tail)) /\ head \in Seq(ToSet(head)) /\ Len(head) = 1 /\ Len(tail) = Len(m.nodes)
  <2>1. tail \in [1..Len(m.nodes) -> ToSet(tail)]
    BY <1>2 DEF ToSet
  <2> HIDE DEF tail
  <2>2. tail \in Seq(ToSet(tail)) /\ Len(tail) = Len(m.nodes)
    BY <1>2, <2>1, SeqDef, LenProperties
  <2> QED
    BY <2>2 DEF ToSet
<1>4. Listing = head \o tail
  BY DEF Listing, Entries
<1> HIDE DEF head, tail
<1>5. /\ Len(Listing) = 1 + Len(m.nodes)
      /\ Listing[1] = head[1]
      /\ \A i \in 1..Len(m.nodes) : Listing[1 + i] = tail[i]
  <2>1. /\ Len(head \o tail) = Len(head) + Len(tail)
        /\ \A i \in 1..Len(head) : (head \o tail)[i] = head[i]
        /\ \A i \in 1..Len(tail) : (head \o tail)[Len(head) + i] = tail[i]
    <3>1. head \in Seq(ToSet(head))
      BY <1>3
    <3>2. tail \in Seq(ToSet(tail))
      BY <1>3
    <3>3. Len(head \o tail) = Len(head) + Len(tail)
      BY <3>1, <3>2, InOneRow
    <3> QED
    BY <3>1, <3>2, <3>3, InOneRow
  <2> QED
    BY <1>3, <1>4, <2>1
<1>6. Listing[1] = [collection |-> "logical_identities", path |-> m.identities]
  BY <1>5 DEF head
<1>7. \A i \in 2..Len(Listing) : i - 1 \in DOMAIN m.nodes /\ Listing[i] = [collection |-> "nodes", path |-> m.nodes[i - 1]]
  <2> SUFFICES ASSUME NEW i \in 2..Len(Listing)
               PROVE  i - 1 \in DOMAIN m.nodes /\ Listing[i] = [collection |-> "nodes", path |-> m.nodes[i - 1]]
    OBVIOUS
  <2>1. i - 1 \in 1..Len(m.nodes) /\ 1 + (i - 1) = i
    BY <1>2, <1>5
  <2>2. Listing[i] = tail[i - 1]
    BY <1>5, <2>1
  <2> QED
    BY <1>2, <2>1, <2>2 DEF tail
<1>8. \A i \in 2..Len(Listing) : i - 1 \in DOMAIN m.nodes /\ PathAt(i) = m.nodes[i - 1]
  <2> SUFFICES ASSUME NEW i \in 2..Len(Listing) PROVE i - 1 \in DOMAIN m.nodes /\ PathAt(i) = m.nodes[i - 1]
    OBVIOUS
  <2>1. Listing[i] = [collection |-> "nodes", path |-> m.nodes[i - 1]] /\ i - 1 \in DOMAIN m.nodes
    BY <1>7
  <2> QED
    BY <2>1 DEF PathAt
<1>9. \A i, j \in 1..Len(Listing) : PathAt(i) = PathAt(j) => i = j
  <2> DEFINE row == <<m.identities>> \o m.nodes
  <2>1. IsInjective(row)
    BY DEF ManifestFits
  <2>2. <<m.identities>> \in Seq(ToSet(<<m.identities>>)) /\ Len(<<m.identities>>) = 1
    BY DEF ToSet
  <2>3. Len(row) = 1 + Len(m.nodes) /\ row[1] = m.identities /\ row \in Seq(ToSet(row))
        /\ \A i \in 1..Len(m.nodes) : row[1 + i] = m.nodes[i]
    <3> DEFINE one == <<m.identities>>
    <3>1. one[1] = m.identities /\ one \in Seq(ToSet(one)) /\ Len(one) = 1 /\ row = one \o m.nodes
      BY <2>2
    <3> HIDE DEF one, row
    <3>2. /\ one \o m.nodes \in Seq(ToSet(one \o m.nodes)) /\ Len(one \o m.nodes) = Len(one) + Len(m.nodes)
          /\ \A i \in 1..Len(one) : (one \o m.nodes)[i] = one[i]
          /\ \A i \in 1..Len(m.nodes) : (one \o m.nodes)[Len(one) + i] = m.nodes[i]
      <4>1. one \in Seq(ToSet(one)) /\ m.nodes \in Seq(ToSet(m.nodes))
        BY <1>1, <3>1
      <4> QED
        BY <4>1, InOneRow
    <3> QED
      BY <3>1, <3>2
  <2> HIDE DEF row
  <2>4. DOMAIN row = 1..Len(Listing)
    BY <1>5, <2>3, LenProperties
  <2>5. \A i \in 1..Len(Listing) : PathAt(i) = row[i]
    <3> SUFFICES ASSUME NEW i \in 1..Len(Listing) PROVE PathAt(i) = row[i]
      OBVIOUS
    <3>1. CASE i = 1
      BY <1>6, <2>3, <3>1 DEF PathAt
    <3>2. CASE i # 1
      <4>1. i \in 2..Len(Listing) /\ i - 1 \in 1..Len(m.nodes) /\ 1 + (i - 1) = i
        BY <1>2, <1>5, <3>2
      <4> QED
        BY <1>8, <2>3, <4>1
    <3> QED
      BY <3>1, <3>2
  <2> QED
    BY <2>1, <2>4, <2>5 DEF IsInjective
<1>10. \A i \in 2..Len(Listing) : PathAt(i) \in ToSet(m.nodes)
  BY <1>8 DEF ToSet
<1>11. \A path \in ToSet(m.nodes) : \E i \in 2..Len(Listing) : PathAt(i) = path
  <2> SUFFICES ASSUME NEW k \in 1..Len(m.nodes) PROVE \E i \in 2..Len(Listing) : PathAt(i) = m.nodes[k]
    BY <1>2 DEF ToSet
  <2>1. k + 1 \in 2..Len(Listing) /\ (k + 1) - 1 = k
    BY <1>2, <1>5
  <2> QED
    BY <1>8, <2>1
<1>12. PathAt(1) = m.identities
  BY <1>6 DEF PathAt
<1>13. Len(Listing) \in Nat /\ Len(Listing) > 1 /\ 1..Len(Listing) = {1} \cup 2..Len(Listing)
  BY <1>2, <1>5
<1>14. {PathAt(i) : i \in 1..Len(Listing)} = {m.identities} \cup ToSet(m.nodes)
  BY <1>10, <1>11, <1>12, <1>13
<1>15. {PathAt(i) : i \in 2..Len(Listing)} = ToSet(m.nodes)
  BY <1>10, <1>11
<1>16. \A i \in 1..Len(Listing) : NameOf[PathAt(i)] \in Names
  BY <1>1, <1>14, AssemblyAssumption
<1> QED
  BY <1>6, <1>7, <1>9, <1>13, <1>14, <1>15, <1>16

-----------------------------------------------------------------------------
(* Types and stages                                                             *)

(* the empty payload has the shape of every payload *)
LEMMA NothingRead == Nothing.nodes \in Seq(ToSet(Nothing.nodes))
  BY DEF Nothing

(* The shape that a step gives to the state of the run. *)
Shaped(r) == r = [field \in AssemblyFields |-> r[field]]

(* what OnFrom makes of the change it is given *)
LEMMA OnFromMoves ==
    ASSUME AssemblyTyped, assembly.entries = Listing, assembly.next \in 1..Len(Listing), Len(Listing) \in Nat,
           NEW stage, NEW changed, OnFrom(stage, changed),
           Shaped(changed), changed.at = assembly.at, changed.next = assembly.next
    PROVE  /\ Shaped(assembly') /\ UNCHANGED <<manifest, files, rewrites, held>>
           /\ \A field \in AssemblyFields \ {"at", "next"} : assembly'[field] = changed[field]
           /\ assembly.next < Len(Listing) => assembly'.at = assembly.at /\ assembly'.next = assembly.next + 1
           /\ assembly.next >= Len(Listing) => assembly'.at = stage /\ assembly'.next = 1
<1>1. /\ UNCHANGED <<manifest, files, rewrites, held>>
      /\ assembly' = IF assembly.next < Len(Listing) THEN [changed EXCEPT !.next = @ + 1]
                     ELSE [changed EXCEPT !.next = 1, !.at = stage]
  BY DEF OnFrom, Proceed
<1>2. CASE assembly.next < Len(Listing)
  <2>1. assembly' = [changed EXCEPT !.next = assembly.next + 1]
    BY <1>1, <1>2
  <2> QED
    BY <1>1, <1>2, <2>1 DEF Shaped, AssemblyFields
<1>3. CASE ~(assembly.next < Len(Listing))
  <2>1. assembly' = [changed EXCEPT !.next = 1, !.at = stage]
    BY <1>1, <1>3
  <2> QED
    BY <1>1, <1>3, <2>1 DEF Shaped, AssemblyFields
<1> QED
  BY <1>2, <1>3

(* what is found of an entry *)
Checking == [assembly EXCEPT
    !.findings = @ \cup EntryRule(PathAt(assembly.next), assembly.listed),
    !.listed   = @ \cup If(PathAt(assembly.next) \notin Escaping, NameOf[PathAt(assembly.next)])]

(* what a step that checks an entry leaves *)
LEMMA EntryChecked ==
    ASSUME AssemblyTyped, StageInv, CheckEntry
    PROVE  /\ assembly.at = "entries" /\ assembly.target = Directory /\ ManifestFits(manifest)
           /\ assembly.payload = Nothing /\ assembly.outcome = "none"
           /\ assembly.entries = Listing /\ assembly.next \in 1..Len(Listing) /\ Len(Listing) \in Nat
           /\ UNCHANGED <<manifest, files, rewrites, held>> /\ Shaped(assembly')
           /\ assembly'.target = Directory /\ assembly'.entries = Listing
           /\ assembly'.payload = Nothing /\ assembly'.outcome = "none"
           /\ assembly'.findings = assembly.findings \cup EntryRule(PathAt(assembly.next), assembly.listed)
           /\ assembly'.listed = assembly.listed
                  \cup If(PathAt(assembly.next) \notin Escaping, NameOf[PathAt(assembly.next)])
           /\ assembly.next < Len(Listing) => assembly'.at = "entries" /\ assembly'.next = assembly.next + 1
           /\ assembly.next >= Len(Listing) => assembly'.at = "scan" /\ assembly'.next = 1
<1>1. /\ assembly.at = "entries" /\ assembly.target = Directory /\ ManifestFits(manifest)
      /\ assembly.payload = Nothing /\ assembly.outcome = "none"
      /\ assembly.entries = Listing /\ assembly.next \in 1..Len(Listing) /\ Len(Listing) \in Nat
  BY EntriesListed DEF CheckEntry, StageInv, InDirectory
<1>2. OnFrom("scan", Checking)
  BY <1>1 DEF CheckEntry, Checking, Entry, PathAt
<1>3. /\ Shaped(Checking)
      /\ \A field \in AssemblyFields \ {"findings", "listed"} : Checking[field] = assembly[field]
      /\ Checking.findings = assembly.findings \cup EntryRule(PathAt(assembly.next), assembly.listed)
      /\ Checking.listed = assembly.listed \cup If(PathAt(assembly.next) \notin Escaping, NameOf[PathAt(assembly.next)])
  BY DEF Checking, Shaped, AssemblyTyped, AssemblyFields
<1>4. Checking.at = assembly.at /\ Checking.next = assembly.next
  BY <1>3 DEF AssemblyFields
<1>5. /\ Shaped(assembly') /\ UNCHANGED <<manifest, files, rewrites, held>>
      /\ \A field \in AssemblyFields \ {"at", "next"} : assembly'[field] = Checking[field]
      /\ assembly.next < Len(Listing) => assembly'.at = assembly.at /\ assembly'.next = assembly.next + 1
      /\ assembly.next >= Len(Listing) => assembly'.at = "scan" /\ assembly'.next = 1
  BY <1>1, <1>2, <1>3, <1>4, OnFromMoves
<1> QED
  BY <1>1, <1>3, <1>5 DEF AssemblyFields

(* what is read from a file, or that it is gone *)
Reading == [assembly EXCEPT
    !.findings = @ \cup CollectionRules(FileAt(assembly.next), Listing[assembly.next].collection, assembly.payload),
    !.payload  = Extended(@, FileAt(assembly.next), Listing[assembly.next].collection)]

(* what a step that reads a file leaves *)
LEMMA CollectionRead ==
    ASSUME AssemblyTyped, StageInv, ReadCollection
    PROVE  /\ assembly.at = "read" /\ assembly.target = Directory /\ ManifestFits(manifest) /\ assembly.outcome = "none"
           /\ assembly.entries = Listing /\ assembly.next \in 1..Len(Listing) /\ Len(Listing) \in Nat
           /\ \/ FileAt(assembly.next) = Gone /\ Fail
              \/ /\ FileAt(assembly.next) \in Files /\ FileAt(assembly.next) # Gone
                 /\ UNCHANGED <<manifest, files, rewrites, held>> /\ Shaped(assembly')
                 /\ assembly'.target = Directory /\ assembly'.entries = Listing /\ assembly'.outcome = "none"
                 /\ assembly'.findings = assembly.findings \cup
                        CollectionRules(FileAt(assembly.next), Listing[assembly.next].collection, assembly.payload)
                 /\ assembly'.payload =
                        Extended(assembly.payload, FileAt(assembly.next), Listing[assembly.next].collection)
                 /\ assembly.next < Len(Listing) => assembly'.at = "read" /\ assembly'.next = assembly.next + 1
                 /\ assembly.next >= Len(Listing) => assembly'.at = "validate" /\ assembly'.next = 1
<1>1. /\ assembly.at = "read" /\ assembly.target = Directory /\ ManifestFits(manifest) /\ assembly.outcome = "none"
      /\ assembly.entries = Listing /\ assembly.next \in 1..Len(Listing) /\ Len(Listing) \in Nat
  BY EntriesListed DEF ReadCollection, StageInv, InDirectory
<1>2. FileAt(assembly.next) \in Files \cup {Gone}
  BY <1>1, EntriesListed DEF AssemblyTyped, FileAt
<1>3. Entry = Listing[assembly.next] /\ files[NameOf[Entry.path]] = FileAt(assembly.next)
  BY <1>1 DEF Entry, FileAt, PathAt
<1>4. \/ FileAt(assembly.next) = Gone /\ Fail
      \/ FileAt(assembly.next) \in Files /\ FileAt(assembly.next) # Gone /\ OnFrom("validate", Reading)
  BY <1>2, <1>3 DEF ReadCollection, Reading
<1>5. ASSUME OnFrom("validate", Reading)
      PROVE  /\ UNCHANGED <<manifest, files, rewrites, held>> /\ Shaped(assembly')
             /\ assembly'.target = Directory /\ assembly'.entries = Listing /\ assembly'.outcome = "none"
             /\ assembly'.findings = Reading.findings /\ assembly'.payload = Reading.payload
             /\ assembly.next < Len(Listing) => assembly'.at = "read" /\ assembly'.next = assembly.next + 1
             /\ assembly.next >= Len(Listing) => assembly'.at = "validate" /\ assembly'.next = 1
  <2>1. Shaped(Reading) /\ \A field \in AssemblyFields \ {"findings", "payload"} : Reading[field] = assembly[field]
    BY DEF Reading, Shaped, AssemblyTyped, AssemblyFields
  <2>2. Reading.at = assembly.at /\ Reading.next = assembly.next
    BY <2>1 DEF AssemblyFields
  <2>3. /\ Shaped(assembly') /\ UNCHANGED <<manifest, files, rewrites, held>>
        /\ \A field \in AssemblyFields \ {"at", "next"} : assembly'[field] = Reading[field]
        /\ assembly.next < Len(Listing) => assembly'.at = assembly.at /\ assembly'.next = assembly.next + 1
        /\ assembly.next >= Len(Listing) => assembly'.at = "validate" /\ assembly'.next = 1
    BY <1>1, <1>5, <2>1, <2>2, OnFromMoves
  <2> QED
    BY <1>1, <2>1, <2>3 DEF AssemblyFields
<1>6. /\ Reading.findings = assembly.findings \cup
             CollectionRules(FileAt(assembly.next), Listing[assembly.next].collection, assembly.payload)
      /\ Reading.payload = Extended(assembly.payload, FileAt(assembly.next), Listing[assembly.next].collection)
  BY DEF Reading, AssemblyTyped, AssemblyFields
<1> QED
  BY <1>1, <1>4, <1>5, <1>6

(* what the look at the whole directory finds *)
ScanRules ==
    assembly.findings \cup If(Present = {}, "missing_yaml")
    \cup If(Present \cap Unsuffixed # {}, "unsupported_file")
    \cup If(~((Present \ Unsuffixed) \subseteq assembly.listed), "unlisted_file")

(* the two outcomes of that look *)
LEMMA Scanned ==
    ASSUME AssemblyTyped, StageInv, Scan
    PROVE  /\ assembly.at = "scan" /\ assembly.target = Directory /\ ManifestFits(manifest)
           /\ assembly.payload = Nothing /\ assembly.outcome = "none"
           /\ assembly.entries = Listing /\ assembly.next = 1
           /\ \/ ScanRules = {} /\ Proceed([assembly EXCEPT !.at = "read"])
              \/ ScanRules # {} /\ Refuse(ScanRules)
  BY DEF Scan, ScanRules, StageInv, InDirectory

(* what is read adds to a payload only nodes of the file *)
LEMMA ExtendedShaped ==
    ASSUME NEW sofar, NEW file \in Files, NEW collection,
           sofar = [identities |-> sofar.identities, nodes |-> sofar.nodes], sofar.nodes \in Seq(ToSet(sofar.nodes))
    PROVE  LET joined == Extended(sofar, file, collection)
           IN  /\ joined = [identities |-> joined.identities, nodes |-> joined.nodes]
               /\ joined.nodes \in Seq(ToSet(joined.nodes))
               /\ ToSet(joined.nodes) \subseteq ToSet(sofar.nodes) \cup ToSet(file.nodes)
<1>1. file.nodes \in Seq(ToSet(file.nodes))
  BY AssemblyAssumption
<1>2. /\ sofar.nodes \o file.nodes \in Seq(ToSet(sofar.nodes \o file.nodes))
      /\ ToSet(sofar.nodes \o file.nodes) = ToSet(sofar.nodes) \cup ToSet(file.nodes)
  BY <1>1, InOneRow
<1>3. CASE ~Usable(file, collection)
  BY <1>3 DEF Extended
<1>4. CASE Usable(file, collection) /\ collection = "nodes"
  BY <1>2, <1>4 DEF Extended
<1>5. CASE Usable(file, collection) /\ collection # "nodes"
  BY <1>5 DEF Extended
<1> QED
  BY <1>3, <1>4, <1>5

(* every step keeps the types *)
LEMMA AssemblyTypedStep == AssemblyTyped /\ StageInv /\ [AssemblyNext]_assemblyVars => AssemblyTyped'
<1> SUFFICES ASSUME AssemblyTyped, StageInv, [AssemblyNext]_assemblyVars
             PROVE  AssemblyTyped'
  OBVIOUS
<1> USE NothingRead
<1>1. CASE BeginAssembly
  <2>1. PICK target : assembly' = [NotStarted EXCEPT
                          !.at = IF target = Directory THEN "manifest" ELSE "validate one", !.target = target]
    BY <1>1 DEF BeginAssembly
  <2>2. assembly'.payload = Nothing /\ assembly'.at \in Stages /\ UNCHANGED <<manifest, files, rewrites>>
        /\ assembly' = [field \in AssemblyFields |-> assembly'[field]]
    BY <1>1, <2>1 DEF BeginAssembly, NotStarted, Stages, InDirectory, AssemblyFields
  <2>3. Nothing = [identities |-> Nothing.identities, nodes |-> Nothing.nodes]
    BY DEF Nothing
  <2> QED
    BY <2>2, <2>3 DEF AssemblyTyped
<1>2. CASE ValidateOne
  BY <1>2 DEF ValidateOne, Fail, Refuse, Proceed, AssemblyTyped, AssemblyFields, Stages, InDirectory
<1>3. CASE LoadOne
  <2>1. CASE Fail
    BY <2>1 DEF Fail, Proceed, AssemblyTyped, AssemblyFields, Stages, InDirectory
  <2>2. CASE ~Fail
    <3> DEFINE file == files[assembly.target]
    <3>1. file \in Files /\ UNCHANGED <<manifest, files, rewrites>>
          /\ assembly' = [assembly EXCEPT !.at = "over", !.outcome = "accepted", !.payload = PayloadOf(file)]
      BY <1>3, <2>2 DEF LoadOne, Proceed, AssemblyTyped, StageInv
    <3>2. file.nodes \in Seq(ToSet(file.nodes))
      BY <3>1, AssemblyAssumption
    <3> HIDE DEF file
    <3>3. assembly'.payload = PayloadOf(file) /\ assembly'.at \in Stages
          /\ assembly' = [field \in AssemblyFields |-> assembly'[field]]
      BY <3>1 DEF AssemblyTyped, AssemblyFields, Stages
    <3>4. PayloadOf(file).nodes = file.nodes /\ PayloadOf(file).identities = file.identities
          /\ PayloadOf(file) = [identities |-> file.identities, nodes |-> file.nodes]
      BY DEF PayloadOf
    <3> QED
      BY <3>1, <3>2, <3>3, <3>4 DEF AssemblyTyped
  <2> QED
    BY <2>1, <2>2
<1>4. CASE ReadManifest
  BY <1>4 DEF ReadManifest, Refuse, Proceed, AssemblyTyped, AssemblyFields, Stages, InDirectory
<1>5. CASE CheckEntry
  <2>1. /\ UNCHANGED <<manifest, files, rewrites, held>> /\ Shaped(assembly')
        /\ assembly'.payload = Nothing /\ assembly'.at \in {"entries", "scan"}
    BY <1>5, EntryChecked
  <2>2. Nothing = [identities |-> Nothing.identities, nodes |-> Nothing.nodes]
    BY DEF Nothing
  <2> QED
    BY <2>1, <2>2 DEF Shaped, AssemblyTyped, Stages, InDirectory
<1>6. CASE Scan
  BY <1>6 DEF Scan, Refuse, Proceed, AssemblyTyped, AssemblyFields, Stages, InDirectory
<1>7. CASE ReadCollection
  <2>1. CASE Fail
    BY <2>1 DEF Fail, Proceed, AssemblyTyped, AssemblyFields, Stages, InDirectory
  <2>2. CASE FileAt(assembly.next) \in Files /\ ~Fail
    <3> DEFINE joined == Extended(assembly.payload, FileAt(assembly.next), Listing[assembly.next].collection)
    <3>1. joined = [identities |-> joined.identities, nodes |-> joined.nodes] /\ joined.nodes \in Seq(ToSet(joined.nodes))
      BY <2>2, ExtendedShaped DEF AssemblyTyped
    <3>2. /\ Shaped(assembly') /\ assembly'.at \in {"read", "validate"}
          /\ assembly'.payload = joined /\ UNCHANGED <<manifest, files, rewrites>>
      BY <1>7, <2>2, CollectionRead
    <3> HIDE DEF joined
    <3> QED
      BY <3>1, <3>2 DEF AssemblyTyped, Shaped, Stages, InDirectory
  <2> QED
    BY <1>7, <2>1, <2>2, CollectionRead
<1>8. CASE Validate
  BY <1>8 DEF Validate, Refuse, Proceed, AssemblyTyped, AssemblyFields, Stages, InDirectory
<1>9. CASE Rewrite
  <2>1. /\ UNCHANGED <<manifest, assembly>> /\ rewrites' = rewrites + 1
        /\ \E n \in Names, file \in Files \cup {Gone} : files' = [files EXCEPT ![n] = file]
    BY <1>9 DEF Rewrite
  <2>2. files' \in [Names -> Files \cup {Gone}]
    BY <2>1 DEF AssemblyTyped
  <2> QED
    BY <2>1, <2>2 DEF AssemblyTyped
<1>10. CASE UNCHANGED assemblyVars
  BY <1>10 DEF AssemblyTyped, assemblyVars
<1> QED
  BY <1>1, <1>2, <1>3, <1>4, <1>5, <1>6, <1>7, <1>8, <1>9, <1>10 DEF AssemblyNext

(* no step changes the manifest *)
LEMMA ManifestStays ==
    ASSUME [AssemblyNext]_assemblyVars
    PROVE  manifest' = manifest /\ Listing' = Listing /\ ManifestFits(manifest)' = ManifestFits(manifest)
<1>1. manifest' = manifest
  BY DEF AssemblyNext, assemblyVars, BeginAssembly, ValidateOne, LoadOne, ReadManifest, CheckEntry, Scan,
         ReadCollection, Validate, Rewrite, Fail, Refuse, OnFrom, Proceed
<1> QED
  BY <1>1 DEF Listing, Entries, ManifestFits

(* every step keeps what its stage says *)
LEMMA StageStep == AssemblyTyped /\ StageInv /\ [AssemblyNext]_assemblyVars => StageInv'
<1> SUFFICES ASSUME AssemblyTyped, StageInv, [AssemblyNext]_assemblyVars
             PROVE  StageInv'
  OBVIOUS
<1> USE ManifestStays
<1>1. CASE BeginAssembly
  <2>1. PICK target \in {Directory} \cup Present : assembly' = [NotStarted EXCEPT
                          !.at = IF target = Directory THEN "manifest" ELSE "validate one", !.target = target]
    BY <1>1 DEF BeginAssembly
  <2>2. /\ assembly'.payload = Nothing /\ assembly'.target = target /\ assembly'.outcome = "none"
        /\ assembly'.at = IF target = Directory THEN "manifest" ELSE "validate one"
        /\ assembly'.next = 1 /\ assembly'.findings = {} /\ assembly'.listed = {}
    BY <2>1 DEF NotStarted
  <2>3. Present \subseteq Names
    BY DEF Present
  <2>4. CASE target = Directory
    BY <2>2, <2>4 DEF StageInv, InDirectory
  <2>5. CASE target # Directory
    <3>1. target \in Names /\ assembly'.at = "validate one"
      BY <2>1, <2>2, <2>3, <2>5
    <3> QED
      BY <2>2, <3>1 DEF StageInv, InDirectory
  <2> QED
    BY <2>4, <2>5
<1>2. CASE ValidateOne
  BY <1>2 DEF ValidateOne, Fail, Refuse, Proceed, AssemblyTyped, AssemblyFields, StageInv, InDirectory
<1>3. CASE LoadOne
  BY <1>3 DEF LoadOne, Fail, Proceed, AssemblyTyped, AssemblyFields, StageInv, InDirectory
<1>4. CASE ReadManifest
  <2>1. CASE ~ManifestFits(manifest)
    BY <1>4, <2>1 DEF ReadManifest, Refuse, Proceed, AssemblyTyped, AssemblyFields, StageInv, InDirectory
  <2>2. CASE ManifestFits(manifest)
    <3>1. assembly' = [assembly EXCEPT !.at = "entries", !.entries = Listing]
      BY <1>4, <2>2 DEF ReadManifest, Proceed, Listing
    <3>2. /\ assembly'.at = "entries" /\ assembly'.entries = Listing /\ assembly.next = 1 /\ Len(Listing) > 1 /\ Len(Listing) \in Nat
          /\ assembly'.target = Directory /\ assembly'.next = 1 /\ assembly'.payload = Nothing /\ assembly'.outcome = "none"
      BY <1>4, <2>2, <3>1, EntriesListed DEF ReadManifest, AssemblyTyped, AssemblyFields, StageInv, InDirectory
    <3>3. assembly'.next \in 1..Len(Listing)
      BY <3>2
    <3> QED
      BY <2>2, <3>2, <3>3 DEF StageInv, InDirectory
  <2> QED
    BY <2>1, <2>2
<1>5. CASE CheckEntry
  <2>1. CASE assembly.next < Len(Listing)
    <3>1. /\ assembly'.at = "entries" /\ assembly'.entries = Listing /\ assembly'.next \in 1..Len(Listing)
          /\ assembly'.target = Directory /\ assembly'.payload = Nothing /\ assembly'.outcome = "none" /\ ManifestFits(manifest)
      BY <1>5, <2>1, EntryChecked
    <3> QED
      BY <3>1 DEF StageInv, InDirectory
  <2>2. CASE assembly.next >= Len(Listing)
    BY <1>5, <2>2, EntryChecked DEF StageInv, InDirectory
  <2> QED
    BY <1>5, <2>1, <2>2, EntryChecked
<1>6. CASE Scan
  <2>1. CASE Refuse(ScanRules)
    BY <1>6, <2>1, Scanned DEF Refuse, Proceed, AssemblyTyped, AssemblyFields, StageInv, InDirectory
  <2>2. CASE Proceed([assembly EXCEPT !.at = "read"])
    <3>1. /\ assembly'.at = "read" /\ assembly'.entries = Listing /\ assembly'.next \in 1..Len(Listing)
          /\ assembly'.target = Directory /\ assembly'.outcome = "none" /\ ManifestFits(manifest)
      BY <1>6, <2>2, Scanned, EntriesListed DEF Proceed, AssemblyTyped, AssemblyFields
    <3> QED
      BY <3>1 DEF StageInv, InDirectory
  <2> QED
    BY <1>6, <2>1, <2>2, Scanned
<1>7. CASE ReadCollection
  <2>1. CASE Fail
    BY <2>1 DEF Fail, Proceed, AssemblyTyped, AssemblyFields, StageInv, InDirectory
  <2>2. CASE ~Fail /\ assembly.next < Len(Listing)
    <3>1. /\ assembly'.at = "read" /\ assembly'.entries = Listing /\ assembly'.next \in 1..Len(Listing)
          /\ assembly'.target = Directory /\ assembly'.outcome = "none" /\ ManifestFits(manifest)
      BY <1>7, <2>2, CollectionRead
    <3> QED
      BY <3>1 DEF StageInv, InDirectory
  <2>3. CASE ~Fail /\ assembly.next >= Len(Listing)
    <3>1. /\ assembly'.at = "validate" /\ assembly'.entries = Listing
          /\ assembly'.target = Directory /\ assembly'.outcome = "none" /\ ManifestFits(manifest)
      BY <1>7, <2>3, CollectionRead
    <3> QED
      BY <3>1 DEF StageInv, InDirectory
  <2> QED
    BY <1>7, <2>1, <2>2, <2>3, CollectionRead
<1>8. CASE Validate
  BY <1>8 DEF Validate, Refuse, Proceed, AssemblyTyped, AssemblyFields, StageInv, InDirectory
<1>9. CASE Rewrite
  BY <1>9 DEF Rewrite, StageInv, InDirectory
<1>10. CASE UNCHANGED assemblyVars
  BY <1>10 DEF StageInv, assemblyVars
<1> QED
  BY <1>1, <1>2, <1>3, <1>4, <1>5, <1>6, <1>7, <1>8, <1>9, <1>10 DEF AssemblyNext

-----------------------------------------------------------------------------
(* What was read was there                                                      *)

(* every step, a rewriting too, leaves what was read among what was held *)
LEMMA HeldStep == AssemblyTyped /\ StageInv /\ HeldInv /\ [AssemblyNext]_assemblyVars => HeldInv'
<1> SUFFICES ASSUME AssemblyTyped, StageInv, HeldInv, [AssemblyNext]_assemblyVars
             PROVE  HeldInv'
  OBVIOUS
<1>0. ASSUME UNCHANGED <<files, held>>, assembly.at # "idle", assembly'.payload = assembly.payload,
             assembly'.outcome = "accepted" => assembly.outcome = "accepted" \/ DefinitionFits(assembly.payload)
      PROVE  HeldInv'
  BY <1>0 DEF HeldInv, OnDisk, Present
<1>1. CASE BeginAssembly
  <2>1. UNCHANGED files /\ held' = OnDisk /\ assembly'.payload = Nothing /\ assembly'.outcome = "none"
    BY <1>1 DEF BeginAssembly, NotStarted
  <2>2. ToSet(Nothing.nodes) = {}
    BY DEF Nothing, ToSet
  <2> QED
    BY <2>1, <2>2 DEF HeldInv, OnDisk, Present
<1>2. CASE ValidateOne
  BY <1>0, <1>2 DEF ValidateOne, Fail, Refuse, Proceed, AssemblyTyped, AssemblyFields
<1>3. CASE LoadOne
  <2>1. CASE Fail
    BY <1>0, <1>3, <2>1 DEF LoadOne, Fail, Proceed, AssemblyTyped, AssemblyFields
  <2>2. CASE ~Fail
    <3> DEFINE file == files[assembly.target]
    <3>1. file # Gone /\ FileFits(file) /\ UNCHANGED <<files, held>> /\ assembly.target \in Names
          /\ assembly'.payload = PayloadOf(file) /\ assembly.at = "load one"
      BY <1>3, <2>2 DEF LoadOne, Proceed, AssemblyTyped, AssemblyFields, StageInv
    <3>2. <<assembly.target, file>> \in held
      BY <3>1 DEF HeldInv, OnDisk, Present
    <3>3. PayloadOf(file).nodes = file.nodes
      BY DEF PayloadOf
    <3>4. DefinitionFits(PayloadOf(file))
      BY <3>1 DEF FileFits
    <3> HIDE DEF file
    <3>5. \A node \in ToSet(assembly'.payload.nodes) : \E h \in held : node \in ToSet(h[2].nodes)
      BY <3>1, <3>2, <3>3
    <3> QED
      BY <3>1, <3>4, <3>5 DEF HeldInv, OnDisk, Present
  <2> QED
    BY <2>1, <2>2
<1>4. CASE ReadManifest
  BY <1>0, <1>4 DEF ReadManifest, Refuse, Proceed, AssemblyTyped, AssemblyFields
<1>5. CASE CheckEntry
  BY <1>0, <1>5, EntryChecked
<1>6. CASE Scan
  BY <1>0, <1>6, Scanned DEF Refuse, Proceed, AssemblyTyped, AssemblyFields
<1>7. CASE ReadCollection
  <2>1. CASE Fail
    BY <1>0, <1>7, <2>1, CollectionRead DEF Fail, Proceed, AssemblyTyped, AssemblyFields
  <2>2. CASE ~Fail
    <3> DEFINE file == FileAt(assembly.next)
               joined == Extended(assembly.payload, file, Listing[assembly.next].collection)
    <3>1. /\ file \in Files /\ file # Gone /\ UNCHANGED <<files, held>> /\ assembly'.payload = joined
          /\ assembly'.outcome = "none" /\ assembly.at = "read" /\ NameOf[PathAt(assembly.next)] \in Names
      BY <1>7, <2>2, CollectionRead, EntriesListed
    <3>2. ToSet(joined.nodes) \subseteq ToSet(assembly.payload.nodes) \cup ToSet(file.nodes)
      BY <3>1, ExtendedShaped DEF AssemblyTyped
    <3>3. <<NameOf[PathAt(assembly.next)], file>> \in held
      BY <3>1 DEF HeldInv, OnDisk, Present, FileAt
    <3> HIDE DEF file, joined
    <3>4. \A node \in ToSet(assembly'.payload.nodes) : \E h \in held : node \in ToSet(h[2].nodes)
      BY <3>1, <3>2, <3>3 DEF HeldInv
    <3> QED
      BY <3>1, <3>4 DEF HeldInv, OnDisk, Present
  <2> QED
    BY <2>1, <2>2
<1>8. CASE Validate
  BY <1>0, <1>8 DEF Validate, Refuse, Proceed, AssemblyTyped, AssemblyFields, If
<1>9. CASE Rewrite
  <2>1. PICK n \in Names, file \in Files \cup {Gone} :
            files' = [files EXCEPT ![n] = file] /\ held' = held \cup ({<<n, file>>} \ {<<n, Gone>>})
    BY <1>9 DEF Rewrite
  <2>2. UNCHANGED assembly /\ assembly.at # "idle"
    BY <1>9 DEF Rewrite
  <2>3. OnDisk' \subseteq held'
    <3> SUFFICES ASSUME NEW m \in Names, files'[m] # Gone PROVE <<m, files'[m]>> \in held'
      BY DEF OnDisk, Present
    <3>1. CASE m = n
      BY <2>1, <3>1 DEF AssemblyTyped
    <3>2. CASE m # n
      BY <2>1, <2>2, <3>2 DEF AssemblyTyped, HeldInv, OnDisk, Present
    <3> QED
      BY <3>1, <3>2
  <2> QED
    BY <2>1, <2>2, <2>3 DEF HeldInv
<1>10. CASE UNCHANGED assemblyVars
  BY <1>10 DEF HeldInv, OnDisk, Present, assemblyVars
<1> QED
  BY <1>1, <1>2, <1>3, <1>4, <1>5, <1>6, <1>7, <1>8, <1>9, <1>10 DEF AssemblyNext

-----------------------------------------------------------------------------
(* What the checks of the entries find                                          *)

(* nothing that the invariant says of the disk changes while nobody writes *)
LEMMA SameDisk ==
    ASSUME UNCHANGED <<manifest, files>>
    PROVE  /\ Listing' = Listing /\ Present' = Present
           /\ \A i : PathAt(i)' = PathAt(i) /\ FileAt(i)' = FileAt(i)
           /\ \A i : EntryFits(i)' = EntryFits(i) /\ CollectionFits(i)' = CollectionFits(i)
           /\ \A passed : NodePlaces(passed)' = NodePlaces(passed) /\ OnceEach(passed)' = OnceEach(passed)
           /\ \A payload, passed : PutTogether(payload, passed)' = PutTogether(payload, passed)
  BY DEF Listing, Entries, Present, PathAt, FileAt, EntryFits, CollectionFits, NodePlaces, NodeAt, OnceEach, PutTogether

(* the entries passed, with one more *)
LEMMA PassedOn ==
    ASSUME NEW n, NEW N \in Nat, n \in 1..N
    PROVE  1..n = 1..(n - 1) \cup {n} /\ (n >= N => 1..N = 1..n) /\ (n + 1) - 1 = n
  OBVIOUS

(* A step that is not a rewriting keeps what the checks of the entries have found *)
(* in accord with the files.                                                      *)
LEMMA EntriesStep ==
    ASSUME AssemblyTyped, StageInv, EntriesInv, [AssemblyNext]_assemblyVars, rewrites' = rewrites
    PROVE  EntriesInv'
<1>0. ASSUME UNCHANGED <<manifest, files>>, assembly'.at \notin {"entries", "scan", "read", "validate"}
      PROVE  EntriesInv'
  BY <1>0 DEF EntriesInv
<1>1. CASE BeginAssembly
  BY <1>0, <1>1 DEF BeginAssembly, NotStarted
<1>2. CASE ValidateOne
  BY <1>0, <1>2 DEF ValidateOne, Fail, Refuse, Proceed, AssemblyTyped, AssemblyFields
<1>3. CASE LoadOne
  BY <1>0, <1>3 DEF LoadOne, Fail, Proceed, AssemblyTyped, AssemblyFields
<1>4. CASE ReadManifest
  <2>1. CASE ~ManifestFits(manifest)
    BY <1>0, <1>4, <2>1 DEF ReadManifest, Refuse, Proceed, AssemblyTyped, AssemblyFields
  <2>2. CASE ManifestFits(manifest)
    <3>1. /\ UNCHANGED <<manifest, files>> /\ assembly'.at = "entries" /\ assembly'.next = 1
          /\ assembly'.findings = {} /\ assembly'.listed = {}
      BY <1>4, <2>2 DEF ReadManifest, Proceed, AssemblyTyped, AssemblyFields, StageInv
    <3>2. Passed' = {}
      BY <3>1 DEF Passed
    <3> QED
      BY <3>1, <3>2 DEF EntriesInv
  <2> QED
    BY <2>1, <2>2
<1>5. CASE CheckEntry
  <2> DEFINE n == assembly.next
  <2>1. /\ UNCHANGED <<manifest, files>> /\ assembly.at = "entries" /\ n \in 1..Len(Listing) /\ Len(Listing) \in Nat
        /\ assembly'.findings = assembly.findings \cup EntryRule(PathAt(n), assembly.listed)
        /\ assembly'.listed = assembly.listed \cup If(PathAt(n) \notin Escaping, NameOf[PathAt(n)])
        /\ n < Len(Listing) => assembly'.at = "entries" /\ assembly'.next = n + 1
        /\ n >= Len(Listing) => assembly'.at = "scan" /\ assembly'.next = 1
    BY <1>5, EntryChecked
  <2>2. Passed = 1..(n - 1) /\ Passed' = Passed \cup {n} /\ n \notin Passed
    <3>1. Passed = 1..(n - 1)
      BY <2>1 DEF Passed
    <3>2. Passed' = 1..n
      <4>1. CASE n < Len(Listing)
        BY <2>1, <4>1, PassedOn DEF Passed
      <4>2. CASE n >= Len(Listing)
        BY <2>1, <4>2, PassedOn, SameDisk DEF Passed
      <4> QED
        BY <2>1, <4>1, <4>2
    <3> QED
      BY <2>1, <3>1, <3>2, PassedOn
  <2>3. /\ assembly.findings = {} <=> \A i \in Passed : EntryFits(i)
        /\ assembly.listed = {NameOf[PathAt(i)] : i \in {j \in Passed : PathAt(j) \notin Escaping}}
    BY <2>1 DEF EntriesInv
  <2> HIDE DEF n
  <2>4. assembly'.listed = {NameOf[PathAt(i)] : i \in {j \in Passed \cup {n} : PathAt(j) \notin Escaping}}
    BY <2>1, <2>3 DEF If
  <2>5. ASSUME assembly.findings = {}
        PROVE  EntryRule(PathAt(n), assembly.listed) = {} <=> EntryFits(n)
    <3>1. assembly.listed = {NameOf[PathAt(i)] : i \in Passed}
      BY <2>3, <2>5 DEF EntryFits
    <3>2. NameOf[PathAt(n)] \notin assembly.listed <=> \A j \in 1..(n - 1) : NameOf[PathAt(j)] # NameOf[PathAt(n)]
      BY <2>2, <3>1
    <3> QED
      BY <3>2 DEF EntryRule, EntryFits, FileAt
  <2>6. assembly'.findings = {} <=> \A i \in Passed \cup {n} : EntryFits(i)
    BY <2>1, <2>3, <2>5
  <2> QED
    BY <2>1, <2>2, <2>4, <2>6, SameDisk DEF EntriesInv
<1>6. CASE Scan
  <2>1. CASE Refuse(ScanRules)
    BY <1>0, <2>1 DEF Refuse, Proceed, AssemblyTyped, AssemblyFields
  <2>2. CASE ScanRules = {} /\ Proceed([assembly EXCEPT !.at = "read"])
    <3>1. UNCHANGED <<manifest, files>> /\ assembly'.at = "read" /\ assembly.at = "scan" /\ ManifestFits(manifest)
      BY <1>6, <2>2, Scanned DEF Proceed, AssemblyTyped, AssemblyFields
    <3>2. Passed = 1..Len(Listing)
      BY <3>1 DEF Passed
    <3>3. assembly.findings = {} /\ Present \cap Unsuffixed = {} /\ (Present \ Unsuffixed) \subseteq assembly.listed
      BY <2>2 DEF ScanRules, If
    <3>4. /\ \A i \in 1..Len(Listing) : EntryFits(i)
          /\ assembly.listed = {NameOf[PathAt(i)] : i \in {j \in 1..Len(Listing) : PathAt(j) \notin Escaping}}
      BY <3>1, <3>2, <3>3 DEF EntriesInv
    <3>5. Present = {NameOf[PathAt(i)] : i \in 1..Len(Listing)}
      <4>1. Present \subseteq {NameOf[PathAt(i)] : i \in 1..Len(Listing)}
        BY <3>3, <3>4
      <4>2. \A i \in 1..Len(Listing) : NameOf[PathAt(i)] \in Present
        BY <3>1, <3>4, EntriesListed DEF Present, EntryFits, FileAt
      <4> QED
        BY <4>1, <4>2
    <3> QED
      BY <3>1, <3>4, <3>5, SameDisk DEF EntriesInv
  <2> QED
    BY <1>6, <2>1, <2>2, Scanned
<1>7. CASE ReadCollection
  <2>1. /\ UNCHANGED <<manifest, files>> /\ assembly.at = "read" /\ assembly'.at \in {"read", "validate", "over"}
    <3>1. CASE Fail
      BY <1>7, <3>1, CollectionRead DEF Fail, Proceed, AssemblyTyped, AssemblyFields
    <3>2. CASE ~Fail
      BY <1>7, <3>2, CollectionRead
    <3> QED
      BY <3>1, <3>2
  <2> QED
    BY <2>1, SameDisk DEF EntriesInv
<1>8. CASE Validate
  BY <1>0, <1>8 DEF Validate, Refuse, Proceed, AssemblyTyped, AssemblyFields
<1>9. CASE Rewrite
  BY <1>9 DEF Rewrite, AssemblyTyped
<1>10. CASE UNCHANGED assemblyVars
  BY <1>10, SameDisk DEF EntriesInv, Passed, assemblyVars
<1> QED
  BY <1>1, <1>2, <1>3, <1>4, <1>5, <1>6, <1>7, <1>8, <1>9, <1>10 DEF AssemblyNext

-----------------------------------------------------------------------------
(* What the reads of the files find                                             *)

(* when a file of a collection breaks no rule *)
LEMMA RulesKept ==
    ASSUME NEW i, FileAt(i) \in Files, NEW sofar, NEW collection, collection = Listing[i].collection
    PROVE  CollectionRules(FileAt(i), collection, sofar) = {} <=>
               /\ CollectionFits(i)
               /\ collection = "nodes" => ~Repeats(FileAt(i).nodes, Ids(sofar.nodes))
               /\ collection # "nodes" => DOMAIN FileAt(i).identities \cap DOMAIN sofar.identities = {}
<1>1. FileAt(i).text \in {"broken", "scalar", "mapping"}
  BY AssemblyAssumption
<1> QED
  BY <1>1 DEF CollectionRules, CollectionFits, Usable, If

(* one more file of nodes *)
LEMMA MorePlaces ==
    ASSUME AssemblyTyped, ManifestFits(manifest), NEW n \in 2..Len(Listing)
    PROVE  LET new == {<<PathAt(n), k>> : k \in DOMAIN FileAt(n).nodes}
           IN  /\ NodePlaces(1..n) = NodePlaces(1..(n - 1)) \cup new
               /\ NodePlaces(1..(n - 1)) \cap new = {}
               /\ \A k : NodeAt(<<PathAt(n), k>>) = FileAt(n).nodes[k]
<1> DEFINE new == {<<PathAt(n), k>> : k \in DOMAIN FileAt(n).nodes}
<1>1. 1..n = 1..(n - 1) \cup {n} /\ n # 1 /\ n \notin 1..(n - 1) /\ 1..n \subseteq 1..Len(Listing)
  BY EntriesListed
<1>2. NodePlaces(1..n) = NodePlaces(1..(n - 1)) \cup new
  BY <1>1 DEF NodePlaces
<1>3. NodePlaces(1..(n - 1)) \cap new = {}
  BY <1>1, EntriesListed DEF NodePlaces
<1>4. \A k : NodeAt(<<PathAt(n), k>>) = FileAt(n).nodes[k]
  BY DEF NodeAt, FileAt
<1> QED
  BY <1>2, <1>3, <1>4

(* A file repeats no node exactly if each node is there once with it as before.    *)
LEMMA OnceMore ==
    ASSUME AssemblyTyped, ManifestFits(manifest), NEW n \in 2..Len(Listing), FileAt(n) \in Files,
           NEW payload, payload.nodes \in Seq(ToSet(payload.nodes)), PutTogether(payload, 1..(n - 1)), OnceEach(1..(n - 1))
    PROVE  Repeats(FileAt(n).nodes, Ids(payload.nodes)) <=> ~OnceEach(1..n)
<1> DEFINE old == NodePlaces(1..(n - 1))
           new == {<<PathAt(n), k>> : k \in DOMAIN FileAt(n).nodes}
           nodes == FileAt(n).nodes
<1>1. NodePlaces(1..n) = old \cup new /\ old \cap new = {} /\ \A k : NodeAt(<<PathAt(n), k>>) = nodes[k]
  BY MorePlaces
<1>2. Ids(payload.nodes) = {NodeAt(q).id : q \in old}
  <2>1. ToSet(payload.nodes) = {NodeAt(q) : q \in old}
    BY DEF PutTogether
  <2> HIDE DEF old
  <2>2. Ids(payload.nodes) = {x.id : x \in ToSet(payload.nodes)}
    BY DEF Ids, ToSet
  <2>3. \A q \in old : NodeAt(q) \in ToSet(payload.nodes)
    BY <2>1
  <2>4. \A x \in ToSet(payload.nodes) : \E q \in old : x = NodeAt(q)
    BY <2>1
  <2>5. {x.id : x \in ToSet(payload.nodes)} = {NodeAt(q).id : q \in old}
    <3>1. \A x \in ToSet(payload.nodes) : x.id \in {NodeAt(q).id : q \in old}
      BY <2>4
    <3>2. \A q \in old : NodeAt(q).id \in {x.id : x \in ToSet(payload.nodes)}
      BY <2>3
    <3> QED
      BY <3>1, <3>2
  <2> QED
    BY <2>2, <2>5
<1>3. DOMAIN nodes = 1..Len(nodes) /\ Len(nodes) \in Nat
  BY AssemblyAssumption, LenProperties
<1>4. new = {<<PathAt(n), k>> : k \in DOMAIN nodes}
  OBVIOUS
<1>5. \A q, r \in old : NodeAt(q).id = NodeAt(r).id /\ NodeAt(q).id # NoText => q = r
  BY DEF OnceEach
<1> HIDE DEF old, new, nodes
<1>6. ASSUME Repeats(nodes, Ids(payload.nodes))
      PROVE  ~OnceEach(1..n)
  <2>1. PICK i \in DOMAIN nodes : /\ nodes[i].id # NoText
                                  /\ nodes[i].id \in Ids(payload.nodes) \/ \E j \in 1..(i - 1) : nodes[j].id = nodes[i].id
    BY <1>6 DEF Repeats
  <2>2. <<PathAt(n), i>> \in new /\ NodeAt(<<PathAt(n), i>>).id = nodes[i].id
    BY <1>1, <1>4
  <2>3. CASE nodes[i].id \in Ids(payload.nodes)
    <3>1. PICK q \in old : NodeAt(q).id = nodes[i].id
      BY <1>2, <2>3
    <3> QED
      BY <1>1, <2>1, <2>2, <3>1 DEF OnceEach
  <2>4. ASSUME NEW j \in 1..(i - 1), nodes[j].id = nodes[i].id
        PROVE  ~OnceEach(1..n)
    <3>1. j \in DOMAIN nodes /\ j # i
      BY <1>3, <2>4
    <3>2. <<PathAt(n), j>> \in new /\ NodeAt(<<PathAt(n), j>>).id = nodes[j].id /\ <<PathAt(n), j>> # <<PathAt(n), i>>
      BY <1>1, <1>4, <3>1
    <3> QED
      BY <1>1, <2>1, <2>2, <2>4, <3>2 DEF OnceEach
  <2> QED
    BY <2>1, <2>3, <2>4
<1>7. ASSUME ~Repeats(nodes, Ids(payload.nodes)), NEW q \in old \cup new, NEW r \in old \cup new,
             NodeAt(q).id = NodeAt(r).id, NodeAt(q).id # NoText
      PROVE  q = r
  <2>1. ASSUME NEW p \in old, NEW t \in new, NodeAt(p).id = NodeAt(t).id, NodeAt(p).id # NoText
        PROVE  FALSE
    <3>1. PICK k \in DOMAIN nodes : t = <<PathAt(n), k>>
      BY <1>4
    <3>2. NodeAt(t).id = nodes[k].id /\ nodes[k].id \in Ids(payload.nodes)
      BY <1>1, <1>2, <2>1, <3>1
    <3> QED
      BY <1>7, <2>1, <3>2 DEF Repeats
  <2>2. CASE q \in new /\ r \in new
    <3>1. PICK k \in DOMAIN nodes : q = <<PathAt(n), k>>
      BY <1>4, <2>2
    <3>2. PICK l \in DOMAIN nodes : r = <<PathAt(n), l>>
      BY <1>4, <2>2
    <3>3. nodes[k].id = nodes[l].id /\ nodes[k].id # NoText
      BY <1>1, <1>7, <3>1, <3>2
    <3>4. ~(k < l) /\ ~(l < k)
      <4>1. k < l => k \in 1..(l - 1)
        BY <1>3
      <4>2. l < k => l \in 1..(k - 1)
        BY <1>3
      <4> QED
        BY <1>7, <3>3, <4>1, <4>2 DEF Repeats
    <3>5. k = l
      BY <1>3, <3>4
    <3> QED
      BY <3>1, <3>2, <3>5
  <2> QED
    BY <1>5, <1>7, <2>1, <2>2
<1>8. OnceEach(1..n) <=> \A q, r \in old \cup new : NodeAt(q).id = NodeAt(r).id /\ NodeAt(q).id # NoText => q = r
  BY <1>1 DEF OnceEach
<1>9. ~Repeats(nodes, Ids(payload.nodes)) => OnceEach(1..n)
  BY <1>7, <1>8
<1> QED
  BY <1>6, <1>9 DEF nodes

(* joined nodes have different IDs unless a node is repeated *)
LEMMA JoinedOnce ==
    ASSUME NEW s, NEW t, s \in Seq(ToSet(s)), t \in Seq(ToSet(t)), ~Repeats(t, Ids(s)),
           \A x, y \in DOMAIN s : s[x].id = s[y].id /\ s[x].id # NoText => x = y
    PROVE  \A x, y \in DOMAIN (s \o t) : (s \o t)[x].id = (s \o t)[y].id /\ (s \o t)[x].id # NoText => x = y
<1> DEFINE both == s \o t
<1>1. /\ both \in Seq(ToSet(both)) /\ Len(both) = Len(s) + Len(t)
      /\ \A i \in 1..Len(s) : both[i] = s[i]
      /\ \A i \in 1..Len(t) : both[Len(s) + i] = t[i]
  BY InOneRow
<1>2. /\ DOMAIN s = 1..Len(s) /\ DOMAIN t = 1..Len(t) /\ DOMAIN both = 1..(Len(s) + Len(t))
      /\ Len(s) \in Nat /\ Len(t) \in Nat
  BY <1>1, LenProperties
<1> HIDE DEF both
<1>3. ASSUME NEW x \in 1..Len(s), NEW k \in 1..Len(t), s[x].id = t[k].id, s[x].id # NoText
      PROVE  FALSE
  <2>1. t[k].id \in Ids(s)
    BY <1>2, <1>3 DEF Ids
  <2> QED
    BY <1>2, <1>3, <2>1 DEF Repeats
<1>4. ASSUME NEW j \in 1..Len(t), NEW k \in 1..Len(t), t[j].id = t[k].id, t[j].id # NoText
      PROVE  j = k
  <2>1. ~(j < k)
    <3>1. j < k => j \in 1..(k - 1)
      BY <1>2
    <3> QED
      BY <1>2, <1>4, <3>1 DEF Repeats
  <2>2. ~(k < j)
    <3>1. k < j => k \in 1..(j - 1)
      BY <1>2
    <3> QED
      BY <1>2, <1>4, <3>1 DEF Repeats
  <2> QED
    BY <1>2, <2>1, <2>2
<1>5. \A x \in DOMAIN both : x \in 1..Len(s) \/ (x - Len(s) \in 1..Len(t) /\ x = Len(s) + (x - Len(s)))
  BY <1>2
<1>6. ASSUME NEW x \in DOMAIN both, NEW y \in DOMAIN both, both[x].id = both[y].id, both[x].id # NoText
      PROVE  x = y
  <2>1. CASE x \in 1..Len(s) /\ y \in 1..Len(s)
    BY <1>1, <1>2, <1>6, <2>1
  <2>2. CASE x \in 1..Len(s) /\ y \notin 1..Len(s)
    <3>1. y - Len(s) \in 1..Len(t) /\ both[y] = t[y - Len(s)]
      BY <1>1, <1>5, <2>2
    <3> QED
      BY <1>1, <1>3, <1>6, <2>2, <3>1
  <2>3. CASE x \notin 1..Len(s) /\ y \in 1..Len(s)
    <3>1. x - Len(s) \in 1..Len(t) /\ both[x] = t[x - Len(s)]
      BY <1>1, <1>5, <2>3
    <3> QED
      BY <1>1, <1>3, <1>6, <2>3, <3>1
  <2>4. CASE x \notin 1..Len(s) /\ y \notin 1..Len(s)
    <3>1. x - Len(s) \in 1..Len(t) /\ both[x] = t[x - Len(s)]
      BY <1>1, <1>5, <2>4
    <3>2. y - Len(s) \in 1..Len(t) /\ both[y] = t[y - Len(s)]
      BY <1>1, <1>5, <2>4
    <3>3. x - Len(s) = y - Len(s)
      BY <1>4, <1>6, <3>1, <3>2
    <3> QED
      BY <1>2, <3>3
  <2> QED
    BY <2>1, <2>2, <2>3, <2>4
<1> QED
  BY <1>6 DEF both

(* One more file: what is found of the files up to it, and the payload put         *)
(* together from them.                                                            *)
LEMMA OneMoreFile ==
    ASSUME AssemblyTyped, ManifestFits(manifest), NEW n \in 1..Len(Listing), FileAt(n) \in Files,
           NEW found, NEW payload, payload = [identities |-> payload.identities, nodes |-> payload.nodes],
           payload.nodes \in Seq(ToSet(payload.nodes)),
           found = {} <=> (\A i \in 1..(n - 1) : CollectionFits(i)) /\ OnceEach(1..(n - 1)),
           found = {} => PutTogether(payload, 1..(n - 1))
    PROVE  LET rules == found \cup CollectionRules(FileAt(n), Listing[n].collection, payload)
           IN  /\ rules = {} <=> (\A i \in 1..n : CollectionFits(i)) /\ OnceEach(1..n)
               /\ rules = {} => PutTogether(Extended(payload, FileAt(n), Listing[n].collection), 1..n)
<1> DEFINE of == CollectionRules(FileAt(n), Listing[n].collection, payload)
           joined == Extended(payload, FileAt(n), Listing[n].collection)
<1>1. 1..n = 1..(n - 1) \cup {n} /\ Len(Listing) \in Nat /\ (n = 1 => 1..(n - 1) = {})
  BY EntriesListed
<1>2. CASE found # {}
  <2>1. OnceEach(1..n) => OnceEach(1..(n - 1))
    BY <1>1 DEF OnceEach, NodePlaces
  <2> QED
    BY <1>1, <1>2, <2>1
<1>3. CASE found = {} /\ n = 1
  <2>1. Listing[n].collection = "logical_identities"
    BY <1>3, EntriesListed
  <2>2. PutTogether(payload, {}) /\ NodePlaces({}) = {} /\ NodePlaces(1..n) = {} /\ 1 \in 1..n
    BY <1>1, <1>3 DEF NodePlaces
  <2>3. DOMAIN payload.identities = {}
    BY <2>2 DEF PutTogether
  <2>4. of = {} <=> CollectionFits(n)
    BY <2>1, <2>3, RulesKept
  <2>5. OnceEach(1..n)
    BY <2>2 DEF OnceEach
  <2>6. CollectionFits(n) => PutTogether(joined, 1..n)
    <3> SUFFICES ASSUME CollectionFits(n) PROVE PutTogether(joined, 1..n)
      OBVIOUS
    <3>1. Usable(FileAt(n), "logical_identities")
      BY <2>1 DEF CollectionFits, Usable
    <3>2. joined.nodes = payload.nodes /\ joined.identities = FileAt(n).identities
      BY <2>1, <3>1 DEF Extended
    <3> HIDE DEF joined
    <3> QED
      BY <1>3, <2>2, <3>2 DEF PutTogether
  <2>7. (\A i \in 1..n : CollectionFits(i)) <=> CollectionFits(n)
    BY <1>3
  <2> HIDE DEF of, joined
  <2>8. found \cup of = {} <=> CollectionFits(n)
    BY <1>3, <2>4
  <2> QED
    BY <2>5, <2>6, <2>7, <2>8 DEF of, joined
<1>4. CASE found = {} /\ n # 1
  <2>1. n \in 2..Len(Listing)
    BY <1>1, <1>4
  <2>2. Listing[n].collection = "nodes"
    <3>1. Listing[n] = [collection |-> "nodes", path |-> manifest.nodes[n - 1]]
      BY <2>1, EntriesListed
    <3> QED
      BY <3>1
  <2>3. PutTogether(payload, 1..(n - 1)) /\ OnceEach(1..(n - 1)) /\ \A i \in 1..(n - 1) : CollectionFits(i)
    BY <1>4
  <2>4. Repeats(FileAt(n).nodes, Ids(payload.nodes)) <=> ~OnceEach(1..n)
    BY <2>1, <2>3, OnceMore
  <2>5. of = {} <=> CollectionFits(n) /\ OnceEach(1..n)
    BY <2>2, <2>4, RulesKept
  <2>6. CollectionFits(n) /\ OnceEach(1..n) => PutTogether(joined, 1..n)
    <3> SUFFICES ASSUME CollectionFits(n), OnceEach(1..n) PROVE PutTogether(joined, 1..n)
      OBVIOUS
    <3>1. Usable(FileAt(n), "nodes")
      BY <2>2 DEF CollectionFits, Usable
    <3>2. joined.nodes = payload.nodes \o FileAt(n).nodes /\ joined.identities = payload.identities
      BY <2>2, <3>1 DEF Extended
    <3> HIDE DEF joined
    <3>3. FileAt(n).nodes \in Seq(ToSet(FileAt(n).nodes))
      BY AssemblyAssumption
    <3>4. ToSet(joined.nodes) = ToSet(payload.nodes) \cup ToSet(FileAt(n).nodes)
      BY <3>2, <3>3, InOneRow
    <3>5. ToSet(joined.nodes) = {NodeAt(q) : q \in NodePlaces(1..n)}
      <4> DEFINE old == NodePlaces(1..(n - 1))
                 new == {<<PathAt(n), k>> : k \in DOMAIN FileAt(n).nodes}
      <4>1. NodePlaces(1..n) = old \cup new /\ \A k : NodeAt(<<PathAt(n), k>>) = FileAt(n).nodes[k]
        BY <2>1, MorePlaces
      <4>2. ToSet(payload.nodes) = {NodeAt(q) : q \in old}
        BY <2>3 DEF PutTogether
      <4>3. ToSet(FileAt(n).nodes) = {NodeAt(q) : q \in new}
        BY <4>1 DEF ToSet
      <4> HIDE DEF old, new
      <4> QED
        BY <3>4, <4>1, <4>2, <4>3
    <3>6. \A x, y \in DOMAIN joined.nodes :
              joined.nodes[x].id = joined.nodes[y].id /\ joined.nodes[x].id # NoText => x = y
      <4>1. ~Repeats(FileAt(n).nodes, Ids(payload.nodes))
        BY <2>4
      <4>2. \A x, y \in DOMAIN payload.nodes :
                payload.nodes[x].id = payload.nodes[y].id /\ payload.nodes[x].id # NoText => x = y
        BY <2>3 DEF PutTogether
      <4> DEFINE s == payload.nodes
                 t == FileAt(n).nodes
      <4>3. s \in Seq(ToSet(s)) /\ t \in Seq(ToSet(t)) /\ ~Repeats(t, Ids(s)) /\ joined.nodes = s \o t
        BY <3>2, <3>3, <4>1
      <4>4. \A x, y \in DOMAIN s : s[x].id = s[y].id /\ s[x].id # NoText => x = y
        BY <4>2
      <4> HIDE DEF s, t
      <4>5. \A x, y \in DOMAIN (s \o t) : (s \o t)[x].id = (s \o t)[y].id /\ (s \o t)[x].id # NoText => x = y
        BY <4>3, <4>4, JoinedOnce
      <4> QED
        BY <4>3, <4>5
    <3>7. joined.identities = IF 1 \in 1..n THEN FileAt(1).identities ELSE <<>>
      <4>1. 1 \in 1..n /\ 1 \in 1..(n - 1)
        BY <2>1, <1>1
      <4> QED
        BY <2>3, <3>2, <4>1 DEF PutTogether
    <3> QED
      BY <3>5, <3>6, <3>7 DEF PutTogether
  <2>7. (\A i \in 1..n : CollectionFits(i)) <=> CollectionFits(n)
    BY <1>1, <2>3
  <2> HIDE DEF of, joined
  <2>8. found \cup of = {} <=> CollectionFits(n) /\ OnceEach(1..n)
    BY <1>4, <2>5
  <2> QED
    BY <2>6, <2>7, <2>8 DEF of, joined
<1> QED
  BY <1>2, <1>3, <1>4

(* A step that is not a rewriting keeps findings and payload in accord with the    *)
(* files read.                                                                    *)
LEMMA ReadStep ==
    ASSUME AssemblyTyped, StageInv, ReadInv, [AssemblyNext]_assemblyVars, rewrites' = rewrites
    PROVE  ReadInv'
<1>0. ASSUME assembly'.at \notin {"read", "validate"}
      PROVE  ReadInv'
  BY <1>0 DEF ReadInv
<1>1. CASE BeginAssembly
  BY <1>0, <1>1 DEF BeginAssembly, NotStarted
<1>2. CASE ValidateOne
  BY <1>0, <1>2 DEF ValidateOne, Fail, Refuse, Proceed, AssemblyTyped, AssemblyFields
<1>3. CASE LoadOne
  BY <1>0, <1>3 DEF LoadOne, Fail, Proceed, AssemblyTyped, AssemblyFields
<1>4. CASE ReadManifest
  BY <1>0, <1>4 DEF ReadManifest, Refuse, Proceed, AssemblyTyped, AssemblyFields
<1>5. CASE CheckEntry
  BY <1>0, <1>5, EntryChecked
<1>6. CASE Scan
  <2>1. CASE Refuse(ScanRules)
    BY <1>0, <2>1 DEF Refuse, Proceed, AssemblyTyped, AssemblyFields
  <2>2. CASE ScanRules = {} /\ Proceed([assembly EXCEPT !.at = "read"])
    <3>1. /\ UNCHANGED <<manifest, files>> /\ assembly'.at = "read" /\ assembly'.next = 1
          /\ assembly'.findings = {} /\ assembly'.payload = Nothing
      BY <1>6, <2>2, Scanned DEF ScanRules, Proceed, AssemblyTyped, AssemblyFields
    <3>2. Passed' = {}
      BY <3>1 DEF Passed
    <3>3. NodePlaces({}) = {}
      BY DEF NodePlaces
    <3>4. OnceEach({}) /\ PutTogether(Nothing, {})
      BY <3>3 DEF OnceEach, PutTogether, Nothing, ToSet
    <3>5. OnceEach({})' /\ PutTogether(Nothing, {})'
      BY <3>1, <3>4, SameDisk
    <3> QED
      BY <3>1, <3>2, <3>5 DEF ReadInv
  <2> QED
    BY <1>6, <2>1, <2>2, Scanned
<1>7. CASE ReadCollection
  <2>1. CASE Fail
    BY <1>0, <2>1 DEF Fail, Proceed, AssemblyTyped, AssemblyFields
  <2>2. CASE ~Fail
    <3> DEFINE n == assembly.next
               rules == assembly.findings \cup CollectionRules(FileAt(n), Listing[n].collection, assembly.payload)
               joined == Extended(assembly.payload, FileAt(n), Listing[n].collection)
    <3>1. /\ assembly.at = "read" /\ ManifestFits(manifest) /\ n \in 1..Len(Listing) /\ Len(Listing) \in Nat
          /\ FileAt(n) \in Files /\ UNCHANGED <<manifest, files>>
          /\ assembly'.findings = rules /\ assembly'.payload = joined
          /\ n < Len(Listing) => assembly'.at = "read" /\ assembly'.next = n + 1
          /\ n >= Len(Listing) => assembly'.at = "validate" /\ assembly'.next = 1
      BY <1>7, <2>2, CollectionRead
    <3>2. Passed = 1..(n - 1)
      BY <3>1 DEF Passed
    <3>3. Passed' = 1..n
      <4>1. CASE n < Len(Listing)
        BY <3>1, <4>1, PassedOn DEF Passed
      <4>2. CASE n >= Len(Listing)
        BY <3>1, <4>2, PassedOn, SameDisk DEF Passed
      <4> QED
        BY <3>1, <4>1, <4>2
    <3>4. /\ assembly.findings = {} <=> (\A i \in 1..(n - 1) : CollectionFits(i)) /\ OnceEach(1..(n - 1))
          /\ assembly.findings = {} => PutTogether(assembly.payload, 1..(n - 1))
      BY <3>1, <3>2 DEF ReadInv
    <3>5. /\ rules = {} <=> (\A i \in 1..n : CollectionFits(i)) /\ OnceEach(1..n)
          /\ rules = {} => PutTogether(joined, 1..n)
      <4> DEFINE found == assembly.findings
                 payload == assembly.payload
      <4>1. payload = [identities |-> payload.identities, nodes |-> payload.nodes] /\ payload.nodes \in Seq(ToSet(payload.nodes))
        BY DEF AssemblyTyped
      <4>2. /\ found = {} <=> (\A i \in 1..(n - 1) : CollectionFits(i)) /\ OnceEach(1..(n - 1))
            /\ found = {} => PutTogether(payload, 1..(n - 1))
        BY <3>4
      <4>3. /\ rules = found \cup CollectionRules(FileAt(n), Listing[n].collection, payload)
            /\ joined = Extended(payload, FileAt(n), Listing[n].collection)
        OBVIOUS
      <4>4. ManifestFits(manifest) /\ n \in 1..Len(Listing) /\ FileAt(n) \in Files
        BY <3>1
      <4> HIDE DEF found, payload, n, rules, joined
      <4> QED
        BY <4>1, <4>2, <4>3, <4>4, OneMoreFile
    <3> HIDE DEF n, rules, joined
    <3>6. \A i : CollectionFits(i)' = CollectionFits(i)
      BY <3>1, SameDisk
    <3>7. \A passed : OnceEach(passed)' = OnceEach(passed)
      BY <3>1, SameDisk
    <3>8. \A payload, passed : PutTogether(payload, passed)' = PutTogether(payload, passed)
      BY <3>1, SameDisk
    <3> QED
      BY <3>1, <3>3, <3>5, <3>6, <3>7, <3>8 DEF ReadInv
  <2> QED
    BY <2>1, <2>2
<1>8. CASE Validate
  BY <1>0, <1>8 DEF Validate, Refuse, Proceed, AssemblyTyped, AssemblyFields
<1>9. CASE Rewrite
  BY <1>9 DEF Rewrite, AssemblyTyped
<1>10. CASE UNCHANGED assemblyVars
  BY <1>10, SameDisk DEF ReadInv, Passed, assemblyVars
<1> QED
  BY <1>1, <1>2, <1>3, <1>4, <1>5, <1>6, <1>7, <1>8, <1>9, <1>10 DEF AssemblyNext

(* the single file is there when it is validated, and fits when it is loaded *)
LEMMA SingleStep ==
    ASSUME AssemblyTyped, StageInv, SingleInv, [AssemblyNext]_assemblyVars, rewrites' = rewrites
    PROVE  SingleInv'
<1>0. ASSUME assembly'.at \notin {"validate one", "load one"}
      PROVE  SingleInv'
  BY <1>0 DEF SingleInv
<1>1. CASE BeginAssembly
  <2>1. PICK target \in {Directory} \cup Present : assembly' = [NotStarted EXCEPT
                          !.at = IF target = Directory THEN "manifest" ELSE "validate one", !.target = target]
    BY <1>1 DEF BeginAssembly
  <2>2. /\ assembly'.target = target /\ UNCHANGED files
        /\ assembly'.at = IF target = Directory THEN "manifest" ELSE "validate one"
    BY <1>1, <2>1 DEF NotStarted, BeginAssembly
  <2> QED
    BY <2>2 DEF SingleInv, Present
<1>2. CASE ValidateOne
  <2>1. CASE Fail \/ Refuse({"validation"})
    BY <1>0, <2>1 DEF Fail, Refuse, Proceed, AssemblyTyped, AssemblyFields
  <2>2. CASE FileFits(files[assembly.target]) /\ Proceed([assembly EXCEPT !.at = "load one"])
    <3>1. assembly'.at = "load one" /\ assembly'.target = assembly.target /\ UNCHANGED files
      BY <2>2 DEF Proceed, AssemblyTyped, AssemblyFields
    <3> QED
      BY <2>2, <3>1 DEF SingleInv
  <2> QED
    BY <1>2, <2>1, <2>2 DEF ValidateOne
<1>3. CASE LoadOne
  BY <1>0, <1>3 DEF LoadOne, Fail, Proceed, AssemblyTyped, AssemblyFields
<1>4. CASE ReadManifest
  BY <1>0, <1>4 DEF ReadManifest, Refuse, Proceed, AssemblyTyped, AssemblyFields
<1>5. CASE CheckEntry
  <2>1. assembly'.at \in {"entries", "scan"}
    BY <1>5, EntryChecked
  <2> QED
    BY <1>0, <2>1
<1>6. CASE Scan
  BY <1>0, <1>6, Scanned DEF Refuse, Proceed, AssemblyTyped, AssemblyFields
<1>7. CASE ReadCollection
  <2>1. CASE Fail
    BY <1>0, <2>1 DEF Fail, Proceed, AssemblyTyped, AssemblyFields
  <2>2. CASE ~Fail
    <3>1. assembly'.at \in {"read", "validate"}
      BY <1>7, <2>2, CollectionRead
    <3> QED
      BY <1>0, <3>1
  <2> QED
    BY <2>1, <2>2
<1>8. CASE Validate
  BY <1>0, <1>8 DEF Validate, Refuse, Proceed, AssemblyTyped, AssemblyFields
<1>9. CASE Rewrite
  BY <1>9 DEF Rewrite, AssemblyTyped
<1>10. CASE UNCHANGED assemblyVars
  BY <1>10 DEF SingleInv, FileFits, assemblyVars
<1> QED
  BY <1>1, <1>2, <1>3, <1>4, <1>5, <1>6, <1>7, <1>8, <1>9, <1>10 DEF AssemblyNext

-----------------------------------------------------------------------------
(* What is accepted                                                             *)

Everything == [identities |-> FileAt(1).identities,
               nodes |-> [q \in NodePlaces(1..Len(Listing)) |-> NodeAt(q)]]

(* DirectoryFits is what the positions' parts say together. *)
LEMMA FitsByPosition ==
    ASSUME AssemblyTyped, ManifestFits(manifest)
    PROVE  DirectoryFits <=>
               /\ \A i \in 1..Len(Listing) : EntryFits(i)
               /\ Present = {NameOf[PathAt(i)] : i \in 1..Len(Listing)}
               /\ \A i \in 1..Len(Listing) : CollectionFits(i)
               /\ DefinitionFits(Everything)
<1> DEFINE N == Len(Listing)
           paths == {manifest.identities} \cup ToSet(manifest.nodes)
           places == UNION {{<<p, k>> : k \in DOMAIN files[NameOf[p]].nodes} : p \in ToSet(manifest.nodes)}
           whole == [identities |-> files[NameOf[manifest.identities]].identities,
                     nodes |-> [place \in places |-> files[NameOf[place[1]]].nodes[place[2]]]]
<1>1. /\ N \in Nat /\ N > 1 /\ 1..N = {1} \cup 2..N
      /\ paths = {PathAt(i) : i \in 1..N} /\ ToSet(manifest.nodes) = {PathAt(i) : i \in 2..N}
      /\ \A i, j \in 1..N : PathAt(i) = PathAt(j) => i = j
      /\ \A i \in 1..N : NameOf[PathAt(i)] \in Names
  <2>1. N \in Nat /\ N > 1
    BY EntriesListed
  <2>2. 1..N = {1} \cup 2..N
    BY <2>1
  <2>3. /\ paths = {PathAt(i) : i \in 1..N} /\ ToSet(manifest.nodes) = {PathAt(i) : i \in 2..N}
        /\ \A i, j \in 1..N : PathAt(i) = PathAt(j) => i = j
        /\ \A i \in 1..N : NameOf[PathAt(i)] \in Names
    BY EntriesListed
  <2> QED
    BY <2>1, <2>2, <2>3
<1>2. PathAt(1) = manifest.identities /\ Listing[1].collection = "logical_identities"
  BY EntriesListed DEF PathAt
<1>3. \A i \in 2..N : Listing[i].collection = "nodes"
  <2> SUFFICES ASSUME NEW i \in 2..N PROVE Listing[i].collection = "nodes"
    OBVIOUS
  <2>1. Listing[i] = [collection |-> "nodes", path |-> manifest.nodes[i - 1]]
    BY EntriesListed
  <2> QED
    BY <2>1
<1> HIDE DEF N
<1>4. Fitting({manifest.identities}, "logical_identities") <=> CollectionFits(1)
  BY <1>2 DEF Fitting, Collection, CollectionFits, FileAt
<1>5. Fitting(ToSet(manifest.nodes), "nodes") <=> \A i \in 2..N : CollectionFits(i)
  BY <1>1, <1>3 DEF Fitting, Collection, CollectionFits, FileAt
<1>6. places = NodePlaces(1..N)
  <2>1. (1..N) \ {1} = 2..N
    BY <1>1
  <2> QED
    BY <1>1, <2>1 DEF NodePlaces, FileAt
<1>7. whole = Everything
  BY <1>2, <1>6 DEF Everything, NodeAt, FileAt, N
<1>8. DirectoryFits <=>
          /\ paths \cap Escaping = {} /\ \A p, q \in paths : NameOf[p] = NameOf[q] => p = q
          /\ Present = {NameOf[p] : p \in paths} /\ Present \cap (Unsuffixed \cup Outside) = {}
          /\ \A i \in 1..N : CollectionFits(i)
          /\ DefinitionFits(Everything)
  <2> HIDE DEF whole
  <2>1. DirectoryFits <=>
          /\ paths \cap Escaping = {} /\ \A p, q \in paths : NameOf[p] = NameOf[q] => p = q
          /\ Present = {NameOf[p] : p \in paths} /\ Present \cap (Unsuffixed \cup Outside) = {}
          /\ Fitting({manifest.identities}, "logical_identities") /\ Fitting(ToSet(manifest.nodes), "nodes")
          /\ DefinitionFits(whole)
    BY DEF DirectoryFits, whole
  <2> QED
    BY <1>1, <1>4, <1>5, <1>7, <2>1
<1> HIDE DEF paths, places, whole
<1>9. {NameOf[p] : p \in paths} = {NameOf[PathAt(i)] : i \in 1..N}
  BY <1>1
<1>10. paths \cap Escaping = {} <=> \A i \in 1..N : PathAt(i) \notin Escaping
  BY <1>1
<1>11. (\A p, q \in paths : NameOf[p] = NameOf[q] => p = q)
           <=> \A i \in 1..N : \A j \in 1..(i - 1) : NameOf[PathAt(j)] # NameOf[PathAt(i)]
  <2>1. ASSUME \A p, q \in paths : NameOf[p] = NameOf[q] => p = q, NEW i \in 1..N, NEW j \in 1..(i - 1)
        PROVE  NameOf[PathAt(j)] # NameOf[PathAt(i)]
    <3>1. j \in 1..N /\ j # i
      BY <1>1, <2>1
    <3> QED
      BY <1>1, <2>1, <3>1
  <2>2. ASSUME \A i \in 1..N : \A j \in 1..(i - 1) : NameOf[PathAt(j)] # NameOf[PathAt(i)],
               NEW p \in paths, NEW q \in paths, NameOf[p] = NameOf[q]
        PROVE  p = q
    <3>1. PICK i \in 1..N : p = PathAt(i)
      BY <1>1
    <3>2. PICK j \in 1..N : q = PathAt(j)
      BY <1>1
    <3>3. ~(i < j)
      <4>1. i < j => i \in 1..(j - 1)
        BY <1>1
      <4> QED
        BY <2>2, <3>1, <3>2, <4>1
    <3>4. ~(j < i)
      <4>1. j < i => j \in 1..(i - 1)
        BY <1>1
      <4> QED
        BY <2>2, <3>1, <3>2, <4>1
    <3>5. i = j
      BY <1>1, <3>3, <3>4
    <3> QED
      BY <3>1, <3>2, <3>5
  <2> QED
    BY <2>1, <2>2
<1>12. ASSUME Present = {NameOf[PathAt(i)] : i \in 1..N}
       PROVE  /\ Present \cap (Unsuffixed \cup Outside) = {} <=> \A i \in 1..N : NameOf[PathAt(i)] \notin Unsuffixed \cup Outside
              /\ \A i \in 1..N : FileAt(i) # Gone
  BY <1>12 DEF Present, FileAt
<1>13. DirectoryFits <=>
          /\ \A i \in 1..N : EntryFits(i)
          /\ Present = {NameOf[PathAt(i)] : i \in 1..N}
          /\ \A i \in 1..N : CollectionFits(i)
          /\ DefinitionFits(Everything)
  <2>1. CASE Present = {NameOf[PathAt(i)] : i \in 1..N}
    <3>1. (\A i \in 1..N : EntryFits(i)) <=>
              /\ paths \cap Escaping = {} /\ \A p, q \in paths : NameOf[p] = NameOf[q] => p = q
              /\ Present \cap (Unsuffixed \cup Outside) = {}
      BY <1>10, <1>11, <1>12, <2>1 DEF EntryFits
    <3> QED
      BY <1>8, <1>9, <2>1, <3>1
  <2>2. CASE Present # {NameOf[PathAt(i)] : i \in 1..N}
    BY <1>8, <1>9, <2>2
  <2> QED
    BY <2>1, <2>2
<1> QED
  BY <1>13 DEF N

(* what is put together from every file fits exactly if all of it does *)
LEMMA PayloadFits ==
    ASSUME NEW payload, PutTogether(payload, 1..Len(Listing)), OnceEach(1..Len(Listing)), 1 \in 1..Len(Listing)
    PROVE  DefinitionFits(payload) <=> DefinitionFits(Everything)
<1> DEFINE places == NodePlaces(1..Len(Listing))
           Sound(node) == NodeFits(node) /\ Used(node) \subseteq DOMAIN payload.identities
<1>1. /\ payload.identities = Everything.identities
      /\ DOMAIN Everything.nodes = places /\ \A q \in places : Everything.nodes[q] = NodeAt(q)
  BY DEF PutTogether, Everything
<1>2. /\ ToSet(payload.nodes) = {NodeAt(q) : q \in places}
      /\ \A x, y \in DOMAIN payload.nodes :
             payload.nodes[x].id = payload.nodes[y].id /\ payload.nodes[x].id # NoText => x = y
      /\ \A q, r \in places : NodeAt(q).id = NodeAt(r).id /\ NodeAt(q).id # NoText => q = r
  BY DEF PutTogether, OnceEach
<1> HIDE DEF places
<1>3. \A node : Sound(node) => node.id # NoText
  BY DEF NodeFits
<1> HIDE DEF Sound
<1>4. DOMAIN payload.nodes # {} <=> places # {}
  <2>1. DOMAIN payload.nodes # {} <=> ToSet(payload.nodes) # {}
    BY DEF ToSet
  <2>2. {NodeAt(q) : q \in places} # {} <=> places # {}
    OBVIOUS
  <2> QED
    BY <1>2, <2>1, <2>2
<1>5. (\A x \in DOMAIN payload.nodes : Sound(payload.nodes[x])) <=> \A q \in places : Sound(NodeAt(q))
  <2>1. (\A x \in DOMAIN payload.nodes : Sound(payload.nodes[x])) <=> \A node \in ToSet(payload.nodes) : Sound(node)
    BY DEF ToSet
  <2>2. (\A node \in {NodeAt(q) : q \in places} : Sound(node)) <=> \A q \in places : Sound(NodeAt(q))
    OBVIOUS
  <2> QED
    BY <1>2, <2>1, <2>2
<1>6. DefinitionFits(payload) <=>
          /\ DOMAIN payload.identities # {} /\ DOMAIN payload.nodes # {}
          /\ \A i \in DOMAIN payload.identities : payload.identities[i] /\ i # NoText
          /\ \A x \in DOMAIN payload.nodes : Sound(payload.nodes[x])
  <2>1. (\A x \in DOMAIN payload.nodes : Sound(payload.nodes[x]))
           => \A x, y \in DOMAIN payload.nodes : payload.nodes[x].id = payload.nodes[y].id => x = y
    BY <1>2, <1>3
  <2> QED
    BY <2>1 DEF DefinitionFits, Sound
<1>7. DefinitionFits(Everything) <=>
          /\ DOMAIN payload.identities # {} /\ places # {}
          /\ \A i \in DOMAIN payload.identities : payload.identities[i] /\ i # NoText
          /\ \A q \in places : Sound(NodeAt(q))
  <2>1. (\A q \in places : Sound(NodeAt(q))) => \A q, r \in places : NodeAt(q).id = NodeAt(r).id => q = r
    BY <1>2, <1>3
  <2>2. DefinitionFits(Everything) <=>
          /\ DOMAIN payload.identities # {} /\ places # {}
          /\ \A i \in DOMAIN payload.identities : payload.identities[i] /\ i # NoText
          /\ \A q \in places : Sound(NodeAt(q))
          /\ \A q, r \in places : NodeAt(q).id = NodeAt(r).id => q = r
    BY <1>1 DEF DefinitionFits, Sound
  <2> QED
    BY <2>1, <2>2
<1> QED
  BY <1>4, <1>5, <1>6, <1>7

(* a node that is there twice keeps the whole from fitting *)
LEMMA FitsOnceEach == DefinitionFits(Everything) => OnceEach(1..Len(Listing))
  BY DEF DefinitionFits, Everything, OnceEach

(* All nodes of the files are in the files of nodes. *)
LEMMA NodesOfFiles ==
    ASSUME AssemblyTyped, ManifestFits(manifest), DirectoryFits
    PROVE  {NodeAt(q) : q \in NodePlaces(1..Len(Listing))} = UNION {ToSet(files[n].nodes) : n \in Present}
<1> DEFINE N == Len(Listing)
<1>1. N \in Nat /\ 1 \in 1..N /\ (1..N) \ {1} = 2..N /\ NameOf[PathAt(1)] \in Names
  BY EntriesListed
<1>2. /\ Present = {NameOf[PathAt(i)] : i \in 1..N} /\ \A i \in 1..N : FileAt(i) # Gone
      /\ CollectionFits(1)
  BY <1>1, FitsByPosition DEF EntryFits
<1>3. FileAt(1).nodes = <<>>
  <2>1. Listing[1].collection = "logical_identities"
    BY EntriesListed
  <2>2. FileAt(1) \in Files
    BY <1>1, <1>2 DEF AssemblyTyped, FileAt
  <2> QED
    BY <1>2, <2>1, <2>2, AssemblyAssumption DEF CollectionFits
<1>4. ASSUME NEW q \in NodePlaces(1..N)
      PROVE  \E n \in Present : NodeAt(q) \in ToSet(files[n].nodes)
  <2>1. PICK i \in 1..N : \E k \in DOMAIN FileAt(i).nodes : q = <<PathAt(i), k>>
    BY <1>4 DEF NodePlaces
  <2>2. \E k \in DOMAIN FileAt(i).nodes : NodeAt(q) = FileAt(i).nodes[k]
    BY <2>1 DEF NodeAt, FileAt
  <2>3. NameOf[PathAt(i)] \in Present
    BY <1>2
  <2> QED
    BY <2>2, <2>3 DEF ToSet, FileAt
<1>5. ASSUME NEW n \in Present, NEW node \in ToSet(files[n].nodes)
      PROVE  \E q \in NodePlaces(1..N) : node = NodeAt(q)
  <2>1. PICK i \in 1..N : n = NameOf[PathAt(i)]
    BY <1>2
  <2>2. PICK k \in DOMAIN FileAt(i).nodes : node = FileAt(i).nodes[k]
    BY <1>5, <2>1 DEF ToSet, FileAt
  <2>3. i # 1
    BY <1>3, <2>2
  <2>4. <<PathAt(i), k>> \in NodePlaces(1..N) /\ NodeAt(<<PathAt(i), k>>) = FileAt(i).nodes[k]
    BY <2>2, <2>3 DEF NodePlaces, NodeAt, FileAt
  <2> QED
    BY <2>2, <2>4
<1> HIDE DEF N
<1>6. {NodeAt(q) : q \in NodePlaces(1..N)} = UNION {ToSet(files[n].nodes) : n \in Present}
  BY <1>4, <1>5
<1> QED
  BY <1>6 DEF N

(* what does not depend on the run *)
LEMMA StillFits ==
    ASSUME UNCHANGED <<manifest, files>>
    PROVE  (DirectoryFits' <=> DirectoryFits) /\ Present' = Present
  BY DEF DirectoryFits, ManifestFits, Fitting, Collection, Present

(* a refusal is right where the files do not fit *)
LEMMA RefusedExactly ==
    ASSUME AssemblyTyped, NEW rules, Refuse(rules),
           assembly.target = Directory => ~DirectoryFits,
           assembly.target # Directory => ~FileFits(files[assembly.target])
    PROVE  AcceptsExactly'
<1>1. /\ UNCHANGED <<manifest, files>> /\ assembly'.outcome = "refused" /\ assembly'.target = assembly.target
  BY DEF Refuse, Proceed, AssemblyTyped, AssemblyFields
<1> QED
  BY <1>1, StillFits DEF AcceptsExactly

(* A run that nobody disturbs ends as it should. *)
LEMMA ExactStep ==
    ASSUME AssemblyTyped, StageInv, UndisturbedInv, AcceptsExactly, [AssemblyNext]_assemblyVars
    PROVE  AcceptsExactly'
<1>0. SUFFICES ASSUME assembly'.at = "over", rewrites' = 0 PROVE AcceptsExactly'
  BY DEF AcceptsExactly
<1>1. CASE BeginAssembly
  <2>1. assembly'.at \in {"manifest", "validate one"}
    BY <1>1 DEF BeginAssembly, NotStarted
  <2> QED
    BY <1>0, <2>1
<1>2. CASE ValidateOne
  <2>1. files[assembly.target] # Gone /\ assembly.target # Directory
    BY <1>0, <1>2, AssemblyAssumption DEF ValidateOne, Fail, Refuse, Proceed, UndisturbedInv, SingleInv, StageInv
  <2>2. CASE ~FileFits(files[assembly.target]) /\ Refuse({"validation"})
    BY <2>1, <2>2, RefusedExactly
  <2>3. CASE Proceed([assembly EXCEPT !.at = "load one"])
    BY <1>0, <2>3 DEF Proceed, AssemblyTyped, AssemblyFields
  <2> QED
    BY <1>2, <2>1, <2>2, <2>3 DEF ValidateOne
<1>3. CASE LoadOne
  <2> DEFINE file == files[assembly.target]
  <2>1. UNCHANGED <<manifest, files, rewrites>> /\ assembly.at = "load one" /\ assembly.target \in Names
    BY <1>3 DEF LoadOne, Fail, Proceed, StageInv
  <2>2. FileFits(file) /\ file # Gone /\ assembly.target # Directory
    <3>1. FileFits(file)
      BY <1>0, <2>1 DEF UndisturbedInv, SingleInv
    <3>2. file.text = "mapping" /\ Gone.text = "gone"
      BY <3>1 DEF FileFits, Gone
    <3>3. file # Gone
      BY <3>2
    <3>4. assembly.target # Directory
      BY <2>1, AssemblyAssumption
    <3> QED
      BY <3>1, <3>3, <3>4
  <2>3. assembly' = [assembly EXCEPT !.at = "over", !.outcome = "accepted", !.payload = PayloadOf(file)]
    BY <1>3, <2>2 DEF LoadOne, Proceed
  <2>4. assembly'.outcome = "accepted" /\ assembly'.payload = PayloadOf(file) /\ assembly'.target = assembly.target
    BY <2>3 DEF AssemblyTyped, AssemblyFields
  <2> QED
    BY <2>1, <2>2, <2>4 DEF AcceptsExactly
<1>4. CASE ReadManifest
  <2>1. assembly.target = Directory
    BY <1>4 DEF ReadManifest, StageInv, InDirectory
  <2>2. CASE ManifestFits(manifest)
    BY <1>0, <1>4, <2>2 DEF ReadManifest, Proceed, AssemblyTyped, AssemblyFields
  <2>3. CASE ~ManifestFits(manifest)
    BY <1>4, <2>1, <2>3, RefusedExactly DEF ReadManifest, DirectoryFits
  <2> QED
    BY <2>2, <2>3
<1>5. CASE CheckEntry
  <2>1. assembly'.at \in {"entries", "scan"}
    BY <1>5, EntryChecked
  <2> QED
    BY <1>0, <2>1
<1>6. CASE Scan
  <2>1. CASE Proceed([assembly EXCEPT !.at = "read"])
    BY <1>0, <2>1 DEF Proceed, AssemblyTyped, AssemblyFields
  <2>2. CASE ScanRules # {} /\ Refuse(ScanRules)
    <3>1. /\ assembly.at = "scan" /\ assembly.target = Directory /\ ManifestFits(manifest) /\ rewrites = 0
          /\ Passed = 1..Len(Listing)
      BY <1>0, <1>6, <2>2, Scanned DEF Refuse, Proceed, Passed
    <3>2. /\ assembly.findings = {} <=> \A i \in 1..Len(Listing) : EntryFits(i)
          /\ assembly.listed = {NameOf[PathAt(i)] : i \in {j \in 1..Len(Listing) : PathAt(j) \notin Escaping}}
      BY <3>1 DEF UndisturbedInv, EntriesInv
    <3>3. ~DirectoryFits
      <4> SUFFICES ASSUME DirectoryFits PROVE ScanRules = {}
        BY <2>2
      <4>1. /\ \A i \in 1..Len(Listing) : EntryFits(i)
            /\ Present = {NameOf[PathAt(i)] : i \in 1..Len(Listing)}
        BY <3>1, FitsByPosition
      <4>2. Len(Listing) \in Nat /\ Len(Listing) > 1
        BY <3>1, EntriesListed
      <4>3. Present # {}
        <5>1. 1 \in 1..Len(Listing)
          BY <4>2
        <5> QED
          BY <4>1, <5>1
      <4>4. Present \cap Unsuffixed = {} /\ Present \subseteq assembly.listed
        BY <3>2, <4>1 DEF EntryFits
      <4> QED
        BY <3>2, <4>1, <4>3, <4>4 DEF ScanRules, If
    <3> QED
      BY <2>2, <3>1, <3>3, RefusedExactly
  <2> QED
    BY <1>6, <2>1, <2>2, Scanned
<1>7. CASE ReadCollection
  <2>1. FileAt(assembly.next) = Gone /\ Fail /\ assembly.next \in 1..Len(Listing) /\ assembly.at = "read"
    BY <1>0, <1>7, CollectionRead
  <2>2. rewrites = 0
    BY <1>0, <2>1 DEF Fail, Proceed
  <2> QED
    BY <2>1, <2>2 DEF UndisturbedInv, EntriesInv, EntryFits
<1>8. CASE Validate
  <2> DEFINE N == Len(Listing)
             read == assembly.payload
             rules == IF assembly.findings # {} THEN assembly.findings ELSE If(~DefinitionFits(read), "validation")
  <2>1. /\ assembly.at = "validate" /\ assembly.target = Directory /\ ManifestFits(manifest)
        /\ \/ rules = {} /\ Proceed([assembly EXCEPT !.at = "over", !.outcome = "accepted"])
           \/ rules # {} /\ Refuse(rules)
    BY <1>8 DEF Validate, StageInv, InDirectory
  <2>2. rewrites = 0 /\ Passed = 1..N
    BY <1>0, <2>1 DEF Refuse, Proceed, Passed
  <2>3. /\ \A i \in 1..N : EntryFits(i)
        /\ Present = {NameOf[PathAt(i)] : i \in 1..N}
        /\ assembly.findings = {} <=> (\A i \in 1..N : CollectionFits(i)) /\ OnceEach(1..N)
        /\ assembly.findings = {} => PutTogether(read, 1..N)
    BY <2>1, <2>2 DEF UndisturbedInv, EntriesInv, ReadInv
  <2>4. 1 \in 1..N
    BY <2>1, EntriesListed
  <2>5. rules = {} <=> assembly.findings = {} /\ DefinitionFits(read)
    BY DEF If
  <2>6. rules = {} <=> DirectoryFits
    <3>1. DirectoryFits <=> (\A i \in 1..N : CollectionFits(i)) /\ DefinitionFits(Everything)
      BY <2>1, <2>3, FitsByPosition
    <3>2. assembly.findings = {} => (DefinitionFits(read) <=> DefinitionFits(Everything))
      BY <2>3, <2>4, PayloadFits
    <3> QED
      BY <2>3, <2>5, <3>1, <3>2, FitsOnceEach
  <2> HIDE DEF rules
  <2>7. CASE rules = {} /\ Proceed([assembly EXCEPT !.at = "over", !.outcome = "accepted"])
    <3>1. /\ UNCHANGED <<manifest, files>> /\ assembly'.outcome = "accepted" /\ assembly'.payload = read
          /\ assembly'.target = Directory
      BY <2>1, <2>7 DEF Proceed, AssemblyTyped, AssemblyFields
    <3>2. DirectoryFits /\ ToSet(read.nodes) = UNION {ToSet(files[n].nodes) : n \in Present}
      BY <2>1, <2>3, <2>5, <2>6, <2>7, NodesOfFiles DEF PutTogether
    <3> HIDE DEF read
    <3> QED
      BY <3>1, <3>2, StillFits DEF AcceptsExactly
  <2>8. CASE rules # {} /\ Refuse(rules)
    BY <2>1, <2>6, <2>8, RefusedExactly
  <2> QED
    BY <2>1, <2>7, <2>8
<1>9. CASE Rewrite
  BY <1>0, <1>9 DEF Rewrite, AssemblyTyped
<1>10. CASE UNCHANGED assemblyVars
  <2>1. UNCHANGED <<manifest, files, assembly, rewrites>>
    BY <1>10 DEF assemblyVars
  <2> QED
    BY <2>1, StillFits DEF AcceptsExactly
<1> QED
  BY <1>1, <1>2, <1>3, <1>4, <1>5, <1>6, <1>7, <1>8, <1>9, <1>10 DEF AssemblyNext

-----------------------------------------------------------------------------
(* Every run                                                                    *)

(* runs begin, and rest in the other families, with the invariant *)
LEMMA AssemblyStarts == AssemblyInit \/ AssemblyIdle => AssemblyInv
<1> SUFFICES ASSUME AssemblyInit \/ AssemblyIdle PROVE AssemblyInv
  OBVIOUS
<1>1. /\ assembly.at \in {"idle", "over"} /\ assembly.target = Directory /\ assembly.next = 1
      /\ assembly.payload = Nothing /\ assembly.outcome = "none" /\ rewrites = 0 /\ held = {}
      /\ assembly = [field \in AssemblyFields |-> assembly[field]]
  <2>1. assembly = NotStarted \/ assembly = [NotStarted EXCEPT !.at = "over"]
    BY DEF AssemblyInit, AssemblyIdle
  <2>2. rewrites = 0 /\ held = {}
    BY DEF AssemblyInit, AssemblyIdle
  <2> QED
    BY <2>1, <2>2 DEF NotStarted, AssemblyFields
<1>2. /\ manifest \in Manifests \cup {NoManifest} /\ files \in [Names -> Files \cup {Gone}]
      /\ assembly.at = "over" => manifest = NoManifest
  <2>1. CASE AssemblyInit
    <3>1. files \in Directories /\ manifest \in Manifests /\ assembly.at = "idle"
      BY <2>1 DEF AssemblyInit, NotStarted
    <3>2. Directories \subseteq [Names -> Files \cup {Gone}]
      BY AssemblyAssumption
    <3> QED
      BY <3>1, <3>2
  <2>2. CASE AssemblyIdle
    BY <2>2 DEF AssemblyIdle
  <2> QED
    BY <2>1, <2>2
<1>3. AssemblyTyped
  <2>1. Nothing = [identities |-> Nothing.identities, nodes |-> Nothing.nodes]
    BY DEF Nothing
  <2>2. assembly.at \in Stages
    BY <1>1 DEF Stages
  <2>3. rewrites \in Nat
    BY <1>1
  <2> QED
    BY <1>1, <1>2, <2>1, <2>2, <2>3, NothingRead DEF AssemblyTyped
<1>4. StageInv
  BY <1>1, <1>2 DEF StageInv, InDirectory
<1>5. HeldInv
  <2>1. ToSet(Nothing.nodes) = {}
    BY DEF Nothing, ToSet
  <2>2. assembly.at = "over" => OnDisk = {}
    BY DEF AssemblyInit, AssemblyIdle, NotStarted, OnDisk, Present
  <2> QED
    BY <1>1, <2>1, <2>2 DEF HeldInv
<1>6. UndisturbedInv
  BY <1>1 DEF UndisturbedInv, EntriesInv, ReadInv, SingleInv
<1>7. AcceptsExactly
  BY <1>1, <1>2 DEF AcceptsExactly, DirectoryFits, ManifestFits, NoManifest
<1> QED
  BY <1>3, <1>4, <1>5, <1>6, <1>7 DEF AssemblyInv

(* every step keeps all of it *)
LEMMA AssemblyGoesOn == AssemblyInv /\ [AssemblyNext]_assemblyVars => AssemblyInv'
<1> SUFFICES ASSUME AssemblyInv, [AssemblyNext]_assemblyVars PROVE AssemblyInv'
  OBVIOUS
<1>1. AssemblyTyped /\ StageInv /\ HeldInv /\ UndisturbedInv /\ AcceptsExactly
  BY DEF AssemblyInv
<1>2. AssemblyTyped' /\ StageInv' /\ HeldInv' /\ AcceptsExactly'
  BY <1>1, AssemblyTypedStep, StageStep, HeldStep, ExactStep
<1>3. UndisturbedInv'
  <2>1. rewrites' = 0 => rewrites = 0
    <3>1. rewrites' = rewrites \/ Rewrite
      BY DEF AssemblyNext, assemblyVars, BeginAssembly, ValidateOne, LoadOne, ReadManifest,
             CheckEntry, Scan, ReadCollection, Validate, Fail, Refuse, OnFrom, Proceed
    <3>2. CASE Rewrite
      <4>1. rewrites' = rewrites + 1 /\ rewrites \in Nat
        BY <1>1, <3>2 DEF Rewrite, AssemblyTyped
      <4> QED
        BY <4>1
    <3> QED
      BY <3>1, <3>2
  <2>2. ASSUME rewrites' = 0
        PROVE  EntriesInv' /\ ReadInv' /\ SingleInv'
    <3>1. rewrites' = rewrites /\ EntriesInv /\ ReadInv /\ SingleInv
      BY <1>1, <2>1, <2>2 DEF UndisturbedInv
    <3> QED
      BY <1>1, <3>1, EntriesStep, ReadStep, SingleStep
  <2> QED
    BY <2>2 DEF UndisturbedInv
<1> QED
  BY <1>2, <1>3 DEF AssemblyInv

(* the other families leave the assembly alone *)
LEMMA AssemblyFamily ==
    /\ Init => AssemblyInit \/ AssemblyIdle
    /\ [Next]_commandVars => [AssemblyNext]_assemblyVars
<1>1. Init => AssemblyInit \/ AssemblyIdle
  BY DEF Init
<1>2. [Next]_commandVars => [AssemblyNext]_assemblyVars
  BY DEF Next, commandVars
<1> QED
  BY <1>1, <1>2

(* A run, what it has found of the files, and what it has read, whatever curators  *)
(* rewrite, add or remove between its steps.                                      *)
THEOREM AssemblyInvariant == Spec => []AssemblyInv
<1>1. Init => AssemblyInv
  BY AssemblyFamily, AssemblyStarts
<1>2. AssemblyInv /\ [Next]_commandVars => AssemblyInv'
  BY AssemblyFamily, AssemblyGoesOn
<1> QED
  BY <1>1, <1>2, PTL DEF Spec

(* A run accepts what is right, all of it, and nothing else, as long as nobody     *)
(* writes; and what it accepts when somebody does was held by files during the     *)
(* run, defines each node once and uses only identities that it registers.         *)
THEOREM AcceptsAsWritten == Spec => []AcceptedAsWritten
<1>1. AssemblyInv => AcceptedAsWritten
  <2> SUFFICES ASSUME AssemblyInv PROVE AcceptedAsWritten
    OBVIOUS
  <2>1. HeldInv /\ AcceptsExactly
    BY DEF AssemblyInv
  <2>2. ASSUME assembly.outcome = "accepted", NEW i \in DOMAIN assembly.payload.nodes
        PROVE  \E h \in held : assembly.payload.nodes[i] \in ToSet(h[2].nodes)
    <3>1. assembly.payload.nodes[i] \in ToSet(assembly.payload.nodes)
      BY <2>2 DEF ToSet
    <3> QED
      BY <2>1, <3>1 DEF HeldInv
  <2>3. AcceptedIsConsistent
    BY <2>1, <2>2 DEF HeldInv, DefinitionFits, AcceptedIsConsistent
  <2> QED
    BY <2>1, <2>3 DEF AcceptedAsWritten
<1> QED
  BY <1>1, AssemblyInvariant, PTL

-----------------------------------------------------------------------------
(* The build: texts put together from names                                     *)

Texts == Seq(Nat)

LEMMA SameText ==
    ASSUME NEW p \in Texts, NEW q \in Texts, Len(p) = Len(q), \A j \in 1..Len(p) : p[j] = q[j]
    PROVE  p = q
BY DEF Texts

(* parts lie in text one after the other, each but the first behind a mark; the  *)
(* kth lies behind the place at[k]                                               *)
JoinedAt(text, parts, mark, at) ==
    /\ at \in [1..Len(parts) -> Nat] /\ at[1] = 0 /\ Len(text) = at[Len(parts)] + Len(parts[Len(parts)])
    /\ \A k \in 2..Len(parts) : at[k] = at[k - 1] + Len(parts[k - 1]) + 1 /\ at[k] \in 1..Len(text) /\ text[at[k]] = mark
    /\ \A k \in 1..Len(parts) : \A j \in 1..Len(parts[k]) :
           at[k] + j \in 1..Len(text) /\ text[at[k] + j] = parts[k][j]
    /\ \A i \in 1..Len(text) : \/ \E k \in 2..Len(parts) : i = at[k]
                               \/ \E k \in 1..Len(parts) : \E j \in 1..Len(parts[k]) : i = at[k] + j

LEMMA JoinedMade ==
    ASSUME NEW parts \in Seq(Texts), parts # <<>>, NEW mark \in Nat
    PROVE  Joined(parts, <<mark>>) \in Texts /\ \E at : JoinedAt(Joined(parts, <<mark>>), parts, mark, at)
<1> DEFINE n == Len(parts)
           seqs == [i \in DOMAIN parts |-> IF i = 1 THEN parts[i] ELSE <<mark>> \o parts[i]]
           text == FlattenSeq(seqs)
<1>1. n \in Nat /\ n >= 1 /\ DOMAIN parts = 1..n /\ \A k \in 1..n : parts[k] \in Texts
  OBVIOUS
<1>2. \A p \in Texts : /\ <<mark>> \o p \in Texts /\ Len(<<mark>> \o p) = Len(p) + 1 /\ Len(p) \in Nat
                       /\ (<<mark>> \o p)[1] = mark /\ \A j \in 1..Len(p) : (<<mark>> \o p)[j + 1] = p[j]
  BY DEF Texts
<1> HIDE DEF n
<1>3. \A k \in 1..n : seqs[k] \in Texts
  BY <1>1, <1>2
<1>4. seqs \in Seq(Texts) /\ Len(seqs) = n
  BY <1>1, <1>3
<1>5. Joined(parts, <<mark>>) = text
  BY DEF Joined
<1>6. \A k \in 1..n : seqs[k] = IF k = 1 THEN parts[k] ELSE <<mark>> \o parts[k]
  BY <1>1
<1> HIDE DEF seqs
<1>7. PICK ends : text \in Texts /\ LaidAt(text, seqs, ends)
  BY <1>4, FlattenPlaces DEF Texts
<1> HIDE DEF text
<1>8. /\ ends \in [0..n -> Nat] /\ ends[0] = 0 /\ ends[n] = Len(text) /\ Len(text) \in Nat
      /\ \A k \in 1..n : ends[k] = ends[k - 1] + Len(seqs[k])
      /\ \A k \in 1..n : \A j \in 1..Len(seqs[k]) :
             ends[k - 1] + j \in 1..Len(text) /\ text[ends[k - 1] + j] = seqs[k][j]
      /\ \A i \in 1..Len(text) : \E k \in 1..n : \E j \in 1..Len(seqs[k]) : i = ends[k - 1] + j
  BY <1>4, <1>7 DEF LaidAt, Texts
<1> DEFINE at == [k \in 1..n |-> IF k = 1 THEN 0 ELSE ends[k - 1] + 1]
<1>9. /\ at \in [1..n -> Nat] /\ at[1] = 0
      /\ \A k \in 2..n : at[k] = ends[k - 1] + 1
  BY <1>1, <1>8
<1> HIDE DEF at
<1>10. ASSUME NEW k \in 1..n
       PROVE  /\ Len(parts[k]) \in Nat /\ ends[k - 1] \in Nat /\ ends[k] \in Nat /\ ends[k] = at[k] + Len(parts[k])
              /\ k # 1 => at[k] \in 1..Len(text) /\ text[at[k]] = mark
              /\ \A j \in 1..Len(parts[k]) : at[k] + j \in 1..Len(text) /\ text[at[k] + j] = parts[k][j]
              /\ \A j \in 1..Len(seqs[k]) : (k # 1 /\ ends[k - 1] + j = at[k])
                                            \/ \E h \in 1..Len(parts[k]) : ends[k - 1] + j = at[k] + h
  <2>0. k - 1 \in 0..n /\ k \in 0..n
    BY <1>1
  <2>1. /\ parts[k] \in Texts /\ Len(parts[k]) \in Nat /\ ends[k - 1] \in Nat /\ ends[k] \in Nat
        /\ ends[k] = ends[k - 1] + Len(seqs[k])
    BY <1>1, <1>2, <1>8, <2>0
  <2>2. CASE k = 1
    <3>1. seqs[k] = parts[k] /\ ends[k - 1] = 0 /\ at[k] = 0
      BY <1>6, <1>8, <1>9, <2>2
    <3>3. \A j \in 1..Len(seqs[k]) : ends[k - 1] + j \in 1..Len(text) /\ text[ends[k - 1] + j] = seqs[k][j]
      BY <1>8
    <3>2. \A j \in 1..Len(parts[k]) : 0 + j \in 1..Len(text) /\ text[0 + j] = parts[k][j]
      BY <3>1, <3>3
    <3> QED
      BY <2>1, <2>2, <3>1, <3>2
  <2>3. CASE k # 1
    <3>1. /\ seqs[k] = <<mark>> \o parts[k] /\ at[k] = ends[k - 1] + 1 /\ Len(seqs[k]) = Len(parts[k]) + 1
          /\ seqs[k][1] = mark /\ \A j \in 1..Len(parts[k]) : seqs[k][j + 1] = parts[k][j]
      <4>1. k \in 2..n
        BY <1>1, <2>3
      <4>2. seqs[k] = <<mark>> \o parts[k] /\ at[k] = ends[k - 1] + 1
        BY <1>6, <1>9, <2>3, <4>1
      <4> DEFINE p == parts[k]
      <4> HIDE DEF p
      <4>3. p \in Texts /\ seqs[k] = <<mark>> \o p
        BY <2>1, <4>2 DEF p
      <4>4. Len(seqs[k]) = Len(p) + 1 /\ seqs[k][1] = mark /\ \A j \in 1..Len(p) : seqs[k][j + 1] = p[j]
        BY <1>2, <4>3
      <4> QED
        BY <4>2, <4>4 DEF p
    <3>0. at[k] = ends[k - 1] + 1 /\ ends[k - 1] \in Nat /\ Len(parts[k]) \in Nat /\ Len(seqs[k]) = Len(parts[k]) + 1
      BY <2>1, <3>1
    <3>2. 1 \in 1..Len(seqs[k]) /\ \A j \in 1..Len(parts[k]) : j + 1 \in 1..Len(seqs[k])
      BY <3>0
    <3>3. at[k] \in 1..Len(text) /\ text[at[k]] = mark
      BY <1>8, <3>1, <3>2
    <3>4. ASSUME NEW j \in 1..Len(parts[k])
          PROVE  at[k] + j \in 1..Len(text) /\ text[at[k] + j] = parts[k][j]
      <4>1. ends[k - 1] + (j + 1) \in 1..Len(text) /\ text[ends[k - 1] + (j + 1)] = seqs[k][j + 1]
        BY <1>8, <3>2
      <4>2. at[k] + j = ends[k - 1] + (j + 1)
        <5>1. \A a, b \in Nat : \A c \in 1..b : (a + 1) + c = a + (c + 1)
          OBVIOUS
        <5> QED
          BY <3>0, <5>1
      <4> QED
        BY <3>1, <4>1, <4>2
    <3>5. ASSUME NEW j \in 1..Len(seqs[k])
          PROVE  ends[k - 1] + j = at[k] \/ \E h \in 1..Len(parts[k]) : ends[k - 1] + j = at[k] + h
      <4>1. CASE j = 1
        BY <3>1, <4>1
      <4>2. CASE j # 1
        <5>1. \A a, b \in Nat : \A c \in 1..(b + 1) : c # 1 => c - 1 \in 1..b /\ a + c = (a + 1) + (c - 1)
          OBVIOUS
        <5>2. j - 1 \in 1..Len(parts[k]) /\ ends[k - 1] + j = at[k] + (j - 1)
          BY <3>0, <4>2, <5>1
        <5> QED
          BY <5>2
      <4> QED
        BY <4>1, <4>2
    <3>6. ends[k] = at[k] + Len(parts[k])
      BY <2>1, <3>0
    <3> QED
      BY <2>1, <2>3, <3>3, <3>4, <3>5, <3>6
  <2> QED
    BY <2>2, <2>3
<1>11. n \in 1..n /\ Len(text) = at[n] + Len(parts[n])
  BY <1>1, <1>8, <1>10
<1>12. ASSUME NEW k \in 2..n
       PROVE  at[k] = at[k - 1] + Len(parts[k - 1]) + 1 /\ at[k] \in 1..Len(text) /\ text[at[k]] = mark
  <2>1. k - 1 \in 1..n /\ k \in 1..n /\ k # 1
    BY <1>1
  <2> QED
    BY <1>9, <1>10, <2>1
<1>13. ASSUME NEW i \in 1..Len(text)
       PROVE  \/ \E k \in 2..n : i = at[k]
              \/ \E k \in 1..n : \E j \in 1..Len(parts[k]) : i = at[k] + j
  <2>1. PICK k \in 1..n : \E j \in 1..Len(seqs[k]) : i = ends[k - 1] + j
    BY <1>8
  <2>2. k # 1 => k \in 2..n
    BY <1>1
  <2> QED
    BY <1>10, <2>1, <2>2
<1>14. JoinedAt(text, parts, mark, at)
  BY <1>9, <1>10, <1>11, <1>12, <1>13 DEF JoinedAt, n
<1> QED
  BY <1>5, <1>7, <1>14

(* Parts without the mark can be told from the text. *)
LEMMA JoinedApart ==
    ASSUME NEW parts \in Seq(Texts), parts # <<>>, NEW others \in Seq(Texts), others # <<>>, NEW mark \in Nat,
           \A k \in DOMAIN parts : \A j \in DOMAIN parts[k] : parts[k][j] # mark,
           \A k \in DOMAIN others : \A j \in DOMAIN others[k] : others[k][j] # mark,
           Joined(parts, <<mark>>) = Joined(others, <<mark>>)
    PROVE  parts = others
<1> DEFINE n == Len(parts)  m == Len(others)  text == Joined(parts, <<mark>>)
<1>1. /\ n \in Nat /\ n >= 1 /\ DOMAIN parts = 1..n /\ \A k \in 1..n : parts[k] \in Texts
      /\ m \in Nat /\ m >= 1 /\ DOMAIN others = 1..m /\ \A k \in 1..m : others[k] \in Texts
  OBVIOUS
<1>2. PICK at : text \in Texts /\ JoinedAt(text, parts, mark, at)
  BY JoinedMade
<1>3. PICK st : JoinedAt(text, others, mark, st)
  BY JoinedMade
<1> HIDE DEF n, m, text
<1>4. \A p \in Texts : Len(p) \in Nat /\ DOMAIN p = 1..Len(p)
  BY DEF Texts
(* where a part of one of them ends, one of the other does not go on *)
<1>5. ASSUME NEW P \in Seq(Texts), NEW Q \in Seq(Texts), NEW a, NEW b, P # <<>>, Q # <<>>,
             JoinedAt(text, P, mark, a), JoinedAt(text, Q, mark, b),
             \A k \in DOMAIN Q : \A j \in DOMAIN Q[k] : Q[k][j] # mark,
             NEW k \in 1..Len(P), k \in 1..Len(Q), a[k] = b[k]
      PROVE  /\ ~(Len(P[k]) < Len(Q[k]))
             /\ k < Len(P) <=> Len(text) > a[k] + Len(P[k])
  <2>1. /\ Len(P) \in Nat /\ Len(Q) \in Nat /\ DOMAIN P = 1..Len(P) /\ DOMAIN Q = 1..Len(Q)
        /\ P[k] \in Texts /\ Q[k] \in Texts /\ Len(P) \in 1..Len(P)
    BY <1>5
  <2>2. Len(P[k]) \in Nat /\ Len(Q[k]) \in Nat /\ a[k] \in Nat /\ Len(text) \in Nat /\ DOMAIN Q[k] = 1..Len(Q[k])
    <3>1. a \in [1..Len(P) -> Nat]
      BY <1>5 DEF JoinedAt
    <3> QED
      BY <1>2, <1>4, <1>5, <2>1, <3>1
  <2>3. k < Len(P) => /\ k + 1 \in 2..Len(P) /\ (k + 1) - 1 = k
    BY <2>1
  <2>4. k < Len(P) => a[k] + Len(P[k]) + 1 \in 1..Len(text) /\ text[a[k] + Len(P[k]) + 1] = mark
    BY <1>5, <2>3 DEF JoinedAt
  <2>5. k = Len(P) => Len(text) = a[k] + Len(P[k])
    BY <1>5 DEF JoinedAt
  <2>6. k < Len(P) <=> Len(text) > a[k] + Len(P[k])
    BY <2>1, <2>2, <2>4, <2>5
  <2>7. ASSUME Len(P[k]) < Len(Q[k])
        PROVE  FALSE
    <3> DEFINE j == Len(P[k]) + 1
    <3>1. j \in 1..Len(Q[k]) /\ a[k] + j = a[k] + Len(P[k]) + 1
      <4> DEFINE x == Len(P[k])  y == Len(Q[k])
      <4> HIDE DEF x, y
      <4>1. x \in Nat /\ y \in Nat /\ x < y /\ a[k] \in Nat
        BY <2>2, <2>7 DEF x, y
      <4>2. x + 1 \in 1..y /\ a[k] + (x + 1) = a[k] + x + 1
        BY <4>1
      <4> QED
        BY <4>2 DEF x, y
    <3>2. a[k] + j \in 1..Len(text) /\ text[a[k] + j] = Q[k][j]
      BY <1>5, <3>1 DEF JoinedAt
    <3>3. Q[k][j] # mark
      BY <1>5, <2>1, <2>2, <3>1
    <3>4. Len(text) > a[k] + Len(P[k])
      BY <2>2, <3>1, <3>2
    <3> QED
      BY <2>4, <2>6, <3>1, <3>2, <3>3, <3>4
  <2> QED
    BY <2>6, <2>7
<1> DEFINE T == {k \in Nat : 1 <= k => (k <= n <=> k <= m) /\ (k <= n => at[k] = st[k])}
<1>6. 0 \in T
  OBVIOUS
<1>7. ASSUME NEW k \in 1..n, k \in 1..m, at[k] = st[k]
      PROVE  Len(parts[k]) = Len(others[k]) /\ (k < n <=> k < m)
  <2>1. ~(Len(parts[k]) < Len(others[k])) /\ (k < n <=> Len(text) > at[k] + Len(parts[k]))
    BY <1>2, <1>3, <1>5, <1>7 DEF n, m
  <2>2. ~(Len(others[k]) < Len(parts[k])) /\ (k < m <=> Len(text) > at[k] + Len(others[k]))
    BY <1>2, <1>3, <1>5, <1>7 DEF n, m
  <2>3. Len(parts[k]) \in Nat /\ Len(others[k]) \in Nat
    BY <1>1, <1>4, <1>7
  <2> QED
    BY <2>1, <2>2, <2>3
<1>8. ASSUME NEW k \in Nat, k \in T
      PROVE  k + 1 \in T
  <2>1. CASE k = 0
    <3>1. at[1] = 0 /\ st[1] = 0
      BY <1>2, <1>3 DEF JoinedAt
    <3> QED
      BY <1>1, <2>1, <3>1
  <2>2. CASE k # 0 /\ ~(k <= n)
    BY <1>1, <1>8, <2>2
  <2>3. CASE k # 0 /\ k <= n
    <3>1. k \in 1..n /\ k \in 1..m /\ at[k] = st[k]
      BY <1>1, <1>8, <2>3
    <3>2. Len(parts[k]) = Len(others[k]) /\ (k < n <=> k < m)
      BY <1>7, <3>1
    <3>3. ASSUME k + 1 <= n
          PROVE  at[k + 1] = st[k + 1]
      <4>1. k + 1 \in 2..n /\ k + 1 \in 2..m /\ (k + 1) - 1 = k
        BY <1>1, <3>1, <3>2, <3>3
      <4>2. at[k + 1] = at[k] + Len(parts[k]) + 1 /\ st[k + 1] = st[k] + Len(others[k]) + 1
        BY <1>2, <1>3, <4>1 DEF JoinedAt, n, m
      <4> QED
        BY <3>1, <3>2, <4>2
    <3> QED
      BY <1>1, <3>2, <3>3
  <2> QED
    BY <2>1, <2>2, <2>3
<1> HIDE DEF T
<1>9. Nat \subseteq T
  BY <1>6, <1>8, Reaches
<1>10. n = m
  <2>1. n \in T /\ m \in T
    BY <1>1, <1>9
  <2> QED
    BY <1>1, <2>1 DEF T
<1>11. ASSUME NEW k \in 1..n
       PROVE  parts[k] = others[k]
  <2>1. at[k] = st[k] /\ k \in 1..m
    <3>1. k \in T
      BY <1>1, <1>9
    <3> QED
      BY <1>1, <1>10, <3>1 DEF T
  <2>2. Len(parts[k]) = Len(others[k])
    BY <1>7, <2>1
  <2>3. \A j \in 1..Len(parts[k]) : parts[k][j] = others[k][j]
    BY <1>2, <1>3, <2>1, <2>2 DEF JoinedAt, n, m
  <2> QED
    BY <1>1, <2>1, <2>2, <2>3, SameText
<1> QED
  BY <1>1, <1>10, <1>11 DEF n, m

-----------------------------------------------------------------------------
(* The build: IDs                                                               *)

LEMMA Appended ==
    ASSUME NEW s \in Texts, NEW t \in Texts
    PROVE  /\ s \o t \in Texts /\ Len(s) \in Nat /\ Len(t) \in Nat /\ Len(s \o t) = Len(s) + Len(t)
           /\ \A i \in 1..Len(s) : (s \o t)[i] = s[i]
           /\ \A j \in 1..Len(t) : (s \o t)[Len(s) + j] = t[j]
BY DEF Texts

LEMMA OneCharacter ==
    ASSUME NEW c \in Nat
    PROVE  <<c>> \in Texts /\ Len(<<c>>) = 1 /\ <<c>>[1] = c
BY DEF Texts

LEMMA WithMark ==
    ASSUME NEW s \in Texts, NEW c \in Nat
    PROVE  /\ s \o <<c>> \in Texts /\ Len(s) \in Nat /\ Len(s \o <<c>>) = Len(s) + 1 /\ (s \o <<c>>)[Len(s) + 1] = c
           /\ \A i \in 1..Len(s) : (s \o <<c>>)[i] = s[i]
BY DEF Texts

LEMMA HoldsNone ==
    ASSUME NEW text \in Texts, NEW c, ~Holds(text, <<c>>)
    PROVE  \A j \in 1..Len(text) : text[j] # c
<1> SUFFICES ASSUME NEW j \in 1..Len(text), text[j] = c PROVE Holds(text, <<c>>)
  OBVIOUS
<1>1. DOMAIN text = 1..Len(text) /\ Len(text) \in Nat /\ DOMAIN <<c>> = {1} /\ <<c>>[1] = c /\ j + 1 - 1 = j
  BY DEF Texts
<1>2. Stands(<<c>>, text, j)
  BY <1>1 DEF Stands
<1> QED
  BY <1>1, <1>2 DEF Holds

(* what has a side: its names are given *)
WellNamed(d) == d.node \in GivenNames /\ d.identity \in GivenNames /\ d.columns \in Seq(GivenNames) \ {<<>>}

JoinedColumns(d) == Joined(d.columns, <<Plus>>)
Identity(d) == Len(d.node) + 1                       \* the places of the two colons
Columns(d)  == Len(d.node) + Len(d.identity) + 2

LEMMA SideMade ==
    ASSUME NEW d, WellNamed(d)
    PROVE  /\ Side(d) \in Texts /\ JoinedColumns(d) \in Texts /\ d.node \in Texts /\ d.identity \in Texts
           /\ Len(d.node) \in Nat \ {0} /\ Len(d.identity) \in Nat \ {0} /\ Len(JoinedColumns(d)) \in Nat
           /\ Identity(d) \in Nat /\ Columns(d) \in Nat
           /\ Identity(d) = Len(d.node) + 1 /\ Columns(d) = Identity(d) + Len(d.identity) + 1
           /\ Len(Side(d)) = Columns(d) + Len(JoinedColumns(d))
           /\ Side(d)[Identity(d)] = Colon /\ Side(d)[Columns(d)] = Colon
           /\ \A j \in 1..Len(d.node) : Side(d)[j] = d.node[j]
           /\ \A j \in 1..Len(d.identity) : Side(d)[Identity(d) + j] = d.identity[j]
           /\ \A j \in 1..Len(JoinedColumns(d)) : Side(d)[Columns(d) + j] = JoinedColumns(d)[j]
<1>1. /\ d.node \in Texts /\ d.identity \in Texts /\ Len(d.node) \in Nat \ {0} /\ Len(d.identity) \in Nat \ {0}
      /\ d.columns \in Seq(Texts) /\ d.columns # <<>>
  BY DEF WellNamed, GivenNames, Texts
<1>2. Colon \in Nat /\ Plus \in Nat
  BY DEF Colon, Plus
<1>3. <<Colon>> \in Texts /\ Len(<<Colon>>) = 1 /\ <<Colon>>[1] = Colon
  BY <1>2, OneCharacter
<1>4. JoinedColumns(d) \in Texts /\ Len(JoinedColumns(d)) \in Nat
  <2>1. JoinedColumns(d) \in Texts
    BY <1>1, <1>2, JoinedMade DEF JoinedColumns
  <2> QED
    BY <2>1 DEF Texts
<1> DEFINE n == d.node  i == d.identity  c == JoinedColumns(d)  m == <<Colon>>
           t1 == n \o m  t2 == t1 \o i  t3 == t2 \o m  t4 == t3 \o c
<1>5. Side(d) = t4
  BY DEF Side, JoinedColumns
<1> HIDE DEF n, i, c, m
<1>6. /\ n \in Texts /\ i \in Texts /\ c \in Texts /\ m \in Texts /\ m = <<Colon>> /\ Colon \in Nat
      /\ Len(n) \in Nat /\ Len(i) \in Nat /\ Len(c) \in Nat
  BY <1>1, <1>2, <1>3, <1>4 DEF n, i, c, m
<1>7. t1 \in Texts /\ Len(t1) = Len(n) + 1 /\ t1[Len(n) + 1] = Colon /\ \A j \in 1..Len(n) : t1[j] = n[j]
  BY <1>6, WithMark
<1> HIDE DEF t1
<1>8. /\ t2 \in Texts /\ Len(t2) = Len(n) + 1 + Len(i)
      /\ \A j \in 1..Len(n) + 1 : t2[j] = t1[j]
      /\ \A j \in 1..Len(i) : t2[Len(n) + 1 + j] = i[j]
  <2>1. t2 \in Texts /\ Len(t2) = Len(t1) + Len(i) /\ (\A j \in 1..Len(t1) : t2[j] = t1[j]) /\ \A j \in 1..Len(i) : t2[Len(t1) + j] = i[j]
    BY <1>6, <1>7, Appended
  <2> HIDE DEF t2
  <2> QED
    BY <1>7, <2>1
<1> HIDE DEF t2
<1>9. /\ t3 \in Texts /\ Len(t3) = Len(n) + Len(i) + 2
      /\ \A j \in 1..Len(n) + 1 + Len(i) : t3[j] = t2[j]
      /\ t3[Len(n) + Len(i) + 2] = Colon
  <2>1. Len(t2) \in Nat /\ Len(t2) + 1 = Len(n) + Len(i) + 2
    BY <1>6, <1>8
  <2>2. t3 \in Texts /\ Len(t3) = Len(t2) + 1 /\ t3[Len(t2) + 1] = Colon /\ \A j \in 1..Len(t2) : t3[j] = t2[j]
    BY <1>6, <1>8, WithMark
  <2> QED
    BY <1>6, <1>8, <2>1, <2>2
<1> HIDE DEF t3
<1>10. /\ t4 \in Texts /\ Len(t4) = Len(n) + Len(i) + 2 + Len(c)
       /\ \A j \in 1..Len(n) + Len(i) + 2 : t4[j] = t3[j]
       /\ \A j \in 1..Len(c) : t4[Len(n) + Len(i) + 2 + j] = c[j]
  <2>1. t4 \in Texts /\ Len(t4) = Len(t3) + Len(c) /\ (\A j \in 1..Len(t3) : t4[j] = t3[j]) /\ \A j \in 1..Len(c) : t4[Len(t3) + j] = c[j]
    BY <1>6, <1>9, Appended
  <2> HIDE DEF t4
  <2> QED
    BY <1>9, <2>1
<1> HIDE DEF t4
<1>11. /\ \A j \in 1..Len(n) : t4[j] = n[j]
       /\ t4[Len(n) + 1] = Colon /\ t4[Len(n) + Len(i) + 2] = Colon
       /\ \A j \in 1..Len(i) : t4[Len(n) + 1 + j] = i[j]
  <2>1. \A j \in 1..Len(n) : j \in 1..Len(n) + 1 /\ j \in 1..Len(n) + 1 + Len(i) /\ j \in 1..Len(n) + Len(i) + 2
    BY <1>6
  <2>2. /\ Len(n) + 1 \in 1..Len(n) + 1 /\ Len(n) + 1 \in 1..Len(n) + 1 + Len(i) /\ Len(n) + 1 \in 1..Len(n) + Len(i) + 2
        /\ Len(n) + Len(i) + 2 \in 1..Len(n) + Len(i) + 2
    BY <1>6
  <2>3. \A j \in 1..Len(i) : Len(n) + 1 + j \in 1..Len(n) + 1 + Len(i) /\ Len(n) + 1 + j \in 1..Len(n) + Len(i) + 2
    BY <1>6
  <2> QED
    BY <1>7, <1>8, <1>9, <1>10, <2>1, <2>2, <2>3
<1>12. Identity(d) = Len(n) + 1 /\ Columns(d) = Len(n) + Len(i) + 2
  BY DEF Identity, Columns, n, i
<1>13. /\ Identity(d) \in Nat /\ Columns(d) \in Nat
       /\ Identity(d) = Len(d.node) + 1 /\ Columns(d) = Identity(d) + Len(d.identity) + 1
  <2>1. \A x, y \in Nat : x + 1 \in Nat /\ x + y + 2 \in Nat /\ x + y + 2 = (x + 1) + y + 1
    OBVIOUS
  <2>2. Identity(d) \in Nat /\ Columns(d) \in Nat /\ Columns(d) = Len(n) + 1 + Len(i) + 1
    BY <1>6, <1>12, <2>1, Zenon
  <2> QED
    BY <1>12, <2>2, Zenon DEF n, i
<1> QED
  BY <1>1, <1>4, <1>5, <1>10, <1>11, <1>12, <1>13 DEF n, i, c

(* of what a side is made, when it can be told *)
Separable(d) ==
    /\ ~Holds(d.identity, <<Colon>>)
    /\ \A i \in DOMAIN d.columns : ~Holds(d.columns[i], <<Colon>>) /\ ~Holds(d.columns[i], <<Plus>>)

LEMMA NoColonBehind ==
    ASSUME NEW d, WellNamed(d), Separable(d), NEW p \in 1..Len(Side(d)), p > Identity(d), p # Columns(d)
    PROVE  Side(d)[p] # Colon
<1>1. /\ d.identity \in Texts /\ Len(d.identity) \in Nat /\ Identity(d) \in Nat /\ Columns(d) \in Nat
      /\ Len(Side(d)) = Columns(d) + Len(JoinedColumns(d)) /\ Len(JoinedColumns(d)) \in Nat
      /\ \A j \in 1..Len(d.identity) : Side(d)[Identity(d) + j] = d.identity[j]
      /\ \A j \in 1..Len(JoinedColumns(d)) : Side(d)[Columns(d) + j] = JoinedColumns(d)[j]
      /\ Len(d.node) \in Nat
  BY SideMade
<1>2. Columns(d) = Identity(d) + Len(d.identity) + 1
  BY SideMade
<1>3. CASE p < Columns(d)
  <2>1. p - Identity(d) \in 1..Len(d.identity) /\ p = Identity(d) + (p - Identity(d))
    BY <1>1, <1>2, <1>3
  <2>2. d.identity[p - Identity(d)] # Colon
    BY <1>1, <2>1, HoldsNone DEF Separable
  <2> QED
    BY <1>1, <2>1, <2>2
<1>4. CASE p > Columns(d)
  <2> DEFINE r == p - Columns(d)
  <2>1. r \in 1..Len(JoinedColumns(d)) /\ p = Columns(d) + r
    BY <1>1, <1>4
  <2>2. JoinedColumns(d)[r] # Colon
    <3>1. d.columns \in Seq(Texts) /\ d.columns # <<>> /\ DOMAIN d.columns = 1..Len(d.columns) /\ Plus \in Nat /\ Plus # Colon
      BY DEF WellNamed, GivenNames, Texts, Plus, Colon
    <3>2. PICK at : JoinedAt(JoinedColumns(d), d.columns, Plus, at)
      BY <3>1, JoinedMade DEF JoinedColumns
    <3>3. CASE \E k \in 2..Len(d.columns) : r = at[k]
      BY <3>1, <3>2, <3>3 DEF JoinedAt
    <3>4. ASSUME NEW k \in 1..Len(d.columns), NEW j \in 1..Len(d.columns[k]), r = at[k] + j
          PROVE  JoinedColumns(d)[r] # Colon
      <4>1. d.columns[k] \in Texts /\ ~Holds(d.columns[k], <<Colon>>)
        BY <3>1 DEF Separable
      <4>2. d.columns[k][j] # Colon
        BY <4>1, HoldsNone
      <4>3. JoinedColumns(d)[at[k] + j] = d.columns[k][j]
        BY <3>2 DEF JoinedAt
      <4> QED
        BY <3>4, <4>2, <4>3
    <3> HIDE DEF r
    <3>5. \/ \E k \in 2..Len(d.columns) : r = at[k]
          \/ \E k \in 1..Len(d.columns) : \E j \in 1..Len(d.columns[k]) : r = at[k] + j
      BY <2>1, <3>2 DEF JoinedAt
    <3> QED
      BY <3>3, <3>4, <3>5
  <2> QED
    BY <1>1, <2>1, <2>2
<1> QED
  BY <1>1, <1>3, <1>4

(* Where the side is the same, the colons are in the same places. *)
LEMMA ColonsMeet ==
    ASSUME NEW d, NEW e, WellNamed(d), WellNamed(e), Separable(d), Separable(e), Side(d) = Side(e)
    PROVE  Identity(d) = Identity(e) /\ Columns(d) = Columns(e)
<1>1. ASSUME NEW x, NEW y, WellNamed(x), WellNamed(y), Separable(x), Side(x) = Side(y)
      PROVE  ~(Columns(x) < Columns(y)) /\ (Columns(x) = Columns(y) => ~(Identity(x) < Identity(y)))
  <2>1. /\ Identity(x) \in Nat /\ Columns(x) \in Nat /\ Len(x.identity) \in Nat /\ Len(x.node) \in Nat
        /\ Identity(y) \in Nat /\ Columns(y) \in Nat /\ Len(y.identity) \in Nat /\ Len(y.node) \in Nat
        /\ Len(Side(y)) = Columns(y) + Len(JoinedColumns(y)) /\ Len(JoinedColumns(y)) \in Nat
        /\ Side(y)[Identity(y)] = Colon /\ Side(y)[Columns(y)] = Colon
        /\ Columns(x) = Identity(x) + Len(x.identity) + 1
        /\ Identity(y) = Len(y.node) + 1 /\ Columns(y) = Identity(y) + Len(y.identity) + 1
    BY <1>1, SideMade
  <2>2. Identity(x) < Columns(x) /\ Identity(y) < Columns(y) /\ Identity(y) > 0
    <3>1. \A i, l \in Nat : i < i + l + 1
      OBVIOUS
    <3>2. \A l \in Nat : l + 1 > 0
      OBVIOUS
    <3> QED
      BY <2>1, <3>1, <3>2
  <2>3. Columns(y) \in 1..Len(Side(y)) /\ Identity(y) \in 1..Len(Side(y))
    <3>1. \A i, c, l \in Nat : i > 0 /\ i < c => c \in 1..(c + l) /\ i \in 1..(c + l)
      OBVIOUS
    <3> QED
      BY <2>1, <2>2, <3>1, Zenon
  <2>4. \A p \in 1..Len(Side(y)) : p > Identity(x) /\ p # Columns(x) => Side(y)[p] # Colon
    BY <1>1, NoColonBehind
  <2> DEFINE i == Identity(x)  c == Columns(x)  j == Identity(y)  e1 == Columns(y)
  <2> HIDE DEF i, c, j, e1
  <2>0. /\ i \in Nat /\ c \in Nat /\ j \in Nat /\ e1 \in Nat /\ i < c /\ j < e1
        /\ Side(y)[j] = Colon /\ Side(y)[e1] = Colon /\ e1 \in 1..Len(Side(y)) /\ j \in 1..Len(Side(y))
        /\ \A p \in 1..Len(Side(y)) : p > i /\ p # c => Side(y)[p] # Colon
    BY <2>1, <2>2, <2>3, <2>4, Zenon DEF i, c, j, e1
  <2>5. ~(c < e1)
    BY <2>0
  <2>6. c = e1 => ~(i < j)
    BY <2>0
  <2> QED
    BY <2>5, <2>6 DEF i, c, j, e1
<1>2. Identity(d) \in Nat /\ Columns(d) \in Nat /\ Identity(e) \in Nat /\ Columns(e) \in Nat
  BY SideMade
<1>3. ~(Columns(d) < Columns(e)) /\ (Columns(d) = Columns(e) => ~(Identity(d) < Identity(e)))
  BY <1>1
<1>4. ~(Columns(e) < Columns(d)) /\ (Columns(e) = Columns(d) => ~(Identity(e) < Identity(d)))
  BY <1>1
<1> QED
  BY <1>2, <1>3, <1>4

LEMMA SameSide ==
    ASSUME NEW d, NEW e, WellNamed(d), WellNamed(e), Separable(d), Separable(e), Side(d) = Side(e)
    PROVE  d.node = e.node /\ d.identity = e.identity /\ d.columns = e.columns
<1>1. /\ Identity(d) = Identity(e) /\ Columns(d) = Columns(e)
  BY ColonsMeet
<1>2. /\ d.node \in Texts /\ d.identity \in Texts /\ Len(d.node) \in Nat /\ Len(d.identity) \in Nat
      /\ JoinedColumns(d) \in Texts /\ Len(JoinedColumns(d)) \in Nat /\ Columns(d) \in Nat
      /\ Len(Side(d)) = Columns(d) + Len(JoinedColumns(d))
      /\ \A j \in 1..Len(d.node) : Side(d)[j] = d.node[j]
      /\ \A j \in 1..Len(d.identity) : Side(d)[Identity(d) + j] = d.identity[j]
      /\ \A j \in 1..Len(JoinedColumns(d)) : Side(d)[Columns(d) + j] = JoinedColumns(d)[j]
  BY SideMade
<1>3. /\ e.node \in Texts /\ e.identity \in Texts /\ Len(e.node) \in Nat /\ Len(e.identity) \in Nat
      /\ JoinedColumns(e) \in Texts /\ Len(JoinedColumns(e)) \in Nat
      /\ Len(Side(e)) = Columns(e) + Len(JoinedColumns(e))
      /\ \A j \in 1..Len(e.node) : Side(e)[j] = e.node[j]
      /\ \A j \in 1..Len(e.identity) : Side(e)[Identity(e) + j] = e.identity[j]
      /\ \A j \in 1..Len(JoinedColumns(e)) : Side(e)[Columns(e) + j] = JoinedColumns(e)[j]
  BY SideMade
<1>4. Len(d.node) = Len(e.node) /\ Len(d.identity) = Len(e.identity) /\ Len(JoinedColumns(d)) = Len(JoinedColumns(e))
  <2>1. Identity(d) = Len(d.node) + 1 /\ Columns(d) = Identity(d) + Len(d.identity) + 1
    BY SideMade
  <2>2. Identity(e) = Len(e.node) + 1 /\ Columns(e) = Identity(e) + Len(e.identity) + 1
    BY SideMade
  <2>3. \A x, y \in Nat : x + 1 = y + 1 => x = y
    OBVIOUS
  <2>4. \A i, x, y \in Nat : i + x + 1 = i + y + 1 \/ i + x = i + y => x = y
    OBVIOUS
  <2>5. Identity(d) \in Nat
    BY SideMade
  <2>6. Len(d.node) = Len(e.node)
    <3>1. Len(d.node) + 1 = Len(e.node) + 1
      BY <1>1, <2>1, <2>2, Zenon
    <3> QED
      BY <1>2, <1>3, <2>3, <3>1, Zenon
  <2>7. Len(d.identity) = Len(e.identity)
    <3>1. Identity(d) + Len(d.identity) + 1 = Identity(d) + Len(e.identity) + 1
      BY <1>1, <2>1, <2>2, Zenon
    <3> QED
      BY <1>2, <1>3, <2>4, <2>5, <3>1, Zenon
  <2>8. Len(JoinedColumns(d)) = Len(JoinedColumns(e))
    BY <1>1, <1>2, <1>3, <2>4
  <2> QED
    BY <2>6, <2>7, <2>8
<1>5. d.node = e.node
  <2>1. \A j \in 1..Len(d.node) : d.node[j] = e.node[j]
    BY <1>2, <1>3, <1>4
  <2> QED
    BY <1>2, <1>3, <1>4, <2>1, SameText
<1>6. d.identity = e.identity
  BY <1>1, <1>2, <1>3, <1>4, SameText
<1>7. JoinedColumns(d) = JoinedColumns(e)
  BY <1>1, <1>2, <1>3, <1>4, SameText
<1>8. ASSUME NEW x, WellNamed(x), Separable(x)
      PROVE  /\ x.columns \in Seq(Texts) /\ x.columns # <<>>
             /\ \A k \in DOMAIN x.columns : \A j \in DOMAIN x.columns[k] : x.columns[k][j] # Plus
  <2>1. x.columns \in Seq(Texts) /\ x.columns # <<>>
    BY <1>8 DEF WellNamed, GivenNames, Texts
  <2>2. ASSUME NEW k \in DOMAIN x.columns, NEW j \in DOMAIN x.columns[k]
        PROVE  x.columns[k][j] # Plus
    <3>1. x.columns[k] \in Texts /\ ~Holds(x.columns[k], <<Plus>>)
      BY <1>8, <2>1 DEF Separable
    <3>2. DOMAIN x.columns[k] = 1..Len(x.columns[k])
      BY <3>1 DEF Texts
    <3> QED
      BY <3>1, <3>2, HoldsNone
  <2> QED
    BY <2>1, <2>2
<1>9. d.columns = e.columns
  <2>1. Plus \in Nat
    BY DEF Plus
  <2>2. Joined(d.columns, <<Plus>>) = Joined(e.columns, <<Plus>>)
    BY <1>7 DEF JoinedColumns
  <2> QED
    BY <1>8, <2>1, <2>2, JoinedApart
<1> QED
  BY <1>5, <1>6, <1>9

LEMMA PlainSeparable ==
    ASSUME NEW d, Plain(d)
    PROVE  Separable(d) /\ ~Holds(Side(d), <<Underscore, Underscore>>) /\ Side(d)[Len(Side(d))] # Underscore
BY DEF Plain, Separable

LEMMA EdgeTextMade ==
    ASSUME NEW a, NEW b, WellNamed(a), WellNamed(b)
    PROVE  /\ EdgeText(a, b) \in Texts /\ Side(a) \in Texts /\ Side(b) \in Texts
           /\ Len(Side(a)) \in Nat /\ Len(Side(b)) \in Nat /\ Len(EdgeText(a, b)) = Len(Side(a)) + 2 + Len(Side(b))
           /\ EdgeText(a, b)[Len(Side(a)) + 1] = Underscore /\ EdgeText(a, b)[Len(Side(a)) + 2] = Underscore
           /\ \A j \in 1..Len(Side(a)) : EdgeText(a, b)[j] = Side(a)[j]
           /\ \A j \in 1..Len(Side(b)) : EdgeText(a, b)[Len(Side(a)) + 2 + j] = Side(b)[j]
<1> DEFINE s == Side(a)  t == Side(b)  m == <<Underscore, Underscore>>  u == s \o m
<1>1. EdgeText(a, b) = u \o t
  BY DEF EdgeText
<1>2. s \in Texts /\ t \in Texts /\ Len(s) \in Nat /\ Len(t) \in Nat
  <2>1. s \in Texts /\ t \in Texts
    BY SideMade
  <2> QED
    BY <2>1 DEF Texts
<1>3. m \in Texts /\ Len(m) = 2 /\ m[1] = Underscore /\ m[2] = Underscore
  BY DEF Texts, Underscore
<1> HIDE DEF s, t, m
<1>4. /\ u \in Texts /\ Len(u) = Len(s) + 2 /\ u[Len(s) + 1] = Underscore /\ u[Len(s) + 2] = Underscore
      /\ \A j \in 1..Len(s) : u[j] = s[j]
  <2>1. u \in Texts /\ Len(u) = Len(s) + Len(m) /\ (\A j \in 1..Len(s) : u[j] = s[j]) /\ \A j \in 1..Len(m) : u[Len(s) + j] = m[j]
    BY <1>2, <1>3, Appended
  <2> HIDE DEF u
  <2>2. 1 \in 1..Len(m) /\ 2 \in 1..Len(m)
    BY <1>3
  <2> QED
    BY <1>3, <2>1, <2>2
<1> HIDE DEF u
<1>5. /\ u \o t \in Texts /\ Len(u \o t) = Len(s) + 2 + Len(t)
      /\ \A j \in 1..Len(u) : (u \o t)[j] = u[j]
      /\ \A j \in 1..Len(t) : (u \o t)[Len(s) + 2 + j] = t[j]
  <2> DEFINE v == u \o t
  <2>1. v \in Texts /\ Len(v) = Len(u) + Len(t) /\ (\A j \in 1..Len(u) : v[j] = u[j]) /\ \A j \in 1..Len(t) : v[Len(u) + j] = t[j]
    BY <1>2, <1>4, Appended
  <2> HIDE DEF v
  <2>2. v \in Texts /\ Len(v) = Len(s) + 2 + Len(t) /\ (\A j \in 1..Len(u) : v[j] = u[j]) /\ \A j \in 1..Len(t) : v[Len(s) + 2 + j] = t[j]
    BY <1>4, <2>1
  <2> QED
    BY <2>2 DEF v
<1>6. \A j \in 1..Len(s) : j \in 1..Len(u)
  BY <1>2, <1>4
<1>7. Len(s) + 1 \in 1..Len(u) /\ Len(s) + 2 \in 1..Len(u)
  BY <1>2, <1>4
<1> QED
  BY <1>1, <1>2, <1>4, <1>5, <1>6, <1>7 DEF s, t

(* Of plain names, an ID tells the definitions at its ends. *)
LEMMA SameEdgeText ==
    ASSUME NEW a, NEW b, NEW c, NEW d, WellNamed(a), WellNamed(b), WellNamed(c), WellNamed(d),
           Plain(a), Plain(b), Plain(c), Plain(d), EdgeText(a, b) = EdgeText(c, d)
    PROVE  /\ a.node = c.node /\ a.identity = c.identity /\ a.columns = c.columns
           /\ b.node = d.node /\ b.identity = d.identity /\ b.columns = d.columns
<1>1. ASSUME NEW v, NEW w, NEW x, NEW y, WellNamed(v), WellNamed(w), WellNamed(x), WellNamed(y), Plain(x), EdgeText(v, w) = EdgeText(x, y)
      PROVE  ~(Len(Side(v)) < Len(Side(x)))
  <2> SUFFICES ASSUME Len(Side(v)) < Len(Side(x)) PROVE FALSE
    OBVIOUS
  <2> DEFINE l == Len(Side(v))  m == Len(Side(x))  text == EdgeText(v, w)
  <2>1. text[l + 1] = Underscore /\ text[l + 2] = Underscore /\ l \in Nat /\ m \in Nat /\ Side(x) \in Texts
        /\ \A j \in 1..m : text[j] = Side(x)[j]
    <3>1. l \in Nat /\ text[l + 1] = Underscore /\ text[l + 2] = Underscore
      BY <1>1, EdgeTextMade
    <3>2. m \in Nat /\ Side(x) \in Texts /\ \A j \in 1..m : EdgeText(x, y)[j] = Side(x)[j]
      BY <1>1, EdgeTextMade
    <3> QED
      BY <1>1, <3>1, <3>2
  <2>2. DOMAIN Side(x) = 1..m
    BY <2>1 DEF Texts
  <2>3. Side(x)[m] # Underscore /\ ~Holds(Side(x), <<Underscore, Underscore>>)
    BY <1>1, PlainSeparable
  <2>4. l < m
    OBVIOUS
  <2> HIDE DEF l, m, text
  <2>5. l + 1 \in 1..m /\ Side(x)[l + 1] = Underscore
    BY <2>1, <2>4
  <2>6. l + 1 # m
    BY <2>3, <2>5
  <2>7. l + 2 \in 1..m /\ Side(x)[l + 2] = Underscore
    BY <2>1, <2>4, <2>6
  <2>8. Stands(<<Underscore, Underscore>>, Side(x), l + 1)
    <3>1. DOMAIN <<Underscore, Underscore>> = {1, 2}
      OBVIOUS
    <3>2. (l + 1) + 1 - 1 = l + 1 /\ (l + 1) + 2 - 1 = l + 2
      BY <2>1
    <3> QED
      BY <2>2, <2>5, <2>7, <3>1, <3>2 DEF Stands
  <2> QED
    BY <2>2, <2>3, <2>5, <2>8 DEF Holds
<1>2. /\ Side(a) \in Texts /\ Side(b) \in Texts /\ Len(Side(a)) \in Nat /\ Len(Side(b)) \in Nat
      /\ Len(EdgeText(a, b)) = Len(Side(a)) + 2 + Len(Side(b))
      /\ \A j \in 1..Len(Side(a)) : EdgeText(a, b)[j] = Side(a)[j]
      /\ \A j \in 1..Len(Side(b)) : EdgeText(a, b)[Len(Side(a)) + 2 + j] = Side(b)[j]
  BY EdgeTextMade
<1>3. /\ Side(c) \in Texts /\ Side(d) \in Texts /\ Len(Side(c)) \in Nat /\ Len(Side(d)) \in Nat
      /\ Len(EdgeText(c, d)) = Len(Side(c)) + 2 + Len(Side(d))
      /\ \A j \in 1..Len(Side(c)) : EdgeText(c, d)[j] = Side(c)[j]
      /\ \A j \in 1..Len(Side(d)) : EdgeText(c, d)[Len(Side(c)) + 2 + j] = Side(d)[j]
  BY EdgeTextMade
<1>4. Len(Side(a)) = Len(Side(c))
  <2>1. ~(Len(Side(a)) < Len(Side(c))) /\ ~(Len(Side(c)) < Len(Side(a)))
    BY <1>1
  <2> QED
    BY <1>2, <1>3, <2>1
<1>5. Len(Side(b)) = Len(Side(d))
  BY <1>2, <1>3, <1>4
<1>6. Side(a) = Side(c)
  BY <1>2, <1>3, <1>4, SameText
<1>7. Side(b) = Side(d)
  BY <1>2, <1>3, <1>4, <1>5, SameText
<1>8. Separable(a) /\ Separable(b) /\ Separable(c) /\ Separable(d)
  BY PlainSeparable
<1> QED
  BY <1>6, <1>7, <1>8, SameSide

-----------------------------------------------------------------------------
(* The build: definitions, and the order of their keys                          *)

SameKey(d, e) == d.node = e.node /\ d.identity = e.identity /\ d.columns = e.columns

LEMMA DefinitionsGiven ==
    ASSUME NEW nodes \in Intermediaries
    PROVE  /\ IsFiniteSet(AllDefinitions(nodes))
           /\ \A d \in AllDefinitions(nodes) : WellNamed(d)
           /\ \A d, e \in AllDefinitions(nodes) : SameKey(d, e) => d = e
<1> DEFINE n == Len(nodes)
           said(i) == nodes[i].definitions
           given(i, k) == KeyOf(nodes[i].id, said(i)[k])
<1>1. /\ n \in Nat /\ DOMAIN nodes = 1..n
      /\ \A i \in 1..n : nodes[i].id \in GivenNames /\ said(i) \in Seq(DefinitionsOf)
  <2> DEFINE N == [id : GivenNames, definitions : Seq(DefinitionsOf)]
  <2>1. nodes \in Seq(N)
    BY IntermediariesAssumption
  <2>2. \A m \in N : m.id \in GivenNames /\ m.definitions \in Seq(DefinitionsOf)
    OBVIOUS
  <2> HIDE DEF N
  <2>3. n \in Nat /\ DOMAIN nodes = 1..n /\ \A i \in 1..n : nodes[i] \in N
    BY <2>1
  <2> QED
    BY <2>2, <2>3
<1>2. \A i, j \in 1..n : nodes[i].id = nodes[j].id => i = j
  BY <1>1, IntermediariesAssumption
<1>3. \A i \in 1..n : \A k, l \in DOMAIN said(i) :
          said(i)[k].identity = said(i)[l].identity /\ said(i)[k].columns = said(i)[l].columns => k = l
  BY <1>1, IntermediariesAssumption
<1>4. ASSUME NEW i \in 1..n, NEW k \in DOMAIN said(i)
      PROVE  /\ given(i, k).node = nodes[i].id /\ given(i, k).identity = said(i)[k].identity
             /\ given(i, k).columns = said(i)[k].columns
             /\ nodes[i].id \in GivenNames /\ said(i)[k].identity \in GivenNames /\ said(i)[k].columns \in Seq(GivenNames) \ {<<>>}
  <2>1. said(i)[k] \in DefinitionsOf /\ nodes[i].id \in GivenNames
    <3> DEFINE s == said(i)
    <3> HIDE DEF s
    <3>1. s \in Seq(DefinitionsOf) /\ k \in DOMAIN s
      BY <1>1 DEF s
    <3>2. s[k] \in DefinitionsOf
      BY <3>1
    <3> QED
      BY <1>1, <3>2 DEF s
  <2> DEFINE d == said(i)[k]
  <2>2. d.identity \in GivenNames /\ d.columns \in Seq(GivenNames) \ {<<>>}
    BY <2>1 DEF DefinitionsOf
  <2> HIDE DEF d
  <2>3. /\ KeyOf(nodes[i].id, d).node = nodes[i].id /\ KeyOf(nodes[i].id, d).identity = d.identity
        /\ KeyOf(nodes[i].id, d).columns = d.columns
    BY DEF KeyOf
  <2> QED
    BY <2>1, <2>2, <2>3 DEF d
<1> HIDE DEF n, given
<1>5. AllDefinitions(nodes) = UNION {{given(i, k) : k \in DOMAIN said(i)} : i \in 1..n}
  BY <1>1 DEF AllDefinitions, given
<1>6. \A d \in AllDefinitions(nodes) : \E i \in 1..n : \E k \in DOMAIN said(i) : d = given(i, k)
  BY <1>5
<1>7. IsFiniteSet(AllDefinitions(nodes))
  <2> DEFINE row == [i \in 1..n |-> {given(i, k) : k \in DOMAIN said(i)}]
  <2>1. IsFiniteSet(1..n)
    BY <1>1, FS_Interval
  <2>2. IsFiniteSet({row[i] : i \in 1..n})
    BY <2>1, FiniteImage
  <2>3. ASSUME NEW i \in 1..n
        PROVE  IsFiniteSet(row[i])
    <3> DEFINE cell == [k \in DOMAIN said(i) |-> given(i, k)]
    <3>1. DOMAIN said(i) = 1..Len(said(i)) /\ Len(said(i)) \in Nat
      BY <1>1
    <3>2. IsFiniteSet(DOMAIN said(i))
      BY <3>1, FS_Interval
    <3>3. IsFiniteSet({cell[k] : k \in DOMAIN said(i)})
      BY <3>2, FiniteImage
    <3> QED
      BY <3>3
  <2>4. AllDefinitions(nodes) = UNION {row[i] : i \in 1..n}
    BY <1>5
  <2> HIDE DEF row
  <2> QED
    BY <2>2, <2>3, <2>4, FS_UNION
<1>8. \A d \in AllDefinitions(nodes) : WellNamed(d)
  BY <1>4, <1>6 DEF WellNamed
<1>9. ASSUME NEW d \in AllDefinitions(nodes), NEW e \in AllDefinitions(nodes), SameKey(d, e)
      PROVE  d = e
  <2>1. PICK i \in 1..n : \E k \in DOMAIN said(i) : d = given(i, k)
    BY <1>6
  <2>11. PICK k \in DOMAIN said(i) : d = given(i, k)
    BY <2>1
  <2>2. PICK j \in 1..n : \E l \in DOMAIN said(j) : e = given(j, l)
    BY <1>6
  <2>12. PICK l \in DOMAIN said(j) : e = given(j, l)
    BY <2>2
  <2>3. i = j
    BY <1>2, <1>4, <1>9, <2>11, <2>12 DEF SameKey
  <2>4. k = l
    BY <1>3, <1>4, <1>9, <2>11, <2>12, <2>3 DEF SameKey
  <2> QED
    BY <2>11, <2>12, <2>3, <2>4
<1> QED
  BY <1>7, <1>8, <1>9

LEMMA TextsOrdered ==
    /\ \A s \in Texts : ~TextLess(s, s)
    /\ \A s, t, u \in Texts : TextLess(s, t) /\ TextLess(t, u) => TextLess(s, u)
    /\ \A s, t \in Texts : s = t \/ TextLess(s, t) \/ TextLess(t, s)
<1> DEFINE R == {w \in Nat \X Nat : w[1] < w[2]}
<1>1. TotalOrder(R, Nat)
  BY DEF TotalOrder, PartialOrder
<1>2. \A s, t \in Texts : TextLess(s, t) <=> Lexically(s, t, R)
  <2> SUFFICES ASSUME NEW s \in Texts, NEW t \in Texts PROVE TextLess(s, t) <=> Lexically(s, t, R)
    OBVIOUS
  <2>1. \A i \in DOMAIN t : i \in DOMAIN s => (s[i] < t[i] <=> <<s[i], t[i]>> \in R)
    BY DEF Texts
  <2> HIDE DEF R
  <2> QED
    BY <2>1 DEF TextLess, Before, Lexically
<1> HIDE DEF R
<1> QED
  BY <1>1, <1>2, LexicallyOrdered DEF Texts

Keyed(d) == <<<<d.node>>, <<d.identity>>, d.columns>>

LEMMA KeysOrdered ==
    /\ \A d : WellNamed(d) => ~KeyLess(d, d)
    /\ \A d, e : WellNamed(d) /\ WellNamed(e) => SameKey(d, e) \/ KeyLess(d, e) \/ KeyLess(e, d)
    /\ \A d, e : WellNamed(d) /\ WellNamed(e) => ~(KeyLess(d, e) /\ KeyLess(e, d))
<1> DEFINE R == {w \in Texts \X Texts : TextLess(w[1], w[2])}
           Rows == Seq(Texts)
           RowLess(s, t) == Before(s, t, TextLess)
           Q == {w \in Rows \X Rows : RowLess(w[1], w[2])}
<1>1. TotalOrder(R, Texts)
  BY TextsOrdered DEF TotalOrder, PartialOrder
<1>2. \A s, t \in Rows : RowLess(s, t) <=> Lexically(s, t, R)
  <2> SUFFICES ASSUME NEW s \in Rows, NEW t \in Rows PROVE RowLess(s, t) <=> Lexically(s, t, R)
    OBVIOUS
  <2>0. \A i \in DOMAIN t : t[i] \in Texts
    OBVIOUS
  <2>9. \A i \in DOMAIN s : s[i] \in Texts
    OBVIOUS
  <2>1. \A i \in DOMAIN t : i \in DOMAIN s => (TextLess(s[i], t[i]) <=> <<s[i], t[i]>> \in R)
    BY <2>0, <2>9
  <2> HIDE DEF R
  <2> QED
    BY <2>1 DEF Before, Lexically
<1> HIDE DEF R, RowLess
<1>3. /\ \A s \in Rows : ~RowLess(s, s)
      /\ \A s, t, u \in Rows : RowLess(s, t) /\ RowLess(t, u) => RowLess(s, u)
      /\ \A s, t \in Rows : s = t \/ RowLess(s, t) \/ RowLess(t, s)
  BY <1>1, <1>2, LexicallyOrdered
<1>4. TotalOrder(Q, Rows)
  <2> HIDE DEF Rows
  <2> QED
    BY <1>3 DEF TotalOrder, PartialOrder
<1>5. \A d, e : KeyLess(d, e) <=> Before(Keyed(d), Keyed(e), RowLess)
  BY DEF KeyLess, Keyed, RowLess
<1>6. \A s, t \in Seq(Rows) : Before(s, t, RowLess) <=> Lexically(s, t, Q)
  <2> HIDE DEF Rows
  <2> SUFFICES ASSUME NEW s \in Seq(Rows), NEW t \in Seq(Rows) PROVE Before(s, t, RowLess) <=> Lexically(s, t, Q)
    OBVIOUS
  <2>0. \A i \in DOMAIN t : t[i] \in Rows
    OBVIOUS
  <2>9. \A i \in DOMAIN s : s[i] \in Rows
    OBVIOUS
  <2>1. \A i \in DOMAIN t : i \in DOMAIN s => (RowLess(s[i], t[i]) <=> <<s[i], t[i]>> \in Q)
    BY <2>0, <2>9
  <2> HIDE DEF Q
  <2> QED
    BY <2>1 DEF Before, Lexically
<1> HIDE DEF Q
<1>7. /\ \A s \in Seq(Rows) : ~Before(s, s, RowLess)
      /\ \A s, t, u \in Seq(Rows) : Before(s, t, RowLess) /\ Before(t, u, RowLess) => Before(s, u, RowLess)
      /\ \A s, t \in Seq(Rows) : s = t \/ Before(s, t, RowLess) \/ Before(t, s, RowLess)
  <2> HIDE DEF Rows
  <2> QED
    BY <1>4, <1>6, LexicallyOrdered
<1>8. ASSUME NEW d, WellNamed(d)
      PROVE  Keyed(d) \in Seq(Rows)
  <2>1. d.node \in Texts /\ d.identity \in Texts /\ d.columns \in Rows
    BY <1>8 DEF WellNamed, GivenNames, Texts
  <2>2. <<d.node>> \in Rows /\ <<d.identity>> \in Rows
    BY <2>1
  <2> HIDE DEF Rows
  <2> QED
    BY <2>1, <2>2 DEF Keyed
<1>9. \A d, e : Keyed(d) = Keyed(e) => SameKey(d, e)
  BY DEF Keyed, SameKey
<1> QED
  BY <1>5, <1>7, <1>8, <1>9

-----------------------------------------------------------------------------
(* The build: a name in quotes                                                  *)

(* Of two backslashes in a row one escapes exactly if the other does not. *)
LEMMA EscapesInTurn ==
    ASSUME NEW i \in Nat, NEW k \in Nat, k > i, graphBuild.label[k] = Backslash
    PROVE  Escapes(i, k) <=> ~Escapes(i, k - 1)
<1> DEFINE run(m) == {j \in (i + 1)..m : \A l \in j..m : graphBuild.label[l] = Backslash}
<1>1. ASSUME NEW m \in Nat, m >= i
      PROVE  /\ IsFiniteSet(run(m)) /\ Cardinality(run(m)) \in Nat
             /\ Escapes(i, m) <=> Cardinality(run(m)) % 2 = 1
  <2>1. IsFiniteSet((i + 1)..m)
    BY FS_Interval
  <2>2. run(m) \in SUBSET ((i + 1)..m)
    OBVIOUS
  <2>3. IsFiniteSet(run(m)) /\ Cardinality(run(m)) \in Nat
    <3> HIDE DEF run
    <3> QED
      BY <2>1, <2>2, FS_Subset, FS_CardinalityType
  <2>4. CASE m > i /\ graphBuild.label[m] = Backslash
    BY <2>3, <2>4 DEF Escapes
  <2>5. CASE ~(m > i /\ graphBuild.label[m] = Backslash)
    <3>1. ~Escapes(i, m)
      BY <2>5 DEF Escapes
    <3>2. run(m) = {}
      <4> SUFFICES ASSUME NEW j \in run(m) PROVE FALSE
        OBVIOUS
      <4>1. j \in (i + 1)..m /\ m \in j..m
        OBVIOUS
      <4>2. m > i /\ graphBuild.label[m] = Backslash
        BY <4>1
      <4> QED
        BY <2>5, <4>2
    <3>3. Cardinality(run(m)) = 0
      BY <3>2, FS_EmptySet
    <3> QED
      BY <2>3, <3>1, <3>3
  <2> QED
    BY <2>3, <2>4, <2>5
<1>2. run(k) = run(k - 1) \cup {k} /\ k \notin run(k - 1)
  <2>1. \A j \in (i + 1)..k : j \in (i + 1)..(k - 1) \/ j = k
    OBVIOUS
  <2>2. \A j \in (i + 1)..(k - 1) : j \in (i + 1)..k /\ \A l : l \in j..k <=> l \in j..(k - 1) \/ l = k
    OBVIOUS
  <2>3. k \in (i + 1)..k /\ k \notin (i + 1)..(k - 1) /\ \A l \in k..k : l = k
    OBVIOUS
  <2> QED
    BY <2>1, <2>2, <2>3
<1>3. k - 1 \in Nat /\ k - 1 >= i
  OBVIOUS
<1> HIDE DEF run
<1>4. Cardinality(run(k)) = Cardinality(run(k - 1)) + 1 /\ Cardinality(run(k - 1)) \in Nat
  BY <1>1, <1>2, <1>3, FS_AddElement
<1>5. \A c \in Nat : (c + 1) % 2 = 1 <=> c % 2 # 1
  OBVIOUS
<1> QED
  BY <1>1, <1>3, <1>4, <1>5

(* the text between the quotes, of which the nth character ends behind ends[n] *)
Unit(c) == IF c \in {Quote, Backslash} THEN <<Backslash, c>> ELSE <<c>>
Within(name) == FlattenSeq([n \in DOMAIN name |-> Unit(name[n])])

(* name stands in quotes from position i of the label on, its nth character at p[n] *)
InQuotes(name, i, p) ==
    /\ i \in Nat \ {0} /\ p \in [0..Len(name) -> Nat] /\ p[0] = i
    /\ graphBuild.label[i] = Quote
    /\ \A n \in 1..Len(name) :
           /\ p[n] \in 1..Len(graphBuild.label) /\ graphBuild.label[p[n]] = name[n]
           /\ p[n] = IF name[n] \in {Quote, Backslash} THEN p[n - 1] + 2 ELSE p[n - 1] + 1
           /\ name[n] \in {Quote, Backslash} => graphBuild.label[p[n - 1] + 1] = Backslash
    /\ p[Len(name)] + 1 \in 1..Len(graphBuild.label)
    /\ graphBuild.label[p[Len(name)] + 1] = Quote

LEMMA PlacesRise ==
    ASSUME NEW N \in Nat, NEW p \in [0..N -> Nat], \A n \in 1..N : p[n] > p[n - 1]
    PROVE  \A m, n \in 0..N : m < n => p[m] < p[n]
<1> DEFINE T == {n \in Nat : n <= N => \A m \in 0..N : m < n => p[m] < p[n]}
<1>1. 0 \in T
  OBVIOUS
<1>2. ASSUME NEW n \in Nat, n \in T
      PROVE  n + 1 \in T
  <2> SUFFICES ASSUME n + 1 <= N, NEW m \in 0..N, m < n + 1 PROVE p[m] < p[n + 1]
    OBVIOUS
  <2>1. n + 1 \in 1..N /\ (n + 1) - 1 = n /\ n \in 0..N /\ n + 1 \in 0..N
    OBVIOUS
  <2>2. p[n + 1] > p[n] /\ p[n] \in Nat /\ p[n + 1] \in Nat /\ p[m] \in Nat
    BY <2>1
  <2>3. m = n \/ m < n
    OBVIOUS
  <2>4. m < n => p[m] < p[n]
    BY <1>2, <2>1
  <2> QED
    BY <2>2, <2>3, <2>4
<1> HIDE DEF T
<1>3. Nat \subseteq T
  BY <1>1, <1>2, Reaches
<1> QED
  BY <1>3 DEF T

LEMMA EscapedInside ==
    ASSUME NEW name \in Texts, NEW i, NEW p, InQuotes(name, i, p), graphBuild.label \in Texts
    PROVE  /\ \A n \in 0..Len(name) : ~Escapes(i, p[n])
           /\ \A n \in 1..Len(name) : name[n] \in {Quote, Backslash} => Escapes(i, p[n] - 1)
<1> DEFINE N == Len(name)
<1>1. /\ N \in Nat /\ i \in Nat /\ p \in [0..N -> Nat] /\ p[0] = i
      /\ \A n \in 1..N :
           /\ graphBuild.label[p[n]] = name[n]
           /\ p[n] = IF name[n] \in {Quote, Backslash} THEN p[n - 1] + 2 ELSE p[n - 1] + 1
           /\ name[n] \in {Quote, Backslash} => graphBuild.label[p[n - 1] + 1] = Backslash
  BY DEF InQuotes, Texts
<1> HIDE DEF N
<1>2. \A n \in 1..N : n - 1 \in 0..N /\ n \in 0..N /\ p[n - 1] \in Nat /\ p[n] \in Nat /\ p[n] > p[n - 1]
  <2> TAKE n \in 1..N
  <2>1. n - 1 \in 0..N /\ n \in 0..N
    BY <1>1
  <2> QED
    BY <1>1, <2>1
<1>3. \A n \in 1..N : p[n] > i
  <2>1. \A m, n \in 0..N : m < n => p[m] < p[n]
    BY <1>1, <1>2, PlacesRise
  <2>2. \A n \in 1..N : 0 \in 0..N /\ n \in 0..N /\ 0 < n
    BY <1>1
  <2> QED
    BY <1>1, <2>1, <2>2
<1>4. \A k \in Nat : graphBuild.label[k] # Backslash => ~Escapes(i, k)
  BY DEF Escapes
<1> DEFINE T == {n \in Nat : n <= N => ~Escapes(i, p[n]) /\ (n >= 1 /\ name[n] \in {Quote, Backslash} => Escapes(i, p[n] - 1))}
<1>5. 0 \in T
  BY <1>1 DEF Escapes
<1>6. ASSUME NEW m \in Nat, m \in T
      PROVE  m + 1 \in T
  <2> SUFFICES ASSUME m + 1 <= N
               PROVE  /\ ~Escapes(i, p[m + 1])
                      /\ name[m + 1] \in {Quote, Backslash} => Escapes(i, p[m + 1] - 1)
    OBVIOUS
  <2> DEFINE n == m + 1
  <2>1. n \in 1..N /\ n - 1 = m /\ m \in 0..N /\ m <= N
    BY <1>1
  <2>2. ~Escapes(i, p[m])
    BY <1>6, <2>1
  <2> HIDE DEF n
  <2>3. /\ p[m] \in Nat /\ p[n] \in Nat /\ p[m] >= i /\ i \in Nat /\ graphBuild.label[p[n]] = name[n]
    <3>1. p[m] >= i
      BY <1>1, <1>3, <2>1
    <3> QED
      BY <1>1, <1>2, <2>1, <3>1
  <2>4. CASE name[n] \notin {Quote, Backslash}
    <3>1. ~Escapes(i, p[n])
      BY <1>4, <2>3, <2>4
    <3> QED
      BY <2>4, <3>1 DEF n
  <2>5. CASE name[n] \in {Quote, Backslash}
    <3>1. p[n] = p[m] + 2 /\ graphBuild.label[p[m] + 1] = Backslash
      BY <1>1, <2>1, <2>5
    <3>2. p[m] + 1 \in Nat /\ p[m] + 1 > i /\ (p[m] + 1) - 1 = p[m] /\ p[n] - 1 = p[m] + 1 /\ p[n] > i
      BY <2>3, <3>1
    <3>3. Escapes(i, p[m] + 1)
      BY <1>1, <2>2, <3>1, <3>2, EscapesInTurn
    <3>4. ~Escapes(i, p[n])
      <4>1. CASE graphBuild.label[p[n]] # Backslash
        BY <1>4, <2>3, <4>1
      <4>2. CASE graphBuild.label[p[n]] = Backslash
        <5>1. Escapes(i, p[n]) <=> ~Escapes(i, p[n] - 1)
          BY <1>1, <2>3, <3>2, <4>2, EscapesInTurn
        <5> QED
          BY <3>2, <3>3, <5>1
      <4> QED
        BY <4>1, <4>2
    <3> QED
      BY <3>2, <3>3, <3>4 DEF n
  <2> QED
    BY <2>4, <2>5
<1> HIDE DEF T
<1>7. Nat \subseteq T
  BY <1>5, <1>6, Reaches
<1>8. \A n \in 0..N : n \in T /\ n \in Nat /\ n <= N
  BY <1>1, <1>7
<1>9. \A n \in 1..N : n \in 0..N /\ n >= 1
  BY <1>1
<1> QED
  BY <1>8, <1>9 DEF T, N

LEMMA RisesInside ==
    ASSUME NEW name \in Texts, NEW i, NEW p, InQuotes(name, i, p)
    PROVE  /\ Len(name) \in Nat /\ i \in Nat /\ \A n \in 0..Len(name) : p[n] \in Nat /\ p[n] >= i
           /\ \A n \in 1..Len(name) : n - 1 \in 0..Len(name) /\ n \in 0..Len(name) /\ p[n] > p[n - 1]
           /\ \A m, n \in 0..Len(name) : m < n => p[m] < p[n]
<1> DEFINE N == Len(name)
<1>1. /\ N \in Nat /\ i \in Nat /\ p \in [0..N -> Nat] /\ p[0] = i
      /\ \A n \in 1..N : p[n] = IF name[n] \in {Quote, Backslash} THEN p[n - 1] + 2 ELSE p[n - 1] + 1
  BY DEF InQuotes, Texts
<1> HIDE DEF N
<1>2. \A n \in 1..N : n - 1 \in 0..N /\ n \in 0..N /\ p[n] > p[n - 1]
  <2> TAKE n \in 1..N
  <2>1. n - 1 \in 0..N /\ n \in 0..N
    BY <1>1
  <2>2. p[n - 1] \in Nat /\ (p[n] = p[n - 1] + 2 \/ p[n] = p[n - 1] + 1)
    BY <1>1, <2>1
  <2> QED
    BY <2>1, <2>2
<1>3. \A m, n \in 0..N : m < n => p[m] < p[n]
  BY <1>1, <1>2, PlacesRise
<1>4. \A n \in 0..N : p[n] \in Nat /\ p[n] >= i
  <2> TAKE n \in 0..N
  <2>1. 0 \in 0..N /\ (n = 0 \/ 0 < n) /\ p[n] \in Nat
    BY <1>1
  <2>2. 0 < n => p[0] < p[n]
    BY <1>3, <2>1
  <2> QED
    BY <1>1, <2>1, <2>2
<1> QED
  BY <1>1, <1>2, <1>3, <1>4 DEF N

(* Between the quotes there is nothing but the characters of the name and what    *)
(* escapes them.                                                                  *)
LEMMA CoveredInside ==
    ASSUME NEW name \in Texts, NEW i, NEW p, InQuotes(name, i, p)
    PROVE  \A k \in (i + 1)..p[Len(name)] : \E n \in 1..Len(name) :
               k = p[n] \/ (k = p[n] - 1 /\ name[n] \in {Quote, Backslash})
<1> DEFINE N == Len(name)
           at(k, n) == k = p[n] \/ (k = p[n] - 1 /\ name[n] \in {Quote, Backslash})
           T == {n \in Nat : n <= N => \A k \in (i + 1)..p[n] : \E m \in 1..n : at(k, m)}
<1>1. /\ N \in Nat /\ i \in Nat /\ p[0] = i
      /\ \A n \in 1..N : p[n] = IF name[n] \in {Quote, Backslash} THEN p[n - 1] + 2 ELSE p[n - 1] + 1
      /\ \A n \in 0..N : p[n] \in Nat /\ p[n] >= i
  BY RisesInside DEF InQuotes
<1> HIDE DEF N
<1>2. 0 \in T
  BY <1>1
<1>3. ASSUME NEW m \in Nat, m \in T
      PROVE  m + 1 \in T
  <2> SUFFICES ASSUME m + 1 <= N, NEW k \in (i + 1)..p[m + 1] PROVE \E l \in 1..(m + 1) : at(k, l)
    OBVIOUS
  <2>1. m + 1 \in 1..N /\ (m + 1) - 1 = m /\ m \in 0..N /\ m + 1 \in 0..N /\ m <= N
    BY <1>1
  <2>2. p[m] \in Nat /\ p[m + 1] \in Nat /\ k \in Nat /\ k >= i + 1 /\ k <= p[m + 1]
    BY <1>1, <2>1
  <2>3. CASE k <= p[m]
    <3>1. k \in (i + 1)..p[m]
      BY <1>1, <2>2, <2>3
    <3>2. PICK l \in 1..m : at(k, l)
      BY <1>3, <2>1, <3>1
    <3>3. l \in 1..(m + 1)
      OBVIOUS
    <3> HIDE DEF at
    <3> QED
      BY <3>2, <3>3
  <2>4. CASE k > p[m]
    <3>1. p[m + 1] = IF name[m + 1] \in {Quote, Backslash} THEN p[m] + 2 ELSE p[m] + 1
      BY <1>1, <2>1
    <3>2. at(k, m + 1)
      BY <2>2, <2>4, <3>1
    <3>3. m + 1 \in 1..(m + 1)
      OBVIOUS
    <3> HIDE DEF at
    <3> QED
      BY <3>2, <3>3
  <2> QED
    BY <2>2, <2>3, <2>4
<1> HIDE DEF T
<1>4. N \in T
  BY <1>1, <1>2, <1>3, Reaches
<1> QED
  BY <1>1, <1>4 DEF T, N

(* What is read is the name. *)
LEMMA DecodedSays ==
    ASSUME NEW name \in Texts, NEW i, NEW p, InQuotes(name, i, p), graphBuild.label \in Texts
    PROVE  Decoded(i) = <<name, p[Len(name)] + 2>>
<1> DEFINE N == Len(name)
           L == Len(graphBuild.label)
           quotes == {j \in (i + 1)..L : graphBuild.label[j] = Quote /\ ~Escapes(i, j - 1)}
           end == Least(quotes)
           said == {k \in (i + 1)..(end - 1) : ~Escapes(i, k)}
           Nth(n) == CHOOSE k \in said : Cardinality({l \in said : l < k}) = n - 1
           before(k) == {l \in said : l < k}
<1>1. /\ N \in Nat /\ i \in Nat /\ \A n \in 0..N : p[n] \in Nat /\ p[n] >= i
      /\ \A n \in 1..N : n - 1 \in 0..N /\ n \in 0..N /\ p[n] > p[n - 1]
      /\ \A m, n \in 0..N : m < n => p[m] < p[n]
  BY RisesInside
<1>2. /\ \A n \in 0..N : ~Escapes(i, p[n])
      /\ \A n \in 1..N : name[n] \in {Quote, Backslash} => Escapes(i, p[n] - 1)
  BY EscapedInside
<1>3. \A k \in (i + 1)..p[N] : \E n \in 1..N : k = p[n] \/ (k = p[n] - 1 /\ name[n] \in {Quote, Backslash})
  BY CoveredInside
<1>4. /\ \A n \in 1..N : graphBuild.label[p[n]] = name[n] /\ p[n] = IF name[n] \in {Quote, Backslash} THEN p[n - 1] + 2 ELSE p[n - 1] + 1
      /\ \A n \in 1..N : name[n] \in {Quote, Backslash} => graphBuild.label[p[n - 1] + 1] = Backslash
      /\ p[N] + 1 \in 1..L /\ graphBuild.label[p[N] + 1] = Quote /\ p[0] = i /\ L \in Nat
  BY DEF InQuotes, Texts
<1>5. N \in 0..N /\ p[N] \in Nat /\ p[N] >= i
  BY <1>1
<1>6. Decoded(i) = <<[n \in 1..Cardinality(said) |-> graphBuild.label[Nth(n)]], end + 1>>
  BY DEF Decoded
<1> HIDE DEF N, L, said, Nth
<1>7. end = p[N] + 1
  <2>1. p[N] + 1 \in quotes
    <3>1. (p[N] + 1) - 1 = p[N] /\ p[N] + 1 \in (i + 1)..L
      BY <1>1, <1>4, <1>5
    <3> QED
      BY <1>2, <1>4, <1>5, <3>1
  <2>2. ASSUME NEW j \in quotes
        PROVE  p[N] + 1 <= j
    <3> SUFFICES ASSUME j <= p[N] PROVE FALSE
      BY <1>1, <1>4, <1>5
    <3>1. j \in (i + 1)..p[N] /\ graphBuild.label[j] = Quote /\ ~Escapes(i, j - 1)
      BY <1>1, <1>4, <1>5
    <3>2. PICK n \in 1..N : j = p[n] \/ (j = p[n] - 1 /\ name[n] \in {Quote, Backslash})
      BY <1>3, <3>1
    <3>3. CASE j = p[n]
      <4>1. name[n] = Quote
        BY <1>4, <3>1, <3>3
      <4> QED
        BY <1>2, <3>1, <3>3, <4>1
    <3>4. CASE j = p[n] - 1 /\ name[n] \in {Quote, Backslash}
      <4>1. p[n] = p[n - 1] + 2 /\ p[n - 1] \in Nat /\ graphBuild.label[p[n - 1] + 1] = Backslash
        BY <1>1, <1>4, <3>4
      <4>2. j = p[n - 1] + 1
        BY <3>4, <4>1
      <4>3. Backslash # Quote
        BY DEF Backslash, Quote
      <4> QED
        BY <3>1, <4>1, <4>2, <4>3
    <3> QED
      BY <3>2, <3>3, <3>4
  <2>3. \A j \in quotes : j \in Int
    BY <1>1, <1>4
  <2> HIDE DEF quotes
  <2>4. \E e \in quotes : \A j \in quotes : e <= j
    BY <2>1, <2>2
  <2>5. end \in quotes /\ \A j \in quotes : end <= j
    BY <2>4 DEF Least
  <2>6. end <= p[N] + 1 /\ p[N] + 1 <= end /\ end \in Int
    BY <2>1, <2>2, <2>3, <2>5
  <2> HIDE DEF end
  <2> QED
    BY <1>5, <2>6
<1> HIDE DEF end
<1>8. said = {p[n] : n \in 1..N}
  <2>1. end - 1 = p[N]
    BY <1>5, <1>7
  <2>2. said = {k \in (i + 1)..p[N] : ~Escapes(i, k)}
    BY <2>1 DEF said
  <2>3. ASSUME NEW n \in 1..N
        PROVE  p[n] \in said
    <3>1. p[n] > p[n - 1] /\ p[n - 1] >= i /\ p[n] \in Nat /\ p[n - 1] \in Nat
      BY <1>1
    <3>2. n = N \/ n < N
      BY <1>1
    <3>3. p[n] <= p[N]
      BY <1>1, <1>5, <3>1, <3>2
    <3>4. p[n] \in (i + 1)..p[N]
      BY <1>1, <1>5, <3>1, <3>3
    <3> QED
      BY <1>1, <1>2, <2>2, <3>4
  <2>4. ASSUME NEW k \in said
        PROVE  \E n \in 1..N : k = p[n]
    <3>1. k \in (i + 1)..p[N] /\ ~Escapes(i, k)
      BY <2>2
    <3>2. PICK n \in 1..N : k = p[n] \/ (k = p[n] - 1 /\ name[n] \in {Quote, Backslash})
      BY <1>3, <3>1
    <3> QED
      BY <1>2, <3>1, <3>2
  <2> QED
    BY <2>3, <2>4
<1>9. \A n \in 1..N : before(p[n]) = {p[m] : m \in 1..(n - 1)}
  <2> TAKE n \in 1..N
  <2>1. ASSUME NEW m \in 1..N
        PROVE  p[m] < p[n] <=> m \in 1..(n - 1)
    <3>1. m < n \/ m = n \/ n < m
      BY <1>1
    <3>2. m \in 0..N /\ n \in 0..N /\ p[m] \in Nat /\ p[n] \in Nat
      BY <1>1
    <3>3. (m < n => p[m] < p[n]) /\ (n < m => p[n] < p[m])
      BY <1>1, <3>2
    <3> QED
      BY <1>1, <3>1, <3>2, <3>3
  <2>2. \A m \in 1..(n - 1) : m \in 1..N
    BY <1>1
  <2> QED
    BY <1>8, <2>1, <2>2
<1>10. ASSUME NEW n \in 0..N
       PROVE  Cardinality({p[m] : m \in 1..n}) = n
  <2> DEFINE img == {p[m] : m \in 1..n}
             f == [m \in 1..n |-> p[m]]
  <2>1. \A m \in 1..n : m \in 0..N
    BY <1>1
  <2>2. ASSUME NEW a \in 1..n, NEW b \in 1..n, p[a] = p[b]
        PROVE  a = b
    <3>1. a \in 0..N /\ b \in 0..N /\ p[a] \in Nat /\ (a < b \/ a = b \/ b < a)
      BY <1>1, <2>1
    <3> QED
      BY <1>1, <2>2, <3>1
  <2>5. f \in [1..n -> img] /\ \A a \in 1..n : f[a] = p[a]
    OBVIOUS
  <2>9. \A a, b \in 1..n : f[a] = f[b] => a = b
    BY <2>2, <2>5
  <2>6. \A x \in img : \E a \in 1..n : f[a] = x
    OBVIOUS
  <2> HIDE DEF f, img
  <2>7. f \in Injection(1..n, img)
    BY <2>5, <2>9 DEF Injection, IsInjective
  <2>8. f \in Surjection(1..n, img)
    BY <2>5, <2>6 DEF Surjection
  <2>3. f \in Bijection(1..n, img)
    BY <2>7, <2>8 DEF Bijection
  <2>4. IsFiniteSet(1..n) /\ Cardinality(1..n) = n
    <3>1. IsFiniteSet(1..n) /\ Cardinality(1..n) = IF 1 > n THEN 0 ELSE n - 1 + 1
      BY FS_Interval
    <3> QED
      BY <1>1, <3>1
  <2> QED
    BY <2>3, <2>4, FS_Bijection DEF ExistsBijection, img
<1>11. \A n \in 1..N : p[n] \in said /\ Cardinality(before(p[n])) = n - 1
  BY <1>1, <1>8, <1>9, <1>10
<1>12. Cardinality(said) = N
  BY <1>5, <1>8, <1>10
<1> HIDE DEF before
<1>13. ASSUME NEW n \in 1..N
       PROVE  Nth(n) = p[n]
  <2>1. Nth(n) = CHOOSE k \in said : Cardinality(before(k)) = n - 1
    BY DEF Nth, before
  <2>2. Nth(n) \in said /\ Cardinality(before(Nth(n))) = n - 1
    BY <1>11, <2>1
  <2>3. PICK m \in 1..N : Nth(n) = p[m]
    BY <1>8, <2>2
  <2>4. m - 1 = n - 1
    BY <1>11, <2>2, <2>3
  <2>5. m = n
    BY <1>1, <2>4
  <2> QED
    BY <2>3, <2>5
<1>14. [n \in 1..Cardinality(said) |-> graphBuild.label[Nth(n)]] = name
  <2>1. [n \in 1..Cardinality(said) |-> graphBuild.label[Nth(n)]] = [n \in 1..N |-> name[n]]
    BY <1>4, <1>12, <1>13
  <2>2. name = [n \in 1..N |-> name[n]]
    BY DEF Texts, N
  <2> QED
    BY <2>1, <2>2
<1>15. end + 1 = p[N] + 2
  BY <1>5, <1>7
<1> QED
  BY <1>6, <1>14, <1>15 DEF N

-----------------------------------------------------------------------------
(* The build: a column of a label                                               *)

(* text stands in label behind place b *)
StandsIn(label, text, b) == \A j \in 1..Len(text) : b + j \in 1..Len(label) /\ label[b + j] = text[j]

LEMMA QuotedMade ==
    ASSUME NEW name \in Texts
    PROVE  /\ Within(name) \in Texts /\ Quoted(name) \in Texts /\ Len(Within(name)) \in Nat
           /\ Len(Quoted(name)) = Len(Within(name)) + 2
           /\ Quoted(name)[1] = Quote /\ Quoted(name)[Len(Within(name)) + 2] = Quote
           /\ \A j \in 1..Len(Within(name)) : Quoted(name)[j + 1] = Within(name)[j]
           /\ \E ends : LaidAt(Within(name), [n \in DOMAIN name |-> Unit(name[n])], ends)
<1> DEFINE units == [n \in DOMAIN name |-> Unit(name[n])]
<1>1. Quote \in Nat /\ Backslash \in Nat
  BY DEF Quote, Backslash
<1>2. \A c \in Nat : Unit(c) \in Texts
  BY <1>1 DEF Unit, Texts
<1>3. Len(name) \in Nat /\ DOMAIN name = 1..Len(name) /\ \A n \in 1..Len(name) : name[n] \in Nat
  BY DEF Texts
<1>4. units \in Seq(Texts)
  BY <1>2, <1>3
<1>5. Within(name) \in Texts /\ \E ends : LaidAt(Within(name), units, ends)
  <2> HIDE DEF units
  <2>1. FlattenSeq(units) \in Texts /\ \E ends : LaidAt(FlattenSeq(units), units, ends)
    BY <1>4, FlattenPlaces DEF Texts
  <2> QED
    BY <2>1 DEF Within, units
<1>6. Quoted(name) = <<Quote>> \o Within(name) \o <<Quote>>
  BY DEF Quoted, Within, Unit
<1> DEFINE w == Within(name)  q == <<Quote>> \o w \o <<Quote>>
<1>7. \A t \in Texts : LET s == <<Quote>> \o t \o <<Quote>>
                       IN  /\ s \in Texts /\ Len(t) \in Nat /\ Len(s) = Len(t) + 2
                           /\ s[1] = Quote /\ s[Len(t) + 2] = Quote
                           /\ \A j \in 1..Len(t) : s[j + 1] = t[j]
  <2> TAKE t \in Texts
  <2> DEFINE s1 == <<Quote>> \o t  s == s1 \o <<Quote>>
  <2>1. <<Quote>> \in Texts /\ Len(<<Quote>>) = 1 /\ <<Quote>>[1] = Quote
    BY <1>1, OneCharacter
  <2>2. s1 \in Texts /\ Len(s1) = Len(t) + 1 /\ Len(t) \in Nat /\ s1[1] = Quote /\ \A j \in 1..Len(t) : s1[j + 1] = t[j]
    BY <1>1 DEF Texts
  <2> HIDE DEF s1
  <2>3. s \in Texts /\ Len(s) = Len(s1) + 1 /\ s[Len(s1) + 1] = Quote /\ \A i \in 1..Len(s1) : s[i] = s1[i]
    BY <1>1, <2>2, WithMark
  <2> HIDE DEF s
  <2>4. 1 \in 1..Len(s1) /\ \A j \in 1..Len(t) : j + 1 \in 1..Len(s1)
    BY <2>2
  <2>5. /\ s \in Texts /\ Len(t) \in Nat /\ Len(s) = Len(t) + 2
        /\ s[1] = Quote /\ s[Len(t) + 2] = Quote
        /\ \A j \in 1..Len(t) : s[j + 1] = t[j]
    BY <2>2, <2>3, <2>4
  <2> QED
    BY <2>5 DEF s, s1
<1> HIDE DEF w
<1>8. /\ q \in Texts /\ Len(w) \in Nat /\ Len(q) = Len(w) + 2 /\ q[1] = Quote /\ q[Len(w) + 2] = Quote
      /\ \A j \in 1..Len(w) : q[j + 1] = w[j]
  BY <1>5, <1>7 DEF w
<1> QED
  BY <1>5, <1>6, <1>8 DEF w

LEMMA QuotesStand ==
    ASSUME NEW name \in Texts, NEW b \in Nat, StandsIn(graphBuild.label, Quoted(name), b), graphBuild.label \in Texts
    PROVE  \E p : InQuotes(name, b + 1, p) /\ p[Len(name)] + 2 = b + Len(Quoted(name)) + 1
<1> DEFINE units == [n \in DOMAIN name |-> Unit(name[n])]
           N == Len(name)  w == Within(name)  q == Quoted(name)
<1>1. PICK ends : LaidAt(w, units, ends)
  BY QuotedMade
<1>2. /\ w \in Texts /\ q \in Texts /\ Len(w) \in Nat /\ Len(q) = Len(w) + 2
      /\ q[1] = Quote /\ q[Len(w) + 2] = Quote /\ \A j \in 1..Len(w) : q[j + 1] = w[j]
  BY QuotedMade
<1>3. N \in Nat /\ DOMAIN name = 1..N /\ DOMAIN units = 1..N /\ Len(units) = N /\ \A n \in 1..N : units[n] = Unit(name[n])
  BY DEF Texts
<1> HIDE DEF units, N
<1>4. \A j \in 1..Len(q) : b + j \in 1..Len(graphBuild.label) /\ graphBuild.label[b + j] = q[j]
  BY DEF StandsIn
<1> HIDE DEF w, q
<1>5. /\ ends \in [0..N -> Nat] /\ ends[0] = 0 /\ ends[N] = Len(w)
      /\ \A n \in 1..N : ends[n] = ends[n - 1] + Len(units[n])
      /\ \A n \in 1..N : \A j \in 1..Len(units[n]) : ends[n - 1] + j \in 1..Len(w) /\ w[ends[n - 1] + j] = units[n][j]
  BY <1>1, <1>3 DEF LaidAt
<1> DEFINE p == [n \in 0..N |-> b + 1 + ends[n]]
<1>6. /\ p \in [0..N -> Nat] /\ p[0] = b + 1 /\ p[N] = b + 1 + Len(w)
      /\ \A n \in 0..N : p[n] = b + 1 + ends[n] /\ ends[n] \in Nat
  <2>1. \A n \in 0..N : ends[n] \in Nat /\ b + 1 + ends[n] \in Nat
    BY <1>5
  <2>2. 0 \in 0..N /\ N \in 0..N
    BY <1>3
  <2>3. p \in [0..N -> Nat] /\ \A n \in 0..N : p[n] = b + 1 + ends[n]
    BY <2>1
  <2> HIDE DEF p
  <2>4. b + 1 + 0 = b + 1
    OBVIOUS
  <2>5. p[0] = b + 1 /\ p[N] = b + 1 + Len(w)
    BY <1>5, <2>2, <2>3, <2>4
  <2> QED
    BY <2>1, <2>3, <2>5
<1> HIDE DEF p
<1>7. /\ graphBuild.label[b + 1] = Quote
      /\ b + Len(w) + 2 \in 1..Len(graphBuild.label) /\ graphBuild.label[b + Len(w) + 2] = Quote
      /\ \A j \in 1..Len(w) : b + 1 + j \in 1..Len(graphBuild.label) /\ graphBuild.label[b + 1 + j] = w[j]
  <2>1. 1 \in 1..Len(q) /\ Len(w) + 2 \in 1..Len(q) /\ \A j \in 1..Len(w) : j + 1 \in 1..Len(q)
    BY <1>2
  <2>2. \A x \in Nat : b + (x + 2) = b + x + 2 /\ b + (x + 1) = b + 1 + x
    OBVIOUS
  <2>3. graphBuild.label[b + 1] = Quote
    BY <1>2, <1>4, <2>1
  <2>4. b + Len(w) + 2 \in 1..Len(graphBuild.label) /\ graphBuild.label[b + Len(w) + 2] = Quote
    BY <1>2, <1>4, <2>1, <2>2
  <2>5. ASSUME NEW j \in 1..Len(w)
        PROVE  b + 1 + j \in 1..Len(graphBuild.label) /\ graphBuild.label[b + 1 + j] = w[j]
    <3>1. b + (j + 1) = b + 1 + j
      BY <2>2
    <3>2. b + (j + 1) \in 1..Len(graphBuild.label) /\ graphBuild.label[b + (j + 1)] = q[j + 1]
      BY <1>4, <2>1
    <3> QED
      BY <1>2, <3>1, <3>2
  <2> QED
    BY <2>3, <2>4, <2>5
<1>8. ASSUME NEW n \in 1..N
      PROVE  /\ p[n] \in 1..Len(graphBuild.label) /\ graphBuild.label[p[n]] = name[n]
             /\ p[n] = IF name[n] \in {Quote, Backslash} THEN p[n - 1] + 2 ELSE p[n - 1] + 1
             /\ name[n] \in {Quote, Backslash} => graphBuild.label[p[n - 1] + 1] = Backslash
  <2>1. /\ n - 1 \in 0..N /\ n \in 0..N /\ ends[n - 1] \in Nat /\ ends[n] \in Nat
        /\ p[n] = b + 1 + ends[n] /\ p[n - 1] = b + 1 + ends[n - 1]
        /\ ends[n] = ends[n - 1] + Len(units[n]) /\ units[n] = Unit(name[n])
        /\ \A j \in 1..Len(units[n]) : ends[n - 1] + j \in 1..Len(w) /\ w[ends[n - 1] + j] = units[n][j]
    <3>1. n - 1 \in 0..N /\ n \in 0..N
      BY <1>3
    <3>2. /\ ends[n - 1] \in Nat /\ ends[n] \in Nat
          /\ p[n] = b + 1 + ends[n] /\ p[n - 1] = b + 1 + ends[n - 1]
      BY <1>6, <3>1
    <3> QED
      BY <1>3, <1>5, <3>1, <3>2
  <2>2. CASE name[n] \in {Quote, Backslash}
    <3>1. Len(units[n]) = 2 /\ units[n][1] = Backslash /\ units[n][2] = name[n]
      BY <2>1, <2>2 DEF Unit
    <3>2. 1 \in 1..Len(units[n]) /\ 2 \in 1..Len(units[n])
      BY <3>1
    <3>3. /\ ends[n - 1] + 1 \in 1..Len(w) /\ w[ends[n - 1] + 1] = Backslash
          /\ ends[n - 1] + 2 \in 1..Len(w) /\ w[ends[n - 1] + 2] = name[n]
      BY <2>1, <3>1, <3>2
    <3>4. p[n] = b + 1 + (ends[n - 1] + 2) /\ p[n] = p[n - 1] + 2 /\ p[n - 1] + 1 = b + 1 + (ends[n - 1] + 1)
      <4>1. \A x, y \in Nat : x + 1 + (y + 2) = (x + 1 + y) + 2 /\ (x + 1 + y) + 1 = x + 1 + (y + 1)
        OBVIOUS
      <4>2. p[n] = b + 1 + (ends[n - 1] + 2)
        BY <2>1, <3>1
      <4> QED
        BY <2>1, <4>1, <4>2
    <3>5. graphBuild.label[p[n]] = name[n] /\ p[n] \in 1..Len(graphBuild.label)
      BY <1>7, <3>3, <3>4
    <3>6. graphBuild.label[p[n - 1] + 1] = Backslash
      <4>1. graphBuild.label[b + 1 + (ends[n - 1] + 1)] = Backslash
        BY <1>7, <3>3
      <4> QED
        BY <3>4, <4>1
    <3> QED
      BY <2>2, <3>4, <3>5, <3>6
  <2>3. CASE name[n] \notin {Quote, Backslash}
    <3>1. Len(units[n]) = 1 /\ units[n][1] = name[n]
      BY <2>1, <2>3 DEF Unit
    <3>2. 1 \in 1..Len(units[n])
      BY <3>1
    <3>3. ends[n - 1] + 1 \in 1..Len(w) /\ w[ends[n - 1] + 1] = name[n]
      BY <2>1, <3>1, <3>2
    <3>4. p[n] = b + 1 + (ends[n - 1] + 1) /\ p[n] = p[n - 1] + 1
      BY <2>1, <3>1
    <3> QED
      BY <1>7, <2>3, <3>3, <3>4
  <2> QED
    BY <2>2, <2>3
<1>9. p[N] + 1 = b + Len(w) + 2 /\ p[N] + 2 = b + Len(q) + 1 /\ b + 1 \in Nat \ {0}
  BY <1>2, <1>6
<1>10. InQuotes(name, b + 1, p)
  BY <1>6, <1>7, <1>8, <1>9 DEF InQuotes, N
<1> QED
  BY <1>9, <1>10 DEF N, q

(* A name stands in front of a comma or a bracket: it is read as it is. *)
LEMMA ColumnRead ==
    ASSUME NEW name \in GivenNames, NEW b \in Nat, StandsIn(graphBuild.label, Shown(name), b), graphBuild.label \in Texts,
           b + Len(Shown(name)) + 1 \in 1..Len(graphBuild.label),
           graphBuild.label[b + Len(Shown(name)) + 1] \in {Comma, Closing}
    PROVE  ColumnAt(b + 1) = <<name, b + Len(Shown(name)) + 1>>
<1>1. name \in Texts /\ Len(name) \in Nat /\ Len(name) >= 1 /\ DOMAIN name = 1..Len(name)
  BY DEF GivenNames, Texts
<1>2. Len(graphBuild.label) \in Nat /\ DOMAIN graphBuild.label = 1..Len(graphBuild.label)
  BY DEF Texts
<1>3. At(b + 1, <<Quote>>) <=> b + 1 \in 1..Len(graphBuild.label) /\ graphBuild.label[b + 1] = Quote
  <2>1. DOMAIN <<Quote>> = {1} /\ <<Quote>>[1] = Quote /\ b + 1 + 1 - 1 = b + 1
    OBVIOUS
  <2> QED
    BY <1>2, <2>1 DEF At, Stands
<1>4. CASE Delimited(name)
  <2>1. Shown(name) = Quoted(name)
    BY <1>4 DEF Shown
  <2>2. PICK p : InQuotes(name, b + 1, p) /\ p[Len(name)] + 2 = b + Len(Quoted(name)) + 1
    BY <1>1, <2>1, QuotesStand
  <2>3. Decoded(b + 1) = <<name, b + Len(Shown(name)) + 1>>
    BY <1>1, <2>1, <2>2, DecodedSays
  <2>4. At(b + 1, <<Quote>>)
    <3>1. Len(Quoted(name)) = Len(Within(name)) + 2 /\ Len(Within(name)) \in Nat /\ Quoted(name)[1] = Quote
      BY <1>1, QuotedMade
    <3>2. 1 \in 1..Len(Quoted(name))
      BY <3>1
    <3> QED
      BY <1>3, <2>1, <3>1, <3>2 DEF StandsIn
  <2> QED
    BY <2>3, <2>4 DEF ColumnAt
<1>5. CASE ~Delimited(name)
  <2>1. Shown(name) = name
    BY <1>5 DEF Shown
  <2>2. ~Holds(name, <<Comma>>) /\ ~Holds(name, <<Closing>>) /\ ~Holds(name, <<Quote>>)
    BY <1>5 DEF Delimited
  <2>3. \A j \in 1..Len(name) : name[j] # Comma /\ name[j] # Closing /\ name[j] # Quote
    BY <1>1, <2>2, HoldsNone
  <2> DEFINE e == b + Len(name) + 1  L == Len(graphBuild.label)
             here(c) == {i \in (b + 1)..L : graphBuild.label[i] = c}
             stops == {Find(Comma, b + 1), Find(Closing, b + 1)} \ {0}
  <2>4. \A j \in 1..Len(name) : b + j \in 1..L /\ graphBuild.label[b + j] = name[j]
    BY <2>1 DEF StandsIn
  <2>5. e \in 1..L /\ e \in Nat /\ e >= b + 1 /\ graphBuild.label[e] \in {Comma, Closing} /\ e - 1 = b + Len(name)
    BY <1>1, <1>2, <2>1
  <2>6. \A i \in (b + 1)..L : graphBuild.label[i] \in {Comma, Closing} => i >= e
    <3> SUFFICES ASSUME NEW i \in (b + 1)..L, i < e PROVE graphBuild.label[i] \notin {Comma, Closing}
      BY <1>2, <2>5
    <3>1. i - b \in 1..Len(name) /\ b + (i - b) = i
      BY <1>1, <1>2
    <3> QED
      BY <2>3, <2>4, <3>1
  <2>7. ~At(b + 1, <<Quote>>)
    <3>1. 1 \in 1..Len(name)
      BY <1>1
    <3> QED
      BY <1>3, <2>3, <2>4, <3>1
  <2>8. ASSUME NEW c \in {Comma, Closing}
        PROVE  /\ Find(c, b + 1) \in Nat
               /\ Find(c, b + 1) # 0 => Find(c, b + 1) >= e
               /\ graphBuild.label[e] = c => Find(c, b + 1) = e
    <3>1. Find(c, b + 1) = IF here(c) = {} THEN 0 ELSE Least(here(c))
      BY DEF Find
    <3>2. here(c) \in SUBSET Nat
      BY <1>2
    <3>3. \A i \in here(c) : i >= e
      BY <2>6
    <3>4. graphBuild.label[e] = c => e \in here(c)
      BY <1>2, <2>5
    <3> HIDE DEF here, e
    <3>5. CASE here(c) = {}
      BY <3>1, <3>4, <3>5
    <3>6. CASE here(c) # {}
      <4>1. \E i \in here(c) : \A j \in here(c) : i <= j
        BY <3>2, <3>6, HasLeast
      <4>2. Least(here(c)) \in here(c) /\ \A j \in here(c) : Least(here(c)) <= j
        BY <4>1 DEF Least
      <4>3. Least(here(c)) \in Nat /\ Least(here(c)) >= e
        BY <3>2, <3>3, <4>2
      <4>4. graphBuild.label[e] = c => Least(here(c)) <= e
        BY <3>4, <4>2
      <4>5. Find(c, b + 1) = Least(here(c))
        BY <3>1, <3>6
      <4>6. e \in Nat
        BY <2>5 DEF e
      <4> QED
        BY <4>3, <4>4, <4>5, <4>6
    <3> QED
      BY <3>5, <3>6
  <2>9. e \in stops /\ \A i \in stops : i >= e /\ i \in Nat
    <3>1. e # 0
      BY <1>1
    <3>2. \A i \in stops : \E c \in {Comma, Closing} : i = Find(c, b + 1) /\ i # 0
      OBVIOUS
    <3>3. \E c \in {Comma, Closing} : graphBuild.label[e] = c
      BY <2>5
    <3>4. \A c \in {Comma, Closing} : Find(c, b + 1) # 0 => Find(c, b + 1) \in stops
      OBVIOUS
    <3> HIDE DEF stops, e
    <3>5. e \in stops
      <4>1. PICK c \in {Comma, Closing} : graphBuild.label[e] = c
        BY <3>3
      <4>2. Find(c, b + 1) = e
        BY <2>8, <4>1
      <4> QED
        BY <3>1, <3>4, <4>2
    <3>6. ASSUME NEW i \in stops
          PROVE  i >= e /\ i \in Nat
      <4>1. PICK c \in {Comma, Closing} : i = Find(c, b + 1) /\ i # 0
        BY <3>2
      <4> DEFINE f == Find(c, b + 1)
      <4>2. f \in Nat /\ (f # 0 => f >= e)
        BY <2>8
      <4> HIDE DEF f
      <4>3. i = f /\ f # 0
        BY <4>1 DEF f
      <4> QED
        BY <4>2, <4>3
    <3> QED
      BY <3>5, <3>6
  <2>10. Least(stops) = e
    <3> HIDE DEF stops
    <3>1. \E i \in stops : \A j \in stops : i <= j
      BY <2>5, <2>9
    <3> DEFINE l == Least(stops)
    <3>2. l \in stops /\ \A j \in stops : l <= j
      BY <3>1 DEF Least
    <3>3. e \in Nat
      BY <2>5
    <3> HIDE DEF e, l
    <3>4. l >= e /\ l \in Nat /\ l <= e
      BY <2>9, <3>2
    <3>5. l = e
      BY <3>3, <3>4
    <3> QED
      BY <3>5 DEF l
  <2>11. SubSeq(graphBuild.label, b + 1, e - 1) = name
    <3> DEFINE s == SubSeq(graphBuild.label, b + 1, b + Len(name))
    <3>1. b + Len(name) <= L
      BY <1>1, <1>2, <2>5
    <3>2. s \in Texts /\ Len(s) = Len(name) /\ \A j \in 1..Len(name) : s[j] = graphBuild.label[b + j]
      <4>1. \A t \in Texts : \A l \in Nat : b + l <= Len(t) =>
                LET u == SubSeq(t, b + 1, b + l)
                IN  u \in Texts /\ Len(u) = l /\ \A j \in 1..l : u[j] = t[b + j]
        BY DEF Texts
      <4> QED
        BY <1>1, <3>1, <4>1
    <3> HIDE DEF s
    <3>3. s = name
      BY <1>1, <2>4, <3>2, SameText
    <3> QED
      BY <2>5, <3>3 DEF s
  <2>12. stops # {}
    BY <2>9
  <2> HIDE DEF stops
  <2>13. ColumnAt(b + 1) = <<SubSeq(graphBuild.label, b + 1, Least(stops) - 1), Least(stops)>>
    BY <2>7, <2>12 DEF ColumnAt, stops
  <2> QED
    BY <2>1, <2>10, <2>11, <2>13
<1> QED
  BY <1>4, <1>5

-----------------------------------------------------------------------------
(* The build: the label of an edge                                              *)

(* the label of d stands in label behind place o, each of its names behind a mark; *)
(* the kth column stands behind the place st[k]                                    *)
LabelAt(label, d, o, st) ==
    LET n == Len(d.columns) IN
    /\ o \in Nat /\ st \in [1..(n + 1) -> 1..Len(label)]
    /\ StandsIn(label, d.node, o) /\ st[1] = o + Len(d.node) + 1
    /\ label[st[1]] = Opening /\ label[st[n + 1]] = Closing
    /\ \A k \in 2..n : label[st[k]] = Comma
    /\ \A k \in 1..n : st[k + 1] = st[k] + Len(Shown(d.columns[k])) + 1 /\ StandsIn(label, Shown(d.columns[k]), st[k])

LEMMA ShownText ==
    ASSUME NEW name \in Texts
    PROVE  Shown(name) \in Texts
BY QuotedMade DEF Shown

LEMMA LabelMade ==
    ASSUME NEW d, WellNamed(d)
    PROVE  /\ DefinitionLabel(d) \in Texts /\ Len(DefinitionLabel(d)) \in Nat
           /\ \A label \in Texts : \A o \in Nat : StandsIn(label, DefinitionLabel(d), o) =>
                  \E st : LabelAt(label, d, o, st) /\ st[Len(d.columns) + 1] = o + Len(DefinitionLabel(d))
<1> DEFINE parts == [i \in DOMAIN d.columns |-> Shown(d.columns[i])]
           J == Joined(parts, <<Comma>>)
           v == d.node
           n == Len(d.columns)
<1>1. /\ v \in Texts /\ Len(v) \in Nat /\ n \in Nat /\ n >= 1 /\ DOMAIN d.columns = 1..n
      /\ \A k \in 1..n : d.columns[k] \in Texts
  <2>1. v \in Texts /\ d.columns \in Seq(Texts) /\ d.columns # <<>>
    BY DEF WellNamed, GivenNames, Texts
  <2>2. Len(v) \in Nat
    BY <2>1 DEF Texts
  <2> QED
    BY <2>1, <2>2
<1>2. Comma \in Nat /\ Opening \in Nat /\ Closing \in Nat
  BY DEF Comma, Opening, Closing
<1> HIDE DEF n
<1>3. parts \in Seq(Texts) /\ Len(parts) = n /\ parts # <<>> /\ \A k \in 1..n : parts[k] = Shown(d.columns[k])
  <2>1. \A k \in 1..n : Shown(d.columns[k]) \in Texts
    BY <1>1, ShownText
  <2>2. parts \in [1..n -> Texts]
    BY <1>1, <2>1
  <2>3. \A k \in 1..n : parts[k] = Shown(d.columns[k])
    BY <1>1
  <2> HIDE DEF parts
  <2>4. parts \in Seq(Texts) /\ Len(parts) = n
    BY <1>1, <2>2
  <2> QED
    BY <1>1, <2>3, <2>4
<1>4. DefinitionLabel(d) = v \o <<Opening>> \o J \o <<Closing>>
  BY DEF DefinitionLabel
<1> HIDE DEF parts
<1>5. PICK at : J \in Texts /\ JoinedAt(J, parts, Comma, at)
  BY <1>2, <1>3, JoinedMade
<1> HIDE DEF J, v
<1>6. /\ at \in [1..n -> Nat] /\ at[1] = 0 /\ Len(J) = at[n] + Len(parts[n]) /\ Len(J) \in Nat
      /\ \A k \in 2..n : at[k] = at[k - 1] + Len(parts[k - 1]) + 1 /\ at[k] \in 1..Len(J) /\ J[at[k]] = Comma
      /\ \A k \in 1..n : \A j \in 1..Len(parts[k]) : at[k] + j \in 1..Len(J) /\ J[at[k] + j] = parts[k][j]
  BY <1>3, <1>5 DEF JoinedAt, Texts
<1> DEFINE t1 == v \o <<Opening>>  t2 == t1 \o J  t == t2 \o <<Closing>>  m == Len(v)  l == Len(J)
<1>7. /\ m \in Nat /\ l \in Nat /\ t \in Texts /\ Len(t) = m + l + 2 /\ (\A j \in 1..m : t[j] = v[j])
      /\ t[m + 1] = Opening /\ t[m + l + 2] = Closing /\ \A j \in 1..l : t[m + 1 + j] = J[j]
  <2>1. t1 \in Texts /\ Len(v) \in Nat /\ Len(t1) = Len(v) + 1 /\ t1[Len(v) + 1] = Opening /\ \A j \in 1..Len(v) : t1[j] = v[j]
    BY <1>1, <1>2, WithMark
  <2> HIDE DEF t1
  <2>2. t2 \in Texts /\ Len(t2) = Len(t1) + Len(J) /\ (\A j \in 1..Len(t1) : t2[j] = t1[j]) /\ \A j \in 1..Len(J) : t2[Len(t1) + j] = J[j]
    BY <1>5, <2>1, Appended
  <2> HIDE DEF t2
  <2>3. t \in Texts /\ Len(t) = Len(t2) + 1 /\ t[Len(t2) + 1] = Closing /\ \A j \in 1..Len(t2) : t[j] = t2[j]
    BY <1>2, <2>2, WithMark
  <2> HIDE DEF t
  <2>4. m \in Nat /\ l \in Nat /\ Len(t1) = m + 1 /\ Len(t2) = m + 1 + l
    BY <1>1, <1>6, <2>1, <2>2
  <2> HIDE DEF m, l
  <2>5. /\ Len(t2) + 1 = m + l + 2 /\ m + 1 \in 1..Len(t1) /\ m + 1 \in 1..Len(t2)
        /\ \A j \in 1..m : j \in 1..Len(t1) /\ j \in 1..Len(t2)
        /\ \A j \in 1..l : m + 1 + j \in 1..Len(t2)
    BY <2>4
  <2>6. Len(t) = m + l + 2 /\ t[m + l + 2] = Closing /\ t[m + 1] = Opening
    BY <2>1, <2>2, <2>3, <2>4, <2>5 DEF m
  <2>7. \A j \in 1..m : t[j] = v[j]
    BY <2>1, <2>2, <2>3, <2>5 DEF m
  <2>8. \A j \in 1..l : t[m + 1 + j] = J[j]
    BY <2>2, <2>3, <2>4, <2>5 DEF l
  <2> QED
    BY <2>3, <2>4, <2>6, <2>7, <2>8
<1>8. DefinitionLabel(d) = t
  BY <1>4
<1> HIDE DEF t, m, l
<1>9. ASSUME NEW label \in Texts, NEW o \in Nat, StandsIn(label, t, o)
      PROVE  \E st : LabelAt(label, d, o, st) /\ st[n + 1] = o + Len(t)
  <2> DEFINE b == o + m + 1
             st == [k \in 1..(n + 1) |-> IF k = n + 1 THEN b + l + 1 ELSE b + at[k]]
  <2>0. Len(label) \in Nat /\ b \in Nat
    BY <1>7 DEF Texts
  <2>1. \A j \in 1..(m + l + 2) : o + j \in 1..Len(label) /\ label[o + j] = t[j]
    BY <1>7, <1>9 DEF StandsIn
  <2>2. StandsIn(label, v, o)
    <3>1. \A j \in 1..m : j \in 1..(m + l + 2)
      BY <1>7
    <3> QED
      BY <1>7, <2>1, <3>1 DEF StandsIn, m
  <2>3. /\ b \in 1..Len(label) /\ label[b] = Opening
        /\ b + l + 1 \in 1..Len(label) /\ label[b + l + 1] = Closing /\ b + l + 1 = o + (m + l + 2)
        /\ \A j \in 1..l : b + j \in 1..Len(label) /\ label[b + j] = J[j]
    <3>1. /\ m + 1 \in 1..(m + l + 2) /\ b = o + (m + 1)
          /\ m + l + 2 \in 1..(m + l + 2) /\ b + l + 1 = o + (m + l + 2)
          /\ \A j \in 1..l : m + 1 + j \in 1..(m + l + 2) /\ b + j = o + (m + 1 + j)
      <4>1. \A x, y, z \in Nat :
                /\ y + 1 \in 1..(y + z + 2) /\ x + y + 1 = x + (y + 1)
                /\ y + z + 2 \in 1..(y + z + 2) /\ x + y + 1 + z + 1 = x + (y + z + 2)
                /\ \A j \in 1..z : y + 1 + j \in 1..(y + z + 2) /\ x + y + 1 + j = x + (y + 1 + j)
        OBVIOUS
      <4> QED
        BY <1>7, <4>1
    <3> HIDE DEF b
    <3>2. b \in 1..Len(label) /\ label[b] = Opening
      BY <1>7, <2>1, <3>1
    <3>3. b + l + 1 \in 1..Len(label) /\ label[b + l + 1] = Closing
      BY <1>7, <2>1, <3>1
    <3>4. \A j \in 1..l : b + j \in 1..Len(label) /\ label[b + j] = J[j]
      BY <1>7, <2>1, <3>1
    <3> QED
      BY <3>1, <3>2, <3>3, <3>4
  <2> HIDE DEF b
  <2>4. \A k \in 1..(n + 1) : st[k] \in 1..Len(label)
    <3> TAKE k \in 1..(n + 1)
    <3>1. CASE k = n + 1
      BY <2>3, <3>1
    <3>2. CASE k # n + 1
      <4>1. k \in 1..n /\ st[k] = b + at[k]
        BY <1>1, <3>2
      <4>2. CASE k = 1
        BY <1>6, <2>0, <2>3, <4>1, <4>2
      <4>3. CASE k # 1
        <5>1. k \in 2..n
          BY <1>1, <4>1, <4>3
        <5>2. at[k] \in 1..l
          BY <1>6, <5>1 DEF l
        <5> QED
          BY <2>3, <4>1, <5>2
      <4> QED
        BY <4>2, <4>3
    <3> QED
      BY <3>1, <3>2
  <2>5. st \in [1..(n + 1) -> 1..Len(label)]
    BY <2>4
  <2>6. st[n + 1] = b + l + 1 /\ \A k \in 1..n : st[k] = b + at[k] /\ at[k] \in Nat
    <3>1. n + 1 \in 1..(n + 1) /\ \A k \in 1..n : k \in 1..(n + 1) /\ k # n + 1
      BY <1>1
    <3> QED
      BY <1>6, <3>1
  <2> HIDE DEF st
  <2>7. st[1] = b /\ label[st[1]] = Opening
    BY <1>1, <1>6, <2>0, <2>3, <2>6
  <2>8. label[st[n + 1]] = Closing
    BY <2>3, <2>6
  <2>9. \A k \in 2..n : label[st[k]] = Comma
    <3> TAKE k \in 2..n
    <3>1. k \in 1..n /\ at[k] \in 1..l /\ J[at[k]] = Comma
      BY <1>1, <1>6 DEF l
    <3> QED
      BY <2>3, <2>6, <3>1
  <2>10. ASSUME NEW k \in 1..n
         PROVE  st[k + 1] = st[k] + Len(parts[k]) + 1 /\ StandsIn(label, parts[k], st[k])
    <3>0. st[k] = b + at[k] /\ at[k] \in Nat /\ Len(parts[k]) \in Nat
      <4>1. parts[k] \in Texts
        BY <1>3
      <4> QED
        BY <2>6, <4>1 DEF Texts
    <3>1. CASE k = n
      <4>1. l = at[k] + Len(parts[k])
        BY <1>6, <3>1 DEF l
      <4>2. st[k + 1] = b + l + 1
        BY <2>6, <3>1
      <4> QED
        <5>1. st[k + 1] = st[k] + Len(parts[k]) + 1
          BY <2>0, <3>0, <4>1, <4>2
        <5>2. ASSUME NEW j \in 1..Len(parts[k])
              PROVE  st[k] + j \in 1..Len(label) /\ label[st[k] + j] = parts[k][j]
          <6>1. at[k] + j \in 1..l /\ J[at[k] + j] = parts[k][j] /\ st[k] + j = b + (at[k] + j)
            BY <1>6, <2>0, <3>0 DEF l
          <6> QED
            BY <2>3, <6>1
        <5> QED
          BY <5>1, <5>2 DEF StandsIn
    <3>2. CASE k # n
      <4>1. k + 1 \in 2..n /\ k + 1 \in 1..n /\ (k + 1) - 1 = k
        BY <1>1, <3>2
      <4>2. at[k + 1] = at[k] + Len(parts[k]) + 1 /\ st[k + 1] = b + at[k + 1]
        BY <1>6, <2>6, <4>1
      <4>3. st[k + 1] = st[k] + Len(parts[k]) + 1
        BY <2>0, <3>0, <4>2
      <4>4. ASSUME NEW j \in 1..Len(parts[k])
            PROVE  st[k] + j \in 1..Len(label) /\ label[st[k] + j] = parts[k][j]
        <5>1. at[k] + j \in 1..l /\ J[at[k] + j] = parts[k][j] /\ st[k] + j = b + (at[k] + j)
          BY <1>6, <2>0, <3>0 DEF l
        <5> QED
          BY <2>3, <5>1
      <4> QED
        BY <4>3, <4>4 DEF StandsIn
    <3> QED
      BY <3>1, <3>2
  <2>11. \A k \in 1..n : /\ st[k + 1] = st[k] + Len(Shown(d.columns[k])) + 1
                         /\ StandsIn(label, Shown(d.columns[k]), st[k])
    BY <1>3, <2>10
  <2>12. LabelAt(label, d, o, st)
    <3>1. st[1] = o + Len(v) + 1
      BY <2>7 DEF b, m
    <3> QED
      BY <2>2, <2>5, <2>7, <2>8, <2>9, <2>11, <3>1 DEF LabelAt, n, v
  <2>13. st[n + 1] = o + Len(t)
    BY <1>7, <2>3, <2>6
  <2> QED
    BY <2>12, <2>13
<1>10. DefinitionLabel(d) \in Texts /\ Len(DefinitionLabel(d)) \in Nat
  BY <1>7, <1>8 DEF Texts
<1>11. \A label \in Texts : \A o \in Nat : StandsIn(label, DefinitionLabel(d), o) =>
           \E st : LabelAt(label, d, o, st) /\ st[Len(d.columns) + 1] = o + Len(DefinitionLabel(d))
  BY <1>8, <1>9 DEF n
<1> QED
  BY <1>10, <1>11

(* the ends of an edge in its label, with the arrow between them *)
EndsAt(label, d, e, s, t) ==
    LET middle == s[Len(d.columns) + 1] IN
    /\ label \in Texts
    /\ LabelAt(label, d, 0, s) /\ LabelAt(label, e, middle + Len(Arrow), t)
    /\ StandsIn(label, Arrow, middle)
    /\ Len(label) = t[Len(e.columns) + 1]

LEMMA EdgeLabelMade ==
    ASSUME NEW d, NEW e, WellNamed(d), WellNamed(e)
    PROVE  \E s, t : EndsAt(DefinitionLabel(d) \o Arrow \o DefinitionLabel(e), d, e, s, t)
<1> DEFINE a == DefinitionLabel(d)  b == DefinitionLabel(e)  u == a \o Arrow  label == u \o b
<1>1. a \in Texts /\ b \in Texts /\ Len(a) \in Nat /\ Len(b) \in Nat
  BY LabelMade
<1>2. Arrow \in Texts /\ Len(Arrow) = 4
  BY DEF Arrow, Texts, Space, Dash, Above
<1> HIDE DEF a, b
<1>3. u \in Texts /\ Len(u) = Len(a) + Len(Arrow) /\ (\A j \in 1..Len(a) : u[j] = a[j]) /\ \A j \in 1..Len(Arrow) : u[Len(a) + j] = Arrow[j]
  BY <1>1, <1>2, Appended
<1> HIDE DEF u
<1>4. label \in Texts /\ Len(label) = Len(u) + Len(b) /\ (\A j \in 1..Len(u) : label[j] = u[j]) /\ \A j \in 1..Len(b) : label[Len(u) + j] = b[j]
  BY <1>1, <1>3, Appended
<1> HIDE DEF label
<1> DEFINE x == Len(a)  y == Len(b)
<1>5. x \in Nat /\ y \in Nat /\ Len(u) = x + 4 /\ Len(label) = x + 4 + y /\ DOMAIN label = 1..Len(label)
  BY <1>1, <1>2, <1>3, <1>4 DEF Texts
<1>6. StandsIn(label, a, 0)
  <2>1. \A j \in 1..x : 0 + j = j /\ j \in 1..Len(u) /\ j \in 1..Len(label)
    <3> HIDE DEF x, y
    <3> QED
      BY <1>5
  <2> QED
    BY <1>3, <1>4, <2>1 DEF StandsIn
<1>7. StandsIn(label, Arrow, x)
  <2>1. \A j \in 1..4 : x + j \in 1..Len(u) /\ x + j \in 1..Len(label)
    <3> HIDE DEF x, y
    <3> QED
      BY <1>5
  <2> QED
    BY <1>2, <1>3, <1>4, <2>1 DEF StandsIn
<1>8. StandsIn(label, b, x + 4)
  <2>1. \A j \in 1..y : x + 4 + j \in 1..Len(label)
    <3> HIDE DEF x, y
    <3> QED
      BY <1>5
  <2> QED
    BY <1>4, <1>5, <2>1 DEF StandsIn
<1>9. PICK s : LabelAt(label, d, 0, s) /\ s[Len(d.columns) + 1] = 0 + x
  BY <1>4, <1>6, LabelMade DEF a
<1>10. PICK t : LabelAt(label, e, x + 4, t) /\ t[Len(e.columns) + 1] = (x + 4) + y
  <2>1. x + 4 \in Nat
    BY <1>5
  <2> QED
    BY <1>4, <1>8, <2>1, LabelMade DEF b
<1>11. 0 + x = x
  BY <1>5
<1>12. EndsAt(label, d, e, s, t)
  <2> HIDE DEF x, y
  <2> QED
    BY <1>2, <1>4, <1>5, <1>7, <1>9, <1>10, <1>11 DEF EndsAt
<1> QED
  BY <1>12 DEF label, u, a, b

-----------------------------------------------------------------------------
(* The build: one step of reading a label                                       *)

LEMMA FindsFirst ==
    ASSUME graphBuild.label \in Texts, NEW c, NEW from \in Nat, NEW e \in from..Len(graphBuild.label),
           graphBuild.label[e] = c, \A i \in from..(e - 1) : graphBuild.label[i] # c
    PROVE  Find(c, from) = e
<1> DEFINE L == Len(graphBuild.label)
           here == {i \in from..L : graphBuild.label[i] = c}
<1>1. L \in Nat
  BY DEF Texts
<1>2. Find(c, from) = IF here = {} THEN 0 ELSE Least(here)
  BY DEF Find
<1>3. e \in here /\ \A i \in here : i >= e /\ i \in Int
  <2> SUFFICES ASSUME NEW i \in here, i < e PROVE FALSE
    BY <1>1
  <2>1. i \in from..(e - 1)
    BY <1>1
  <2> QED
    BY <2>1
<1> HIDE DEF here
<1>4. \E i \in here : \A j \in here : i <= j
  <2>1. \A j \in here : e <= j
    BY <1>1, <1>3
  <2> QED
    BY <1>3, <2>1
<1> DEFINE l == Least(here)
<1>5. l \in here /\ \A j \in here : l <= j
  BY <1>4 DEF Least
<1> HIDE DEF l
<1>6. l = e
  BY <1>1, <1>3, <1>5
<1> QED
  BY <1>2, <1>3, <1>6 DEF l

LEMMA Cut ==
    ASSUME NEW label \in Texts, NEW text \in Texts, NEW b \in Nat, StandsIn(label, text, b), b + Len(text) <= Len(label)
    PROVE  SubSeq(label, b + 1, b + Len(text)) = text
<1> DEFINE s == SubSeq(label, b + 1, b + Len(text))
<1>1. Len(text) \in Nat /\ \A j \in 1..Len(text) : label[b + j] = text[j]
  BY DEF Texts, StandsIn
<1>2. \A t \in Texts : \A l \in Nat : b + l <= Len(t) =>
          LET u == SubSeq(t, b + 1, b + l)
          IN  u \in Texts /\ Len(u) = l /\ \A j \in 1..l : u[j] = t[b + j]
  BY DEF Texts
<1>3. s \in Texts /\ Len(s) = Len(text) /\ \A j \in 1..Len(text) : s[j] = label[b + j]
  BY <1>1, <1>2
<1> HIDE DEF s
<1>4. s = text
  BY <1>1, <1>3, SameText
<1> QED
  BY <1>4 DEF s

(* In front of the first bracket stands the node. *)
LEMMA NodeRead ==
    ASSUME NEW d, WellNamed(d), ~Holds(d.node, <<Opening>>), NEW o, NEW st,
           graphBuild.label \in Texts, LabelAt(graphBuild.label, d, o, st)
    PROVE  /\ Find(Opening, o + 1) = st[1] /\ st[1] # 0
           /\ SubSeq(graphBuild.label, o + 1, st[1] - 1) = d.node
<1>1. /\ d.node \in Texts /\ Len(d.node) \in Nat /\ Len(graphBuild.label) \in Nat
      /\ Len(d.columns) \in Nat
  <2>1. d.node \in Texts /\ d.columns \in Seq(GivenNames)
    BY DEF WellNamed, GivenNames, Texts
  <2> QED
    BY <2>1 DEF Texts
<1>2. /\ o \in Nat /\ st[1] = o + Len(d.node) + 1 /\ graphBuild.label[st[1]] = Opening
      /\ StandsIn(graphBuild.label, d.node, o)
      /\ st \in [1..(Len(d.columns) + 1) -> 1..Len(graphBuild.label)]
  BY DEF LabelAt
<1>3. st[1] \in 1..Len(graphBuild.label)
  <2>1. 1 \in 1..(Len(d.columns) + 1)
    BY <1>1
  <2> QED
    BY <1>2, <2>1
<1>4. \A j \in 1..Len(d.node) : d.node[j] # Opening
  BY <1>1, HoldsNone
<1> DEFINE n == Len(d.node)  L == Len(graphBuild.label)  e == st[1]
<1>5. n \in Nat /\ L \in Nat /\ e \in 1..L /\ e = o + n + 1 /\ \A j \in 1..n : graphBuild.label[o + j] # Opening
  BY <1>1, <1>2, <1>3, <1>4 DEF StandsIn
<1> HIDE DEF n, L, e
<1>6. o + 1 \in Nat /\ e \in (o + 1)..L /\ e - 1 = o + n /\ o + n <= L /\ e # 0
  BY <1>2, <1>5
<1>7. \A i \in (o + 1)..(e - 1) : graphBuild.label[i] # Opening
  <2> TAKE i \in (o + 1)..(e - 1)
  <2>1. i - o \in 1..n /\ o + (i - o) = i
    BY <1>2, <1>5
  <2> QED
    BY <1>5, <2>1
<1>8. Find(Opening, o + 1) = e
  <2>1. graphBuild.label[e] = Opening
    BY <1>2 DEF e
  <2> QED
    BY <1>6, <1>7, <2>1, FindsFirst DEF L
<1>9. SubSeq(graphBuild.label, o + 1, o + n) = d.node
  BY <1>1, <1>2, <1>6, Cut DEF n, L
<1> QED
  BY <1>6, <1>8, <1>9 DEF e

(* The mth column is read, and what follows it is seen. *)
LEMMA NextColumn ==
    ASSUME NEW d, WellNamed(d), NEW o, NEW st, graphBuild.label \in Texts, LabelAt(graphBuild.label, d, o, st),
           NEW m \in 1..Len(d.columns)
    PROVE  /\ Len(d.columns) \in Nat /\ st[m] \in Nat /\ st[m + 1] \in 1..Len(graphBuild.label)
           /\ ColumnAt(st[m] + 1) = <<d.columns[m], st[m + 1]>>
           /\ m < Len(d.columns) => At(st[m + 1], <<Comma>>)
           /\ m = Len(d.columns) => At(st[m + 1], <<Closing>>) /\ ~At(st[m + 1], <<Comma>>)
<1> DEFINE n == Len(d.columns)  L == Len(graphBuild.label)
<1>1. n \in Nat /\ d.columns[m] \in GivenNames
  <2>1. d.columns \in Seq(GivenNames)
    BY DEF WellNamed
  <2> QED
    BY <2>1
<1>2. L \in Nat /\ DOMAIN graphBuild.label = 1..L
  BY DEF Texts
<1>3. /\ st \in [1..(n + 1) -> 1..L]
      /\ graphBuild.label[st[n + 1]] = Closing
      /\ \A k \in 2..n : graphBuild.label[st[k]] = Comma
      /\ \A k \in 1..n : st[k + 1] = st[k] + Len(Shown(d.columns[k])) + 1 /\ StandsIn(graphBuild.label, Shown(d.columns[k]), st[k])
  BY DEF LabelAt
<1> HIDE DEF n, L
<1>0. m \in 1..n
  BY DEF n
<1>4. m + 1 \in 1..(n + 1) /\ m \in 1..(n + 1) /\ (m < n => m + 1 \in 2..n) /\ (m = n \/ m < n)
  BY <1>0, <1>1
<1>5. st[m] \in 1..L /\ st[m + 1] \in 1..L /\ st[m] \in Nat
  BY <1>2, <1>3, <1>4
<1>6. graphBuild.label[st[m + 1]] = IF m < n THEN Comma ELSE Closing
  BY <1>0, <1>1, <1>3, <1>4
<1>7. ColumnAt(st[m] + 1) = <<d.columns[m], st[m + 1]>>
  <2> DEFINE b == st[m]  w == Len(Shown(d.columns[m]))
  <2>1. st[m + 1] = b + w + 1 /\ StandsIn(graphBuild.label, Shown(d.columns[m]), b)
    BY <1>0, <1>3
  <2>2. b \in Nat
    BY <1>5
  <2>3. b + w + 1 \in 1..L /\ graphBuild.label[b + w + 1] \in {Comma, Closing}
    BY <1>5, <1>6, <2>1
  <2> HIDE DEF b
  <2> QED
    BY <1>1, <2>1, <2>2, <2>3, ColumnRead DEF b, L
<1>8. \A c : At(st[m + 1], <<c>>) <=> graphBuild.label[st[m + 1]] = c
  <2> TAKE c
  <2>1. DOMAIN <<c>> = {1} /\ <<c>>[1] = c
    OBVIOUS
  <2>2. st[m + 1] + 1 - 1 = st[m + 1]
    BY <1>2, <1>5
  <2> QED
    BY <1>2, <1>5, <2>1, <2>2 DEF At, Stands
<1>9. Comma # Closing
  BY DEF Comma, Closing
<1> QED
  BY <1>1, <1>5, <1>6, <1>7, <1>8, <1>9 DEF n, L

-----------------------------------------------------------------------------
(* The build: what its steps keep                                               *)

(* the relationships of the logical entities that are not left *)
PairsOf(defs, left) == {p \in defs \X defs : p[1].identity = p[2].identity /\ p[1].identity \notin left /\ KeyLess(p[1], p[2])}
EdgeOf(p) == [id |-> EdgeText(p[1], p[2]), a |-> p[1], b |-> p[2]]
EdgesOf(defs, left) == {EdgeOf(p) : p \in PairsOf(defs, left)}
IdsApart(edges) == \A r, s \in edges : r.id = s.id => r = s

ReadStages == {"node", "column", "split", "not an edge"}

BuildFields ==
    graphBuild = [at |-> graphBuild.at, of |-> graphBuild.of, left |-> graphBuild.left, edges |-> graphBuild.edges,
                  unknown |-> graphBuild.unknown, label |-> graphBuild.label, index |-> graphBuild.index,
                  side |-> graphBuild.side, sides |-> graphBuild.sides, written |-> graphBuild.written]

GraphInv ==
    /\ graphBuild.at \in {"derive", "refused", "built"} \cup ReadStages
    /\ graphBuild.of \in Intermediaries
    /\ graphBuild.left \in SUBSET {d.identity : d \in AllDefinitions(graphBuild.of)}
    /\ graphBuild.edges = EdgesOf(AllDefinitions(graphBuild.of), graphBuild.left)
    /\ graphBuild.at # "derive" => graphBuild.left = {}
    /\ graphBuild.at = "refused" => ~IdsApart(graphBuild.edges)
    /\ graphBuild.at \in {"built"} \cup ReadStages =>
           IdsApart(graphBuild.edges) /\ graphBuild.unknown = Reported(graphBuild.edges)

(* how far one end is read, whose label stands behind place o *)
Told(d) == [node |-> d.node, columns |-> d.columns]
EndRead(d, o, st) ==
    \/ graphBuild.at = "node" /\ graphBuild.index = o + 1 /\ graphBuild.side = EmptySide
    \/ /\ graphBuild.at = "column"
       /\ \E m \in 1..Len(d.columns) :
              /\ graphBuild.index = st[m] + 1
              /\ graphBuild.side = [node |-> d.node, columns |-> SubSeq(d.columns, 1, m - 1)]

ReadAs(d, e, s, t) ==
    /\ EndsAt(graphBuild.label, d, e, s, t)
    /\ graphBuild.written = [i \in 1..2 |-> IF i = 1 THEN Told(d) ELSE Told(e)]
    /\ \/ graphBuild.sides = <<>> /\ EndRead(d, 0, s)
       \/ graphBuild.sides = <<Told(d)>> /\ EndRead(e, s[Len(d.columns) + 1] + Len(Arrow), t)
       \/ graphBuild.sides = <<Told(d), Told(e)>> /\ graphBuild.at = "split"

NoBrackets == \A d \in AllDefinitions(graphBuild.of) : ~Holds(d.node, <<Opening>>)
LabelInv ==
    /\ graphBuild.at \in {"derive", "refused", "built"} =>
           graphBuild.index = 1 /\ graphBuild.side = EmptySide /\ graphBuild.sides = <<>>
    /\ graphBuild.at \in ReadStages /\ NoBrackets =>
           \E d, e \in AllDefinitions(graphBuild.of) : \E s, t : ReadAs(d, e, s, t)

BuildInv == graphBuild = Unbuilt \/ (BuildFields /\ GraphInv /\ LabelInv)

LEMMA BuildStarts == BuildInit \/ BuildIdle => BuildInv
<1>1. ASSUME BuildIdle
      PROVE  BuildInv
  BY <1>1 DEF BuildIdle, BuildInv
<1>2. ASSUME BuildInit
      PROVE  BuildInv
  <2>1. PICK nodes \in Intermediaries :
            graphBuild = [Unbuilt EXCEPT !.at = "derive", !.of = nodes,
                                         !.left = {d.identity : d \in AllDefinitions(nodes)}]
    BY <1>2 DEF BuildInit
  <2> DEFINE all == {d.identity : d \in AllDefinitions(nodes)}
  <2> HIDE DEF all
  <2>2. graphBuild = [at |-> "derive", of |-> nodes, left |-> all, edges |-> {}, unknown |-> {},
                      label |-> <<>>, index |-> 1, side |-> EmptySide, sides |-> <<>>, written |-> <<>>]
    BY <2>1 DEF Unbuilt, all
  <2>3. BuildFields
    BY <2>2 DEF BuildFields
  <2>4. EdgesOf(AllDefinitions(nodes), all) = {}
    BY DEF EdgesOf, PairsOf, all
  <2>5. GraphInv
    BY <2>2, <2>4 DEF GraphInv, ReadStages, all
  <2>6. LabelInv
    BY <2>2 DEF LabelInv, ReadStages
  <2> QED
    BY <2>3, <2>5, <2>6 DEF BuildInv
<1> QED
  BY <1>1, <1>2

(* Of what is left there is a least. *)
LEMMA LeastLeft ==
    ASSUME GraphInv, graphBuild.left # {}
    PROVE  (CHOOSE i \in graphBuild.left : \A j \in graphBuild.left \ {i} : TextLess(i, j)) \in graphBuild.left
<1> DEFINE D == AllDefinitions(graphBuild.of)  S == graphBuild.left
           R == {w \in Texts \X Texts : TextLess(w[1], w[2])}
           id == [d \in D |-> d.identity]
<1>1. IsFiniteSet(D) /\ \A d \in D : WellNamed(d)
  BY DefinitionsGiven DEF GraphInv
<1>2. IsFiniteSet({id[d] : d \in D})
  BY <1>1, FiniteImage
<1>3. S \in SUBSET {id[d] : d \in D}
  BY DEF GraphInv
<1>4. S \in SUBSET Texts
  <2>1. \A d \in D : id[d] \in Texts
    BY <1>1 DEF WellNamed, GivenNames, Texts
  <2> QED
    BY <1>3, <2>1
<1>5. IsFiniteSet(S)
  <2> HIDE DEF id
  <2> QED
    BY <1>2, <1>3, FS_Subset
<1> HIDE DEF S
<1>6. PartialOrder(R, S)
  BY <1>4, TextsOrdered DEF PartialOrder
<1>7. S # {}
  BY DEF S
<1>8. PICK i \in S : \A j \in S : <<j, i>> \notin R
  <2> HIDE DEF R
  <2> QED
    BY <1>5, <1>6, <1>7, HasFirst
<1>9. \A j \in S \ {i} : TextLess(i, j)
  BY <1>4, <1>8, TextsOrdered
<1> QED
  BY <1>8, <1>9 DEF S

LEMMA DeriveKeeps == BuildFields /\ GraphInv /\ LabelInv /\ Derive => BuildInv'
<1> SUFFICES ASSUME BuildFields, GraphInv, LabelInv, Derive PROVE BuildInv'
  OBVIOUS
<1> DEFINE D == AllDefinitions(graphBuild.of)  left == graphBuild.left
           identity == CHOOSE i \in left : \A j \in left \ {i} : TextLess(i, j)
           members == {d \in D : d.identity = identity}
           new == {EdgeOf(p) : p \in {q \in members \X members : KeyLess(q[1], q[2])}}
<1>1. graphBuild.at = "derive" /\ graphBuild.left # {}
  BY DEF Derive
<1>2. graphBuild' = [graphBuild EXCEPT !.left = left \ {identity}, !.edges = graphBuild.edges \cup new]
  BY DEF Derive, EdgeOf
<1>3. identity \in left
  BY <1>1, LeastLeft
<1> HIDE DEF identity
<1>4. PairsOf(D, left \ {identity}) = PairsOf(D, left) \cup {q \in members \X members : KeyLess(q[1], q[2])}
  BY <1>3 DEF PairsOf
<1>5. EdgesOf(D, left \ {identity}) = EdgesOf(D, left) \cup new
  BY <1>4 DEF EdgesOf
<1> HIDE DEF new, members
<1>6. graphBuild' = [at |-> graphBuild.at, of |-> graphBuild.of, left |-> left \ {identity}, edges |-> graphBuild.edges \cup new,
                     unknown |-> graphBuild.unknown, label |-> graphBuild.label, index |-> graphBuild.index,
                     side |-> graphBuild.side, sides |-> graphBuild.sides, written |-> graphBuild.written]
  BY <1>2 DEF BuildFields
<1>7. BuildFields'
  BY <1>6 DEF BuildFields
<1>8. GraphInv'
  <2>1. graphBuild'.of = graphBuild.of /\ graphBuild'.left = left \ {identity} /\ graphBuild'.edges = EdgesOf(D, left) \cup new
        /\ graphBuild'.at = "derive"
    BY <1>1, <1>6 DEF GraphInv
  <2>2. left \ {identity} \in SUBSET {d.identity : d \in D}
    BY DEF GraphInv
  <2>3. graphBuild.of \in Intermediaries
    BY DEF GraphInv
  <2>4. "derive" \notin {"built"} \cup ReadStages /\ "derive" # "refused"
    BY DEF ReadStages
  <2> QED
    BY <1>5, <2>1, <2>2, <2>3, <2>4 DEF GraphInv
<1>9. LabelInv'
  <2>1. graphBuild'.index = 1 /\ graphBuild'.side = EmptySide /\ graphBuild'.sides = <<>> /\ graphBuild'.at = "derive"
    BY <1>1, <1>6 DEF LabelInv
  <2> QED
    BY <2>1 DEF LabelInv, ReadStages
<1> QED
  BY <1>7, <1>8, <1>9 DEF BuildInv

LEMMA ValidateKeeps == BuildFields /\ GraphInv /\ LabelInv /\ ValidateGraph => BuildInv'
<1> SUFFICES ASSUME BuildFields, GraphInv, LabelInv, ValidateGraph PROVE BuildInv'
  OBVIOUS
<1>1. graphBuild.at = "derive" /\ graphBuild.left = {}
  BY DEF ValidateGraph
<1>2. PICK stage \in {"built", "refused"} : \E told :
          /\ graphBuild' = [graphBuild EXCEPT !.at = stage, !.unknown = told]
          /\ stage = "built" => IdsApart(graphBuild.edges) /\ told = Reported(graphBuild.edges)
          /\ stage = "refused" => ~IdsApart(graphBuild.edges)
  <2>1. CASE IdsApart(graphBuild.edges)
    BY <2>1 DEF ValidateGraph, IdsApart
  <2>2. CASE ~IdsApart(graphBuild.edges)
    <3>1. graphBuild' = [graphBuild EXCEPT !.at = "refused"]
      BY <2>2 DEF ValidateGraph, IdsApart
    <3>2. graphBuild' = [graphBuild EXCEPT !.at = "refused", !.unknown = graphBuild.unknown]
      BY <3>1 DEF BuildFields
    <3> QED
      BY <2>2, <3>2
  <2> QED
    BY <2>1, <2>2
<1>7. PICK told :
          /\ graphBuild' = [graphBuild EXCEPT !.at = stage, !.unknown = told]
          /\ stage = "built" => IdsApart(graphBuild.edges) /\ told = Reported(graphBuild.edges)
          /\ stage = "refused" => ~IdsApart(graphBuild.edges)
  BY <1>2
<1>3. graphBuild' = [at |-> stage, of |-> graphBuild.of, left |-> graphBuild.left, edges |-> graphBuild.edges,
                     unknown |-> told, label |-> graphBuild.label, index |-> graphBuild.index,
                     side |-> graphBuild.side, sides |-> graphBuild.sides, written |-> graphBuild.written]
  BY <1>7 DEF BuildFields
<1>4. BuildFields'
  BY <1>3 DEF BuildFields
<1>5. GraphInv'
  <2>1. /\ graphBuild'.of = graphBuild.of /\ graphBuild'.left = {} /\ graphBuild'.edges = graphBuild.edges
        /\ graphBuild'.at = stage /\ graphBuild'.unknown = told
    BY <1>1, <1>3
  <2>2. graphBuild.edges = EdgesOf(AllDefinitions(graphBuild.of), {}) /\ graphBuild.of \in Intermediaries
    BY <1>1 DEF GraphInv
  <2>3. Reported(graphBuild.edges)' = Reported(graphBuild.edges)
    BY <2>1 DEF Reported
  <2> QED
    BY <1>7, <2>1, <2>2, <2>3 DEF GraphInv, ReadStages
<1>6. LabelInv'
  <2>1. graphBuild'.index = 1 /\ graphBuild'.side = EmptySide /\ graphBuild'.sides = <<>> /\ graphBuild'.at = stage
    BY <1>1, <1>3 DEF LabelInv
  <2> QED
    BY <1>7, <2>1 DEF LabelInv, ReadStages
<1> QED
  BY <1>4, <1>5, <1>6 DEF BuildInv

(* a step that reads leaves the graph alone *)
Reads(stage, label, index, side, sides, written) ==
    graphBuild' = [graphBuild EXCEPT !.at = stage, !.label = label, !.index = index, !.side = side,
                                     !.sides = sides, !.written = written]

LEMMA GraphStays ==
    ASSUME BuildFields, GraphInv, graphBuild.at \in {"built"} \cup ReadStages,
           NEW stage \in ReadStages, NEW label, NEW index, NEW side, NEW sides, NEW written,
           Reads(stage, label, index, side, sides, written)
    PROVE  /\ BuildFields' /\ GraphInv'
           /\ graphBuild'.at = stage /\ graphBuild'.label = label /\ graphBuild'.index = index /\ graphBuild'.side = side
           /\ graphBuild'.sides = sides /\ graphBuild'.written = written /\ graphBuild'.of = graphBuild.of
           /\ NoBrackets' = NoBrackets
<1>1. graphBuild' = [at |-> stage, of |-> graphBuild.of, left |-> graphBuild.left, edges |-> graphBuild.edges,
                     unknown |-> graphBuild.unknown, label |-> label, index |-> index,
                     side |-> side, sides |-> sides, written |-> written]
  BY DEF BuildFields, Reads
<1>2. BuildFields'
  BY <1>1 DEF BuildFields
<1>3. /\ graphBuild'.at = stage /\ graphBuild'.label = label /\ graphBuild'.index = index /\ graphBuild'.side = side
      /\ graphBuild'.sides = sides /\ graphBuild'.written = written /\ graphBuild'.of = graphBuild.of
      /\ graphBuild'.left = graphBuild.left /\ graphBuild'.edges = graphBuild.edges /\ graphBuild'.unknown = graphBuild.unknown
  BY <1>1
<1>4. NoBrackets' = NoBrackets
  BY <1>3 DEF NoBrackets
<1>5. GraphInv'
  <2>1. Reported(graphBuild.edges)' = Reported(graphBuild.edges)
    BY <1>3 DEF Reported
  <2>2. graphBuild.at # "derive" /\ stage # "derive" /\ stage # "refused"
    BY DEF ReadStages
  <2>3. /\ graphBuild.of \in Intermediaries /\ graphBuild.left = {}
        /\ graphBuild.left \in SUBSET {d.identity : d \in AllDefinitions(graphBuild.of)}
        /\ graphBuild.edges = EdgesOf(AllDefinitions(graphBuild.of), graphBuild.left)
        /\ IdsApart(graphBuild.edges) /\ graphBuild.unknown = Reported(graphBuild.edges)
    BY <2>2 DEF GraphInv
  <2> QED
    BY <1>3, <2>1, <2>2, <2>3 DEF GraphInv
<1> QED
  BY <1>2, <1>3, <1>4, <1>5

-----------------------------------------------------------------------------
LEMMA WriteKeeps == BuildFields /\ GraphInv /\ LabelInv /\ WriteLabel => BuildInv'
<1> SUFFICES ASSUME BuildFields, GraphInv, LabelInv, WriteLabel PROVE BuildInv'
  OBVIOUS
<1> DEFINE D == AllDefinitions(graphBuild.of)
<1>1. graphBuild.at = "built" /\ graphBuild.index = 1 /\ graphBuild.side = EmptySide /\ graphBuild.sides = <<>>
  BY DEF WriteLabel, LabelInv
<1>2. PICK r \in graphBuild.edges, back \in BOOLEAN :
          LET ends == IF back THEN <<r.b, r.a>> ELSE <<r.a, r.b>>
          IN  graphBuild' = [graphBuild EXCEPT
                  !.at = "node", !.label = DefinitionLabel(ends[1]) \o Arrow \o DefinitionLabel(ends[2]),
                  !.written = [i \in 1..2 |-> [node |-> ends[i].node, columns |-> ends[i].columns]]]
  BY DEF WriteLabel
<1>3. r.a \in D /\ r.b \in D
  <2>1. r \in EdgesOf(D, graphBuild.left)
    BY DEF GraphInv
  <2>2. PICK p \in PairsOf(D, graphBuild.left) : r = EdgeOf(p)
    BY <2>1 DEF EdgesOf
  <2> QED
    BY <2>2 DEF EdgeOf, PairsOf
<1> HIDE DEF D
<1>4. PICK d \in D, e \in D :
          graphBuild' = [graphBuild EXCEPT
              !.at = "node", !.label = DefinitionLabel(d) \o Arrow \o DefinitionLabel(e),
              !.written = [i \in 1..2 |-> IF i = 1 THEN Told(d) ELSE Told(e)]]
  <2>1. \A d, e : [i \in 1..2 |-> [node |-> <<d, e>>[i].node, columns |-> <<d, e>>[i].columns]]
                      = [i \in 1..2 |-> IF i = 1 THEN Told(d) ELSE Told(e)]
    BY DEF Told
  <2>0. \A d, e : LET ends == <<d, e>> IN ends[1] = d /\ ends[2] = e
    OBVIOUS
  <2>2. CASE back
    <3>1. graphBuild' = [graphBuild EXCEPT
              !.at = "node", !.label = DefinitionLabel(r.b) \o Arrow \o DefinitionLabel(r.a),
              !.written = [i \in 1..2 |-> [node |-> <<r.b, r.a>>[i].node, columns |-> <<r.b, r.a>>[i].columns]]]
      BY <1>2, <2>0, <2>2
    <3>2. [i \in 1..2 |-> [node |-> <<r.b, r.a>>[i].node, columns |-> <<r.b, r.a>>[i].columns]]
              = [i \in 1..2 |-> IF i = 1 THEN Told(r.b) ELSE Told(r.a)]
      BY <2>1
    <3> QED
      BY <1>3, <3>1, <3>2
  <2>3. CASE ~back
    <3>1. graphBuild' = [graphBuild EXCEPT
              !.at = "node", !.label = DefinitionLabel(r.a) \o Arrow \o DefinitionLabel(r.b),
              !.written = [i \in 1..2 |-> [node |-> <<r.a, r.b>>[i].node, columns |-> <<r.a, r.b>>[i].columns]]]
      BY <1>2, <2>0, <2>3
    <3>2. [i \in 1..2 |-> [node |-> <<r.a, r.b>>[i].node, columns |-> <<r.a, r.b>>[i].columns]]
              = [i \in 1..2 |-> IF i = 1 THEN Told(r.a) ELSE Told(r.b)]
      BY <2>1
    <3> QED
      BY <1>3, <3>1, <3>2
  <2> QED
    BY <2>2, <2>3
<1> DEFINE label == DefinitionLabel(d) \o Arrow \o DefinitionLabel(e)
           written == [i \in 1..2 |-> IF i = 1 THEN Told(d) ELSE Told(e)]
<1>5. PICK s, t : EndsAt(label, d, e, s, t)
  <2>1. WellNamed(d) /\ WellNamed(e)
    BY DefinitionsGiven DEF GraphInv, D
  <2> QED
    BY <2>1, EdgeLabelMade
<1> HIDE DEF label, written
<1>6. Reads("node", label, 1, EmptySide, <<>>, written)
  BY <1>1, <1>4 DEF BuildFields, Reads, label, written
<1>7. /\ BuildFields' /\ GraphInv' /\ graphBuild'.of = graphBuild.of
      /\ graphBuild'.at = "node" /\ graphBuild'.label = label /\ graphBuild'.index = 1 /\ graphBuild'.side = EmptySide
      /\ graphBuild'.sides = <<>> /\ graphBuild'.written = written
  <2>1. "node" \in ReadStages /\ graphBuild.at \in {"built"} \cup ReadStages
    BY <1>1 DEF ReadStages
  <2> QED
    BY <1>6, <2>1, GraphStays
<1>8. ReadAs(d, e, s, t)'
  <2>1. EndRead(d, 0, s)'
    BY <1>7 DEF EndRead
  <2> QED
    BY <1>5, <1>7, <2>1 DEF ReadAs, written
<1>9. LabelInv'
  <2>1. "node" \notin {"derive", "refused", "built"}
    OBVIOUS
  <2>2. \E x, y \in AllDefinitions(graphBuild'.of) : \E u, v : ReadAs(x, y, u, v)'
    BY <1>7, <1>8 DEF D
  <2> QED
    BY <1>7, <2>1, <2>2 DEF LabelInv
<1> QED
  BY <1>7, <1>9 DEF BuildInv

(* the end that is being read *)
LEMMA EndGiven ==
    ASSUME GraphInv, LabelInv, NoBrackets, graphBuild.at \in {"node", "column"}
    PROVE  \E d, e \in AllDefinitions(graphBuild.of) : \E s, t :
               /\ WellNamed(d) /\ WellNamed(e) /\ ReadAs(d, e, s, t)
               /\ \/ graphBuild.sides = <<>> /\ EndRead(d, 0, s)
                  \/ graphBuild.sides = <<Told(d)>> /\ EndRead(e, s[Len(d.columns) + 1] + Len(Arrow), t)
<1>1. PICK d, e \in AllDefinitions(graphBuild.of) : \E s, t : ReadAs(d, e, s, t)
  BY DEF LabelInv, ReadStages
<1>2. PICK s, t : ReadAs(d, e, s, t)
  BY <1>1
<1>3. WellNamed(d) /\ WellNamed(e)
  BY DefinitionsGiven DEF GraphInv
<1> QED
  BY <1>2, <1>3 DEF ReadAs

LEMMA NodeKeeps == BuildFields /\ GraphInv /\ LabelInv /\ ReadNode => BuildInv'
<1> SUFFICES ASSUME BuildFields, GraphInv, LabelInv, ReadNode PROVE BuildInv'
  OBVIOUS
<1>1. graphBuild.at = "node"
  BY DEF ReadNode
<1>2. graphBuild.at \in {"built"} \cup ReadStages /\ "column" \in ReadStages /\ "not an edge" \in ReadStages
  BY <1>1 DEF ReadStages
<1> DEFINE bracket == Find(Opening, graphBuild.index)
           side == [EmptySide EXCEPT !.node = SubSeq(graphBuild.label, graphBuild.index, bracket - 1)]
<1>3. \/ /\ bracket = 0
         /\ Reads("not an edge", graphBuild.label, graphBuild.index, graphBuild.side, graphBuild.sides, graphBuild.written)
      \/ /\ bracket # 0
         /\ Reads("column", graphBuild.label, bracket + 1, side, graphBuild.sides, graphBuild.written)
  <2>1. \/ bracket = 0 /\ graphBuild' = [graphBuild EXCEPT !.at = "not an edge"]
        \/ bracket # 0 /\ graphBuild' = [graphBuild EXCEPT !.at = "column", !.index = bracket + 1, !.side = side]
    BY DEF ReadNode, NotAnEdge
  <2> HIDE DEF bracket, side
  <2> QED
    BY <2>1 DEF BuildFields, Reads
<1> HIDE DEF bracket, side
<1>4. CASE ~NoBrackets
  <2>1. BuildFields' /\ GraphInv' /\ ~NoBrackets' /\ graphBuild'.at \in ReadStages
    <3>1. CASE bracket = 0
      BY <1>2, <1>3, <1>4, <3>1, GraphStays
    <3>2. CASE bracket # 0
      BY <1>2, <1>3, <1>4, <3>2, GraphStays
    <3> QED
      BY <3>1, <3>2
  <2>2. LabelInv'
    BY <2>1 DEF LabelInv, ReadStages
  <2> QED
    BY <2>1, <2>2 DEF BuildInv
<1>5. CASE NoBrackets
  <2>1. PICK d, e \in AllDefinitions(graphBuild.of) : \E s, t :
            /\ WellNamed(d) /\ WellNamed(e) /\ ReadAs(d, e, s, t)
            /\ \/ graphBuild.sides = <<>> /\ EndRead(d, 0, s)
               \/ graphBuild.sides = <<Told(d)>> /\ EndRead(e, s[Len(d.columns) + 1] + Len(Arrow), t)
    BY <1>1, <1>5, EndGiven
  <2>2. PICK s, t :
            /\ WellNamed(d) /\ WellNamed(e) /\ ReadAs(d, e, s, t)
            /\ \/ graphBuild.sides = <<>> /\ EndRead(d, 0, s)
               \/ graphBuild.sides = <<Told(d)>> /\ EndRead(e, s[Len(d.columns) + 1] + Len(Arrow), t)
    BY <2>1
  <2>3. EndsAt(graphBuild.label, d, e, s, t)
    BY <2>2 DEF ReadAs
  <2>4. ASSUME NEW x, NEW o, NEW st, WellNamed(x), ~Holds(x.node, <<Opening>>), LabelAt(graphBuild.label, x, o, st), EndRead(x, o, st)
        PROVE  /\ BuildFields' /\ GraphInv' /\ graphBuild'.of = graphBuild.of /\ graphBuild'.at = "column"
               /\ graphBuild'.label = graphBuild.label /\ graphBuild'.sides = graphBuild.sides /\ graphBuild'.written = graphBuild.written
               /\ EndRead(x, o, st)'
    <3>1. graphBuild.index = o + 1 /\ graphBuild.side = EmptySide
      BY <1>1, <2>4 DEF EndRead
    <3>2. graphBuild.label \in Texts
      BY <2>3 DEF EndsAt
    <3>3. Find(Opening, o + 1) = st[1] /\ st[1] # 0 /\ SubSeq(graphBuild.label, o + 1, st[1] - 1) = x.node
      BY <2>4, <3>2, NodeRead
    <3>4. bracket = st[1] /\ side = [node |-> x.node, columns |-> <<>>]
      <4>1. bracket = st[1]
        BY <3>1, <3>3 DEF bracket
      <4>2. side = [EmptySide EXCEPT !.node = x.node]
        BY <3>1, <3>3, <4>1 DEF side
      <4> QED
        BY <4>1, <4>2 DEF EmptySide
    <3>5. Reads("column", graphBuild.label, bracket + 1, side, graphBuild.sides, graphBuild.written)
      BY <1>3, <3>3, <3>4
    <3>6. /\ BuildFields' /\ GraphInv' /\ graphBuild'.of = graphBuild.of /\ graphBuild'.at = "column"
          /\ graphBuild'.label = graphBuild.label /\ graphBuild'.sides = graphBuild.sides /\ graphBuild'.written = graphBuild.written
          /\ graphBuild'.index = bracket + 1 /\ graphBuild'.side = side
      BY <1>2, <3>5, GraphStays
    <3>7. 1 \in 1..Len(x.columns) /\ SubSeq(x.columns, 1, 1 - 1) = <<>>
      <4>1. x.columns \in Seq(GivenNames) /\ x.columns # <<>>
        BY <2>4 DEF WellNamed
      <4> HIDE DEF bracket
      <4> QED
        BY <4>1
    <3>8. EndRead(x, o, st)'
      BY <3>4, <3>6, <3>7 DEF EndRead
    <3> QED
      BY <3>6, <3>8
  <2>5. ~Holds(d.node, <<Opening>>) /\ ~Holds(e.node, <<Opening>>)
    BY <1>5 DEF NoBrackets
  <2>6. LabelAt(graphBuild.label, d, 0, s) /\ LabelAt(graphBuild.label, e, s[Len(d.columns) + 1] + Len(Arrow), t)
    BY <2>3 DEF EndsAt
  <2>7. /\ BuildFields' /\ GraphInv' /\ graphBuild'.of = graphBuild.of /\ graphBuild'.at = "column" /\ ReadAs(d, e, s, t)'
    <3>1. CASE graphBuild.sides = <<>> /\ EndRead(d, 0, s)
      BY <2>2, <2>3, <2>4, <2>5, <2>6, <3>1 DEF ReadAs
    <3>2. CASE graphBuild.sides = <<Told(d)>> /\ EndRead(e, s[Len(d.columns) + 1] + Len(Arrow), t)
      BY <2>2, <2>3, <2>4, <2>5, <2>6, <3>2 DEF ReadAs
    <3> QED
      BY <2>2, <3>1, <3>2
  <2>8. LabelInv'
    <3>1. \E x, y \in AllDefinitions(graphBuild'.of) : \E u, v : ReadAs(x, y, u, v)'
      BY <2>7
    <3> QED
      BY <2>7, <3>1 DEF LabelInv
  <2> QED
    BY <2>7, <2>8 DEF BuildInv
<1> QED
  BY <1>4, <1>5

-----------------------------------------------------------------------------
(* what a column leads to: another, the end of a side, or nothing *)
After == ColumnAt(graphBuild.index)[2]
SideAfter == [graphBuild.side EXCEPT !.columns = Append(@, ColumnAt(graphBuild.index)[1])]
EndAfter == After + 1 + (IF graphBuild.sides = <<>> THEN Len(Arrow) ELSE 0)
Broken == Reads("not an edge", graphBuild.label, graphBuild.index, graphBuild.side, graphBuild.sides, graphBuild.written)
Another == Reads("column", graphBuild.label, After + 1, SideAfter, graphBuild.sides, graphBuild.written)
Ended(stage) == Reads(stage, graphBuild.label, EndAfter, EmptySide, Append(graphBuild.sides, SideAfter), graphBuild.written)

LEMMA ColumnCases ==
    ASSUME BuildFields, ReadColumn
    PROVE  /\ graphBuild.at = "column"
           /\ Broken \/ Another \/ \E stage \in {"node", "split"} : Ended(stage)
           /\ ColumnAt(graphBuild.index) # <<>> /\ At(After, <<Comma>>) => Another
           /\ ColumnAt(graphBuild.index) # <<>> /\ ~At(After, <<Comma>>) /\ At(After, <<Closing>>)
                  /\ graphBuild.sides = <<>> /\ At(After + 1, Arrow) => Ended("node")
           /\ ColumnAt(graphBuild.index) # <<>> /\ ~At(After, <<Comma>>) /\ At(After, <<Closing>>)
                  /\ graphBuild.sides # <<>> /\ EndAfter = Len(graphBuild.label) + 1 => Ended("split")
<1> DEFINE read == ColumnAt(graphBuild.index)
           first == graphBuild.sides = <<>>
<1>1. graphBuild.at = "column"
  BY DEF ReadColumn
<1>2. IF read = <<>> THEN NotAnEdge
      ELSE IF At(After, <<Comma>>)
      THEN graphBuild' = [graphBuild EXCEPT !.index = After + 1, !.side = SideAfter]
      ELSE IF ~At(After, <<Closing>>) \/ (first /\ ~At(After + 1, Arrow)) \/ (~first /\ EndAfter # Len(graphBuild.label) + 1)
      THEN NotAnEdge
      ELSE graphBuild' = [graphBuild EXCEPT !.at = IF first THEN "node" ELSE "split", !.index = EndAfter,
                                            !.sides = Append(graphBuild.sides, SideAfter), !.side = EmptySide]
  BY DEF ReadColumn, After, SideAfter, EndAfter
<1>3. NotAnEdge => Broken
  BY DEF NotAnEdge, Broken, Reads, BuildFields
<1>4. graphBuild' = [graphBuild EXCEPT !.index = After + 1, !.side = SideAfter] => Another
  <2> DEFINE i == After + 1  x == SideAfter
  <2> HIDE DEF i, x
  <2>1. graphBuild' = [graphBuild EXCEPT !.index = i, !.side = x]
            => Reads("column", graphBuild.label, i, x, graphBuild.sides, graphBuild.written)
    BY <1>1 DEF Reads, BuildFields
  <2> QED
    BY <2>1 DEF Another, i, x
<1>5. \A stage : graphBuild' = [graphBuild EXCEPT !.at = stage, !.index = EndAfter,
                                         !.sides = Append(graphBuild.sides, SideAfter), !.side = EmptySide] => Ended(stage)
  <2> TAKE stage
  <2> DEFINE i == EndAfter  x == Append(graphBuild.sides, SideAfter)
  <2> HIDE DEF i, x
  <2>1. graphBuild' = [graphBuild EXCEPT !.at = stage, !.index = i, !.sides = x, !.side = EmptySide]
            => Reads(stage, graphBuild.label, i, EmptySide, x, graphBuild.written)
    BY DEF Reads, BuildFields
  <2> QED
    BY <2>1 DEF Ended, i, x
<1> HIDE DEF read
<1>6. Broken \/ Another \/ \E stage \in {"node", "split"} : Ended(stage)
  BY <1>2, <1>3, <1>4, <1>5
<1>7. read # <<>> /\ At(After, <<Comma>>) => Another
  BY <1>2, <1>4
<1>8. read # <<>> /\ ~At(After, <<Comma>>) /\ At(After, <<Closing>>) /\ first /\ At(After + 1, Arrow) => Ended("node")
  BY <1>2, <1>5
<1>9. read # <<>> /\ ~At(After, <<Comma>>) /\ At(After, <<Closing>>) /\ ~first /\ EndAfter = Len(graphBuild.label) + 1 => Ended("split")
  BY <1>2, <1>5
<1> QED
  BY <1>1, <1>6, <1>7, <1>8, <1>9 DEF read

LEMMA OneMore ==
    ASSUME NEW X, NEW s \in Seq(X), NEW m \in 1..Len(s)
    PROVE  Append(SubSeq(s, 1, m - 1), s[m]) = SubSeq(s, 1, m) /\ SubSeq(s, 1, Len(s)) = s
<1>1. SubSeq(s, 1, m - 1) \in Seq(X) /\ Len(SubSeq(s, 1, m - 1)) = m - 1 /\ \A i \in 1..(m - 1) : SubSeq(s, 1, m - 1)[i] = s[i]
  OBVIOUS
<1>2. SubSeq(s, 1, m) \in Seq(X) /\ Len(SubSeq(s, 1, m)) = m /\ \A i \in 1..m : SubSeq(s, 1, m)[i] = s[i]
  OBVIOUS
<1> DEFINE a == SubSeq(s, 1, m - 1)  b == SubSeq(s, 1, m)
<1>3. s[m] \in X
  OBVIOUS
<1>4. SubSeq(s, 1, Len(s)) = s
  OBVIOUS
<1> HIDE DEF a, b
<1>5. Append(a, s[m]) = b
  BY <1>1, <1>2, <1>3 DEF a, b
<1> QED
  BY <1>4, <1>5 DEF a, b

LEMMA TwoInARow == \A v, w : Append(<<v>>, w) = <<v, w>>
<1> TAKE v, w
<1> DEFINE X == {v, w}  a == Append(<<v>>, w)  b == <<v, w>>
<1>1. <<v>> \in Seq(X) /\ Len(<<v>>) = 1 /\ <<v>>[1] = v
  OBVIOUS
<1>2. a \in Seq(X) /\ Len(a) = 2 /\ a[1] = v /\ a[2] = w
  BY <1>1
<1>3. b \in Seq(X) /\ Len(b) = 2 /\ b[1] = v /\ b[2] = w
  OBVIOUS
<1> HIDE DEF a, b, X
<1>4. \A i \in 1..2 : i = 1 \/ i = 2
  OBVIOUS
<1>5. a = b
  BY <1>2, <1>3, <1>4
<1> QED
  BY <1>5 DEF a, b

LEMMA EndedStays ==
    ASSUME BuildFields, GraphInv, graphBuild.at \in {"built"} \cup ReadStages, NEW stage \in ReadStages, Ended(stage)
    PROVE  /\ BuildFields' /\ GraphInv' /\ graphBuild'.of = graphBuild.of
           /\ graphBuild'.label = graphBuild.label /\ graphBuild'.written = graphBuild.written
           /\ graphBuild'.at = stage /\ graphBuild'.index = EndAfter /\ graphBuild'.side = EmptySide
           /\ graphBuild'.sides = Append(graphBuild.sides, SideAfter) /\ NoBrackets' = NoBrackets
<1> DEFINE i == EndAfter  x == Append(graphBuild.sides, SideAfter)
<1> HIDE DEF i, x
<1>1. Reads(stage, graphBuild.label, i, EmptySide, x, graphBuild.written)
  BY DEF Ended, i, x
<1>2. /\ BuildFields' /\ GraphInv' /\ graphBuild'.of = graphBuild.of
      /\ graphBuild'.label = graphBuild.label /\ graphBuild'.written = graphBuild.written
      /\ graphBuild'.at = stage /\ graphBuild'.index = i /\ graphBuild'.side = EmptySide
      /\ graphBuild'.sides = x /\ NoBrackets' = NoBrackets
  BY <1>1, GraphStays
<1> QED
  BY <1>2 DEF i, x

LEMMA ColumnKeeps == BuildFields /\ GraphInv /\ LabelInv /\ ReadColumn => BuildInv'
<1> SUFFICES ASSUME BuildFields, GraphInv, LabelInv, ReadColumn PROVE BuildInv'
  OBVIOUS
<1>1. graphBuild.at = "column"
  BY ColumnCases
<1>2. /\ graphBuild.at \in {"built"} \cup ReadStages /\ "column" \in ReadStages /\ "not an edge" \in ReadStages
      /\ "node" \in ReadStages /\ "split" \in ReadStages
  BY <1>1 DEF ReadStages
<1>3. CASE ~NoBrackets
  <2>1. BuildFields' /\ GraphInv' /\ ~NoBrackets' /\ graphBuild'.at \in ReadStages
    <3>1. CASE Broken
      BY <1>2, <1>3, <3>1, GraphStays DEF Broken
    <3>2. CASE Another
      BY <1>2, <1>3, <3>2, GraphStays DEF Another
    <3>3. ASSUME NEW stage \in {"node", "split"}, Ended(stage)
          PROVE  BuildFields' /\ GraphInv' /\ ~NoBrackets' /\ graphBuild'.at \in ReadStages
      <4>1. stage \in ReadStages
        BY DEF ReadStages
      <4> QED
        BY <1>2, <1>3, <3>3, <4>1, GraphStays DEF Ended
    <3> QED
      BY <3>1, <3>2, <3>3, ColumnCases
  <2>2. LabelInv'
    BY <2>1 DEF LabelInv, ReadStages
  <2> QED
    BY <2>1, <2>2 DEF BuildInv
<1>4. CASE NoBrackets
  <2>1. PICK d, e \in AllDefinitions(graphBuild.of) : \E s, t :
            /\ WellNamed(d) /\ WellNamed(e) /\ ReadAs(d, e, s, t)
            /\ \/ graphBuild.sides = <<>> /\ EndRead(d, 0, s)
               \/ graphBuild.sides = <<Told(d)>> /\ EndRead(e, s[Len(d.columns) + 1] + Len(Arrow), t)
    BY <1>1, <1>4, EndGiven
  <2>2. PICK s, t :
            /\ WellNamed(d) /\ WellNamed(e) /\ ReadAs(d, e, s, t)
            /\ \/ graphBuild.sides = <<>> /\ EndRead(d, 0, s)
               \/ graphBuild.sides = <<Told(d)>> /\ EndRead(e, s[Len(d.columns) + 1] + Len(Arrow), t)
    BY <2>1
  <2>3. EndsAt(graphBuild.label, d, e, s, t)
    BY <2>2 DEF ReadAs
  <2>4. LabelAt(graphBuild.label, d, 0, s) /\ LabelAt(graphBuild.label, e, s[Len(d.columns) + 1] + Len(Arrow), t)
        /\ graphBuild.label \in Texts
    BY <2>3 DEF EndsAt
  <2> DEFINE Kept == /\ BuildFields' /\ GraphInv' /\ graphBuild'.of = graphBuild.of
                     /\ graphBuild'.label = graphBuild.label /\ graphBuild'.written = graphBuild.written
  (* of one end: another column, or the end of it *)
  <2>5. ASSUME NEW x, NEW o, NEW st, WellNamed(x), LabelAt(graphBuild.label, x, o, st), EndRead(x, o, st)
        PROVE  \/ /\ Kept /\ graphBuild'.at = "column" /\ graphBuild'.sides = graphBuild.sides /\ EndRead(x, o, st)'
               \/ /\ ColumnAt(graphBuild.index) # <<>> /\ ~At(After, <<Comma>>) /\ At(After, <<Closing>>)
                  /\ SideAfter = Told(x) /\ After = st[Len(x.columns) + 1] /\ After \in Nat
    <3>1. PICK m \in 1..Len(x.columns) :
              /\ graphBuild.index = st[m] + 1
              /\ graphBuild.side = [node |-> x.node, columns |-> SubSeq(x.columns, 1, m - 1)]
      BY <1>1, <2>5 DEF EndRead
    <3>2. /\ Len(x.columns) \in Nat /\ st[m + 1] \in 1..Len(graphBuild.label)
          /\ ColumnAt(st[m] + 1) = <<x.columns[m], st[m + 1]>>
          /\ m < Len(x.columns) => At(st[m + 1], <<Comma>>)
          /\ m = Len(x.columns) => At(st[m + 1], <<Closing>>) /\ ~At(st[m + 1], <<Comma>>)
      BY <2>4, <2>5, NextColumn
    <3>3. ColumnAt(graphBuild.index) = <<x.columns[m], st[m + 1]>> /\ ColumnAt(graphBuild.index) # <<>> /\ After = st[m + 1]
      <4>1. ColumnAt(graphBuild.index) = <<x.columns[m], st[m + 1]>>
        BY <3>1, <3>2
      <4>2. \A v, w : <<v, w>> # <<>>
        OBVIOUS
      <4> QED
        BY <4>1, <4>2 DEF After
    <3>4. SideAfter = [node |-> x.node, columns |-> SubSeq(x.columns, 1, m)]
      <4>1. x.columns \in Seq(GivenNames)
        BY <2>5 DEF WellNamed
      <4>2. Append(SubSeq(x.columns, 1, m - 1), x.columns[m]) = SubSeq(x.columns, 1, m)
        BY <4>1, OneMore
      <4>3. ColumnAt(graphBuild.index)[1] = x.columns[m]
        BY <3>3
      <4>4. SideAfter = [graphBuild.side EXCEPT !.columns = Append(graphBuild.side.columns, x.columns[m])]
        BY <4>3 DEF SideAfter
      <4>5. graphBuild.side.columns = SubSeq(x.columns, 1, m - 1)
        BY <3>1
      <4>6. SideAfter = [graphBuild.side EXCEPT !.columns = SubSeq(x.columns, 1, m)]
        BY <4>2, <4>4, <4>5
      <4>7. \A v, c, n : [[node |-> v, columns |-> c] EXCEPT !.columns = n] = [node |-> v, columns |-> n]
        OBVIOUS
      <4> DEFINE c == SubSeq(x.columns, 1, m - 1)  n == SubSeq(x.columns, 1, m)
      <4>8. graphBuild.side = [node |-> x.node, columns |-> c] /\ SideAfter = [graphBuild.side EXCEPT !.columns = n]
        BY <3>1, <4>6
      <4> HIDE DEF c, n
      <4>9. SideAfter = [node |-> x.node, columns |-> n]
        BY <4>7, <4>8
      <4> QED
        BY <4>9 DEF n
    <3>5. CASE m < Len(x.columns)
      <4>1. Another
        <5>1. At(After, <<Comma>>)
          BY <3>2, <3>3, <3>5
        <5> QED
          BY <3>3, <5>1, ColumnCases
      <4>2. /\ Kept /\ graphBuild'.at = "column" /\ graphBuild'.sides = graphBuild.sides
            /\ graphBuild'.index = After + 1 /\ graphBuild'.side = SideAfter
        BY <1>2, <4>1, GraphStays DEF Another
      <4>3. m + 1 \in 1..Len(x.columns) /\ (m + 1) - 1 = m
        BY <3>2, <3>5
      <4>4. EndRead(x, o, st)'
        BY <3>3, <3>4, <4>2, <4>3 DEF EndRead
      <4> QED
        BY <4>2, <4>4
    <3>6. CASE m = Len(x.columns)
      <4>1. SideAfter = Told(x)
        <5>1. x.columns \in Seq(GivenNames)
          BY <2>5 DEF WellNamed
        <5>2. SubSeq(x.columns, 1, Len(x.columns)) = x.columns
          BY <5>1, OneMore
        <5> QED
          BY <3>4, <3>6, <5>2 DEF Told
      <4>2. After \in Nat
        BY <3>2, <3>3
      <4> QED
        BY <3>2, <3>3, <3>6, <4>1, <4>2
    <3> QED
      BY <3>2, <3>5, <3>6
  <2>6. Len(Arrow) = 4
    BY DEF Arrow
  <2>7. Kept /\ graphBuild'.at \in {"column", "node", "split"} /\ ReadAs(d, e, s, t)'
    <3>1. CASE graphBuild.sides = <<>> /\ EndRead(d, 0, s)
      <4>1. CASE Kept /\ graphBuild'.at = "column" /\ graphBuild'.sides = graphBuild.sides /\ EndRead(d, 0, s)'
        BY <2>2, <2>3, <3>1, <4>1 DEF ReadAs
      <4>2. CASE /\ ColumnAt(graphBuild.index) # <<>> /\ ~At(After, <<Comma>>) /\ At(After, <<Closing>>)
                 /\ SideAfter = Told(d) /\ After = s[Len(d.columns) + 1] /\ After \in Nat
        <5>1. At(After + 1, Arrow)
          <6>1. \A k \in 1..4 : After + k \in 1..Len(graphBuild.label) /\ graphBuild.label[After + k] = Arrow[k]
            BY <2>3, <2>6, <4>2 DEF EndsAt, StandsIn
          <6>2. DOMAIN Arrow = 1..4
            BY DEF Arrow
          <6>3. DOMAIN graphBuild.label = 1..Len(graphBuild.label)
            BY <2>4 DEF Texts
          <6>4. \A k \in 1..4 : After + 1 + k - 1 = After + k
            BY <4>2
          <6> QED
            BY <6>1, <6>2, <6>3, <6>4 DEF At, Stands
        <5>2. Ended("node")
          BY <3>1, <4>2, <5>1, ColumnCases
        <5>3. /\ Kept /\ graphBuild'.at = "node" /\ graphBuild'.index = EndAfter /\ graphBuild'.side = EmptySide
              /\ graphBuild'.sides = Append(graphBuild.sides, SideAfter)
          BY <1>2, <5>2, EndedStays
        <5>4. graphBuild'.sides = <<Told(d)>>
          <6>1. \A v : Append(<<>>, v) = <<v>>
            OBVIOUS
          <6> QED
            BY <3>1, <4>2, <5>3, <6>1
        <5>5. graphBuild'.index = s[Len(d.columns) + 1] + Len(Arrow) + 1
          <6>1. EndAfter = After + 1 + 4
            BY <2>6, <3>1 DEF EndAfter
          <6>2. After + 1 + 4 = After + 4 + 1
            BY <4>2
          <6> QED
            BY <2>6, <4>2, <5>3, <6>1, <6>2
        <5>6. EndRead(e, s[Len(d.columns) + 1] + Len(Arrow), t)'
          BY <5>3, <5>5 DEF EndRead
        <5> QED
          BY <2>2, <2>3, <5>3, <5>4, <5>6 DEF ReadAs
      <4> QED
        BY <2>2, <2>4, <2>5, <3>1, <4>1, <4>2
    <3>2. CASE graphBuild.sides = <<Told(d)>> /\ EndRead(e, s[Len(d.columns) + 1] + Len(Arrow), t)
      <4> DEFINE o == s[Len(d.columns) + 1] + Len(Arrow)
      <4>1. CASE Kept /\ graphBuild'.at = "column" /\ graphBuild'.sides = graphBuild.sides /\ EndRead(e, o, t)'
        BY <2>2, <2>3, <3>2, <4>1 DEF ReadAs
      <4>2. CASE /\ ColumnAt(graphBuild.index) # <<>> /\ ~At(After, <<Comma>>) /\ At(After, <<Closing>>)
                 /\ SideAfter = Told(e) /\ After = t[Len(e.columns) + 1] /\ After \in Nat
        <5>1. EndAfter = Len(graphBuild.label) + 1
          <6>1. After = Len(graphBuild.label)
            BY <2>3, <4>2 DEF EndsAt
          <6>2. \A v : <<v>> # <<>>
            OBVIOUS
          <6>3. EndAfter = After + 1 + 0
            BY <3>2, <6>2 DEF EndAfter
          <6>4. After + 1 + 0 = After + 1
            BY <4>2
          <6> QED
            BY <6>1, <6>3, <6>4
        <5>2. Ended("split")
          <6>2. \A v : <<v>> # <<>>
            OBVIOUS
          <6> QED
            BY <3>2, <4>2, <5>1, <6>2, ColumnCases
        <5>3. /\ Kept /\ graphBuild'.at = "split" /\ graphBuild'.sides = Append(graphBuild.sides, SideAfter)
          BY <1>2, <5>2, EndedStays
        <5>4. graphBuild'.sides = <<Told(d), Told(e)>>
          <6>1. \A v, w : Append(<<v>>, w) = <<v, w>>
            BY TwoInARow
          <6> QED
            BY <3>2, <4>2, <5>3, <6>1
        <5> QED
          BY <2>2, <2>3, <5>3, <5>4 DEF ReadAs
      <4> HIDE DEF o
      <4>3. LabelAt(graphBuild.label, e, o, t) /\ EndRead(e, o, t)
        BY <2>4, <3>2 DEF o
      <4> QED
        BY <2>2, <2>5, <4>1, <4>2, <4>3
    <3> QED
      BY <2>2, <3>1, <3>2
  <2>8. LabelInv'
    <3>1. \E x, y \in AllDefinitions(graphBuild'.of) : \E u, v : ReadAs(x, y, u, v)'
      BY <2>7
    <3> QED
      BY <2>7, <3>1 DEF LabelInv
  <2> QED
    BY <2>7, <2>8 DEF BuildInv
<1> QED
  BY <1>3, <1>4

-----------------------------------------------------------------------------
(* The build: what holds throughout                                             *)

LEMMA BuildGoesOn == BuildInv /\ [BuildNext]_graphBuild => BuildInv'
<1> SUFFICES ASSUME BuildInv, [BuildNext]_graphBuild PROVE BuildInv'
  OBVIOUS
<1>1. CASE UNCHANGED graphBuild
  <2>1. Reported(graphBuild.edges)' = Reported(graphBuild.edges)
    BY <1>1 DEF Reported
  <2>2. BuildFields' = BuildFields /\ NoBrackets' = NoBrackets
    BY <1>1 DEF BuildFields, NoBrackets
  <2>3. GraphInv' = GraphInv
    BY <1>1, <2>1 DEF GraphInv
  <2>4. \A d, e, s, t : ReadAs(d, e, s, t)' = ReadAs(d, e, s, t)
    BY <1>1 DEF ReadAs, EndRead
  <2>5. LabelInv' = LabelInv
    BY <1>1, <2>2, <2>4 DEF LabelInv
  <2> QED
    BY <1>1, <2>2, <2>3, <2>5 DEF BuildInv
<1>2. CASE BuildNext /\ graphBuild = Unbuilt
  <2>1. graphBuild.at = "over"
    BY <1>2 DEF Unbuilt
  <2> QED
    BY <1>2, <2>1 DEF BuildNext, Derive, ValidateGraph, WriteLabel, ReadNode, ReadColumn
<1>3. CASE BuildNext /\ graphBuild # Unbuilt
  <2>1. BuildFields /\ GraphInv /\ LabelInv
    BY <1>3 DEF BuildInv
  <2> QED
    BY <1>3, <2>1, DeriveKeeps, ValidateKeeps, WriteKeeps, NodeKeeps, ColumnKeeps DEF BuildNext
<1> QED
  BY <1>1, <1>2, <1>3

(* What the other programs do leaves the build alone. *)
LEMMA BuildFamily ==
    /\ Init => BuildInit \/ BuildIdle
    /\ [Next]_commandVars => [BuildNext]_graphBuild
<1>1. Init => BuildInit \/ BuildIdle
  BY DEF Init
<1>2. [Next]_commandVars => [BuildNext]_graphBuild
  BY DEF Next, commandVars
<1> QED
  BY <1>1, <1>2

(* Throughout a build the relationships are those of the logical entities that are *)
(* not left, a snapshot is refused for two of one name alone, and of a label what  *)
(* was read is a part of one end or the whole of it (builder/__init__.py,           *)
(* service/views.py).                                                               *)
THEOREM BuildInvariant == Spec => []BuildInv
<1>1. Init => BuildInv
  BY BuildFamily, BuildStarts
<1>2. BuildInv /\ [Next]_commandVars => BuildInv'
  BY BuildFamily, BuildGoesOn
<1> QED
  BY <1>1, <1>2, PTL DEF Spec

(* the claims of a definition are of the kinds the schema has *)
LEMMA ClaimsGiven ==
    ASSUME NEW nodes \in Intermediaries, NEW d \in AllDefinitions(nodes)
    PROVE  /\ d.universe \in {"complete", "partial", "unknown"} /\ d.unique \in {"one", "many", "unknown"}
           /\ d.total \in {"yes", "no", "unknown"} /\ d.conforms \in {"yes", "no", "unknown"}
<1> DEFINE N == [id : GivenNames, definitions : Seq(DefinitionsOf)]
<1>1. PICK i \in DOMAIN nodes : \E k \in DOMAIN nodes[i].definitions : d = KeyOf(nodes[i].id, nodes[i].definitions[k])
  BY DEF AllDefinitions
<1>2. PICK k \in DOMAIN nodes[i].definitions : d = KeyOf(nodes[i].id, nodes[i].definitions[k])
  BY <1>1
<1>3. nodes[i].definitions \in Seq(DefinitionsOf)
  <2>1. nodes \in Seq(N)
    BY IntermediariesAssumption
  <2>2. \A m \in N : m.definitions \in Seq(DefinitionsOf)
    OBVIOUS
  <2> HIDE DEF N
  <2>3. nodes[i] \in N
    BY <2>1
  <2> QED
    BY <2>2, <2>3
<1> DEFINE s == nodes[i].definitions  given == s[k]
<1>4. given \in DefinitionsOf
  <2> HIDE DEF s
  <2>1. s \in Seq(DefinitionsOf) /\ k \in DOMAIN s
    BY <1>3 DEF s
  <2> QED
    BY <2>1
<1>5. /\ given.universe \in {"complete", "partial", "unknown"} /\ given.unique \in {"one", "many", "unknown"}
      /\ given.total \in {"yes", "no", "unknown"} /\ given.conforms \in {"yes", "no", "unknown"}
  BY <1>4 DEF DefinitionsOf
<1>6. d = KeyOf(nodes[i].id, given)
  BY <1>2
<1> HIDE DEF given
<1> QED
  BY <1>5, <1>6 DEF KeyOf

(* Plain names make IDs that tell the relationships apart. *)
LEMMA PlainApart ==
    ASSUME NEW nodes \in Intermediaries, NEW left, \A d \in AllDefinitions(nodes) : Plain(d)
    PROVE  IdsApart(EdgesOf(AllDefinitions(nodes), left))
<1> DEFINE D == AllDefinitions(nodes)
<1>1. /\ \A d \in D : WellNamed(d) /\ Plain(d)
      /\ \A d, e \in D : SameKey(d, e) => d = e
  BY DefinitionsGiven
<1> HIDE DEF D
<1> SUFFICES ASSUME NEW p \in PairsOf(D, left), NEW q \in PairsOf(D, left), EdgeText(p[1], p[2]) = EdgeText(q[1], q[2])
             PROVE  EdgeOf(p) = EdgeOf(q)
  BY DEF IdsApart, EdgesOf, EdgeOf, D
<1>2. p[1] \in D /\ p[2] \in D /\ q[1] \in D /\ q[2] \in D
  BY DEF PairsOf
<1>3. SameKey(p[1], q[1]) /\ SameKey(p[2], q[2])
  BY <1>1, <1>2, SameEdgeText DEF SameKey
<1>4. p[1] = q[1] /\ p[2] = q[2]
  BY <1>1, <1>2, <1>3
<1> QED
  BY <1>4 DEF EdgeOf

(* Every two definitions of one logical entity are the ends of one relationship. *)
LEMMA PairOnce ==
    ASSUME NEW nodes \in Intermediaries, NEW d \in AllDefinitions(nodes), NEW e \in AllDefinitions(nodes),
           d # e, d.identity = e.identity
    PROVE  Cardinality({r \in EdgesOf(AllDefinitions(nodes), {}) : {r.a, r.b} = {d, e}}) = 1
<1> DEFINE D == AllDefinitions(nodes)  E == EdgesOf(D, {})
<1>1. WellNamed(d) /\ WellNamed(e) /\ ~SameKey(d, e)
  BY DefinitionsGiven
<1>2. (KeyLess(d, e) \/ KeyLess(e, d)) /\ ~(KeyLess(d, e) /\ KeyLess(e, d))
  BY <1>1, KeysOrdered
<1>3. PICK p \in {<<d, e>>, <<e, d>>} : p \in PairsOf(D, {}) /\ \A q \in {<<d, e>>, <<e, d>>} : q \in PairsOf(D, {}) => q = p
  <2>1. \A f, g \in D : f.identity = g.identity => (<<f, g>> \in PairsOf(D, {}) <=> KeyLess(f, g))
    BY DEF PairsOf
  <2>2. d \in D /\ e \in D
    OBVIOUS
  <2> HIDE DEF D
  <2>3. (<<d, e>> \in PairsOf(D, {}) <=> KeyLess(d, e)) /\ (<<e, d>> \in PairsOf(D, {}) <=> KeyLess(e, d))
    BY <2>1, <2>2
  <2> QED
    BY <1>2, <2>3
<1> HIDE DEF D
<1>4. EdgeOf(p) \in E /\ {EdgeOf(p).a, EdgeOf(p).b} = {d, e}
  BY <1>3 DEF EdgesOf, EdgeOf
<1>5. ASSUME NEW r \in E, {r.a, r.b} = {d, e}
      PROVE  r = EdgeOf(p)
  <2>1. PICK q \in PairsOf(D, {}) : r = EdgeOf(q)
    BY DEF EdgesOf
  <2>2. q = <<q[1], q[2]>> /\ q \in D \X D
    BY DEF PairsOf
  <2>3. r.a = q[1] /\ r.b = q[2]
    BY <2>1 DEF EdgeOf
  <2>4. q = <<d, e>> \/ q = <<e, d>>
    BY <1>5, <2>2, <2>3
  <2> QED
    BY <1>3, <2>1, <2>4
<1>6. {r \in E : {r.a, r.b} = {d, e}} = {EdgeOf(p)}
  BY <1>4, <1>5
<1> HIDE DEF E
<1> QED
  BY <1>6, FS_Singleton DEF D, E

(* What a claim leaves unknown comes from its ends. *)
LEMMA ClaimExplained ==
    ASSUME NEW a, NEW b, NEW direction, NEW c \in Claims(a, b, direction),
           a.universe \in {"complete", "partial", "unknown"}, b.universe \in {"complete", "partial", "unknown"},
           a.unique \in {"one", "many", "unknown"}, b.unique \in {"one", "many", "unknown"},
           a.total \in {"yes", "no", "unknown"}
    PROVE  \/ UnknownOf(a) # {} \/ UnknownOf(b) # {}
           \/ c = <<direction, "match_existence">> /\ a.universe = "partial"
<1>0. UnknownOf(a) = {f \in {"universe", "unique", "total", "conforms"} : a[f] = "unknown"}
      /\ UnknownOf(b) = {f \in {"universe", "unique", "total", "conforms"} : b[f] = "unknown"}
  BY DEF UnknownOf
<1>1. CASE c = <<direction, "multiplicity">> /\ DerivedMultiplicity(a, b) = <<"unknown", "unknown">>
  <2>1. a.unique = "unknown" \/ b.unique = "unknown"
    BY <1>1 DEF DerivedMultiplicity
  <2> QED
    BY <1>0, <2>1
<1>2. CASE c = <<direction, "match_existence">> /\ DerivedMatchExistence(a, b) = "unknown"
  <2>1. a.total = "unknown" \/ (a.total = "yes" /\ Contained(a, b) = "unknown")
    BY <1>2 DEF DerivedMatchExistence, Contained
  <2>2. CASE a.total = "unknown"
    BY <1>0, <2>2
  <2>3. CASE Contained(a, b) = "unknown"
    <3>1. a.universe # "complete" \/ b.universe = "unknown"
      BY <2>3 DEF Contained, Conforming
    <3> QED
      BY <1>0, <1>2, <3>1
  <2> QED
    BY <2>1, <2>2, <2>3
<1> QED
  BY <1>1, <1>2 DEF Claims

LEMMA SideLong == \A d : WellNamed(d) => Len(Side(d)) \in Nat /\ Len(Side(d)) > 1
<1> SUFFICES ASSUME NEW d, WellNamed(d) PROVE Len(Side(d)) \in Nat /\ Len(Side(d)) > 1
  OBVIOUS
<1>1. \A l, m, n, x, y, z : /\ n \in Nat /\ m \in Nat /\ x \in Nat /\ y \in Nat /\ z \in Nat
                           /\ n = x + 1 /\ m = n + y + 1 /\ l = m + z => l \in Nat /\ l > 1
  OBVIOUS
<1>2. /\ Identity(d) \in Nat /\ Columns(d) \in Nat
      /\ Len(d.node) \in Nat /\ Len(d.identity) \in Nat /\ Len(JoinedColumns(d)) \in Nat
      /\ Identity(d) = Len(d.node) + 1 /\ Columns(d) = Identity(d) + Len(d.identity) + 1
      /\ Len(Side(d)) = Columns(d) + Len(JoinedColumns(d))
  BY SideMade
<1> QED
  BY <1>1, <1>2

LEMMA BuildRead == BuildInv => NamesReadBack
<1> SUFFICES ASSUME BuildInv PROVE NamesReadBack
  OBVIOUS
<1>1. CASE graphBuild = Unbuilt
  <2>1. graphBuild.at = "over"
    BY <1>1 DEF Unbuilt
  <2> QED
    BY <2>1 DEF NamesReadBack, EveryPairOnce, LabelReadBack, UnknownExplained
<1>2. CASE graphBuild # Unbuilt
  <2> DEFINE D == AllDefinitions(graphBuild.of)
  <2>1. GraphInv /\ LabelInv
    BY <1>2 DEF BuildInv
  <2>2. graphBuild.of \in Intermediaries
    BY <2>1 DEF GraphInv
  <2>3. EveryPairOnce
    <3> SUFFICES ASSUME \A d \in D : Plain(d)
                 PROVE  /\ graphBuild.at # "refused"
                        /\ graphBuild.at # "derive" =>
                               \A d, e \in D : d # e /\ d.identity = e.identity =>
                                   Cardinality({r \in graphBuild.edges : {r.a, r.b} = {d, e}}) = 1
      BY DEF EveryPairOnce, PlainNames
    <3>1. graphBuild.at # "refused"
      <4>1. IdsApart(graphBuild.edges)
        BY <2>1, <2>2, PlainApart DEF GraphInv
      <4> QED
        BY <2>1, <4>1 DEF GraphInv
    <3>2. ASSUME graphBuild.at # "derive", NEW d \in D, NEW e \in D, d # e, d.identity = e.identity
          PROVE  Cardinality({r \in graphBuild.edges : {r.a, r.b} = {d, e}}) = 1
      <4>1. graphBuild.edges = EdgesOf(D, {})
        BY <2>1, <3>2 DEF GraphInv
      <4> HIDE DEF D
      <4>2. Cardinality({r \in EdgesOf(D, {}) : {r.a, r.b} = {d, e}}) = 1
        BY <2>2, <3>2, PairOnce DEF D
      <4> QED
        BY <4>1, <4>2
    <3> QED
      BY <3>1, <3>2
  <2>4. LabelReadBack
    <3> SUFFICES ASSUME NoBrackets
                 PROVE  graphBuild.at # "not an edge" /\ (graphBuild.at = "split" => graphBuild.sides = graphBuild.written)
      BY DEF LabelReadBack, NoBrackets
    <3>1. CASE graphBuild.at \in {"not an edge", "split"}
      <4>1. PICK d \in D : \E e \in D : \E s, t : ReadAs(d, e, s, t)
        BY <2>1, <3>1 DEF LabelInv, ReadStages
      <4>2. PICK e \in D : \E s, t : ReadAs(d, e, s, t)
        BY <4>1
      <4>3. graphBuild.sides = <<Told(d), Told(e)>> /\ graphBuild.at = "split"
        BY <3>1, <4>2 DEF ReadAs, EndRead
      <4>4. graphBuild.written = <<Told(d), Told(e)>>
        <5>1. graphBuild.written = [i \in 1..2 |-> IF i = 1 THEN Told(d) ELSE Told(e)]
          BY <4>2 DEF ReadAs
        <5> DEFINE v == Told(d)  w == Told(e)
        <5> HIDE DEF v, w
        <5>2. [i \in 1..2 |-> IF i = 1 THEN v ELSE w] = <<v, w>>
          OBVIOUS
        <5> QED
          BY <5>1, <5>2 DEF v, w
      <4> QED
        BY <4>3, <4>4
    <3> QED
      BY <3>1
  <2>5. UnknownExplained
    <3> SUFFICES ASSUME graphBuild.at \in {"built", "split"}, NEW r \in graphBuild.edges, NEW u \in graphBuild.unknown, u[1] = r.id
                 PROVE  \/ \E d \in {r.a, r.b} : \E v \in graphBuild.unknown : v[1] = <<d.node, d.identity, d.columns>>
                        \/ u[2] = <<"a_to_b", "match_existence">> /\ r.a.universe = "partial"
                        \/ u[2] = <<"b_to_a", "match_existence">> /\ r.b.universe = "partial"
      BY DEF UnknownExplained
    <3>1. graphBuild.unknown = Reported(graphBuild.edges) /\ IdsApart(graphBuild.edges)
      BY <2>1 DEF GraphInv, ReadStages
    <3>2. PICK p \in PairsOf(D, graphBuild.left) : r = EdgeOf(p)
      <4>1. graphBuild.edges = EdgesOf(D, graphBuild.left)
        BY <2>1 DEF GraphInv
      <4> QED
        BY <4>1 DEF EdgesOf
    <3>3. r.a \in D /\ r.b \in D /\ r.id = EdgeText(r.a, r.b)
      BY <3>2 DEF EdgeOf, PairsOf
    <3>4. WellNamed(r.a) /\ WellNamed(r.b)
      BY <2>2, <3>3, DefinitionsGiven
    <3>5. Len(r.id) > 3
      <4>1. Len(Side(r.a)) > 1 /\ Len(Side(r.b)) > 1
        BY <3>4, SideLong
      <4> QED
        BY <3>3, <3>4, <4>1, EdgeTextMade
    <3>6. \A d \in {r.a, r.b} : UnknownOf(d) # {} =>
              \E v \in graphBuild.unknown : v[1] = <<d.node, d.identity, d.columns>>
      <4> SUFFICES ASSUME NEW d \in {r.a, r.b}, NEW f \in UnknownOf(d)
                   PROVE  \E v \in graphBuild.unknown : v[1] = <<d.node, d.identity, d.columns>>
        OBVIOUS
      <4>1. <<<<d.node, d.identity, d.columns>>, f>> \in Reported(graphBuild.edges)
        BY <3>3 DEF Reported
      <4> QED
        BY <3>1, <4>1
    <3>7. PICK s \in graphBuild.edges : \E c \in Claims(s.a, s.b, "a_to_b") \cup Claims(s.b, s.a, "b_to_a") : u = <<s.id, c>>
      <4>1. CASE \E d \in D : \E f \in UnknownOf(d) : u = <<<<d.node, d.identity, d.columns>>, f>>
        <5>1. PICK d \in D : \E f \in UnknownOf(d) : u = <<<<d.node, d.identity, d.columns>>, f>>
          BY <4>1
        <5>2. r.id = <<d.node, d.identity, d.columns>>
          BY <5>1
        <5>3. Len(r.id) = 3
          BY <5>2
        <5> QED
          BY <3>5, <5>3
      <4>2. CASE \E s \in graphBuild.edges : \E c \in Claims(s.a, s.b, "a_to_b") \cup Claims(s.b, s.a, "b_to_a") : u = <<s.id, c>>
        BY <4>2
      <4> QED
        BY <3>1, <4>1, <4>2 DEF Reported
    <3>8. s = r
      BY <3>1, <3>7 DEF IdsApart
    <3>12. PICK c \in Claims(r.a, r.b, "a_to_b") \cup Claims(r.b, r.a, "b_to_a") : u[2] = c
      BY <3>7, <3>8
    <3>9. \A d \in {r.a, r.b} : /\ d.universe \in {"complete", "partial", "unknown"} /\ d.unique \in {"one", "many", "unknown"}
                               /\ d.total \in {"yes", "no", "unknown"}
      BY <2>2, <3>3, ClaimsGiven
    <3>10. CASE c \in Claims(r.a, r.b, "a_to_b")
      BY <3>6, <3>9, <3>10, <3>12, ClaimExplained
    <3>11. CASE c \in Claims(r.b, r.a, "b_to_a")
      BY <3>6, <3>9, <3>11, <3>12, ClaimExplained
    <3> QED
      BY <3>10, <3>11, <3>12
  <2> QED
    BY <2>3, <2>4, <2>5 DEF NamesReadBack
<1> QED
  BY <1>1, <1>2

(* What a build derives, reports and labels is read back from its texts: every two *)
(* definitions of plain names are related once, a label is split into the ends it  *)
(* was written for, and an unknown claim has a reason (builder/__init__.py,         *)
(* service/views.py split_edge_label).                                             *)
THEOREM NamesRead == Spec => []NamesReadBack
<1>1. Spec => []BuildInv
  BY BuildInvariant
<1> QED
  BY <1>1, BuildRead, PTL
=============================================================================
