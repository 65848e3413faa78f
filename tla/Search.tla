------------------------------- MODULE Search -------------------------------
(* Lexical search over the names and descriptions of a snapshot's objects:       *)
(* LexicalSearchIndex of service/search.py.  A word is a number, its place in    *)
(* the alphabetical order; raw text is a sequence of tokens, normalized text a   *)
(* sequence of words, and texts are ordered word by word.                        *)
EXTENDS Integers, Sequences, FiniteSets, SequencesExt

CONSTANTS
    Begins,        \* the pairs <<p, w>> of words such that w starts with p
    NormalForm,    \* the words that normalization makes of each token, possibly none
    Placeholders,  \* the normalized texts that describe nothing
    Catalogs,      \* what may be published: records [identities, datasets]
    SearchRequests \* records [query, kinds, limit]

Kinds == {"column", "dataset", "entity_definition", "identity"}

(* what an identity, a column, a definition and a dataset show to a search; a key *)
(* is the place of its text among all keys                                       *)
Texts         == Seq(DOMAIN NormalForm)
IdentityFacts == [key : Int, id : Texts, name : Texts, description : Texts, synonyms : Seq(Texts)]
ColumnFacts   == [key : Int, name : Texts, description : Texts, values : Texts, synonyms : Seq(Texts)]
EntityFacts   == [key : Int, identity : Texts, columns : Seq(Texts), expressions : Seq(Texts), metadata : Seq(Texts)]
DatasetFacts  == [key : Int, id : Texts, name : Texts, qualified : Texts, description : Texts, schema : Texts,
                  synonyms : Seq(Texts), tags : Seq(Texts), accessor : Seq(Texts),
                  definitions : Seq(EntityFacts), columns : Seq(ColumnFacts)]

ASSUME SearchAssumption ==
    /\ \A t \in DOMAIN NormalForm :
           NormalForm[t] \in Seq(Int) /\ \A w \in ToSet(NormalForm[t]) : <<w, w>> \in Begins
    /\ Catalogs \subseteq [identities : Seq(IdentityFacts), datasets : Seq(DatasetFacts)]
    /\ SearchRequests \subseteq [query : Texts, kinds : (SUBSET Kinds) \ {{}}, limit : Nat \ {0}]

VARIABLES
    subjects,    \* the index: the searchable objects of the loaded snapshot,
    entries,     \* and the records of its trie; nothing changes them
    sought,      \* the request under way
    lookup,      \* "idle", "exact", "prefix", "words", "ranking", "answered"
    unmet,       \* query words that no lookup was made for yet
    common,      \* word-match values that hold every query word looked up
    best,        \* the best match of each value that matched, a record [rank, term]
    groups       \* the answer: subjects, match rows and truncation for each kind

searchVars == <<subjects, entries, sought, lookup, unmet, common, best, groups>>

-----------------------------------------------------------------------------
(* Text                                                                         *)

Normal(text) == FlattenSeq([i \in DOMAIN text |-> NormalForm[text[i]]])

StartsWord(p, w) == <<p, w>> \in Begins

(* str.startswith over words joined by a blank *)
StartsText(prefix, term) ==
    LET n == Len(prefix) IN
    /\ n <= Len(term)
    /\ SubSeq(prefix, 1, n - 1) = SubSeq(term, 1, n - 1)
    /\ StartsWord(prefix[n], term[n])

TextLess(s, t) == \E i \in DOMAIN t :
    /\ i \notin DOMAIN s \/ s[i] < t[i]
    /\ \A j \in 1..(i - 1) : j \in DOMAIN s /\ s[j] = t[j]

(* sorted: the elements of a set, each after as many others as come before it     *)
InOrder(S, Less(_, _)) ==
    [n \in 1..Cardinality(S) |-> CHOOSE x \in S : Cardinality({y \in S : Less(y, x)}) = n - 1]

(* index_terms: the whole text and each of its words *)
Terms(text) == IF Normal(text) = <<>> THEN {}
               ELSE {Normal(text)} \cup {<<w>> : w \in ToSet(Normal(text))}

(* descriptive_text *)
Descriptive(text) == IF Normal(text) \in Placeholders THEN <<>> ELSE text

-----------------------------------------------------------------------------
(* The index: the subjects of the published objects and their values, in the     *)
(* order of LexicalSearchIndex.__init__                                          *)

(* SearchField: a subject lists equally good matches in this order *)
Field == [stable_id |-> 1, column |-> 2, canonical_name |-> 3, synonym |-> 4, tag |-> 5,
          qualified_name |-> 6, accessor |-> 7, dataset_columns |-> 8, expression |-> 9,
          metadata |-> 10, description |-> 11, value_description |-> 12]

Value(name, text)  == [field |-> Field[name], text |-> text]
Each(name, texts)  == [i \in DOMAIN texts |-> Value(name, texts[i])]

(* add_subject: a value without terms is left out *)
Subject(kind, key, label, values) ==
    LET kept == InOrder({i \in DOMAIN values : Terms(values[i].text) # {}}, LAMBDA i, j : i < j)
    IN  [kind |-> kind, key |-> key, label |-> Normal(label),
         values |-> [n \in DOMAIN kept |-> values[kept[n]]]]

OfIdentity(o) == Subject("identity", o.key, o.name,
    <<Value("stable_id", o.id), Value("canonical_name", o.name),
      Value("description", Descriptive(o.description))>> \o Each("synonym", o.synonyms))

OfDataset(o) == Subject("dataset", o.key, o.name,
    <<Value("stable_id", o.id), Value("canonical_name", o.name), Value("qualified_name", o.qualified),
      Value("description", Descriptive(o.description)), Value("accessor", o.schema)>>
    \o Each("synonym", o.synonyms) \o Each("tag", o.tags) \o Each("accessor", o.accessor))

OfDefinition(o) == Subject("entity_definition", o.key,
    IF o.expressions = <<>> THEN o.identity ELSE o.expressions[1],
    <<Value("stable_id", o.identity)>> \o Each("dataset_columns", o.columns)
    \o Each("expression", o.expressions) \o Each("metadata", o.metadata))

OfColumn(o) == Subject("column", o.key, o.name,
    <<Value("column", o.name), Value("description", Descriptive(o.description)),
      Value("value_description", Descriptive(o.values))>> \o Each("synonym", o.synonyms))

Map(Op(_), seq) == [i \in DOMAIN seq |-> Op(seq[i])]

SubjectsOf(catalog) ==
    Map(OfIdentity, catalog.identities)
    \o FlattenSeq(Map(LAMBDA o : <<OfDataset(o)>> \o Map(OfDefinition, o.definitions)
                                 \o Map(OfColumn, o.columns), catalog.datasets))

(* No two subjects of a kind have one key.  Ids, the columns of a dataset and its  *)
(* definitions all differ (model/snapshot.py, model/dataset.py), but a key joins   *)
(* its parts by "|" and "+": definitions over columns "a", "b" and over one column *)
(* "a+b" would share theirs.                                                       *)
KeysDiffer == \A catalog \in Catalogs :
    LET all == SubjectsOf(catalog)
    IN  \A s, t \in DOMAIN all : s # t /\ all[s].kind = all[t].kind => all[s].key # all[t].key

(* a value: the ordinals of its subject and of its place there *)
IndexedValues == UNION {{s} \X DOMAIN subjects[s].values : s \in DOMAIN subjects}
TextOf(v)  == subjects[v[1]].values[v[2]].text
FieldOf(v) == subjects[v[1]].values[v[2]].field
KindOf(v)  == subjects[v[1]].kind

(* _record_trie *)
EntriesOf(values) == UNION {{[term |-> t, value |-> v] : t \in Terms(TextOf(v))} : v \in values}

(* _WORD_MATCH_FIELDS *)
WordMatched(v) ==
    \/ KindOf(v) = "dataset" /\ FieldOf(v) \in {Field.qualified_name, Field.canonical_name}
    \/ KindOf(v) = "identity" /\ FieldOf(v) = Field.canonical_name

-----------------------------------------------------------------------------
(* search                                                                       *)

Query    == Normal(sought.query)
Searched == {v \in IndexedValues : KindOf(v) \in sought.kinds}

Exact == 0
Prefix == 1
Phrase == 2
AllWords == 3
Match(v, rank, term) == [value |-> v, rank |-> rank, term |-> term]
Better(m, n) == m.rank < n.rank \/ (m.rank = n.rank /\ TextLess(m.term, n.term))

(* Mutated form: the match found last is kept. *)
ConsiderLast(matches) ==
    [v \in {m.value : m \in matches} |->
        CHOOSE m \in matches : m.value = v /\ \A n \in matches : n.value = v => ~Better(m, n)] @@ best

(* consider: each value keeps its best match *)
Consider(matches) ==
    LET known == matches \cup {best[v] : v \in DOMAIN best}
    IN  [v \in {m.value : m \in known} |->
            CHOOSE m \in known : m.value = v /\ \A n \in known : n.value = v => ~Better(n, m)]

NoGroups == [k \in {} |-> <<>>]
NoSearch == [query |-> <<>>, kinds |-> Kinds, limit |-> 1]
SearchFresh(label, r) ==
    /\ sought = r /\ lookup = label /\ unmet = {} /\ common = {}
    /\ best = <<>> /\ groups = NoGroups
    /\ entries = EntriesOf(IndexedValues)

SearchIdle == subjects = <<>> /\ SearchFresh("idle", NoSearch)
SearchInit ==
    /\ \E catalog \in Catalogs : subjects = SubjectsOf(catalog)
    /\ \E r \in SearchRequests : SearchFresh("exact", r)

(* a query without words: one empty group for each kind *)
AnswerBlank ==
    /\ lookup = "exact" /\ Query = <<>>
    /\ lookup' = "answered"
    /\ groups' = [k \in sought.kinds |-> [subjects |-> <<>>, rows |-> <<>>, truncated |-> FALSE]]
    /\ UNCHANGED <<subjects, entries, sought, unmet, common, best>>

LookUpExact ==
    /\ lookup = "exact" /\ Query # <<>>
    /\ lookup' = "prefix"
    /\ best' = Consider({Match(e.value, Exact, Query) :
                            e \in {e \in entries : e.term = Query /\ e.value \in Searched}})
    /\ UNCHANGED <<subjects, entries, sought, unmet, common, groups>>

LookUpPrefix ==
    /\ lookup = "prefix"
    /\ best' = Consider({Match(e.value, Prefix, e.term) :
                            e \in {e \in entries : /\ StartsText(Query, e.term) /\ e.term # Query
                                                   /\ e.value \in Searched}})
    /\ lookup' = IF Len(Query) > 1 THEN "words" ELSE "ranking"
    /\ unmet' = IF Len(Query) > 1 THEN ToSet(Query) ELSE {}
    /\ common' = IF Len(Query) > 1 THEN Searched ELSE {}
    /\ UNCHANGED <<subjects, entries, sought, groups>>

(* _values_with_every_word, one word at a time; the code starts with the longest *)
LookUpWord(word) ==
    LET found == {e.value : e \in {e \in entries : StartsText(<<word>>, e.term)}}
    IN  /\ lookup = "words" /\ word \in unmet
        /\ common' = {v \in common \cap found : WordMatched(v)}
        /\ unmet' = IF common' = {} THEN {} ELSE unmet \ {word}
        /\ UNCHANGED <<subjects, entries, sought, lookup, best, groups>>

Least(S) == CHOOSE i \in S : \A j \in S : i <= j

(* _word_match of a value that holds every query word *)
WordMatch(v) ==
    LET words == Normal(TextOf(v))
        Starting(q) == {i \in DOMAIN words : StartsWord(Query[q], words[i])}
        phrases == {i \in 0..(Len(words) - Len(Query)) :
                       \A q \in DOMAIN Query : i + q \in Starting(q)}
    IN  IF phrases # {}
        THEN Match(v, Phrase, SubSeq(words, Least(phrases) + 1, Least(phrases) + Len(Query)))
        ELSE Match(v, AllWords, [q \in DOMAIN Query |-> words[Least(Starting(q))]])

RankWords ==
    /\ lookup = "words" /\ unmet = {}
    /\ lookup' = "ranking"
    /\ best' = Consider({WordMatch(v) : v \in common})
    /\ UNCHANGED <<subjects, entries, sought, unmet, common, groups>>

BestOf(s) == Least({best[v].rank : v \in {v \in DOMAIN best : v[1] = s}})

ShownBefore(s, t) ==
    LET a == subjects[s]  b == subjects[t] IN
    \/ BestOf(s) < BestOf(t)
    \/ /\ BestOf(s) = BestOf(t)
       /\ TextLess(a.label, b.label) \/ (a.label = b.label /\ a.key < b.key)

RowBefore(v, w) ==
    \/ best[v].rank < best[w].rank
    \/ /\ best[v].rank = best[w].rank
       /\ FieldOf(v) < FieldOf(w) \/ (FieldOf(v) = FieldOf(w) /\ v[2] < w[2])

(* _group: the match rows of one subject *)
Rows(s) == LET rows == InOrder({v \in DOMAIN best : v[1] = s}, RowBefore)
           IN  [i \in DOMAIN rows |-> best[rows[i]]]

KindGroup(kind) ==
    LET matched == InOrder({v[1] : v \in {v \in DOMAIN best : KindOf(v) = kind}}, ShownBefore)
        shown   == SubSeq(matched, 1, Least({Len(matched), sought.limit}))
    IN  [subjects |-> shown, rows |-> FlattenSeq(Map(Rows, shown)),
         truncated |-> Len(matched) > sought.limit]

AnswerSearch ==
    /\ lookup = "ranking"
    /\ lookup' = "answered"
    /\ groups' = [k \in sought.kinds |-> KindGroup(k)]
    /\ UNCHANGED <<subjects, entries, sought, unmet, common, best>>

SearchNext ==
    \/ AnswerBlank
    \/ LookUpExact
    \/ LookUpPrefix
    \/ \E word \in unmet : LookUpWord(word)
    \/ RankWords
    \/ AnswerSearch

-----------------------------------------------------------------------------
(* Reference                                                                    *)

(* the words of a value that start the query words, one place for each of them *)
Places(v) == {f \in [DOMAIN Query -> DOMAIN Normal(TextOf(v))] :
                 \A q \in DOMAIN Query : StartsWord(Query[q], Normal(TextOf(v))[f[q]])}
InARow(f) == \A q \in DOMAIN f : f[q] = f[1] + q - 1

(* "exact, then prefix, then, for a multi-word query and a word-match value,     *)
(* phrase, then all_words"                                                       *)
Ranks(v) == {rank \in Exact..AllWords :
    CASE rank = Exact  -> Query \in Terms(TextOf(v))
      [] rank = Prefix -> \E t \in Terms(TextOf(v)) : StartsText(Query, t)
      [] rank = Phrase -> Len(Query) > 1 /\ WordMatched(v) /\ \E f \in Places(v) : InARow(f)
      [] OTHER         -> Len(Query) > 1 /\ WordMatched(v) /\ Places(v) # {}}

Found == IF Query = <<>> THEN {} ELSE {v \in Searched : Ranks(v) # {}}
Rank(v) == Least(Ranks(v))

(* subject s of kind k is placed before subject t *)
Precedes(s, t) ==
    LET Key(u) == <<Least({Rank(v) : v \in {v \in Found : v[1] = u}}), subjects[u].label, subjects[u].key>>
    IN  \/ Key(s)[1] < Key(t)[1]
        \/ Key(s)[1] = Key(t)[1] /\ TextLess(Key(s)[2], Key(t)[2])
        \/ Key(s)[1] = Key(t)[1] /\ Key(s)[2] = Key(t)[2] /\ Key(s)[3] < Key(t)[3]

-----------------------------------------------------------------------------
(* Properties                                                                   *)

(* What an answer holds, whatever the lookups met first: of the subjects with a  *)
(* matching value, those no omitted one is better than, in order, and all of     *)
(* them unless the group says truncated; for each of them one row for every      *)
(* matching value, of the best type by which the value matches, its rows by type *)
(* and field; a placeholder matches nothing.                                     *)
SearchFindsBest ==
    lookup = "answered" => \A k \in sought.kinds :
        LET g == groups[k]
            eligible == {v[1] : v \in {v \in Found : KindOf(v) = k}}
        IN  /\ ToSet(g.subjects) \subseteq eligible
            /\ Len(g.subjects) <= sought.limit
            /\ \A i, j \in DOMAIN g.subjects : i < j => Precedes(g.subjects[i], g.subjects[j])
            /\ \A s \in ToSet(g.subjects) : \A t \in eligible \ ToSet(g.subjects) : Precedes(s, t)
            /\ g.truncated <=> eligible # ToSet(g.subjects)
            /\ g.truncated => Len(g.subjects) = sought.limit
            /\ {<<r.value, r.rank>> : r \in ToSet(g.rows)}
                   = {<<v, Rank(v)>> : v \in {v \in Found : v[1] \in ToSet(g.subjects)}}
            /\ Len(g.rows) = Cardinality({r.value : r \in ToSet(g.rows)})
            /\ \A v \in {r.value : r \in ToSet(g.rows)} :
                   FieldOf(v) >= Field.description => Normal(TextOf(v)) \notin Placeholders
            /\ \A i, j \in DOMAIN g.rows : i < j =>
                   LET v == g.rows[i].value  w == g.rows[j].value IN
                   v[1] = w[1] => Rank(v) < Rank(w) \/ (Rank(v) = Rank(w) /\ FieldOf(v) <= FieldOf(w))
=============================================================================
