------------------------------- MODULE Search -------------------------------
(***************************************************************************)
(* Search over the index: the row build_row makes of an Article            *)
(* (index/indexer.py) and the queries over the rows (index/query.py).      *)
(*                                                                         *)
(* A text is the set of its words.  A SearchFilters is a function from the *)
(* filters in force to their values.  The rank of a hit, its headlines and *)
(* the prefix form of the last word are left out.                          *)
(***************************************************************************)
EXTENDS Access, Edtf, FiniteSets, Functions, TLC

CONSTANTS
    ChainOf,    \* the resolved chain of every Collection, <<>> where it is broken
    PageTexts,  \* MediaText: [hash, page, words]
    ThisYear    \* the year an open-ended date is counted to, less one

ASSUME SearchAssumption ==
    /\ DOMAIN ChainOf = Collections
    /\ \A c \in Collections : ChainOf[c] # <<>> => ChainOf[c][1].ulid = c

NoDay == <<0, 0, 0>>  \* date_earliest or date_latest IS NULL
NoCode == 0      \* ref_code IS NULL
Nothing == ""    \* any other column that IS NULL
Last == 100000000  \* sorts after every value: nulls_last

(***************************************************************************)
(* The row.  A chain that does not resolve gives a row that names no       *)
(* ancestor and that archivists alone find.                                *)
(***************************************************************************)
NoDate == [from |-> OpenEnd, to |-> OpenEnd]

DateColumns(date) ==
    IF date = NoDate THEN [earliest |-> NoDay, latest |-> NoDay, decades |-> {}]
    ELSE [earliest |-> Earliest(date),
          latest |-> IF date.to = OpenEnd THEN NoDay ELSE Latest(date),
          decades |-> Decades(date, ThisYear)]

RowOf(article) ==
    LET chain == ChainOf[article.collection]
        dates == DateColumns(article.date)
        scope == ScopeColumns(EffectiveAudience(article, chain))
    IN  [ulid |-> article.ulid, title |-> article.title, words |-> article.words,
         archivist_words |-> article.floored, creator |-> article.creator,
         place |-> article.place, ref_code |-> article.ref_code,
         media_type |-> article.media_type, document_type |-> article.document_type,
         tags |-> article.tags, draft |-> ~article.published, template |-> article.template,
         added |-> article.added, deleted |-> article.deleted,
         kinds |-> {file.kind : file \in article.files},
         hashes |-> {file.hash : file \in article.files},
         collection |-> article.collection,
         ancestors |-> {chain[i].ulid : i \in DOMAIN chain},
         earliest |-> dates.earliest, latest |-> dates.latest, decades |-> dates.decades,
         archivist_only |-> scope.archivist_only, tier |-> scope.tier, groups |-> scope.groups]

(***************************************************************************)
(* The rows a viewer may see on one side of the Papierkorb, and those of   *)
(* them a text matches.  Only an Archivist's text is looked for in the     *)
(* floored fields; a text of negated words alone is looked for in no page. *)
(***************************************************************************)
Scoped(viewer, rows, deleted) == {r \in rows : ViewerScope(viewer, r) /\ r.deleted = deleted}

Blank == [words |-> {}, lacks |-> {}, code |-> NoCode, inside |-> {}]

MatchedVectorWhole(viewer, row) == row.words \union row.archivist_words

MatchedVector(viewer, row) ==
    row.words \union (IF viewer.role = "archivist" THEN row.archivist_words ELSE {})

(* A text of stop words alone matches nothing. *)
Matches(text, words) ==
    /\ text.words \union text.lacks # {}
    /\ text.words \subseteq words
    /\ text.lacks \intersect words = {}

MatchingPages(text) == {p \in PageTexts : text.words # {} /\ Matches(text, p.words)}

ApplyText(viewer, rows, text) ==
    {r \in rows :
        \/ text = Blank
        \/ Matches(text, MatchedVector(viewer, r))
        \/ \E p \in MatchingPages(text) : p.hash \in r.hashes
        \/ r.ref_code = text.code /\ text.code # NoCode}

(***************************************************************************)
(* The filters                                                             *)
(***************************************************************************)
(* The values a row carries under a filter that is counted as a facet. *)
Carried(row, key) ==
    CASE key = "collection" -> row.ancestors
      [] key = "decade" -> row.decades
      [] key = "tag" -> DOMAIN row.tags
      [] key = "file" -> row.kinds
      [] key \in {"media_type", "document_type", "creator", "place"} -> {row[key]} \ {Nothing}

(* A row without a date overlaps no range; one without an end is open.     *)
Admits(row, key, value) ==
    CASE key = "dateless" -> row.earliest = NoDay
      [] key = "date_from" ->
             row.earliest # NoDay /\ (NotAfter(value, row.latest) \/ row.latest = NoDay)
      [] key = "date_to" -> row.earliest # NoDay /\ NotAfter(row.earliest, value)
      [] key = "digital" -> row.kinds # {}
      [] key = "drafts" -> row.draft
      [] key = "templates" -> row.template
      [] OTHER -> value \in Carried(row, key)

ApplyFilters(rows, filters) ==
    {r \in rows : \A key \in DOMAIN filters : Admits(r, key, filters[key])}

(* The Dokumenttyp sits under the Medienart. *)
Nested(key) == {key} \union (IF key = "media_type" THEN {"document_type"} ELSE {})
Without(filters, key) == Restrict(filters, DOMAIN filters \ Nested(key))

(***************************************************************************)
(* The order of the hits ends on the ulid; a page is a slice of it.        *)
(***************************************************************************)
DayNumber(day) == 10000 * day[1] + 100 * day[2] + day[3]

SortKey(row, text, sort, descending) ==
    LET turned(key) == IF descending THEN -key ELSE key IN
    CASE sort = "relevance" ->
             IF text = Blank THEN 0
             ELSE row.title + (IF row.ref_code = text.code /\ text.code # NoCode THEN 0 ELSE Last)
      [] sort = "ref_code" -> IF row.ref_code = NoCode THEN Last ELSE turned(row.ref_code)
      [] sort = "date" -> IF row.earliest = NoDay THEN Last ELSE turned(DayNumber(row.earliest))
      [] sort = "title" -> turned(row.title)
      [] sort = "added" -> -row.added

PageOf(found, text, query) ==
    LET key(r) == SortKey(r, text, query.sort, query.descending)
        before(a, b) == key(a) < key(b) \/ (key(a) = key(b) /\ a.ulid < b.ulid)
        place(r) == Cardinality({o \in found : before(o, r)})
        start == (query.page - 1) * query.page_size
    IN  {r \in found : place(r) \in start..(start + query.page_size - 1)}

(* A hit carries no floored column. *)
Hit(row, text) ==
    [column \in {"ulid", "title", "ref_code", "document_type", "media_type", "collection",
                 "draft", "template", "deleted", "added", "kinds"} |-> row[column]]
    @@ [text_pages |-> {<<p.hash, p.page>> : p \in {q \in MatchingPages(text) : q.hash \in row.hashes}}]

(***************************************************************************)
(* The counts beside the hits: each facet under every filter but its own.  *)
(* The Schlagworte are a bag (a form may name one twice) and every naming  *)
(* of one is counted.                                                      *)
(***************************************************************************)
Times(row, key, value) == IF key = "tag" THEN row.tags[value] ELSE 1

Facet(matched, filters, key) ==
    LET narrowed == ApplyFilters(matched, Without(filters, key)) IN
    [value \in UNION {Carried(r, key) : r \in narrowed} |->
        Cardinality(UNION {{r.ulid} \X (1..Times(r, key, value)) :
                              r \in {o \in narrowed : value \in Carried(o, key)}})]

(* A date range would zero this count, so it is set aside. *)
DatelessCount(matched, filters) ==
    LET others == Restrict(filters, DOMAIN filters \ {"dateless", "date_from", "date_to"}) IN
    Cardinality({r \in ApplyFilters(matched, others) : Admits(r, "dateless", "1")})

(* What suggestions offer of one field: the values the text is inside of. *)
ValuesContaining(viewer, rows, key, text, filters) ==
    LET counted == Facet(Scoped(viewer, rows, FALSE), filters, key) IN
    Restrict(counted, DOMAIN counted \intersect text.inside)

Matched(viewer, rows, query) ==
    ApplyText(viewer, Scoped(viewer, rows, query.deleted), query.text)
Found(viewer, rows, query) == ApplyFilters(Matched(viewer, rows, query), query.filters)

SearchPage(viewer, rows, query, facets) ==
    [hits |-> {Hit(r, query.text) : r \in PageOf(Found(viewer, rows, query), query.text, query)},
     total |-> Cardinality(Found(viewer, rows, query)),
     facets |-> [key \in facets |-> Facet(Matched(viewer, rows, query), query.filters, key)],
     dateless_count |-> DatelessCount(Matched(viewer, rows, query), query.filters)]
=============================================================================
