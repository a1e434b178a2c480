------------------------------ MODULE Workbench ------------------------------
(***************************************************************************)
(* The list of Articles and the links on it: the state of the list is its  *)
(* query string (app/web/browse.py), the links are built from it and from  *)
(* the counts of the index (browse_views.py, ledger.py), the start page    *)
(* (start.py) and the suggestions (suggestions.py) lead into it.           *)
(*                                                                         *)
(* A query string is a function from its params to their values, blank     *)
(* ones left out.  Of each link the model remembers what its words promise *)
(* of the list behind it.                                                  *)
(***************************************************************************)
EXTENDS Search

CONSTANTS
    Archives,   \* the records there may be at first
    Entries,    \* the query strings of an old, a shared or a hand-made link
    Editions,   \* the records a save may put in place of the one with their ulid
    Texts,      \* what may be typed into the search field
    Roots,      \* the Collections without a parent
    Schrifttum, \* the one Medienart with a Dokumenttyp slot
    PageSize,   \* the default size of a page
    PageSizes,
    MaxClicks

VARIABLES
    archive,    \* the records
    rows,       \* their index
    viewer,
    params,     \* the query string of the list on screen
    promise,    \* what the link that led here said of this list
    clicks

vars == <<archive, rows, viewer, params, promise, clicks>>

ASSUME WorkbenchAssumption == PageSize \in PageSizes /\ PageSizes \subseteq Nat \ {0}

(* Records have one ulid each, the fields a row is built of, and what      *)
(* visibility depends on as Access has it; a number stands for a place in  *)
(* an order.                                                               *)
PlacementOf(a) ==
    [collection |-> a.collection, published |-> a.published, template |-> a.template,
     deleted |-> a.deleted, audience |-> a.audience]

ASSUME ChainsAssumption == \A c \in Collections : ChainOf[c] \in Chains
ASSUME RecordsAssumption ==
    /\ \A a \in (UNION Archives) \union Editions :
          /\ DOMAIN a = {"ulid", "title", "words", "floored", "creator", "place", "ref_code",
                         "media_type", "document_type", "tags", "published", "template", "deleted",
                         "audience", "added", "files", "date", "collection"}
          /\ PlacementOf(a) \in Placed
          /\ {a.ulid, a.title, a.ref_code, a.added} \subseteq Nat
          /\ a.date = NoDate \/ Accepted(a.date)
          /\ \A tag \in DOMAIN a.tags : a.tags[tag] \in Nat \ {0}
    /\ \A kept \in Archives : /\ IsFiniteSet(kept)
                              /\ \A a, b \in kept : a.ulid = b.ulid => a = b

FilterParams ==
    {"collection", "media_type", "document_type", "tag", "creator", "place", "decade", "dateless",
     "date_from", "date_to", "digital", "file", "drafts", "templates"}

(***************************************************************************)
(* parse_query: a malformed value falls to its default.                    *)
(***************************************************************************)
Malformed == -1  \* a decade that is no number

Param(p, key, default) == IF key \in DOMAIN p THEN p[key] ELSE default

Sorts == {"relevance", "ref_code", "date", "title", "added"}

ParamsOK(p) ==
    /\ "page" \in DOMAIN p => p["page"] \in Nat \ {0}
    /\ "page_size" \in DOMAIN p => p["page_size"] \in PageSizes
    /\ "sort" \in DOMAIN p => p["sort"][1] \in Sorts

ASSUME EntriesAssumption == \A p \in Entries : ParamsOK(p)

Filters(p) ==
    Restrict(p, {key \in DOMAIN p \intersect FilterParams : key = "decade" => p[key] # Malformed})

Rising(column) == <<column, FALSE>>
Falling(column) == <<column, TRUE>>

Query(p) ==
    [text |-> Param(p, "q", Blank), filters |-> Filters(p), deleted |-> FALSE,
     sort |-> Param(p, "sort", Rising("relevance"))[1],
     descending |-> Param(p, "sort", Rising("relevance"))[2],
     page |-> Param(p, "page", 1), page_size |-> Param(p, "page_size", PageSize)]

(* A query reads in the Lesesaal unless the table is asked for. *)
Reading(p) == "q" \in DOMAIN p /\ "view" \notin DOMAIN p

(***************************************************************************)
(* The link helpers: a link that changes a param leaves its page and what  *)
(* depends on it behind.                                                   *)
(***************************************************************************)
Setting(key, value, p) == [k \in {key} \union DOMAIN p |-> IF k = key THEN value ELSE p[k]]

ChangingAlone(p, key) == Restrict(p, DOMAIN p \ {key, "page"})

Changing(p, key) == Restrict(p, DOMAIN p \ (Nested(key) \union {"page"}))
WithParam(p, key, value) == Setting(key, value, Changing(p, key))
WithoutParam(p, key) == Changing(p, key)
ClearFilters(p) == Restrict(p, DOMAIN p \ (FilterParams \union {"page"}))
PagingQuery(p, key, value) == Setting(key, value, Restrict(p, DOMAIN p \ {"page", key}))
FormFilters(p) == Restrict(p, DOMAIN p \intersect (FilterParams \union {"sort", "view", "page_size"}))

(***************************************************************************)
(* The list on screen                                                      *)
(***************************************************************************)
All(p) == Found(viewer, rows, Query(p))
Total(p) == Cardinality(All(p))
Shown(p) == {r.ulid : r \in PageOf(All(p), Query(p).text, Query(p))}
Counts(p, key) == Facet(Matched(viewer, rows, Query(p)), Filters(p), key)
Undated(p) == DatelessCount(Matched(viewer, rows, Query(p)), Filters(p))

(***************************************************************************)
(* The search sentence: its slots, and every filter no slot shows.         *)
(***************************************************************************)
Typed(f) == Param(f, "media_type", Nothing) = Schrifttum
UndatedSlot(f) == "dateless" \in DOMAIN f /\ "decade" \notin DOMAIN f

SlotParams(f) ==
    {"collection", IF UndatedSlot(f) THEN "dateless" ELSE "decade", "media_type"}
    \union {key \in {"document_type"} : Typed(f)}
Menus(f) == {"collection", "decade", "media_type"} \union {key \in {"document_type"} : Typed(f)}

UnslottedUntyped(f) ==
    {"tag", "creator", "place", "date_from", "date_to", "digital", "file", "drafts", "templates"}
    \union {key \in {"dateless"} : ~UndatedSlot(f)}

Unslotted(f) ==
    {"tag", "creator", "place", "date_from", "date_to", "digital", "file", "drafts", "templates"}
    \union {key \in {"document_type"} : ~Typed(f)}
    \union {key \in {"dateless"} : ~UndatedSlot(f)}

SetParams(f) == (SlotParams(f) \union Unslotted(f)) \intersect DOMAIN f

(* A set slot is cleared from its menu, the Dokumenttyp with its Medienart *)
(* too; any other set filter is a link that removes it.                    *)
Removals(p) == {WithoutParam(p, key) : key \in SetParams(Filters(p))}

NoParams == [key \in {} |-> Nothing]

(***************************************************************************)
(* What a link promises of the list it opens: how many Articles it has,    *)
(* which ones, and of its page which ones it shows, which not, how many.   *)
(***************************************************************************)
Anything ==
    [least |-> 0, most |-> Cardinality(archive), has |-> {}, shows |-> {}, hides |-> {}, fills |-> 0]
Lesser(a, b) == IF a < b THEN a ELSE b
AtLeast(n) == [Anything EXCEPT !.least = n, !.fills = Lesser(n, 1)]
AtMost(n) == [Anything EXCEPT !.most = n]
Exactly(n) == [AtLeast(n) EXCEPT !.most = n]
Having(ulid) == [AtLeast(1) EXCEPT !.has = {ulid}]
SameCount == Exactly(Total(params))

Init ==
    /\ archive \in Archives
    /\ rows = {RowOf(a) : a \in archive}
    /\ viewer \in Viewers
    /\ params \in Entries
    /\ promise = Anything
    /\ clicks = 0

Open(to, said) ==
    /\ clicks < MaxClicks
    /\ clicks' = clicks + 1
    /\ params' = to
    /\ promise' = said
    /\ UNCHANGED <<archive, rows, viewer>>

(* A value of a slot's menu or of "+ Filter": the set one removes its      *)
(* filter, any other says how many it leaves.                              *)
PickValue ==
    \E key \in Menus(Filters(params)) \union {"file"} :
        \E value \in DOMAIN Counts(params, key) :
            IF key \in DOMAIN params /\ value = params[key]
            THEN Open(WithoutParam(params, key), AtLeast(Total(params)))
            ELSE Open(WithParam(params, key, value), Exactly(Counts(params, key)[value]))

(* The count of the undated sets a date range aside that the link keeps.   *)
ToggleUndated ==
    IF "dateless" \in DOMAIN params
    THEN Open(WithoutParam(params, "dateless"), AtLeast(Total(params)))
    ELSE /\ Undated(params) > 0
         /\ Open(WithParam(params, "dateless", "1"),
                 IF DOMAIN params \intersect {"date_from", "date_to"} = {}
                 THEN Exactly(Undated(params)) ELSE AtMost(Undated(params)))

ToggleCheck ==
    \E key \in {"digital"} \union (IF viewer.role = "archivist" THEN {"drafts", "templates"} ELSE {}) :
        IF key \in DOMAIN params
        THEN Open(WithoutParam(params, key), AtLeast(Total(params)))
        ELSE Open(WithParam(params, key, "1"), AtMost(Total(params)))

RemoveFilter == \E to \in Removals(params) : Open(to, AtLeast(Total(params)))

ClearAll ==
    /\ Cardinality(SetParams(Filters(params))) >= 2
    /\ Open(ClearFilters(params), AtLeast(Total(params)))

(***************************************************************************)
(* Order, view and pages of the same list                                  *)
(***************************************************************************)
(* A head cycles ascending, descending, off; the Lesesaal has none, but a  *)
(* link that takes the order off.                                          *)
SortByHead ==
    /\ ~Reading(params)
    /\ \E head \in {"title", "date", "ref_code"} :
           LET now == Query(params) IN
           Open(CASE now.sort # head -> WithParam(params, "sort", Rising(head))
                  [] now.sort = head /\ ~now.descending -> WithParam(params, "sort", Falling(head))
                  [] now.sort = head /\ now.descending -> WithoutParam(params, "sort"),
                SameCount)

DropOrder ==
    /\ Query(params).sort = "added" \/ (Reading(params) /\ Query(params).sort # "relevance")
    /\ Open(WithoutParam(params, "sort"), SameCount)

SwitchView ==
    /\ "q" \in DOMAIN params
    /\ LET same == Restrict(params, DOMAIN params \ {"view"}) IN
       Open(IF Reading(params) THEN Setting("view", "table", same) ELSE same,
            [SameCount EXCEPT !.shows = Shown(params), !.fills = Cardinality(Shown(params))])

HasNext(p) ==
    (Query(p).page - 1) * Query(p).page_size + Cardinality(Shown(p)) < Total(p)

TurnPage ==
    \/ /\ HasNext(params)
       /\ Open(PagingQuery(params, "page", Query(params).page + 1),
               [SameCount EXCEPT !.hides = Shown(params), !.fills = 1])
    \/ /\ Total(params) > 0 /\ Query(params).page > 1
       /\ Open(PagingQuery(params, "page", Query(params).page - 1),
               [SameCount EXCEPT !.hides = Shown(params),
                                 !.fills = IF Shown(params) = {} THEN 0 ELSE Query(params).page_size])

ResizePages ==
    /\ Total(params) > 0
    /\ \E size \in PageSizes \ {Query(params).page_size} :
           Open(PagingQuery(params, "page_size", size),
                [SameCount EXCEPT !.fills = Lesser(size, Total(params))])

(***************************************************************************)
(* Links of one Article: the cells of its row in the table, a column       *)
(* whose filter is set left out, and the crumbs and Schlagworte of its     *)
(* page.  A broken chain's Collection leads to a list without the Article. *)
(***************************************************************************)
FollowCell ==
    /\ ~Reading(params)
    /\ \E r \in PageOf(All(params), Query(params).text, Query(params)),
          key \in {"document_type", "collection"} \ DOMAIN params :
           /\ r[key] # Nothing
           /\ Open(WithParam(params, key, r[key]),
                   IF key = "collection" /\ r.ancestors = {} THEN AtMost(Total(params))
                   ELSE [Having(r.ulid) EXCEPT !.most = Total(params)])

FollowArticleLink ==
    \E a \in archive :
        /\ CanView(viewer, a, ChainOf[a.collection])
        /\ \E key \in {"collection", "tag"} \ {k \in {"collection"} : a.deleted} :
               \E value \in Carried(RowOf(a), key) :
                   Open(Setting(key, value, NoParams), IF a.deleted THEN Anything ELSE Having(a.ulid))

(***************************************************************************)
(* Ways into the list.  A suggested Schlagwort counts how often it is      *)
(* named, so it promises no more than that; one named once is left out.    *)
(***************************************************************************)
TypeText ==
    \E text \in Texts \union {Blank} :
        Open(IF text = Blank THEN FormFilters(params) ELSE Setting("q", text, FormFilters(params)), Anything)

PickSuggestion ==
    /\ viewer.role # "public"
    /\ \E text \in Texts, key \in {"creator", "place", "tag"} :
           LET offered == ValuesContaining(viewer, rows, key, text, Filters(params)) IN
           \E value \in DOMAIN offered :
               /\ key = "tag" => offered[value] > 1
               /\ Open(WithParam(FormFilters(params), key, value),
                       IF key = "tag" THEN [AtMost(offered[value]) EXCEPT !.least = 1]
                       ELSE Exactly(offered[value]))

OpenAllSuggested ==
    /\ viewer.role # "public"
    /\ \E text \in Texts :
           Open(WithParam(FormFilters(params), "q", text),
                Exactly(Total(Setting("q", text, FormFilters(params)))))

(* A tile of the start page counts everything the viewer may see. *)
OpenTile ==
    \/ \E key \in {"collection", "media_type", "decade"} :
           \E value \in DOMAIN Counts(NoParams, key) :
               /\ key = "collection" => value \in Roots
               /\ Open(Setting(key, value, NoParams), Exactly(Counts(NoParams, key)[value]))
    \/ Undated(NoParams) > 0 /\ Open(Setting("dateless", "1", NoParams), Exactly(Undated(NoParams)))
    \/ /\ viewer.role = "archivist"
       /\ LET drafts == Setting("drafts", "1", NoParams) IN Open(drafts, Exactly(Total(drafts)))
    \/ Open(Setting("sort", Rising("added"), NoParams), Exactly(Total(NoParams)))

(* A record is saved under the list on screen: what was promised is void.  *)
SaveRecord ==
    /\ clicks < MaxClicks
    /\ clicks' = clicks + 1
    /\ \E edition \in Editions :
           /\ archive' = {edition} \union {a \in archive : a.ulid # edition.ulid}
           /\ rows' = {RowOf(edition)} \union {r \in rows : r.ulid # edition.ulid}
    /\ promise' = [promise EXCEPT !.least = 0, !.most = Cardinality(archive'), !.has = {},
                                  !.shows = {}, !.hides = {}, !.fills = 0]
    /\ UNCHANGED <<viewer, params>>

Follow ==
    \/ PickValue \/ ToggleUndated \/ ToggleCheck \/ RemoveFilter \/ ClearAll
    \/ SortByHead \/ DropOrder \/ SwitchView \/ TurnPage \/ ResizePages
    \/ FollowCell \/ FollowArticleLink
    \/ TypeText \/ PickSuggestion \/ OpenAllSuggested \/ OpenTile

Next == Follow \/ SaveRecord

Spec == Init /\ [][Next]_vars

-----------------------------------------------------------------------------
(* What a link's words say of the list behind it comes true: a counted     *)
(* value opens a list of that many, clearing never loses a hit, order,     *)
(* view and size keep the list, a page step shows other hits, a list that  *)
(* has hits shows some, a fact's link leads to a list the Article is in.   *)
PromiseKept ==
    LET total == Total(params)
        shown == Shown(params)
    IN  /\ promise.least <= total /\ total <= promise.most
        /\ promise.has \subseteq {r.ulid : r \in All(params)}
        /\ promise.shows \subseteq shown
        /\ promise.hides \intersect shown = {}
        /\ Cardinality(shown) >= promise.fills

(* Whatever filters a URL sets, each has a link that removes it and        *)
(* nothing but it and what depends on it.                                  *)
Removable ==
    \A key \in DOMAIN Filters(params) :
        \E to \in Removals(params) : Filters(to) = Without(Filters(params), key)

(* The list a viewer sees, its counts included, is the list of an archive  *)
(* that holds nothing else than what can_view and project show the viewer. *)
Projected(a) == IF viewer.role = "archivist" THEN a ELSE [a EXCEPT !.floored = {}]
MaySee(a) == viewer.role = "archivist" \/ CanView(viewer, a, ChainOf[a.collection])

SeesOnlyItsOwn ==
    LET facets == {"collection", "decade", "media_type", "document_type", "file", "tag", "creator", "place"}
        own == {RowOf(Projected(a)) : a \in {b \in archive : MaySee(b)}}
    IN  /\ SearchPage(viewer, rows, Query(params), facets) = SearchPage(viewer, own, Query(params), facets)
        /\ \A key \in {"creator", "place", "tag"}, text \in Texts :
               ValuesContaining(viewer, rows, key, text, Filters(params))
                   = ValuesContaining(viewer, own, key, text, Filters(params))
=============================================================================
