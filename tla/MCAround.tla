------------------------------ MODULE MCAround ------------------------------
(***************************************************************************)
(* Model values for Around.                                                *)
(***************************************************************************)
EXTENDS Around

CONSTANTS a1, a2, x, deadly

(* Page texts: an Article whose file kills its reader, before another.     *)
SomeFiles == {<<>>, <<x>>, <<deadly, x>>}
FilesAtFirst == a1 :> <<x>> @@ a2 :> <<>>

(* An export with a day that does not exist, a season, a file named twice, *)
(* one whose path may be gone and one that cannot be named.                *)
Words(shape, year, month, day, about) ==
    [shape |-> shape, year |-> year, month |-> month, day |-> day, about |-> about]
Row(collection, spelling, year, month, day) ==
    [collection |-> collection, text |-> spelling, year |-> year, month |-> month, day |-> day]
LegacyRows ==
    <<Row("Bund", Words("day", 1963, 2, 31, FALSE), 1963, 2, 31),
      Row("", Words("month", 1975, 24, 0, TRUE), 0, 0, 0),
      Row("Bund", Words("month", 1975, 24, 0, FALSE), 1975, 12, 0)>>
LegacyFiles ==
    {[item |-> 1, slot |-> 2, path |-> "p", named |-> TRUE],
     [item |-> 1, slot |-> 1, path |-> "q", named |-> TRUE],
     [item |-> 3, slot |-> 1, path |-> "q", named |-> FALSE]}
LegacyRoots == {{"p", "q"}, {"p"}, {}}

(* A small archive: a leaf under a public root, and a Collection whose     *)
(* chain is broken.                                                        *)
Chain ==
    [leaf |-> <<[ulid |-> "leaf", audience |-> Silent], [ulid |-> "root", audience |-> Public]>>,
     root |-> <<[ulid |-> "root", audience |-> Public]>>,
     broken |-> <<>>]
Pages == {[hash |-> "h", page |-> 1, words |-> {"camp"}]}

From(token) == [from |-> token, to |-> token]
Years(y, z) == [from |-> Token("year", y, 0, 0), to |-> Token("year", z, 0, 0)]

Plain ==
    [ulid |-> 1, title |-> 2, words |-> {"camp"}, floored |-> {}, creator |-> "Anna",
     place |-> Nothing, ref_code |-> 5, media_type |-> "Schrifttum", document_type |-> "Heft",
     tags |-> ("song" :> 1), published |-> TRUE, template |-> FALSE, deleted |-> FALSE,
     audience |-> Silent, added |-> 3, files |-> {[hash |-> "h", kind |-> "pdf"]},
     date |-> Years(1975, 1983), collection |-> "leaf"]
Grouped ==
    [Plain EXCEPT !.ulid = 2, !.title = 1, !.words = {"song"}, !.floored = {"shelf"},
                  !.ref_code = NoCode, !.media_type = "Foto", !.document_type = Nothing,
                  !.audience = Rung("GROUPS", {"g"}), !.tags = ("song" :> 2),
                  !.date = NoDate, !.place = "Anna"]
Template ==
    [Plain EXCEPT !.ulid = 3, !.title = 3, !.published = FALSE, !.template = TRUE,
                  !.document_type = Nothing, !.files = {}, !.date.to = OpenEnd, !.added = 1,
                  !.collection = "root"]
Orphan ==
    [Plain EXCEPT !.ulid = 4, !.collection = "broken", !.audience = Public, !.words = {"song"}]
Deleted == [Plain EXCEPT !.ulid = 5, !.deleted = TRUE]

TwoArchives ==
    {{Plain, Grouped, Template, Orphan}, {Plain, [Grouped EXCEPT !.audience = Members], Deleted}}
TwoEditions ==
    {[Plain EXCEPT !.published = FALSE],
     [Grouped EXCEPT !.date = From(Token("decade", 1950, 0, 0)), !.audience = Silent]}

Text(words, lacks, code, inside) == [words |-> words, lacks |-> lacks, code |-> code, inside |-> inside]
SomeTexts ==
    {Text({"song"}, {}, NoCode, {"song", "Anna"}), Text({}, {"camp"}, NoCode, {}), Text({"shelf"}, {}, 5, {})}
SomeEntries ==
    {NoParams, "document_type" :> "Heft", [decade |-> 1970, dateless |-> "1"], "decade" :> Malformed,
     [media_type |-> "Schrifttum", document_type |-> "Heft", page |-> 2],
     [date_from |-> <<1980, 6, 1>>, digital |-> "1"], [q |-> Text({"camp"}, {}, NoCode, {}), file |-> "pdf"]}
=============================================================================
