---------------------------- MODULE LegacyImport ----------------------------
(***************************************************************************)
(* The import of the old site's export (app/legacy.py, import_legacy): one *)
(* run makes the Collections, then row after row an Article with its files,*)
(* and ends in a report.  A run may die anywhere, be started again with    *)
(* another media root, and find what archivists did meanwhile.             *)
(*                                                                         *)
(* A record's ulid is its place in the order of creation.  Of a row the    *)
(* model keeps what the report may have to speak of: its Collection, its   *)
(* date and its files.  Tiles, the index and the closing check are left    *)
(* out, and the files of an Article that was never saved.                  *)
(***************************************************************************)
EXTENDS Edtf, FiniteSets, Sequences, SequencesExt

CONSTANTS
    Items,       \* items.csv: [collection, text, year, month, day], the id a row's place
    Files,       \* files.csv: [item, slot, path, named]
    MediaRoots,  \* what may lie under the media root the operator names: sets of paths
    Unsorted,    \* "Unsortiert"
    MaxSamples,  \* MAX_SAMPLES: of how many the report gives the name (10 in the code)
    MaxTroubles  \* bound: runs that die, roots unmounted, READMEs damaged, records archivists make

VARIABLES
    collections,  \* the Collections: [name, readable, imported]
    articles,     \* the Articles
    run,          \* the import that runs, or ran
    troubles

importVars == <<collections, articles, run, troubles>>

-----------------------------------------------------------------------------
(***************************************************************************)
(* The date of a row.  A text is a blank, a day, a month or a year in one  *)
(* of the spellings that are read, or other words; a cell of the columns   *)
(* that is no number is 0.                                                 *)
(***************************************************************************)
Undated == OpenEnd

(* Of a month only the ISO spelling can be a season, and not with a ~.     *)
EdtfOf(text) ==
    IF text.shape = "month" /\ text.month \in 21..24 /\ ~text.about
    THEN Token("season", text.year, text.month, 0)
    ELSE Token(text.shape, text.year, text.month, text.day)

Read(text) == text.shape \in {"day", "month", "year"} /\ Parses(EdtfOf(text))

TwoDigits(cell, highest) == IF cell \in 1..highest THEN cell ELSE 0
MonthOf(row) == TwoDigits(row.month, 12)
DayOf(row) == TwoDigits(row.day, 31)

FromColumns(row) ==
    LET day == Token("day", row.year, MonthOf(row), DayOf(row))
        month == Token("month", row.year, MonthOf(row), 0)
        year == Token("year", row.year, 0, 0) IN
    CASE Parses(day) -> day
      [] Parses(month) /\ ~Parses(day) -> month
      [] Parses(year) /\ ~Parses(month) -> year
      [] OTHER -> Undated

MapDate(row) == IF Read(row.text) THEN EdtfOf(row.text) ELSE FromColumns(row)

KeepsWords(row) == row.text.shape # "blank" /\ ~Read(row.text)

ConflictsWithColumns(row) ==
    \/ MonthOf(row) # 0 /\ MapDate(row).month # MonthOf(row)
    \/ DayOf(row) # 0 /\ MapDate(row).day # DayOf(row)

-----------------------------------------------------------------------------
(* The plan: what the run writes of a row, and what it reports of all.     *)
CollectionName(row) == IF row.collection = "" THEN Unsorted ELSE row.collection

(* In the order the rows name them, again and again, and Unsortiert.       *)
CollectionNames ==
    [i \in 1..(Len(Items) + 1) |-> IF i <= Len(Items) THEN CollectionName(Items[i]) ELSE Unsorted]

InSlotOrder(some) ==
    CHOOSE files \in [1..Cardinality(some) -> some] :
        \A k, l \in DOMAIN files : k < l => files[k].slot < files[l].slot

(* map_item and the save: published, in its Collection, its files in slot  *)
(* order, its words kept where they could not be read.                     *)
ArticleOf(i, existing, root) ==
    [row |-> i, collection |-> existing[CollectionName(Items[i])], date |-> MapDate(Items[i]),
     words |-> {t \in {Items[i].text} : KeepsWords(Items[i])},
     media |-> InSlotOrder({f \in Files : f.item = i /\ f.path \in root /\ f.named})]

MissingOf(i, root) == {f \in Files : f.item = i /\ f.path \notin root}

(* Of each kind the report has a count, and the name of the first few: of  *)
(* rows, whose place is their id, and of files in the order they are met,  *)
(* whose name is their path.                                               *)
Earlier(f, g) == f.item < g.item \/ (f.item = g.item /\ f.slot < g.slot)

FirstRows(some) == {i \in some : Cardinality({k \in some : k < i}) < MaxSamples}
FirstFiles(some) == {f \in some : Cardinality({g \in some : Earlier(g, f)}) < MaxSamples}

(* Mutant: the count is taken of the samples.                              *)
RowLinesOfSamples(some) == [count |-> Cardinality(FirstRows(some)), named |-> FirstRows(some)]

RowLines(some) == [count |-> Cardinality(some), named |-> FirstRows(some)]
FileLines(some) == [count |-> Cardinality(some), named |-> {f.path : f \in FirstFiles(some)}]

(* Files of no row of the export are never asked for.                      *)
ReportOn(missing) ==
    [missing |-> FileLines(missing),
     unnamed |-> FileLines({f \in Files : f.item \in DOMAIN Items /\ ~f.named}),
     unread |-> RowLines({i \in DOMAIN Items : KeepsWords(Items[i])}),
     conflicts |-> RowLines({i \in DOMAIN Items : ConflictsWithColumns(Items[i])})]

-----------------------------------------------------------------------------
Trouble == troubles < MaxTroubles /\ troubles' = troubles + 1
Idle == [pc |-> "idle"]
Resting == run.pc \in {"idle", "dry", "done"}

ImportInit ==
    /\ collections = <<>>
    /\ articles = <<>>
    /\ run = Idle
    /\ troubles = 0

(* _refuse_a_media_root_without_the_files.                                 *)
WrongRoot(root) == Files # {} /\ {f.path : f \in Files} \intersect root = {}

RefusesTheWhole == Len(articles) >= Len(Items)

Refuses == articles # <<>>

(* The Collections by name, of two the later one.                          *)
Existing ==
    [name \in {c.name : c \in ToSet(collections)} |->
        CHOOSE u \in DOMAIN collections :
            /\ collections[u].name = name
            /\ \A w \in DOMAIN collections : collections[w].name = name => w <= u]

(* handle, to the end of the scan: a run that refuses changes nothing.     *)
Start(root) ==
    /\ Resting
    /\ ~WrongRoot(root)
    /\ ~Refuses
    /\ \A c \in ToSet(collections) : c.readable
    /\ run' = [pc |-> "collections", root |-> root, existing |-> Existing]
    /\ UNCHANGED <<collections, articles, troubles>>

(* --dry-run looks at the drive instead of being told.                     *)
DryRun(root) ==
    /\ Resting
    /\ ~WrongRoot(root)
    /\ run' = [pc |-> "dry", report |-> ReportOn(UNION {MissingOf(i, root) : i \in DOMAIN Items})]
    /\ UNCHANGED <<collections, articles, troubles>>

(* Unsortiert waits for its place behind all others.                       *)
Lacks(i) ==
    /\ CollectionNames[i] \notin DOMAIN run.existing
    /\ CollectionNames[i] = Unsorted => i > Len(Items)

(* The next of the names that no Collection has.                           *)
CreateCollection ==
    /\ run.pc = "collections"
    /\ \E i \in DOMAIN CollectionNames :
          LET name == CollectionNames[i] IN
          /\ Lacks(i) /\ \A k \in 1..(i - 1) : ~Lacks(k)
          /\ collections' = Append(collections, [name |-> name, readable |-> TRUE, imported |-> TRUE])
          /\ run' = [run EXCEPT !.existing =
                        [other \in DOMAIN @ \union {name} |->
                            IF other = name THEN Len(collections') ELSE @[other]]]
    /\ UNCHANGED <<articles, troubles>>

Plan ==
    /\ run.pc = "collections"
    /\ ToSet(CollectionNames) \subseteq DOMAIN run.existing
    /\ run' = [pc |-> "articles", root |-> run.root, existing |-> run.existing, next |-> 1, missing |-> {}]
    /\ UNCHANGED <<collections, articles, troubles>>

WriteArticle ==
    /\ run.pc = "articles"
    /\ run.next <= Len(Items)
    /\ articles' = Append(articles, ArticleOf(run.next, run.existing, run.root))
    /\ run' = [run EXCEPT !.next = @ + 1, !.missing = @ \union MissingOf(run.next, run.root)]
    /\ UNCHANGED <<collections, troubles>>

Report ==
    /\ run.pc = "articles"
    /\ run.next > Len(Items)
    /\ run' = [pc |-> "done", report |-> ReportOn(run.missing)]
    /\ UNCHANGED <<collections, articles, troubles>>

(* The process dies or a write fails, and with it the run.                 *)
Die ==
    /\ Trouble
    /\ ~Resting
    /\ run' = Idle
    /\ UNCHANGED <<collections, articles>>

(* The drive goes while its files are copied.                              *)
Unmount ==
    /\ Trouble
    /\ run.pc = "articles"
    /\ run' = [run EXCEPT !.root = {}]
    /\ UNCHANGED <<collections, articles>>

(* The README of a Collection is damaged, or whole again.                  *)
Damage(u) ==
    /\ Trouble
    /\ collections' = [collections EXCEPT ![u].readable = ~@]
    /\ UNCHANGED <<articles, run>>

(* What an archivist makes.                                                *)
Catalog ==
    /\ Trouble
    /\ \/ /\ \E name \in ToSet(CollectionNames) :
                collections' = Append(collections, [name |-> name, readable |-> TRUE, imported |-> FALSE])
          /\ UNCHANGED articles
       \/ /\ \E u \in DOMAIN collections :
                articles' = Append(articles, [row |-> 0, collection |-> u, date |-> Undated,
                                              words |-> {}, media |-> <<>>])
          /\ UNCHANGED collections
    /\ UNCHANGED run

ImportNext ==
    \/ \E root \in MediaRoots : Start(root) \/ DryRun(root)
    \/ CreateCollection \/ Plan \/ WriteArticle \/ Report
    \/ Die \/ Unmount \/ Catalog
    \/ \E u \in DOMAIN collections : Damage(u)

ImportSpec == ImportInit /\ [][ImportNext]_importVars

-----------------------------------------------------------------------------
(***************************************************************************)
(* However often a run dies and is started again, no row becomes two       *)
(* Articles and no name two Collections: not even one whose README cannot  *)
(* be read for now ("creating a second Bund would split the archive in     *)
(* two").                                                                  *)
(***************************************************************************)
ImportedOnce ==
    /\ \A i, j \in DOMAIN articles :
          i # j /\ articles[i].row # 0 => articles[i].row # articles[j].row
    /\ \A u, w \in DOMAIN collections :
          u # w /\ collections[u].imported /\ collections[w].imported
              => collections[u].name # collections[w].name

(***************************************************************************)
(* A run that ended lost nothing it did not report.  Every row has its     *)
(* Article, in the Collection it names, its files in slot order, the words *)
(* of its date as a date or as they stand.  What the Articles lack - files *)
(* of a row, months and days that their dates do not say - is in the       *)
(* report: rows counted exactly, the first MaxSamples of them by name;     *)
(* files never counted short, each by name as long as there are not more   *)
(* of its kind than the report names.  Past that only the count tells.     *)
(***************************************************************************)
OfRow(i) == {article \in ToSet(articles) : article.row = i}

Filed(i, article) ==
    LET row == Items[i] IN
    /\ collections[article.collection].name = CollectionName(row)
    /\ \A k, l \in DOMAIN article.media : k < l => article.media[k].slot < article.media[l].slot
    /\ row.text.shape # "blank" => article.date = EdtfOf(row.text) \/ article.words = {row.text}

LackingFiles ==
    {f \in Files : /\ f.item \in DOMAIN Items
                   /\ \A article \in OfRow(f.item) : f \notin ToSet(article.media)}
KeptInWords == {i \in DOMAIN Items : \E article \in OfRow(i) : article.words # {}}
Contradicted ==
    {i \in DOMAIN Items : \E article \in OfRow(i) :
        \/ Items[i].month \in 1..12 /\ article.date.month # Items[i].month
        \/ Items[i].day \in 1..31 /\ article.date.day # Items[i].day}

RowsTold(lines, some) ==
    /\ lines.count = Cardinality(some)
    /\ lines.named \subseteq some
    /\ Cardinality(lines.named) = IF lines.count < MaxSamples THEN lines.count ELSE MaxSamples

FilesTold(lines, some) ==
    /\ Cardinality(some) <= lines.count
    /\ lines.count <= MaxSamples => \A f \in some : f.path \in lines.named

NothingVanishes ==
    run.pc = "done" =>
        /\ \A i \in DOMAIN Items : \E article \in OfRow(i) : Filed(i, article)
        /\ RowsTold(run.report.unread, KeptInWords)
        /\ RowsTold(run.report.conflicts, Contradicted)
        /\ FilesTold(run.report.missing, {f \in LackingFiles : f.named})
        /\ FilesTold(run.report.unnamed, {f \in LackingFiles : ~f.named})
        /\ run.report.missing.count <= Cardinality(LackingFiles)
=============================================================================
