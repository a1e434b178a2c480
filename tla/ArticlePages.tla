---------------------------- MODULE ArticlePages ----------------------------
(***************************************************************************)
(* Archivists at work on the pages of app/web: each has one page open,     *)
(* which shows a record as it stood at some version, and posts what it     *)
(* shows, changed or not.  The page may be the edit form (catalog_views.py,*)
(* catalog.py), the article page with its confirmations, or the check page *)
(* of a Sammelbearbeitung (bulk_views.py, bulk.py).                        *)
(*                                                                         *)
(* A request reads in steps what it decides on: the record at its gate,    *)
(* the Collections when its chooser is first asked, the record again in    *)
(* update_article, the winner after a lost race.  A save is one step: that *)
(* it compares and writes at one moment is what ArticleSaves shows.        *)
(*                                                                         *)
(* Of a record this module keeps what the pages decide on: its Collection, *)
(* the pair of Medienart and Dokumenttyp, the lifecycle, the template mark,*)
(* its media in order and, for every other field, who typed them last.     *)
(***************************************************************************)
EXTENDS Naturals, Sequences, FiniteSets

CONSTANTS
    Archivists,      \* each works on one page at a time
    Ulids,           \* records that may exist
    Collections,     \* Sammlungsteile
    MediaTypes,      \* Medienarten
    DocumentTypes,   \* Dokumenttypen
    Fits,            \* the pairs <<Medienart, Dokumenttyp>> of the vocabulary
    Files,           \* files a record may hold
    Entries,         \* what is typed into a form: values for some of its fields
    BulkEdits,       \* what a bulk edit is asked for: a field and its value
    MediaChanges,    \* what the media routes are asked for: a kind and a file
    Begun,           \* the records the archive begins with
    Catalogued,      \* the Articles they may be
    Shifting,        \* bound: the Collections whose chain may change
    Retries,         \* retries of a media change after a lost race
    MaxRequests,     \* bound: requests in all
    MaxEvents,       \* bound: Collections changed and saves failed in all
    None,            \* a field without a value
    Absent           \* a record that is not in the archive

VARIABLES
    record,     \* the archive: ulid -> version and Article, or Absent
    minted,     \* the ulids given out so far
    chain,      \* Collection -> whether its chain up resolves
    page,       \* what each archivist's page shows
    job,        \* the request each archivist waits for
    requests,   \* how many requests were made
    events      \* how many Collections changed and saves failed

vars == <<record, minted, chain, page, job, requests, events>>

Lifecycles == {"draft", "published"}

Articles == [collection: Collections, mediaType: MediaTypes \union {None},
             documentType: DocumentTypes \union {None}, lifecycle: Lifecycles,
             template: BOOLEAN, media: Seq(Files),
             text: Archivists \union {None}, deleted: BOOLEAN]

(***************************************************************************)
(* A Collection's chain is whole, or broken above it (an unknown parent, a *)
(* circle), or its own README is gone, and no form offers it.              *)
(***************************************************************************)
Chains == {"whole", "broken", "gone"}

(***************************************************************************)
(* vocab.is_valid_pair: a record without a Dokumenttyp always fits.        *)
(***************************************************************************)
IsValidPair(m, d) == d = None \/ <<m, d>> \in Fits

(***************************************************************************)
(* A template is a draft (domain/models.py), and the pair fits.            *)
(***************************************************************************)
WellFormed(a) ==
    /\ IsValidPair(a.mediaType, a.documentType)
    /\ a.template => a.lifecycle = "draft"

ASSUME RetriesAssumption == Retries \in Nat
ASSUME FitsAssumption == Fits \subseteq MediaTypes \X DocumentTypes
ASSUME CataloguedAssumption ==
    \A a \in Catalogued : a \in Articles /\ WellFormed(a) /\ ~a.deleted
ASSUME ChangesAssumption ==
    MediaChanges \subseteq [kind : {"up", "down", "remove", "upload"}, file : Files]
ASSUME NoneAssumption == None \notin MediaTypes /\ None \notin DocumentTypes
ASSUME UlidsAssumption == IsFiniteSet(Ulids) /\ Begun \subseteq Ulids
ASSUME EntriesAssumption ==
    \A e \in Entries : /\ "collection" \in DOMAIN e => e.collection \in Collections
                       /\ "lifecycle" \in DOMAIN e => e.lifecycle \in Lifecycles
ASSUME BulkEditsAssumption ==
    \A e \in BulkEdits : e.field \in {"mediaType", "documentType", "collection", "text"}

Live(u) == record[u] # Absent /\ ~record[u].article.deleted

(***************************************************************************)
(* The first commit of a new record, of a form or of a copy.               *)
(***************************************************************************)
Born(c, t) ==
    [collection |-> c, mediaType |-> None, documentType |-> None,
     lifecycle |-> "draft", template |-> FALSE, media |-> <<>>, text |-> t,
     deleted |-> FALSE]
Copied(a) == [a EXCEPT !.lifecycle = "draft", !.template = FALSE, !.media = <<>>]

NoPage == [at |-> "none"]
NoJob == [step |-> "idle"]

Init ==
    /\ \E made \in [Begun -> Catalogued] :
          record = [u \in Ulids |-> IF u \in Begun THEN [version |-> 1, article |-> made[u]]
                                                 ELSE Absent]
    /\ minted = Begun
    /\ chain = [c \in Collections |-> "whole"]
    /\ page = [t \in Archivists |-> NoPage]
    /\ job = [t \in Archivists |-> NoJob]
    /\ requests = 0
    /\ events = 0

(***************************************************************************)
(* A page shows a record at a version; a form also holds what its fields   *)
(* now say, which is what it posts.  "known" only observes: the fields the *)
(* archivist typed into, or a notice named to her.                         *)
(***************************************************************************)
Form(u, version, a, values, known) ==
    [at |-> "form", ulid |-> u, version |-> version, shown |-> a, values |-> values, known |-> known]

At(t, step) == job[t].step = step
Ends(t) == job' = [job EXCEPT ![t] = NoJob]
Shows(t, p) == page' = [page EXCEPT ![t] = p]
NotFound(t) == Ends(t) /\ Shows(t, NoPage)

(***************************************************************************)
(* GET: a page shows a live record at the version it loaded; any other     *)
(* ulid is the plain 404.                                                  *)
(***************************************************************************)
Open(t, u) ==
    /\ At(t, "idle")
    /\ IF Live(u)
       THEN LET a == record[u].article IN
            \/ Shows(t, Form(u, record[u].version, a, a, {}))
            \/ Shows(t, [at |-> "article", ulid |-> u, version |-> record[u].version,
                         shown |-> a])
       ELSE Shows(t, NoPage)
    /\ UNCHANGED <<record, minted, chain, job, requests, events>>

Request(t) ==
    /\ At(t, "idle")
    /\ requests < MaxRequests
    /\ requests' = requests + 1

(***************************************************************************)
(* POST /articles/new: a draft in a Collection the form offers, under a    *)
(* ulid minted for it.                                                     *)
(***************************************************************************)
Create(t, u, c) ==
    /\ Request(t)
    /\ u \notin minted /\ minted' = minted \union {u}
    /\ chain[c] # "gone"
    /\ record' = [record EXCEPT ![u] = [version |-> 1, article |-> Born(c, t)]]
    /\ Shows(t, NoPage)
    /\ UNCHANGED <<chain, job, events>>

(***************************************************************************)
(* POST /articles/<ulid>/copy: the copy of the record the gate loaded is a *)
(* draft and no template, without media.                                   *)
(***************************************************************************)
Copy(t, u) ==
    /\ Request(t)
    /\ page[t].at = "article"
    /\ Live(page[t].ulid)
    /\ u \notin minted /\ minted' = minted \union {u}
    /\ record' = [record EXCEPT ![u] =
           [version |-> 1, article |-> Copied(record[page[t].ulid].article)]]
    /\ Shows(t, NoPage)
    /\ UNCHANGED <<chain, job, events>>

(***************************************************************************)
(* A mark, a restore or a hard delete of somebody else's, as one step: its *)
(* own races are those of ArticleSaves.                                    *)
(***************************************************************************)
Delete(t, u) ==
    /\ Request(t)
    /\ record[u] # Absent
    /\ LET flipped == [version |-> record[u].version + 1,
               article |-> [record[u].article EXCEPT !.deleted = ~@]]
       IN \/ record' = [record EXCEPT ![u] = flipped]
          \/ ~Live(u) /\ record' = [record EXCEPT ![u] = Absent]
    /\ UNCHANGED <<minted, chain, page, job, events>>

(***************************************************************************)
(* _load_gated of a form's request: the record as it is first read.        *)
(***************************************************************************)
Gated(t, next) ==
    /\ Request(t)
    /\ page[t].at = "form"
    /\ IF Live(page[t].ulid)
       THEN job' = [job EXCEPT ![t] = next] /\ page' = page
       ELSE NotFound(t)
    /\ UNCHANGED <<record, minted, chain, events>>

(***************************************************************************)
(* A form posts what its fields say, with what was typed over it and one   *)
(* of the other fields always.  A form from before a change of the page may   *)
(* name no Status.                                                         *)
(***************************************************************************)
Typed(t, a, entry) ==
    [f \in DOMAIN a |-> IF f = "text" THEN t ELSE IF f \in DOMAIN entry THEN entry[f] ELSE a[f]]

PostEdit(t, entry, named) ==
    /\ ~named => entry = [f \in {} |-> None]
    /\ Gated(t,
           [step |-> "parse", op |-> "edit", ulid |-> page[t].ulid,
            posted |-> Typed(t, page[t].values, entry), named |-> named,
            known |-> page[t].known \union DOMAIN entry \union {"text"},
            at |-> page[t].version, gate |-> record[page[t].ulid].article])

(***************************************************************************)
(* parse_edit_form and the gate of publishing, on the Collections as they  *)
(* are when the chooser reads them: the record the save would write.       *)
(***************************************************************************)
EditStatus(j) == IF j.named THEN j.posted.lifecycle ELSE j.gate.lifecycle
Parsed(j) == [j.posted EXCEPT !.lifecycle = EditStatus(j), !.media = j.gate.media,
                              !.deleted = j.gate.deleted]

FormErrors(j) ==
    LET a == Parsed(j)
    IN  \/ chain[a.collection] = "gone"
        \/ a.mediaType = None
        \/ ~IsValidPair(a.mediaType, a.documentType)
        \/ a.template /\ a.lifecycle # "draft"

PublishRefusedWhereItWas(j) ==
    /\ j.gate.lifecycle = "draft"
    /\ EditStatus(j) = "published"
    /\ chain[j.gate.collection] # "whole"

PublishRefused(j) ==
    /\ j.gate.lifecycle = "draft"
    /\ EditStatus(j) = "published"
    /\ chain[j.posted.collection] # "whole"

Resolved == {c \in Collections : chain[c] = "whole"}

Parse(t) ==
    /\ At(t, "parse")
    /\ IF FormErrors(job[t]) \/ PublishRefused(job[t])
       THEN /\ Ends(t)
            /\ Shows(t, [page[t] EXCEPT !.shown.media = job[t].gate.media,
                                        !.values = job[t].posted, !.known = job[t].known])
       ELSE /\ job' = [job EXCEPT ![t] =
                  [step |-> "commit", op |-> "edit", ulid |-> @.ulid, at |-> @.at,
                   article |-> Parsed(@), known |-> @.known, resolved |-> Resolved]]
            /\ page' = page
    /\ UNCHANGED <<record, minted, chain, requests, events>>

(***************************************************************************)
(* POST /articles/<ulid>/publish.  A page that shows another version than  *)
(* the gate loads is sent back; the record update_article hands over must  *)
(* be the gate's, a draft and no template, and its chain must resolve.     *)
(***************************************************************************)
PostPublish(t) ==
    LET u == page[t].ulid IN
    /\ Request(t)
    /\ page[t].at = "article"
    /\ IF Live(u) /\ record[u].version = page[t].version
       THEN /\ job' = [job EXCEPT ![t] = [step |-> "load", op |-> "publish", ulid |-> u,
                                         gate |-> record[u].article]]
            /\ page' = page
       ELSE Ends(t) /\ Shows(t, NoPage)
    /\ UNCHANGED <<record, minted, chain, events>>

Confirmed(j, a) == a = j.gate /\ a.lifecycle = "draft" /\ ~a.template

LoadPublish(t) ==
    LET j == job[t] IN
    /\ At(t, "load") /\ j.op = "publish"
    /\ IF ~Live(j.ulid) THEN NotFound(t)
       ELSE IF ~Confirmed(j, record[j.ulid].article) THEN Ends(t) /\ Shows(t, NoPage)
       ELSE /\ job' = [job EXCEPT ![t] =
                  [step |-> "gate", op |-> "publish", ulid |-> j.ulid,
                   at |-> record[j.ulid].version, article |-> record[j.ulid].article]]
            /\ page' = page
    /\ UNCHANGED <<record, minted, chain, requests, events>>

GatePublish(t) ==
    LET j == job[t] IN
    /\ At(t, "gate")
    /\ IF chain[j.article.collection] # "whole" THEN Ends(t) /\ Shows(t, NoPage)
       ELSE /\ job' = [job EXCEPT ![t] =
                  [step |-> "commit", op |-> "publish", ulid |-> j.ulid, at |-> j.at,
                   article |-> [j.article EXCEPT !.lifecycle = "published"],
                   resolved |-> Resolved]]
            /\ page' = page
    /\ UNCHANGED <<record, minted, chain, requests, events>>

(***************************************************************************)
(* The media routes.  Order is meaning: the first file is the cover.  A    *)
(* removal is first asked back.                                            *)
(***************************************************************************)
Reordered(media, f, up) ==
    LET at == {i \in DOMAIN media : media[i] = f}
        i == CHOOSE n \in at : \A o \in at : n <= o
        to == IF up THEN i - 1 ELSE i + 1
    IN  IF at = {} \/ to \notin DOMAIN media THEN media
        ELSE [media EXCEPT ![i] = media[to], ![to] = media[i]]

Changed(media, c) ==
    CASE c.kind \in {"up", "down"} -> Reordered(media, c.file, c.kind = "up")
      [] c.kind = "remove" -> SelectSeq(media, LAMBDA f : f # c.file)
      [] c.kind = "upload" -> Append(media, c.file)

PostMedia(t, c, js) ==
    /\ Gated(t,
           [step |-> "load", op |-> "media", ulid |-> page[t].ulid, change |-> c,
            js |-> js, tries |-> Retries])

LoadMedia(t) ==
    LET j == job[t] IN
    /\ At(t, "load") /\ j.op = "media"
    /\ IF ~Live(j.ulid) THEN NotFound(t)
       ELSE /\ job' = [job EXCEPT ![t] =
                  [step |-> "commit", op |-> "media", ulid |-> j.ulid,
                   at |-> record[j.ulid].version, change |-> j.change, js |-> j.js,
                   tries |-> j.tries,
                   article |-> [record[j.ulid].article EXCEPT
                                   !.media = Changed(@, j.change)]]]
            /\ page' = page
    /\ UNCHANGED <<record, minted, chain, requests, events>>

(***************************************************************************)
(* _media_surface: without a script the whole form is shown anew from the  *)
(* record; with one only the media are, and the version the form holds     *)
(* goes on past a save of this route's own of exactly that version.        *)
(***************************************************************************)
MediaSurfaceAhead(p, a, version, js, ownSave) ==
    IF ~js THEN Form(p.ulid, version, a, a, {})
    ELSE [p EXCEPT !.shown.media = a.media, !.version = IF ownSave THEN version ELSE @]

MediaSurface(p, a, version, js, ownSave) ==
    IF ~js THEN Form(p.ulid, version, a, a, {})
    ELSE [p EXCEPT !.shown.media = a.media,
                   !.version = IF ownSave /\ version = @ + 1 THEN version ELSE @]

AskRemoval(t, js) ==
    /\ Request(t)
    /\ page[t].at = "form"
    /\ LET u == page[t].ulid
       IN  Shows(t, IF Live(u) THEN MediaSurface(page[t], record[u].article,
                                        record[u].version, js, FALSE)
                               ELSE NoPage)
    /\ UNCHANGED <<record, minted, chain, job, events>>

LostMedia(t) ==
    LET j == job[t] IN
    /\ At(t, "lost")
    /\ IF record[j.ulid] = Absent THEN NotFound(t)
       ELSE /\ Shows(t, MediaSurface(page[t], record[j.ulid].article,
                            record[j.ulid].version, j.js, FALSE))
            /\ Ends(t)
    /\ UNCHANGED <<record, minted, chain, requests, events>>

(***************************************************************************)
(* The Sammelbearbeitung.  Its first POST shows a check page of the live   *)
(* records; the POST of that page is validated anew, and asks again when a *)
(* Dokumenttyp would be cleared that the page did not ask about.           *)
(***************************************************************************)
Fitting(u, d) == IsValidPair(record[u].article.mediaType, d)

Refusal(plan) ==
    \/ plan.selection = {}
    \/ plan.field = "mediaType" /\ plan.value \notin MediaTypes
    \/ plan.field = "collection" /\ (plan.value \notin Collections \/ chain[plan.value] = "gone")
    \/ /\ plan.field = "documentType" /\ plan.value # None
       /\ \E u \in plan.selection : Live(u) /\ ~Fitting(u, plan.value)

Orphans(plan) ==
    {u \in plan.selection :
        /\ plan.field = "mediaType" /\ Live(u)
        /\ ~IsValidPair(plan.value, record[u].article.documentType)}

Check(t, plan) ==
    Shows(t, [at |-> "check", asks |-> Orphans(plan) # {},
              plan |-> [plan EXCEPT !.selection = {u \in @ : Live(u)}]])

PostBulk(t, selection, edit) ==
    LET plan == [selection |-> selection, field |-> edit.field, value |-> edit.value] IN
    /\ Request(t)
    /\ IF Refusal(plan) THEN Shows(t, NoPage) ELSE Check(t, plan)
    /\ UNCHANGED <<record, minted, chain, job, events>>

NoBuckets == [saved |-> {}, conflicted |-> {}, missing |-> {}, cleared |-> {}]

ConfirmBulk(t, clear) ==
    LET plan == page[t].plan IN
    /\ Request(t)
    /\ page[t].at = "check"
    /\ clear => page[t].asks
    /\ CASE Refusal(plan) -> Shows(t, NoPage) /\ UNCHANGED job
         [] ~Refusal(plan) /\ ~clear /\ Orphans(plan) # {} -> Check(t, plan) /\ UNCHANGED job
         [] OTHER ->
              /\ job' = [job EXCEPT ![t] =
                    [step |-> "bulk", op |-> "bulk", todo |-> plan.selection, plan |-> plan,
                     offered |-> {}, asked |-> FALSE, buckets |-> NoBuckets]]
              /\ UNCHANGED page
    /\ UNCHANGED <<record, minted, chain, events>>

(***************************************************************************)
(* apply_field.  A new Medienart clears the Dokumenttyp it does not admit; *)
(* a Collection the chooser does not find leaves the record where it is.   *)
(***************************************************************************)
ApplyField(a, plan, offered, t) ==
    CASE plan.field = "mediaType" ->
            [a EXCEPT !.mediaType = plan.value,
                      !.documentType = IF IsValidPair(plan.value, @) THEN @ ELSE None]
      [] plan.field = "documentType" -> [a EXCEPT !.documentType = plan.value]
      [] plan.field = "collection" ->
            [a EXCEPT !.collection = IF plan.value \in offered THEN plan.value ELSE @]
      [] plan.field = "text" -> [a EXCEPT !.text = t]

UnfitUnchecked(u, plan) == FALSE

Unfit(u, plan) == plan.field = "documentType" /\ ~Fitting(u, plan.value)

Bucketed(j, bucket, u) ==
    [step |-> "bulk", op |-> "bulk", todo |-> j.todo \ {u}, plan |-> j.plan,
     offered |-> j.offered, asked |-> j.asked,
     buckets |-> [j.buckets EXCEPT ![bucket] = @ \union {u}]]

(***************************************************************************)
(* One record of apply_bulk is loaded, changed and saved, with no retry.   *)
(* The chooser of the commit reads the Collections once, when first asked. *)
(***************************************************************************)
LoadBulk(t, u) ==
    LET j == job[t]
        offered == IF j.asked THEN j.offered ELSE {c \in Collections : chain[c] # "gone"}
    IN
    /\ At(t, "bulk") /\ u \in j.todo
    /\ job' = [job EXCEPT ![t] =
           IF ~Live(u) THEN Bucketed(j, "missing", u)
           ELSE IF Unfit(u, j.plan) THEN Bucketed(j, "conflicted", u)
           ELSE [step |-> "commit", op |-> "bulk", ulid |-> u, at |-> record[u].version,
                 article |-> ApplyField(record[u].article, j.plan, offered, t),
                 loaded |-> record[u].article, todo |-> j.todo, plan |-> j.plan,
                 offered |-> offered, asked |-> TRUE, buckets |-> j.buckets]]
    /\ UNCHANGED <<record, minted, chain, page, requests, events>>

ClearsOrNever(j) == j.plan.field = "mediaType" /\ j.article.documentType = None

Clears(j) ==
    /\ j.plan.field = "mediaType"
    /\ j.loaded.documentType # None /\ j.article.documentType = None

BulkSaved(j) ==
    LET saved == Bucketed(j, "saved", j.ulid)
    IN  IF Clears(j) THEN [saved EXCEPT !.buckets.cleared = @ \union {j.ulid}] ELSE saved

ReportBulk(t) ==
    /\ At(t, "bulk") /\ job[t].todo = {}
    /\ Shows(t, NoPage)
    /\ Ends(t)
    /\ UNCHANGED <<record, minted, chain, requests, events>>

(***************************************************************************)
(* The commit of a save: it compares the version that was read with the    *)
(* stored one, zero when there is none, and writes the next.               *)
(***************************************************************************)
Version(u) == IF record[u] = Absent THEN 0 ELSE record[u].version
Writes(j) == record' = [record EXCEPT ![j.ulid] =
                           [version |-> j.at + 1, article |-> j.article]]

CommitWins(t) ==
    LET j == job[t] IN
    /\ At(t, "commit") /\ Version(j.ulid) = j.at
    /\ Writes(j)
    /\ CASE j.op \in {"edit", "publish"} -> Ends(t) /\ Shows(t, NoPage)
         [] j.op = "media" ->
              /\ Ends(t)
              /\ Shows(t, MediaSurface(page[t], j.article, j.at + 1, j.js, TRUE))
         [] j.op = "bulk" -> job' = [job EXCEPT ![t] = BulkSaved(j)] /\ page' = page
    /\ UNCHANGED <<minted, chain, requests, events>>

CommitLoses(t) ==
    LET j == job[t] IN
    /\ At(t, "commit") /\ Version(j.ulid) # j.at
    /\ CASE j.op = "edit" -> job' = [job EXCEPT ![t] = [step |-> "winner", ulid |-> j.ulid,
                                                        posted |-> j.article]]
                             /\ page' = page
         [] j.op = "publish" -> Ends(t) /\ Shows(t, NoPage)
         [] j.op = "media" ->
              /\ job' = [job EXCEPT ![t] =
                    IF j.tries > 0
                    THEN [step |-> "load", op |-> "media", ulid |-> j.ulid,
                          change |-> j.change, js |-> j.js, tries |-> j.tries - 1]
                    ELSE [step |-> "lost", ulid |-> j.ulid, js |-> j.js]]
              /\ page' = page
         [] j.op = "bulk" -> job' = [job EXCEPT ![t] = Bucketed(j, "conflicted", j.ulid)]
                             /\ page' = page
    /\ UNCHANGED <<record, minted, chain, requests, events>>

(***************************************************************************)
(* save_catalog_form after a Conflict: the form comes back over the winner *)
(* as it now stands, at its version, and names the fields that differ and  *)
(* have a label for it (_conflict_rows); a deleted one is the 404.         *)
(***************************************************************************)
DiffedWithoutDokumenttyp == {"lifecycle", "template", "mediaType", "text"}

Diffed == {"lifecycle", "template", "mediaType", "documentType", "text"}

ConflictRows(mine, theirs) == {f \in Diffed : mine[f] # theirs[f]}

Winner(t) ==
    LET u == job[t].ulid IN
    /\ At(t, "winner")
    /\ IF Live(u)
       THEN /\ Ends(t)
            /\ Shows(t, Form(u, record[u].version, record[u].article, job[t].posted,
                           ConflictRows(job[t].posted, record[u].article)))
       ELSE NotFound(t)
    /\ UNCHANGED <<record, minted, chain, requests, events>>

(***************************************************************************)
(* The store raises under a save, before or after the README is placed: a  *)
(* bulk edit lists the record as not saved, any other request ends in an   *)
(* error and its page stays.                                               *)
(***************************************************************************)
StoreFails(t) ==
    LET j == job[t] IN
    /\ events < MaxEvents
    /\ events' = events + 1
    /\ At(t, "commit")
    /\ record' = record \/ (Version(j.ulid) = j.at /\ Writes(j))
    /\ IF j.op = "bulk" THEN job' = [job EXCEPT ![t] = Bucketed(j, "conflicted", j.ulid)]
                        ELSE Ends(t)
    /\ UNCHANGED <<minted, chain, page, requests>>

(***************************************************************************)
(* A save of a Collection elsewhere breaks or mends a chain, or its README *)
(* stops or begins to decode.  No record's version says so.                *)
(***************************************************************************)
ChainChanges(c) ==
    /\ events < MaxEvents
    /\ events' = events + 1
    /\ \E s \in Chains \ {chain[c]} : chain' = [chain EXCEPT ![c] = s]
    /\ UNCHANGED <<record, minted, page, job, requests>>

Asks(t) ==
    \/ \E u \in Ulids : Open(t, u) \/ Copy(t, u) \/ Delete(t, u)
    \/ \E u \in Ulids, c \in Collections : Create(t, u, c)
    \/ \E e \in Entries, named \in BOOLEAN : PostEdit(t, e, named)
    \/ PostPublish(t)
    \/ \E c \in MediaChanges, js \in BOOLEAN : PostMedia(t, c, js)
    \/ \E js \in BOOLEAN : AskRemoval(t, js)
    \/ \E selection \in SUBSET Ulids \ {{}}, e \in BulkEdits :
           PostBulk(t, selection, e)
    \/ \E clear \in BOOLEAN : ConfirmBulk(t, clear)

GoesOn(t) ==
    \/ Parse(t) \/ LoadPublish(t) \/ GatePublish(t)
    \/ LoadMedia(t) \/ LostMedia(t)
    \/ \E u \in Ulids : LoadBulk(t, u)
    \/ ReportBulk(t)
    \/ CommitWins(t) \/ CommitLoses(t) \/ Winner(t) \/ StoreFails(t)

Next ==
    \/ \E t \in Archivists : Asks(t) \/ GoesOn(t)
    \/ \E c \in Shifting : ChainChanges(c)

Spec == Init /\ [][Next]_vars

(***************************************************************************)
(* No record ever holds a Dokumenttyp its Medienart does not admit, and no *)
(* template is published, though forms, bulk edits and copies set the      *)
(* fields of the pair one by one on what they read earlier.                *)
(***************************************************************************)
RecordsFit == \A u \in Ulids : record[u] # Absent => WellFormed(record[u].article)

(***************************************************************************)
(* A save of the form and a publication replace the record their page      *)
(* shows, with its media: no save of somebody else's is overwritten that   *)
(* the archivist had not before her, whatever answers the page took in.    *)
(***************************************************************************)
Replaces(t, u) ==
    /\ At(t, "commit") /\ job[t].ulid = u
    /\ record[u] # Absent /\ record'[u] # record[u] /\ job'[t] # job[t]

ShownBeforeReplaced ==
    [][\A t \in Archivists, u \in Ulids :
          Replaces(t, u) /\ job[t].op \in {"edit", "publish"} =>
              record[u].article = page[t].shown]_vars

(***************************************************************************)
(* What a save of the form changes in a record, the archivist typed, or a  *)
(* notice had named the field after another archivist's save: no change of *)
(* somebody else's is set back unseen by a form that came back over it.    *)
(* The Sammlungsteil has no label and is never named (card.py).            *)
(***************************************************************************)
Fields == {"lifecycle", "template", "mediaType", "documentType", "text"}

UndoneWasNamed ==
    [][\A t \in Archivists, u \in Ulids :
          Replaces(t, u) /\ job[t].op = "edit" =>
              {f \in Fields : job[t].article[f] # record[u].article[f]} \subseteq job[t].known]_vars

(***************************************************************************)
(* A record becomes published only by a request that saw the chain of the  *)
(* Collection it is published in resolve after its gate, and only from a   *)
(* draft that is no template.                                              *)
(***************************************************************************)
Published(r) == r # Absent /\ r.article.lifecycle = "published"

PublishGateHolds ==
    [][\A u \in Ulids : Published(record'[u]) /\ ~Published(record[u]) =>
          \E t \in Archivists :
              /\ Replaces(t, u) /\ job[t].op \in {"edit", "publish"}
              /\ record'[u].article.collection \in job[t].resolved
              /\ ~record'[u].article.template]_vars

(***************************************************************************)
(* The report of a bulk edit is true: each record is in one bucket, a      *)
(* saved one was changed from what was loaded and by nobody in between, a  *)
(* refused one was left alone unless the store failed, and the cleared     *)
(* ones are exactly those that lost a Dokumenttyp.                         *)
(***************************************************************************)
OneBucketEach(plan, b) ==
    /\ plan.selection = b.saved \union b.conflicted \union b.missing
    /\ b.saved \intersect b.conflicted = {} /\ b.saved \intersect b.missing = {}
    /\ b.conflicted \intersect b.missing = {}

BulkAccounts ==
    [][/\ \A t \in Archivists : At(t, "bulk") /\ At(t, "idle")' =>
              OneBucketEach(job[t].plan, job[t].buckets)
       /\ \A t \in Archivists :
              At(t, "commit") /\ job[t].op = "bulk" /\ job'[t] # job[t] =>
                  LET u == job[t].ulid
                      b == job'[t].buckets
                  IN  /\ u \in b.saved => /\ record[u].version = job[t].at
                                         /\ record'[u].version = job[t].at + 1
                      /\ u \in b.cleared <=>
                            /\ u \in b.saved /\ job[t].plan.field = "mediaType"
                            /\ record[u].article.documentType # None
                            /\ record'[u].article.documentType = None
                      /\ u \in b.conflicted => record' = record \/ events' # events]_vars
=============================================================================
