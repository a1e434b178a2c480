------------------------ MODULE ArticlePages_proofs ------------------------
(***************************************************************************)
(* Proofs about ArticlePages for every number of archivists, records,      *)
(* Collections, requests and retries.                                      *)
(***************************************************************************)
EXTENDS ArticlePages, TLAPS

ArticleFields == {"collection", "mediaType", "documentType", "lifecycle", "template", "media",
                  "text", "deleted"}

IsArticle(a) ==
    /\ a = [f \in ArticleFields |-> a[f]]
    /\ a.collection \in Collections
    /\ a.lifecycle \in Lifecycles

Shapes ==
    /\ DOMAIN record = Ulids /\ DOMAIN page = Archivists /\ DOMAIN job = Archivists
    /\ DOMAIN chain = Collections
    /\ minted \subseteq Ulids
    /\ events \in Nat

RecordOK(u) ==
    record[u] # Absent =>
        /\ u \in minted
        /\ record[u].version \in Nat \ {0}
        /\ IsArticle(record[u].article)
        /\ WellFormed(record[u].article)

(***************************************************************************)
(* A version that was once read of a record is never ahead of it: what was *)
(* read with it is what stands as long as that version does.               *)
(***************************************************************************)
Now(u, v) == record[u] # Absent /\ record[u].version = v

WasRead(u, v) ==
    /\ u \in minted
    /\ v \in Nat \ {0}
    /\ record[u] # Absent => v <= record[u].version

Stands(u, v, a) == Now(u, v) => record[u].article = a

FormFields == {"at", "ulid", "version", "shown", "values", "known"}

ShowsForm(p) ==
    /\ p = [f \in FormFields |-> p[f]]
    /\ IsArticle(p.values)
    /\ \A f \in Fields \ p.known : p.values[f] = p.shown[f]

BulkFields == {"mediaType", "documentType", "collection", "text"}

IsPlan(plan) ==
    /\ plan = [f \in {"selection", "field", "value"} |-> plan[f]]
    /\ plan.field \in BulkFields

PageOK(t) ==
    LET p == page[t] IN
    /\ p.at \in {"none", "form", "article", "check"}
    /\ p.at \in {"form", "article"} =>
          /\ WasRead(p.ulid, p.version)
          /\ IsArticle(p.shown)
          /\ Stands(p.ulid, p.version, p.shown)
    /\ p.at = "form" => ShowsForm(p)
    /\ p.at = "check" => IsPlan(p.plan)

(* The buckets of a bulk edit and what is still to do part its selection.  *)
Parted(j) ==
    LET b == j.buckets IN
    /\ IsPlan(j.plan)
    /\ j.offered \subseteq Collections
    /\ b = [f \in {"saved", "conflicted", "missing", "cleared"} |-> b[f]]
    /\ j.plan.selection = j.todo \union b.saved \union b.conflicted \union b.missing
    /\ b.saved \intersect b.conflicted = {} /\ b.saved \intersect b.missing = {}
    /\ b.conflicted \intersect b.missing = {}
    /\ j.todo \intersect (b.saved \union b.conflicted \union b.missing) = {}
    /\ b.cleared \subseteq b.saved

OnForm(t) == page[t].at = "form" /\ page[t].ulid = job[t].ulid
OnArticle(t) == page[t].at = "article" /\ page[t].ulid = job[t].ulid

ParseOK(t) ==
    LET j == job[t] IN
    /\ OnForm(t) /\ j.at = page[t].version /\ j.op = "edit"
    /\ IsArticle(j.gate) /\ IsArticle(j.posted)
    /\ Stands(j.ulid, j.at, j.gate)
    /\ \A f \in Fields \ j.known : j.posted[f] = page[t].shown[f]

LoadOK(t) ==
    LET j == job[t] IN
    /\ j.op \in {"publish", "media"}
    /\ j.op = "publish" => OnArticle(t) /\ j.gate = page[t].shown
    /\ j.op = "media" => OnForm(t)

GateOK(t) ==
    LET j == job[t] IN
    /\ OnArticle(t) /\ j.op = "publish"
    /\ WasRead(j.ulid, j.at)
    /\ j.article = page[t].shown /\ Stands(j.ulid, j.at, j.article)
    /\ WellFormed(j.article) /\ ~j.article.template

EditOK(t) ==
    LET j == job[t]
        a == record[j.ulid].article
    IN
    /\ OnForm(t) /\ j.at = page[t].version
    /\ Now(j.ulid, j.at) =>
          /\ \A f \in Fields \ j.known : j.article[f] = a[f]
          /\ j.article.lifecycle = "published" /\ a.lifecycle # "published" =>
                j.article.collection \in j.resolved

PublishOK(t) ==
    LET j == job[t] IN
    /\ OnArticle(t)
    /\ Stands(j.ulid, j.at, page[t].shown)
    /\ j.article.collection \in j.resolved

MediaOK(t) ==
    LET j == job[t] IN
    /\ OnForm(t)
    /\ Now(j.ulid, j.at) =>
          \A f \in ArticleFields \ {"media"} : j.article[f] = record[j.ulid].article[f]

BulkOK(t) ==
    LET j == job[t] IN
    /\ Parted(j) /\ j.ulid \in j.todo
    /\ Stands(j.ulid, j.at, j.loaded)
    /\ j.article.lifecycle = j.loaded.lifecycle

CommitOK(t) ==
    LET j == job[t] IN
    /\ j.op \in {"edit", "publish", "media", "bulk"}
    /\ WasRead(j.ulid, j.at)
    /\ IsArticle(j.article) /\ WellFormed(j.article)
    /\ j.op = "edit" => EditOK(t)
    /\ j.op = "publish" => PublishOK(t)
    /\ j.op = "media" => MediaOK(t)
    /\ j.op = "bulk" => BulkOK(t)

Steps == {"idle", "parse", "load", "gate", "commit", "winner", "lost", "bulk"}

JobOK(t) ==
    /\ job[t].step \in Steps
    /\ At(t, "parse") => ParseOK(t)
    /\ At(t, "load") => LoadOK(t)
    /\ At(t, "gate") => GateOK(t)
    /\ At(t, "commit") => CommitOK(t)
    /\ At(t, "winner") => job[t].ulid \in minted /\ IsArticle(job[t].posted)
    /\ At(t, "lost") => OnForm(t)
    /\ At(t, "bulk") => Parted(job[t])

RecordsOK == \A u \in Ulids : RecordOK(u)
PagesOK == \A t \in Archivists : PageOK(t)
JobsOK == \A t \in Archivists : JobOK(t)

IInv == Shapes /\ RecordsOK /\ PagesOK /\ JobsOK

(***************************************************************************)
(* How a record may move: only one that was given out stands, and it stays *)
(* as it is, goes for good, or takes the next version.                     *)
(***************************************************************************)
Moves ==
    /\ minted \subseteq minted'
    /\ \A u \in minted :
          \/ record'[u] = record[u]
          \/ record'[u] = Absent
          \/ record[u] # Absent /\ record'[u].version = record[u].version + 1

Still == UNCHANGED <<record, minted>>

LEMMA StillMoves == Still => Moves
BY DEF Still, Moves

LEMMA StillRecords == RecordsOK /\ Still => RecordsOK'
BY DEF RecordsOK, RecordOK, Still

(* What was read stays read, and what stood with it stands if it does.     *)
LEMMA ReadStays ==
    ASSUME Shapes, RecordsOK, Moves, NEW u \in minted, NEW v \in Nat \ {0},
           record[u] # Absent => v <= record[u].version
    PROVE  /\ u \in minted'
           /\ record'[u] # Absent => v <= record'[u].version
           /\ record'[u] # Absent /\ record'[u].version = v =>
                 record[u] # Absent /\ record[u].version = v /\ record'[u] = record[u]
<1>1. u \in Ulids /\ (record[u] # Absent => record[u].version \in Nat)
  BY DEF Shapes, RecordsOK, RecordOK
<1> QED BY <1>1 DEF Moves

LEMMA PageStays ==
    ASSUME Shapes, RecordsOK, Moves, NEW t \in Archivists, PageOK(t), page'[t] = page[t]
    PROVE  PageOK(t)'
<1> DEFINE p == page[t]
<1>1. ASSUME p.at \in {"form", "article"}
      PROVE  WasRead(p.ulid, p.version)' /\ Stands(p.ulid, p.version, p.shown)'
  <2>1. WasRead(p.ulid, p.version) /\ Stands(p.ulid, p.version, p.shown)
    BY <1>1 DEF PageOK
  <2> QED BY <2>1, ReadStays DEF WasRead, Stands, Now
<1> QED BY <1>1 DEF PageOK

LEMMA JobStays ==
    ASSUME Shapes, RecordsOK, Moves, NEW t \in Archivists, JobOK(t),
           page'[t] = page[t], job'[t] = job[t], PageOK(t)
    PROVE  JobOK(t)'
<1> DEFINE j == job[t]
<1> USE DEF At, WasRead, Stands, Now, OnForm, OnArticle
<1>1. ASSUME At(t, "parse") PROVE ParseOK(t)'
  <2>1. ParseOK(t) /\ WasRead(j.ulid, j.at)
    BY <1>1 DEF JobOK, ParseOK, PageOK
  <2> QED BY <2>1, ReadStays DEF ParseOK
<1>2. ASSUME At(t, "load") PROVE LoadOK(t)'
  BY <1>2 DEF JobOK, LoadOK
<1>3. ASSUME At(t, "gate") PROVE GateOK(t)'
  <2>1. GateOK(t)
    BY <1>3 DEF JobOK
  <2> QED BY <2>1, ReadStays DEF GateOK
<1>4. ASSUME At(t, "commit") PROVE CommitOK(t)'
  <2>1. CommitOK(t)
    BY <1>4 DEF JobOK
  <2>2. WasRead(j.ulid, j.at)' /\ (Now(j.ulid, j.at)' =>
            Now(j.ulid, j.at) /\ record'[j.ulid] = record[j.ulid])
    BY <2>1, ReadStays DEF CommitOK
  <2>3. ASSUME j.op = "edit" PROVE EditOK(t)'
    BY <2>1, <2>2, <2>3 DEF CommitOK, EditOK
  <2>4. ASSUME j.op = "publish" PROVE PublishOK(t)'
    BY <2>1, <2>2, <2>4 DEF CommitOK, PublishOK
  <2>5. ASSUME j.op = "media" PROVE MediaOK(t)'
    BY <2>1, <2>2, <2>5 DEF CommitOK, MediaOK
  <2>6. ASSUME j.op = "bulk" PROVE BulkOK(t)'
    BY <2>1, <2>2, <2>6 DEF CommitOK, BulkOK
  <2> QED BY <2>1, <2>2, <2>3, <2>4, <2>5, <2>6 DEF CommitOK
<1> QED BY <1>1, <1>2, <1>3, <1>4 DEF JobOK, Moves

(***************************************************************************)
(* A step of one archivist leaves the others' pages and requests alone.    *)
(***************************************************************************)
OnlyBy(t) == \A s \in Archivists \ {t} : page'[s] = page[s] /\ job'[s] = job[s]

LEMMA OneActs ==
    ASSUME IInv, Moves, Shapes', RecordsOK', NEW t \in Archivists, OnlyBy(t),
           PageOK(t)', JobOK(t)'
    PROVE  IInv'
<1>1. ASSUME NEW s \in Archivists \ {t} PROVE PageOK(s)' /\ JobOK(s)'
  BY PageStays, JobStays DEF IInv, PagesOK, JobsOK, OnlyBy
<1> QED BY <1>1 DEF IInv, PagesOK, JobsOK

(* What a page may show, and what it shows of a record just loaded.        *)
LEMMA NoPageIsOK == ASSUME NEW t, page'[t] = NoPage PROVE PageOK(t)'
BY DEF PageOK, NoPage

LEMMA NoJobIsOK == ASSUME NEW t, job'[t] = NoJob PROVE JobOK(t)'
BY DEF JobOK, NoJob, At, Steps

LEMMA LoadedIsOK ==
    ASSUME IInv, NEW u \in Ulids, record[u] # Absent
    PROVE  /\ WasRead(u, record[u].version)
           /\ IsArticle(record[u].article) /\ WellFormed(record[u].article)
           /\ Stands(u, record[u].version, record[u].article)
BY DEF IInv, RecordsOK, RecordOK, WasRead, Stands

LEMMA FormParts ==
    ASSUME NEW u, NEW v, NEW a, NEW values, NEW known
    PROVE  LET p == Form(u, v, a, values, known) IN
           /\ p.at = "form" /\ p.ulid = u /\ p.version = v /\ p.shown = a
           /\ p.values = values /\ p.known = known
           /\ p = [f \in FormFields |-> p[f]]
BY DEF Form, FormFields

LEMMA FormIsOK ==
    ASSUME NEW t, NEW u, NEW v, NEW a, NEW values, NEW known,
           Still, WasRead(u, v), IsArticle(a), Stands(u, v, a), IsArticle(values),
           \A f \in Fields \ known : values[f] = a[f],
           page'[t] = Form(u, v, a, values, known)
    PROVE  PageOK(t)'
<1>1. LET p == Form(u, v, a, values, known) IN
      /\ p.at = "form" /\ p.ulid = u /\ p.version = v /\ p.shown = a
      /\ p.values = values /\ p.known = known
      /\ p = [f \in FormFields |-> p[f]]
  BY FormParts
<1> QED BY <1>1 DEF PageOK, ShowsForm, Still, WasRead, Stands, Now

LEMMA OpenKeeps ==
    ASSUME IInv, NEW t \in Archivists, NEW u \in Ulids, Open(t, u)
    PROVE  IInv'
<1> USE DEF Open, Shows, At
<1>1. Moves /\ RecordsOK' /\ Shapes' /\ OnlyBy(t)
  BY StillMoves, StillRecords DEF IInv, Still, Shapes, OnlyBy
<1>2. JobOK(t)'
  BY DEF IInv, Shapes, JobsOK, JobOK, Steps
<1>3. PageOK(t)'
  <2>1. CASE ~Live(u)
    BY <2>1, NoPageIsOK DEF IInv, Shapes
  <2>2. CASE Live(u)
    <3> DEFINE a == record[u].article
               v == record[u].version
    <3>1. WasRead(u, v) /\ IsArticle(a) /\ Stands(u, v, a)
      BY <2>2, LoadedIsOK DEF Live
    <3>2. CASE page'[t] = Form(u, v, a, a, {})
      <4> HIDE DEF a, v
      <4> QED BY <3>1, <3>2, FormIsOK DEF Still
    <3>3. CASE page'[t] = [at |-> "article", ulid |-> u, version |-> v, shown |-> a]
      BY <3>1, <3>3 DEF PageOK, WasRead, Stands, Now
    <3> QED BY <2>2, <3>2, <3>3 DEF IInv, Shapes
  <2> QED BY <2>1, <2>2
<1> QED BY <1>1, <1>2, <1>3, OneActs

LEMMA StillActs ==
    ASSUME IInv, Still, Shapes', NEW t \in Archivists, OnlyBy(t), PageOK(t)', JobOK(t)'
    PROVE  IInv'
BY StillMoves, StillRecords, OneActs DEF IInv

LEMMA NobodyActs ==
    ASSUME IInv, Moves, Shapes', RecordsOK', UNCHANGED <<page, job>>
    PROVE  IInv'
BY PageStays, JobStays DEF IInv, PagesOK, JobsOK

LEMMA IdleIsOK ==
    ASSUME NEW t, job'[t].step = "idle"
    PROVE  JobOK(t)'
BY DEF JobOK, At, Steps

(* A record that is written is new, or the next version of what stands.    *)
LEMMA WriteMoves ==
    ASSUME IInv, NEW u \in Ulids, NEW n, NEW a, IsArticle(a), WellFormed(a),
           record' = [record EXCEPT ![u] = [version |-> n, article |-> a]],
           minted' = minted \union {u},
           \/ u \notin minted /\ n = 1
           \/ record[u] # Absent /\ n = record[u].version + 1
    PROVE  /\ Moves /\ RecordsOK'
           /\ DOMAIN record' = Ulids /\ minted' \subseteq Ulids
<1>1. record[u] # Absent => record[u].version \in Nat
  BY DEF IInv, RecordsOK, RecordOK
<1>2. DOMAIN record = Ulids /\ minted \subseteq Ulids
  BY DEF IInv, Shapes
<1>3. \A o \in Ulids : record'[o] = IF o = u THEN [version |-> n, article |-> a] ELSE record[o]
  BY <1>2
<1>4. Moves
  BY <1>2, <1>3 DEF Moves
<1>5. n \in Nat \ {0}
  BY <1>1
<1>6. RecordsOK'
  BY <1>3, <1>5 DEF IInv, RecordsOK, RecordOK
<1> QED BY <1>2, <1>4, <1>6

LEMMA CreateKeeps ==
    ASSUME IInv, NEW t \in Archivists, NEW u \in Ulids, NEW c \in Collections, Create(t, u, c)
    PROVE  IInv'
<1> USE DEF Create, Request, Shows, At
<1>1. IsArticle(Born(c, t)) /\ WellFormed(Born(c, t))
  BY DEF Born, IsArticle, ArticleFields, WellFormed, IsValidPair, Lifecycles
<1>2. Moves /\ RecordsOK' /\ DOMAIN record' = Ulids /\ minted' \subseteq Ulids
  BY <1>1, WriteMoves
<1>3. Shapes' /\ OnlyBy(t)
  BY <1>2 DEF IInv, Shapes, OnlyBy
<1>4. PageOK(t)' /\ JobOK(t)'
  BY NoPageIsOK, IdleIsOK DEF IInv, Shapes
<1> QED BY <1>2, <1>3, <1>4, OneActs

LEMMA CopyKeeps ==
    ASSUME IInv, NEW t \in Archivists, NEW u \in Ulids, Copy(t, u)
    PROVE  IInv'
<1> USE DEF Copy, Request, Shows, At
<1> DEFINE a == record[page[t].ulid].article
<1>1. IsArticle(a) /\ WellFormed(a)
  <2>1. page[t].ulid \in Ulids
    BY DEF IInv, PagesOK, PageOK, WasRead, Shapes
  <2> QED BY <2>1, LoadedIsOK DEF Live
<1>2. IsArticle(Copied(a)) /\ WellFormed(Copied(a))
  <2> HIDE DEF a
  <2> QED BY <1>1 DEF Copied, IsArticle, ArticleFields, WellFormed, IsValidPair, Lifecycles
<1>3. Moves /\ RecordsOK' /\ DOMAIN record' = Ulids /\ minted' \subseteq Ulids
  BY <1>2, WriteMoves
<1>4. Shapes' /\ OnlyBy(t)
  BY <1>3 DEF IInv, Shapes, OnlyBy
<1>5. PageOK(t)' /\ JobOK(t)'
  BY NoPageIsOK, IdleIsOK DEF IInv, Shapes
<1> QED BY <1>3, <1>4, <1>5, OneActs

LEMMA DeleteKeeps ==
    ASSUME IInv, NEW t \in Archivists, NEW u \in Ulids, Delete(t, u)
    PROVE  IInv'
<1> USE DEF Delete, Request, At
<1> DEFINE a == record[u].article
           flipped == [a EXCEPT !.deleted = ~@]
<1>1. IsArticle(a) /\ WellFormed(a) /\ u \in minted
  BY LoadedIsOK DEF WasRead
<1>2. IsArticle(flipped) /\ WellFormed(flipped)
  <2> HIDE DEF a
  <2> QED BY <1>1 DEF IsArticle, ArticleFields, WellFormed, IsValidPair
<1>3. CASE record' = [record EXCEPT ![u] = [version |-> record[u].version + 1,
                                            article |-> flipped]]
  <2>1. Moves /\ RecordsOK' /\ DOMAIN record' = Ulids /\ minted' \subseteq Ulids
    <3> HIDE DEF flipped
    <3> QED BY <1>1, <1>2, <1>3, WriteMoves
  <2> QED BY <2>1, NobodyActs DEF IInv, Shapes
<1>4. CASE record' = [record EXCEPT ![u] = Absent]
  <2>1. Moves /\ RecordsOK' /\ Shapes'
    BY <1>4 DEF IInv, Shapes, Moves, RecordsOK, RecordOK
  <2> QED BY <2>1, NobodyActs
<1> QED BY <1>3, <1>4

(* Typing into a form keeps its fields what they are, but those typed.     *)
LEMMA TypedFields ==
    ASSUME NEW t, NEW a, IsArticle(a), NEW entry \in Entries
    PROVE  /\ IsArticle(Typed(t, a, entry))
           /\ \A f \in Fields \ (DOMAIN entry \union {"text"}) : Typed(t, a, entry)[f] = a[f]
<1> DEFINE b == Typed(t, a, entry)
<1>1. b = [f \in ArticleFields |-> IF f = "text" THEN t
                                   ELSE IF f \in DOMAIN entry THEN entry[f] ELSE a[f]]
  BY DEF IsArticle, Typed
<1>2. b = [f \in ArticleFields |-> b[f]] /\ b.collection \in Collections /\ b.lifecycle \in Lifecycles
  BY <1>1, EntriesAssumption DEF IsArticle, ArticleFields
<1>3. \A f \in Fields \ (DOMAIN entry \union {"text"}) : b[f] = a[f]
  BY <1>1 DEF Fields, ArticleFields
<1> QED BY <1>2, <1>3 DEF IsArticle

(* The record a form's page shows, once its gate has loaded it.            *)
LEMMA PageReads ==
    ASSUME IInv, NEW t \in Archivists, page[t].at \in {"form", "article"}
    PROVE  /\ page[t].ulid \in Ulids
           /\ WasRead(page[t].ulid, page[t].version)
           /\ IsArticle(page[t].shown)
           /\ Stands(page[t].ulid, page[t].version, page[t].shown)
           /\ page[t].at = "form" => ShowsForm(page[t])
BY DEF IInv, PagesOK, PageOK, WasRead, Shapes

LEMMA PostEditKeeps ==
    ASSUME IInv, NEW t \in Archivists, NEW entry \in Entries, NEW named, PostEdit(t, entry, named)
    PROVE  IInv'
<1> USE DEF PostEdit, Gated, Request, Shows, Ends, NotFound, At
<1> DEFINE u == page[t].ulid
           next == [step |-> "parse", op |-> "edit", ulid |-> u,
                    posted |-> Typed(t, page[t].values, entry), named |-> named,
                    known |-> page[t].known \union DOMAIN entry \union {"text"},
                    at |-> page[t].version, gate |-> record[u].article]
<1>1. Still /\ Shapes' /\ OnlyBy(t)
  BY DEF IInv, Still, Shapes, OnlyBy
<1>2. CASE ~Live(u)
  BY <1>1, <1>2, NoPageIsOK, NoJobIsOK, StillActs DEF IInv, Shapes
<1>3. CASE Live(u)
  <2>1. job'[t] = next /\ page' = page /\ record' = record
    BY <1>3 DEF IInv, Shapes
  <2>2. WasRead(u, page[t].version) /\ Stands(u, page[t].version, page[t].shown)
        /\ u \in Ulids /\ ShowsForm(page[t])
    BY PageReads
  <2>3. IsArticle(record[u].article) /\ record[u] # Absent
    BY <2>2, <1>3, LoadedIsOK DEF Live
  <2>4. /\ IsArticle(next.posted)
        /\ \A f \in Fields \ next.known : next.posted[f] = page[t].shown[f]
    BY <2>2, TypedFields DEF ShowsForm
  <2>5. ParseOK(t)'
    <3>1. OnForm(t)' /\ job'[t].at = page'[t].version /\ job'[t].op = "edit"
      BY <2>1 DEF OnForm
    <3>2. IsArticle(job'[t].gate) /\ IsArticle(job'[t].posted)
      BY <2>1, <2>3, <2>4
    <3>3. Stands(job[t].ulid, job[t].at, job[t].gate)'
      BY <2>1, <2>2, <2>3 DEF Stands, Now
    <3>4. \A f \in Fields \ job'[t].known : job'[t].posted[f] = page'[t].shown[f]
      BY <2>1, <2>4
    <3> QED BY <3>1, <3>2, <3>3, <3>4 DEF ParseOK
  <2>6. JobOK(t)'
    BY <2>1, <2>5 DEF JobOK, Steps
  <2>7. PageOK(t)'
    BY <1>1, <2>1, StillMoves, PageStays DEF IInv, PagesOK
  <2> QED BY <1>1, <2>6, <2>7, StillActs
<1> QED BY <1>2, <1>3

LEMMA PostMediaKeeps ==
    ASSUME IInv, NEW t \in Archivists, NEW c, NEW js, PostMedia(t, c, js)
    PROVE  IInv'
<1> USE DEF PostMedia, Gated, Request, Shows, Ends, NotFound, At
<1> DEFINE u == page[t].ulid
<1>1. Still /\ Shapes' /\ OnlyBy(t)
  BY DEF IInv, Still, Shapes, OnlyBy
<1>2. CASE ~Live(u)
  BY <1>1, <1>2, NoPageIsOK, NoJobIsOK, StillActs DEF IInv, Shapes
<1>3. CASE Live(u)
  <2>1. /\ job'[t] = [step |-> "load", op |-> "media", ulid |-> u, change |-> c,
                      js |-> js, tries |-> Retries]
        /\ page' = page
    BY <1>3 DEF IInv, Shapes
  <2>2. JobOK(t)'
    BY <2>1 DEF JobOK, LoadOK, OnForm, Steps
  <2>3. PageOK(t)'
    BY <1>1, <2>1, StillMoves, PageStays DEF IInv, PagesOK
  <2> QED BY <1>1, <2>2, <2>3, StillActs
<1> QED BY <1>2, <1>3

LEMMA PostPublishKeeps ==
    ASSUME IInv, NEW t \in Archivists, PostPublish(t)
    PROVE  IInv'
<1> USE DEF PostPublish, Request, Shows, Ends, At
<1> DEFINE u == page[t].ulid
<1>1. Still /\ Shapes' /\ OnlyBy(t)
  BY DEF IInv, Still, Shapes, OnlyBy
<1>2. CASE ~(Live(u) /\ record[u].version = page[t].version)
  BY <1>1, <1>2, NoPageIsOK, NoJobIsOK, StillActs DEF IInv, Shapes
<1>3. CASE Live(u) /\ record[u].version = page[t].version
  <2>1. /\ job'[t] = [step |-> "load", op |-> "publish", ulid |-> u, gate |-> record[u].article]
        /\ page' = page
    BY <1>3 DEF IInv, Shapes
  <2>2. record[u].article = page[t].shown
    BY <1>3, PageReads DEF Stands, Now, Live
  <2>3. JobOK(t)'
    BY <2>1, <2>2 DEF JobOK, LoadOK, OnArticle, Steps
  <2>4. PageOK(t)'
    BY <1>1, <2>1, StillMoves, PageStays DEF IInv, PagesOK
  <2> QED BY <1>1, <2>3, <2>4, StillActs
<1> QED BY <1>2, <1>3

LEMMA SameArticle ==
    ASSUME NEW a, NEW b, IsArticle(a), IsArticle(b), \A f \in ArticleFields : a[f] = b[f]
    PROVE  a = b
BY DEF IsArticle

(* With a script a form keeps all it shows but the media, and the version  *)
(* it goes on to is that of a save of its own.                             *)
Resurfaced(p, media, v) == [p EXCEPT !.shown.media = media, !.version = v]

LEMMA SurfaceParts ==
    ASSUME NEW p, p = [f \in FormFields |-> p[f]], IsArticle(p.shown), NEW media, NEW v,
           NEW q, q = Resurfaced(p, media, v)
    PROVE  /\ q = [f \in FormFields |-> q[f]]
           /\ q.at = p.at /\ q.ulid = p.ulid /\ q.values = p.values /\ q.known = p.known
           /\ q.version = v
           /\ IsArticle(q.shown)
           /\ \A f \in ArticleFields \ {"media"} : q.shown[f] = p.shown[f]
           /\ q.shown["media"] = media
<1>1. DOMAIN p = FormFields /\ DOMAIN p.shown = ArticleFields
  BY DEF IsArticle
<1>2. /\ q = [f \in FormFields |-> q[f]]
      /\ q.at = p.at /\ q.ulid = p.ulid /\ q.values = p.values /\ q.known = p.known
      /\ q.version = v
      /\ q.shown = [p.shown EXCEPT !.media = media]
  BY <1>1 DEF FormFields, Resurfaced
<1>3. /\ IsArticle(q.shown)
      /\ \A f \in ArticleFields \ {"media"} : q.shown[f] = p.shown[f]
      /\ q.shown["media"] = media
  BY <1>1, <1>2 DEF IsArticle, ArticleFields
<1> QED BY <1>2, <1>3

LEMMA ShownIsOK ==
    ASSUME Still, NEW t, NEW q, page'[t] = q, q.at = "form", WasRead(q.ulid, q.version),
           IsArticle(q.shown), Stands(q.ulid, q.version, q.shown), ShowsForm(q)
    PROVE  PageOK(t)'
BY DEF Still, PageOK, WasRead, Stands, Now

(* The surface over the record as it stands: nothing was saved.            *)
LEMMA SurfaceIsOK ==
    ASSUME IInv, Still, NEW t \in Archivists, page[t].at = "form", NEW js,
           record[page[t].ulid] # Absent,
           page'[t] = MediaSurface(page[t], record[page[t].ulid].article,
                                   record[page[t].ulid].version, js, FALSE)
    PROVE  PageOK(t)'
<1> DEFINE p == page[t]
           a == record[p.ulid].article
           v == record[p.ulid].version
<1>1. /\ p.ulid \in Ulids /\ WasRead(p.ulid, p.version) /\ IsArticle(p.shown)
      /\ Stands(p.ulid, p.version, p.shown) /\ ShowsForm(p)
  BY PageReads
<1>2. WasRead(p.ulid, v) /\ IsArticle(a) /\ Stands(p.ulid, v, a)
  BY <1>1, LoadedIsOK
<1>3. CASE ~js
  <2>1. page'[t] = Form(p.ulid, v, a, a, {})
    BY <1>3 DEF MediaSurface
  <2> HIDE DEF a, v, p
  <2> QED BY <1>2, <2>1, FormIsOK
<1>4. CASE js
  <2>1. PICK q : q = page'[t] /\ q = Resurfaced(p, a.media, p.version)
    BY <1>4 DEF MediaSurface, Resurfaced
  <2>2. /\ q = [f \in FormFields |-> q[f]]
        /\ q.at = p.at /\ q.ulid = p.ulid /\ q.values = p.values /\ q.known = p.known
        /\ q.version = p.version
        /\ IsArticle(q.shown)
        /\ \A f \in ArticleFields \ {"media"} : q.shown[f] = p.shown[f]
        /\ q.shown["media"] = a.media
    <3> HIDE DEF a, v, p
    <3>1. p = [f \in FormFields |-> p[f]] /\ IsArticle(p.shown)
      BY <1>1 DEF ShowsForm
    <3>2. q = Resurfaced(p, a.media, p.version)
      BY <2>1
    <3> QED BY ONLY <3>1, <3>2, SurfaceParts
  <2>3. Now(p.ulid, p.version) => q.shown = a
    <3>1. SUFFICES ASSUME Now(p.ulid, p.version) PROVE q.shown = a
      OBVIOUS
    <3>2. p.shown = a
      BY <1>1, <3>1 DEF Stands
    <3> HIDE DEF a
    <3> QED BY <1>2, <2>2, <3>2, SameArticle
  <2>4. ShowsForm(q)
    BY <1>1, <2>2 DEF ShowsForm, Fields, ArticleFields
  <2>5. WasRead(q.ulid, q.version) /\ Stands(q.ulid, q.version, q.shown)
    BY <1>1, <2>2, <2>3 DEF Stands
  <2> QED BY <2>1, <2>2, <2>4, <2>5, ShownIsOK
<1> QED BY <1>3, <1>4

LEMMA AskRemovalKeeps ==
    ASSUME IInv, NEW t \in Archivists, NEW js, AskRemoval(t, js)
    PROVE  IInv'
<1> USE DEF AskRemoval, Request, Shows, At
<1>1. Still /\ Shapes' /\ OnlyBy(t)
  BY DEF IInv, Still, Shapes, OnlyBy
<1>2. JobOK(t)'
  BY IdleIsOK
<1>3. CASE ~Live(page[t].ulid)
  BY <1>1, <1>2, <1>3, NoPageIsOK, StillActs DEF IInv, Shapes
<1>4. CASE Live(page[t].ulid)
  <2>1. page'[t] = MediaSurface(page[t], record[page[t].ulid].article,
                                record[page[t].ulid].version, js, FALSE)
    BY <1>4 DEF IInv, Shapes
  <2>2. PageOK(t)'
    BY <1>1, <1>4, <2>1, SurfaceIsOK DEF Live
  <2> QED BY <1>1, <1>2, <2>2, StillActs
<1> QED BY <1>3, <1>4

LEMMA LostMediaKeeps ==
    ASSUME IInv, NEW t \in Archivists, LostMedia(t)
    PROVE  IInv'
<1> USE DEF LostMedia, Shows, Ends, NotFound, At
<1>1. Still /\ Shapes' /\ OnlyBy(t)
  BY DEF IInv, Still, Shapes, OnlyBy
<1>2. JobOK(t)'
  BY NoJobIsOK DEF IInv, Shapes
<1>3. CASE record[job[t].ulid] = Absent
  BY <1>1, <1>2, <1>3, NoPageIsOK, StillActs DEF IInv, Shapes
<1>4. CASE record[job[t].ulid] # Absent
  <2>1. page[t].at = "form" /\ page[t].ulid = job[t].ulid
    BY DEF IInv, JobsOK, JobOK, OnForm
  <2>2. page'[t] = MediaSurface(page[t], record[page[t].ulid].article,
                                record[page[t].ulid].version, job[t].js, FALSE)
    BY <1>4, <2>1 DEF IInv, Shapes
  <2>3. PageOK(t)'
    BY <1>1, <1>4, <2>1, <2>2, SurfaceIsOK
  <2> QED BY <1>1, <1>2, <2>3, StillActs
<1> QED BY <1>3, <1>4

(* A check page keeps the field and the value it was asked for.            *)
LEMMA CheckIsOK ==
    ASSUME IInv, NEW t \in Archivists, NEW plan, IsPlan(plan), Check(t, plan)
    PROVE  PageOK(t)'
<1> DEFINE live == [plan EXCEPT !.selection = {u \in @ : Live(u)}]
           p == [at |-> "check", asks |-> Orphans(plan) # {}, plan |-> live]
<1>1. IsPlan(live)
  BY DEF IsPlan
<1>2. page'[t] = p
  BY DEF Check, Shows, IInv, Shapes
<1>3. p.at = "check" /\ p.plan = live
  OBVIOUS
<1> HIDE DEF p, live
<1> QED BY <1>1, <1>2, <1>3 DEF PageOK

LEMMA PostBulkKeeps ==
    ASSUME IInv, NEW t \in Archivists, NEW selection, NEW edit \in BulkEdits,
           PostBulk(t, selection, edit)
    PROVE  IInv'
<1> USE DEF PostBulk, Request, At
<1> DEFINE plan == [selection |-> selection, field |-> edit.field, value |-> edit.value]
<1>1. Still /\ Shapes' /\ OnlyBy(t)
  BY DEF IInv, Still, Shapes, OnlyBy, Check, Shows
<1>2. JobOK(t)'
  BY IdleIsOK
<1>3. IsPlan(plan)
  BY BulkEditsAssumption DEF IsPlan, BulkFields
<1>4. CASE page' = [page EXCEPT ![t] = NoPage]
  BY <1>1, <1>2, <1>4, NoPageIsOK, StillActs DEF IInv, Shapes
<1>5. CASE Check(t, plan)
  BY <1>1, <1>2, <1>3, <1>5, CheckIsOK, StillActs
<1> QED BY <1>4, <1>5 DEF Shows

LEMMA ConfirmBulkKeeps ==
    ASSUME IInv, NEW t \in Archivists, NEW clear, ConfirmBulk(t, clear)
    PROVE  IInv'
<1> USE DEF ConfirmBulk, Request, At
<1> DEFINE plan == page[t].plan
           next == [step |-> "bulk", op |-> "bulk", todo |-> plan.selection, plan |-> plan,
                    offered |-> {}, asked |-> FALSE, buckets |-> NoBuckets]
<1>1. Still /\ Shapes' /\ OnlyBy(t)
  BY DEF IInv, Still, Shapes, OnlyBy, Check, Shows
<1>2. IsPlan(plan)
  BY DEF IInv, PagesOK, PageOK
<1>3. CASE page' = [page EXCEPT ![t] = NoPage] /\ job' = job
  BY <1>1, <1>3, NoPageIsOK, IdleIsOK, StillActs DEF IInv, Shapes
<1>4. CASE Check(t, plan) /\ job' = job
  BY <1>1, <1>2, <1>4, CheckIsOK, IdleIsOK, StillActs
<1>5. CASE job' = [job EXCEPT ![t] = next] /\ page' = page
  <2>1. job'[t] = next
    BY <1>5 DEF IInv, Shapes
  <2>2. Parted(next)
    BY <1>2 DEF Parted, NoBuckets
  <2>3. next.step = "bulk"
    OBVIOUS
  <2> HIDE DEF next
  <2>4. JobOK(t)'
    BY <2>1, <2>2, <2>3 DEF JobOK, Steps
  <2>5. PageOK(t)'
    BY <1>1, <1>5, StillMoves, PageStays DEF IInv, PagesOK
  <2> QED BY <1>1, <2>4, <2>5, StillActs
<1> QED BY <1>3, <1>4, <1>5 DEF Shows

LEMMA ReportBulkKeeps ==
    ASSUME IInv, NEW t \in Archivists, ReportBulk(t)
    PROVE  IInv'
<1> USE DEF ReportBulk, Shows, Ends
<1>1. Still /\ Shapes' /\ OnlyBy(t)
  BY DEF IInv, Still, Shapes, OnlyBy
<1> QED BY <1>1, NoPageIsOK, NoJobIsOK, StillActs DEF IInv, Shapes

LEMMA ChainKeeps ==
    ASSUME IInv, NEW c \in Shifting, ChainChanges(c)
    PROVE  IInv'
<1>1. Still /\ Shapes' /\ UNCHANGED <<page, job>>
  BY DEF ChainChanges, IInv, Still, Shapes
<1> QED BY <1>1, StillMoves, StillRecords, NobodyActs DEF IInv

(* A refused form is shown anew with what was posted, over the media the   *)
(* gate has loaded.                                                        *)
Reshown(p, media, values, known) ==
    [p EXCEPT !.shown.media = media, !.values = values, !.known = known]

LEMMA ReshownParts ==
    ASSUME NEW p, p = [f \in FormFields |-> p[f]], IsArticle(p.shown), NEW media, NEW values,
           NEW known, NEW q, q = Reshown(p, media, values, known)
    PROVE  /\ q = [f \in FormFields |-> q[f]]
           /\ q.at = p.at /\ q.ulid = p.ulid /\ q.version = p.version
           /\ q.values = values /\ q.known = known
           /\ IsArticle(q.shown)
           /\ \A f \in ArticleFields \ {"media"} : q.shown[f] = p.shown[f]
           /\ q.shown["media"] = media
<1>1. DOMAIN p = FormFields /\ DOMAIN p.shown = ArticleFields
  BY DEF IsArticle
<1>2. /\ q = [f \in FormFields |-> q[f]]
      /\ q.at = p.at /\ q.ulid = p.ulid /\ q.version = p.version
      /\ q.values = values /\ q.known = known
      /\ q.shown = [p.shown EXCEPT !.media = media]
  BY <1>1 DEF FormFields, Reshown
<1>3. /\ IsArticle(q.shown)
      /\ \A f \in ArticleFields \ {"media"} : q.shown[f] = p.shown[f]
      /\ q.shown["media"] = media
  BY <1>1, <1>2 DEF IsArticle, ArticleFields
<1> QED BY <1>2, <1>3

(* The record a form would save is what it posts, in the lifecycle it      *)
(* names, with the media and the mark of the gate.                         *)
LEMMA ParsedParts ==
    ASSUME NEW j, IsArticle(j.posted), IsArticle(j.gate), NEW a, a = Parsed(j)
    PROVE  /\ IsArticle(a)
           /\ a.collection = j.posted.collection /\ a.lifecycle = EditStatus(j)
           /\ a["lifecycle"] = EditStatus(j)
           /\ \A f \in {"mediaType", "documentType", "template", "text"} : a[f] = j.posted[f]
<1>1. EditStatus(j) \in Lifecycles
  BY DEF EditStatus, IsArticle
<1>2. DOMAIN j.posted = ArticleFields
  BY DEF IsArticle
<1>3. /\ a = [f \in ArticleFields |-> a[f]]
      /\ a.collection = j.posted.collection /\ a.lifecycle = EditStatus(j)
      /\ a["lifecycle"] = EditStatus(j)
      /\ \A f \in {"mediaType", "documentType", "template", "text"} : a[f] = j.posted[f]
  BY <1>2 DEF Parsed, ArticleFields
<1> QED BY <1>1, <1>3 DEF IsArticle

LEMMA ParseKeeps ==
    ASSUME IInv, NEW t \in Archivists, Parse(t)
    PROVE  IInv'
<1> USE DEF Parse, Shows, Ends, At
<1> DEFINE j == job[t]
           p == page[t]
<1>1. Still /\ Shapes' /\ OnlyBy(t)
  BY DEF IInv, Still, Shapes, OnlyBy
<1>2. ParseOK(t)
  BY DEF IInv, JobsOK, JobOK
<1>3. /\ p.at = "form" /\ p.ulid = j.ulid /\ p.version = j.at
      /\ WasRead(p.ulid, p.version) /\ IsArticle(p.shown) /\ Stands(p.ulid, p.version, p.shown)
      /\ ShowsForm(p)
  BY <1>2, PageReads DEF ParseOK, OnForm
<1>4. CASE FormErrors(j) \/ PublishRefused(j)
  <2>1. JobOK(t)'
    BY <1>4, NoJobIsOK DEF IInv, Shapes
  <2>2. PICK q : q = page'[t] /\ q = Reshown(p, j.gate.media, j.posted, j.known)
    BY <1>4 DEF Reshown, IInv, Shapes
  <2>3. /\ q = [f \in FormFields |-> q[f]]
        /\ q.at = p.at /\ q.ulid = p.ulid /\ q.version = p.version
        /\ q.values = j.posted /\ q.known = j.known
        /\ IsArticle(q.shown)
        /\ \A f \in ArticleFields \ {"media"} : q.shown[f] = p.shown[f]
        /\ q.shown["media"] = j.gate.media
    <3> HIDE DEF p, j
    <3>1. p = [f \in FormFields |-> p[f]] /\ IsArticle(p.shown)
      BY <1>3 DEF ShowsForm
    <3>2. q = Reshown(p, j.gate.media, j.posted, j.known)
      BY <2>2
    <3> QED BY ONLY <3>1, <3>2, ReshownParts
  <2>4. Now(p.ulid, p.version) => q.shown = j.gate
    <3>1. SUFFICES ASSUME Now(p.ulid, p.version) PROVE q.shown = j.gate
      OBVIOUS
    <3>2. p.shown = j.gate /\ IsArticle(j.gate)
      BY <1>2, <1>3, <3>1 DEF ParseOK, Stands
    <3> HIDE DEF p, j
    <3> QED BY <2>3, <3>2, SameArticle
  <2>5. Stands(q.ulid, q.version, q.shown) /\ WasRead(q.ulid, q.version)
    BY <1>2, <1>3, <2>3, <2>4 DEF ParseOK, Stands
  <2>6. ShowsForm(q)
    BY <1>2, <2>3 DEF ParseOK, ShowsForm, Fields, ArticleFields
  <2>7. PageOK(t)'
    BY <1>1, <1>3, <2>2, <2>3, <2>5, <2>6, ShownIsOK
  <2> QED BY <1>1, <2>1, <2>7, StillActs
<1>5. CASE ~(FormErrors(j) \/ PublishRefused(j))
  <2> DEFINE a == Parsed(j)
             next == [step |-> "commit", op |-> "edit", ulid |-> j.ulid, at |-> j.at,
                      article |-> a, known |-> j.known, resolved |-> Resolved]
  <2>1. job'[t] = next /\ page' = page
    BY <1>5 DEF IInv, Shapes
  <2>2. /\ IsArticle(a)
        /\ a.collection = j.posted.collection /\ a.lifecycle = EditStatus(j)
        /\ a["lifecycle"] = EditStatus(j)
        /\ \A f \in {"mediaType", "documentType", "template", "text"} : a[f] = j.posted[f]
    BY <1>2, ParsedParts DEF ParseOK
  <2>3. WellFormed(a)
    <3> HIDE DEF a
    <3> QED BY <1>5 DEF FormErrors, WellFormed, a
  <2>4. ASSUME Now(j.ulid, j.at)
        PROVE  /\ \A f \in Fields \ j.known : a[f] = record[j.ulid].article[f]
               /\ a.lifecycle = "published" /\ record[j.ulid].article.lifecycle # "published" =>
                    a.collection \in Resolved
    <3>1. record[j.ulid].article = p.shown /\ j.gate = p.shown
      BY <1>2, <1>3, <2>4 DEF ParseOK, Stands
    <3>2. \A f \in Fields \ j.known : j.posted[f] = p.shown[f]
      BY <1>2 DEF ParseOK
    <3>3. ASSUME "lifecycle" \notin j.known PROVE EditStatus(j) = p.shown.lifecycle
      BY <3>1, <3>2, <3>3 DEF EditStatus, Fields
    <3>4. \A f \in Fields \ j.known : a[f] = p.shown[f]
      <4> HIDE DEF a
      <4> QED BY <2>2, <3>2, <3>3 DEF Fields
    <3>5. ASSUME a.lifecycle = "published", p.shown.lifecycle # "published"
          PROVE  a.collection \in Resolved
      <4>1. j.gate.lifecycle = "draft" /\ j.posted.collection \in Collections
        BY <1>2, <3>1, <3>5 DEF ParseOK, IsArticle, Lifecycles
      <4> HIDE DEF a
      <4> QED BY <1>5, <2>2, <3>5, <4>1 DEF PublishRefused, Resolved
    <3> QED BY <3>1, <3>4, <3>5
  <2>5. EditOK(t)'
    <3>1. OnForm(t)' /\ job'[t].at = page'[t].version
      BY <1>3, <2>1 DEF OnForm
    <3> QED BY <1>1, <2>1, <2>4, <3>1 DEF EditOK, Now, Still
  <2>6. CommitOK(t)'
    <3> HIDE DEF a
    <3> QED BY <1>1, <1>3, <2>1, <2>2, <2>3, <2>5 DEF CommitOK, WasRead, Still
  <2>7. JobOK(t)'
    BY <2>1, <2>6 DEF JobOK, Steps
  <2>8. PageOK(t)'
    BY <1>1, <2>1, StillMoves, PageStays DEF IInv, PagesOK
  <2> QED BY <1>1, <2>7, <2>8, StillActs
<1> QED BY <1>4, <1>5

(* A request that goes on leaves its page as it is.                        *)
LEMMA GoesOnFrom ==
    ASSUME IInv, Still, Shapes', NEW t \in Archivists, OnlyBy(t), page'[t] = page[t], JobOK(t)'
    PROVE  IInv'
<1>1. PageOK(t)'
  BY StillMoves, PageStays DEF IInv, PagesOK
<1> QED BY <1>1, StillActs

LEMMA LoadPublishKeeps ==
    ASSUME IInv, NEW t \in Archivists, LoadPublish(t)
    PROVE  IInv'
<1> USE DEF LoadPublish, Shows, Ends, NotFound, At
<1> DEFINE j == job[t]
           r == record[j.ulid]
           next == [step |-> "gate", op |-> "publish", ulid |-> j.ulid,
                    at |-> r.version, article |-> r.article]
<1>1. Still /\ Shapes' /\ OnlyBy(t)
  BY DEF IInv, Still, Shapes, OnlyBy
<1>2. OnArticle(t) /\ j.gate = page[t].shown
  BY DEF IInv, JobsOK, JobOK, LoadOK
<1>3. CASE ~(Live(j.ulid) /\ Confirmed(j, r.article))
  BY <1>1, <1>3, NoPageIsOK, NoJobIsOK, StillActs DEF IInv, Shapes
<1>4. CASE Live(j.ulid) /\ Confirmed(j, r.article)
  <2>1. job'[t] = next /\ page' = page
    BY <1>4 DEF IInv, Shapes
  <2>2. j.ulid \in Ulids
    BY <1>2, PageReads DEF OnArticle
  <2>3. WasRead(j.ulid, r.version) /\ WellFormed(r.article) /\ Stands(j.ulid, r.version, r.article)
    BY <1>4, <2>2, LoadedIsOK DEF Live
  <2>4. r.article = page[t].shown /\ ~r.article.template
    BY <1>2, <1>4 DEF Confirmed
  <2>5. GateOK(t)'
    <3>1. /\ job'[t].op = "publish" /\ job'[t].ulid = j.ulid /\ job'[t].at = r.version
          /\ job'[t].article = r.article
      BY <2>1
    <3> HIDE DEF next
    <3> QED BY <1>1, <1>2, <2>1, <2>3, <2>4, <3>1
            DEF GateOK, OnArticle, WasRead, Stands, Now, Still
  <2>6. JobOK(t)'
    BY <2>1, <2>5 DEF JobOK, Steps
  <2> QED BY <1>1, <2>1, <2>6, GoesOnFrom
<1> QED BY <1>3, <1>4

LEMMA GatePublishKeeps ==
    ASSUME IInv, NEW t \in Archivists, GatePublish(t)
    PROVE  IInv'
<1> USE DEF GatePublish, Shows, Ends, At
<1> DEFINE j == job[t]
           a == [j.article EXCEPT !.lifecycle = "published"]
           next == [step |-> "commit", op |-> "publish", ulid |-> j.ulid, at |-> j.at,
                    article |-> a, resolved |-> Resolved]
<1>1. Still /\ Shapes' /\ OnlyBy(t)
  BY DEF IInv, Still, Shapes, OnlyBy
<1>2. GateOK(t)
  BY DEF IInv, JobsOK, JobOK
<1>3. CASE chain[j.article.collection] # "whole"
  BY <1>1, <1>3, NoPageIsOK, NoJobIsOK, StillActs DEF IInv, Shapes
<1>4. CASE chain[j.article.collection] = "whole"
  <2>1. job'[t] = next /\ page' = page
    BY <1>4 DEF IInv, Shapes
  <2>2. IsArticle(j.article) /\ WellFormed(j.article) /\ ~j.article.template
    BY <1>2, PageReads DEF GateOK, OnArticle
  <2>3. IsArticle(a) /\ WellFormed(a) /\ a.collection = j.article.collection
    BY <2>2 DEF IsArticle, ArticleFields, WellFormed, IsValidPair, Lifecycles
  <2>4. a.collection \in Resolved
    BY <1>4, <2>2, <2>3 DEF Resolved, IsArticle
  <2>5. /\ job'[t].op = "publish" /\ job'[t].ulid = j.ulid /\ job'[t].at = j.at
        /\ job'[t].article = a /\ job'[t].resolved = Resolved /\ job'[t].step = "commit"
    BY <2>1
  <2> HIDE DEF next, a
  <2>6. PublishOK(t)'
    BY <1>1, <1>2, <2>1, <2>4, <2>5 DEF GateOK, PublishOK, OnArticle, Stands, Now, Still
  <2>7. CommitOK(t)'
    BY <1>1, <1>2, <2>3, <2>5, <2>6 DEF GateOK, CommitOK, WasRead, Still
  <2>8. JobOK(t)'
    BY <2>5, <2>7 DEF JobOK, Steps
  <2> QED BY <1>1, <2>1, <2>8, GoesOnFrom
<1> QED BY <1>3, <1>4

LEMMA LoadMediaKeeps ==
    ASSUME IInv, NEW t \in Archivists, LoadMedia(t)
    PROVE  IInv'
<1> USE DEF LoadMedia, Shows, Ends, NotFound, At
<1> DEFINE j == job[t]
           r == record[j.ulid]
           a == [r.article EXCEPT !.media = Changed(@, j.change)]
           next == [step |-> "commit", op |-> "media", ulid |-> j.ulid, at |-> r.version,
                    change |-> j.change, js |-> j.js, tries |-> j.tries, article |-> a]
<1>1. Still /\ Shapes' /\ OnlyBy(t)
  BY DEF IInv, Still, Shapes, OnlyBy
<1>2. OnForm(t)
  BY DEF IInv, JobsOK, JobOK, LoadOK
<1>3. CASE ~Live(j.ulid)
  BY <1>1, <1>3, NoPageIsOK, NoJobIsOK, StillActs DEF IInv, Shapes
<1>4. CASE Live(j.ulid)
  <2>1. job'[t] = next /\ page' = page
    BY <1>4 DEF IInv, Shapes
  <2>2. j.ulid \in Ulids
    BY <1>2, PageReads DEF OnForm
  <2>3. WasRead(j.ulid, r.version) /\ IsArticle(r.article) /\ WellFormed(r.article)
    BY <1>4, <2>2, LoadedIsOK DEF Live
  <2>4. /\ IsArticle(a) /\ WellFormed(a)
        /\ \A f \in ArticleFields \ {"media"} : a[f] = r.article[f]
    BY <2>3 DEF IsArticle, ArticleFields, WellFormed, IsValidPair
  <2>5. /\ job'[t].op = "media" /\ job'[t].ulid = j.ulid /\ job'[t].at = r.version
        /\ job'[t].article = a /\ job'[t].step = "commit"
    BY <2>1
  <2> HIDE DEF next, a
  <2>6. MediaOK(t)'
    BY <1>1, <1>2, <2>1, <2>4, <2>5 DEF MediaOK, OnForm, Still
  <2>7. CommitOK(t)'
    BY <1>1, <2>3, <2>4, <2>5, <2>6 DEF CommitOK, WasRead, Still
  <2>8. JobOK(t)'
    BY <2>5, <2>7 DEF JobOK, Steps
  <2> QED BY <1>1, <2>1, <2>8, GoesOnFrom
<1> QED BY <1>3, <1>4

LEMMA WinnerKeeps ==
    ASSUME IInv, NEW t \in Archivists, Winner(t)
    PROVE  IInv'
<1> USE DEF Winner, Shows, Ends, NotFound, At
<1> DEFINE u == job[t].ulid
           mine == job[t].posted
           theirs == record[u].article
           v == record[u].version
<1>1. Still /\ Shapes' /\ OnlyBy(t)
  BY DEF IInv, Still, Shapes, OnlyBy
<1>2. JobOK(t)'
  BY NoJobIsOK DEF IInv, Shapes
<1>3. CASE ~Live(u)
  BY <1>1, <1>2, <1>3, NoPageIsOK, StillActs DEF IInv, Shapes
<1>4. CASE Live(u)
  <2>1. page'[t] = Form(u, v, theirs, mine, ConflictRows(mine, theirs))
    BY <1>4 DEF IInv, Shapes
  <2>2. IsArticle(mine) /\ u \in Ulids
    BY DEF IInv, JobsOK, JobOK, Shapes
  <2>3. WasRead(u, v) /\ IsArticle(theirs) /\ Stands(u, v, theirs)
    BY <1>4, <2>2, LoadedIsOK DEF Live
  <2>4. \A f \in Fields \ ConflictRows(mine, theirs) : mine[f] = theirs[f]
    BY DEF ConflictRows, Diffed, Fields
  <2>5. PageOK(t)'
    <3> HIDE DEF u, v, theirs, mine
    <3> QED BY <1>1, <2>1, <2>2, <2>3, <2>4, FormIsOK
  <2> QED BY <1>1, <1>2, <2>5, StillActs
<1> QED BY <1>3, <1>4

(* A changed record is whole, in the lifecycle it had.                     *)
LEMMA ApplyFieldParts ==
    ASSUME NEW a, IsArticle(a), WellFormed(a), NEW plan, IsPlan(plan),
           NEW offered \in SUBSET Collections, NEW t,
           plan.field = "documentType" => IsValidPair(a.mediaType, plan.value),
           NEW b, b = ApplyField(a, plan, offered, t)
    PROVE  IsArticle(b) /\ WellFormed(b) /\ b.lifecycle = a.lifecycle
<1> USE DEF IsArticle, ArticleFields, WellFormed
<1>1. CASE plan.field = "mediaType"
  <2>1. b = [a EXCEPT !.mediaType = plan.value,
                      !.documentType = IF IsValidPair(plan.value, @) THEN @ ELSE None]
    BY <1>1 DEF ApplyField
  <2>2. IsArticle(b) /\ b.lifecycle = a.lifecycle /\ b.template = a.template
    BY <2>1
  <2>3. b.mediaType = plan.value
        /\ b.documentType = IF IsValidPair(plan.value, a.documentType) THEN a.documentType
                            ELSE None
    BY <2>1
  <2>4. IsValidPair(b.mediaType, b.documentType)
    BY <2>3 DEF IsValidPair
  <2> QED BY <2>2, <2>4
<1>2. CASE plan.field = "documentType"
  BY <1>2 DEF ApplyField
<1>3. CASE plan.field = "collection"
  BY <1>3 DEF ApplyField
<1>4. CASE plan.field = "text"
  BY <1>4 DEF ApplyField
<1> QED BY <1>1, <1>2, <1>3, <1>4 DEF IsPlan, BulkFields

(* A record goes into one bucket, and is no longer to do.                  *)
LEMMA BucketedParts ==
    ASSUME NEW j, Parted(j), NEW u \in j.todo, NEW bucket \in {"saved", "conflicted", "missing"},
           NEW n, n = Bucketed(j, bucket, u)
    PROVE  /\ n.step = "bulk" /\ Parted(n)
           /\ u \in n.buckets[bucket]
           /\ n.buckets["cleared"] = j.buckets["cleared"]
           /\ \A k \in {"saved", "conflicted", "missing"} \ {bucket} :
                 n.buckets[k] = j.buckets[k] /\ u \notin n.buckets[k]
           /\ DOMAIN n = {"step", "op", "todo", "plan", "offered", "asked", "buckets"}
<1> DEFINE b == j.buckets
           c == [b EXCEPT ![bucket] = @ \union {u}]
<1>1. /\ n.step = "bulk" /\ n.todo = j.todo \ {u} /\ n.plan = j.plan /\ n.offered = j.offered
      /\ n.buckets = c
      /\ DOMAIN n = {"step", "op", "todo", "plan", "offered", "asked", "buckets"}
  BY DEF Bucketed
<1>2. /\ c = [f \in {"saved", "conflicted", "missing", "cleared"} |-> c[f]]
      /\ c[bucket] = b[bucket] \union {u}
      /\ \A k \in {"saved", "conflicted", "missing", "cleared"} \ {bucket} : c[k] = b[k]
  BY DEF Parted
<1> HIDE DEF c
<1>3. Parted(n)
  BY <1>1, <1>2 DEF Parted
<1> QED BY <1>1, <1>2, <1>3 DEF Parted

LEMMA LoadBulkKeeps ==
    ASSUME IInv, NEW t \in Archivists, NEW u \in Ulids, LoadBulk(t, u)
    PROVE  IInv'
<1> USE DEF LoadBulk, At
<1> DEFINE j == job[t]
           r == record[u]
           offered == IF j.asked THEN j.offered ELSE {c \in Collections : chain[c] # "gone"}
           a == ApplyField(r.article, j.plan, offered, t)
           next == [step |-> "commit", op |-> "bulk", ulid |-> u, at |-> r.version,
                    article |-> a, loaded |-> r.article, todo |-> j.todo, plan |-> j.plan,
                    offered |-> offered, asked |-> TRUE, buckets |-> j.buckets]
<1>1. Still /\ Shapes' /\ OnlyBy(t) /\ page' = page
  BY DEF IInv, Still, Shapes, OnlyBy
<1>2. Parted(j) /\ u \in j.todo
  BY DEF IInv, JobsOK, JobOK
<1>3. ASSUME NEW bucket \in {"conflicted", "missing"}, job'[t] = Bucketed(j, bucket, u)
      PROVE  IInv'
  <2>1. job'[t].step = "bulk" /\ Parted(job'[t])
    <3> PICK n : n = job'[t]
      OBVIOUS
    <3> HIDE DEF j
    <3>1. n = Bucketed(j, bucket, u)
      BY <1>3
    <3> QED BY <1>2, <3>1, BucketedParts
  <2>2. JobOK(t)'
    BY <2>1 DEF JobOK, Steps
  <2> QED BY <1>1, <2>2, GoesOnFrom
<1>4. CASE Live(u) /\ ~Unfit(u, j.plan)
  <2>1. job'[t] = next
    BY <1>4 DEF IInv, Shapes
  <2>2. /\ WasRead(u, r.version) /\ Stands(u, r.version, r.article)
        /\ IsArticle(r.article) /\ WellFormed(r.article)
    BY <1>4, LoadedIsOK DEF Live
  <2>3. offered \in SUBSET Collections
    BY <1>2 DEF Parted
  <2>4. IsArticle(a) /\ WellFormed(a) /\ a.lifecycle = r.article.lifecycle
    <3>1. j.plan.field = "documentType" => IsValidPair(r.article.mediaType, j.plan.value)
      BY <1>4 DEF Unfit, Fitting
    <3> HIDE DEF offered
    <3> QED BY <1>2, <2>2, <2>3, <3>1, ApplyFieldParts DEF Parted
  <2>5. /\ job'[t].op = "bulk" /\ job'[t].ulid = u /\ job'[t].at = r.version
        /\ job'[t].article = a /\ job'[t].loaded = r.article /\ job'[t].step = "commit"
        /\ job'[t].todo = j.todo /\ job'[t].plan = j.plan /\ job'[t].offered = offered
        /\ job'[t].buckets = j.buckets
    BY <2>1
  <2> HIDE DEF next, a, offered
  <2>6. BulkOK(t)'
    BY <1>1, <1>2, <2>2, <2>3, <2>4, <2>5 DEF BulkOK, Parted, Stands, Now, Still
  <2>7. CommitOK(t)'
    BY <1>1, <2>2, <2>4, <2>5, <2>6 DEF CommitOK, WasRead, Still
  <2>8. JobOK(t)'
    BY <2>5, <2>7 DEF JobOK, Steps
  <2> QED BY <1>1, <2>8, GoesOnFrom
<1>5. CASE ~Live(u)
  <2>1. job'[t] = Bucketed(j, "missing", u)
    BY <1>5 DEF IInv, Shapes
  <2> QED BY <1>3, <2>1
<1>6. CASE Live(u) /\ Unfit(u, j.plan)
  <2>1. job'[t] = Bucketed(j, "conflicted", u)
    BY <1>6 DEF IInv, Shapes
  <2> QED BY <1>3, <2>1
<1> QED BY <1>4, <1>5, <1>6

(* What the commit of a save relies on.                                    *)
LEMMA CommitParts ==
    ASSUME IInv, NEW t \in Archivists, At(t, "commit")
    PROVE  CommitOK(t) /\ job[t].ulid \in Ulids
BY DEF IInv, JobsOK, JobOK, CommitOK, WasRead, Shapes

LEMMA CommitLosesKeeps ==
    ASSUME IInv, NEW t \in Archivists, CommitLoses(t)
    PROVE  IInv'
<1> USE DEF CommitLoses, Shows, Ends
<1> DEFINE j == job[t]
<1>1. CommitOK(t) /\ j.ulid \in Ulids
  BY CommitParts
<1>2. Still /\ Shapes' /\ OnlyBy(t)
  BY <1>1 DEF IInv, Still, Shapes, OnlyBy, CommitOK
<1>3. CASE j.op = "edit"
  <2>1. job'[t] = [step |-> "winner", ulid |-> j.ulid, posted |-> j.article] /\ page' = page
    BY <1>3 DEF IInv, Shapes
  <2>2. JobOK(t)'
    BY <1>1, <1>2, <2>1 DEF JobOK, CommitOK, WasRead, At, Steps, Still
  <2> QED BY <1>2, <2>1, <2>2, GoesOnFrom
<1>4. CASE j.op = "publish"
  BY <1>2, <1>4, NoPageIsOK, NoJobIsOK, StillActs DEF IInv, Shapes
<1>5. CASE j.op = "media"
  <2>1. /\ job'[t] = IF j.tries > 0
                     THEN [step |-> "load", op |-> "media", ulid |-> j.ulid,
                           change |-> j.change, js |-> j.js, tries |-> j.tries - 1]
                     ELSE [step |-> "lost", ulid |-> j.ulid, js |-> j.js]
        /\ page' = page
    BY <1>5 DEF IInv, Shapes
  <2>2. OnForm(t)
    BY <1>1, <1>5 DEF CommitOK, MediaOK
  <2>3. JobOK(t)'
    BY <2>1, <2>2 DEF JobOK, LoadOK, OnForm, At, Steps
  <2> QED BY <1>2, <2>1, <2>3, GoesOnFrom
<1>6. CASE j.op = "bulk"
  <2>1. job'[t] = Bucketed(j, "conflicted", j.ulid) /\ page' = page
    BY <1>6 DEF IInv, Shapes
  <2>2. Parted(j) /\ j.ulid \in j.todo
    BY <1>1, <1>6 DEF CommitOK, BulkOK
  <2>3. job'[t].step = "bulk" /\ Parted(job'[t])
    <3> PICK n : n = job'[t]
      OBVIOUS
    <3> HIDE DEF j
    <3>1. n = Bucketed(j, "conflicted", j.ulid)
      BY <2>1
    <3> QED BY <2>2, <3>1, BucketedParts
  <2>4. JobOK(t)'
    BY <2>3 DEF JobOK, At, Steps
  <2> QED BY <1>2, <2>1, <2>4, GoesOnFrom
<1> QED BY <1>1, <1>3, <1>4, <1>5, <1>6 DEF CommitOK

(* A save that wins replaces the version it has read, by the next one.     *)
LEMMA WinnerWrites ==
    ASSUME IInv, NEW t \in Archivists, At(t, "commit"), Version(job[t].ulid) = job[t].at,
           Writes(job[t]), minted' = minted
    PROVE  /\ Now(job[t].ulid, job[t].at)
           /\ Moves /\ RecordsOK' /\ DOMAIN record' = Ulids
           /\ record'[job[t].ulid] = [version |-> job[t].at + 1, article |-> job[t].article]
           /\ \A u \in Ulids \ {job[t].ulid} : record'[u] = record[u]
<1> DEFINE j == job[t]
<1>1. CommitOK(t) /\ j.ulid \in Ulids
  BY CommitParts
<1>2. WasRead(j.ulid, j.at) /\ IsArticle(j.article) /\ WellFormed(j.article)
  BY <1>1 DEF CommitOK
<1>3. Now(j.ulid, j.at)
  BY <1>2 DEF WasRead, Version, Now
<1>4. record' = [record EXCEPT ![j.ulid] = [version |-> j.at + 1, article |-> j.article]]
  BY DEF Writes
<1>5. Moves /\ RecordsOK' /\ DOMAIN record' = Ulids
  <2> HIDE DEF j
  <2>1. minted' = minted \union {j.ulid}
    BY <1>2 DEF WasRead, j
  <2>2. record[j.ulid] # Absent /\ j.at + 1 = record[j.ulid].version + 1
    BY <1>3 DEF Now
  <2> QED BY <1>1, <1>2, <1>4, <2>1, <2>2, WriteMoves
<1>6. DOMAIN record = Ulids
  BY DEF IInv, Shapes
<1> QED BY <1>1, <1>3, <1>4, <1>5, <1>6

LEMMA WonFormIsOK ==
    ASSUME NEW t, NEW q, page'[t] = q, q.at = "form", ShowsForm(q), IsArticle(q.shown),
           q.ulid \in minted', q.version \in Nat \ {0},
           q.version <= record'[q.ulid].version,
           record'[q.ulid].version = q.version => record'[q.ulid].article = q.shown
    PROVE  PageOK(t)'
BY DEF PageOK, WasRead, Stands, Now

(* After a save of its own a form holds the version it wrote and shows the *)
(* record as written, or holds a version nobody can save over any more.    *)
LEMMA WonMediaIsOK ==
    ASSUME IInv, NEW t \in Archivists, At(t, "commit"), job[t].op = "media",
           Now(job[t].ulid, job[t].at), minted' = minted,
           record'[job[t].ulid] = [version |-> job[t].at + 1, article |-> job[t].article],
           page'[t] = MediaSurface(page[t], job[t].article, job[t].at + 1, job[t].js, TRUE)
    PROVE  PageOK(t)'
<1> DEFINE j == job[t]
           p == page[t]
           a == j.article
           v == j.at + 1
<1>1. MediaOK(t) /\ WasRead(j.ulid, j.at) /\ IsArticle(a)
  BY CommitParts DEF CommitOK
<1>2. /\ p.at = "form" /\ p.ulid = j.ulid /\ WasRead(p.ulid, p.version) /\ IsArticle(p.shown)
      /\ Stands(p.ulid, p.version, p.shown) /\ ShowsForm(p)
  BY <1>1, PageReads DEF MediaOK, OnForm
<1>3. j.at \in Nat \ {0} /\ p.version \in Nat \ {0} /\ j.ulid \in minted' /\ p.version <= j.at
  BY <1>1, <1>2 DEF WasRead, Now
<1>4. record'[p.ulid].version = v /\ record'[p.ulid].article = a
  BY <1>2
<1>5. CASE ~j.js
  <2>1. PICK q : q = page'[t] /\ q = Form(p.ulid, v, a, a, {})
    BY <1>5 DEF MediaSurface
  <2>2. /\ q.at = "form" /\ q.ulid = p.ulid /\ q.version = v /\ q.shown = a
        /\ q.values = a /\ q = [f \in FormFields |-> q[f]]
    <3> HIDE DEF a, p, v
    <3>1. q = Form(p.ulid, v, a, a, {})
      BY <2>1
    <3> QED BY ONLY <3>1, FormParts
  <2>3. ShowsForm(q)
    BY <1>1, <2>2 DEF ShowsForm
  <2>4. page'[t] = q
    BY <2>1
  <2>5. v \in Nat \ {0}
    BY <1>3
  <2>6. /\ IsArticle(q.shown) /\ q.ulid \in minted' /\ q.version \in Nat \ {0}
        /\ q.version <= record'[q.ulid].version
        /\ record'[q.ulid].version = q.version => record'[q.ulid].article = q.shown
    <3> HIDE DEF v, a
    <3> QED BY ONLY <1>1, <1>2, <1>3, <1>4, <2>2, <2>5
  <2> QED BY ONLY <2>2, <2>3, <2>4, <2>6, WonFormIsOK
<1>6. CASE j.js
  <2> DEFINE w == IF v = p.version + 1 THEN v ELSE p.version
  <2>1. PICK q : q = page'[t] /\ q = Resurfaced(p, a.media, w)
    BY <1>6 DEF MediaSurface, Resurfaced
  <2>2. /\ q = [f \in FormFields |-> q[f]]
        /\ q.at = p.at /\ q.ulid = p.ulid /\ q.values = p.values /\ q.known = p.known
        /\ q.version = w
        /\ IsArticle(q.shown)
        /\ \A f \in ArticleFields \ {"media"} : q.shown[f] = p.shown[f]
        /\ q.shown["media"] = a.media
    <3> HIDE DEF a, w, p
    <3>1. p = [f \in FormFields |-> p[f]] /\ IsArticle(p.shown)
      BY <1>2 DEF ShowsForm
    <3>2. q = Resurfaced(p, a.media, w)
      BY <2>1
    <3> QED BY ONLY <3>1, <3>2, SurfaceParts
  <2>3. ShowsForm(q)
    BY <1>2, <2>2 DEF ShowsForm, Fields, ArticleFields
  <2>4. CASE p.version = j.at
    <3>1. w = v
      BY <2>4
    <3>2. \A f \in ArticleFields \ {"media"} : a[f] = p.shown[f]
      BY <1>1, <1>2, <2>4 DEF MediaOK, Stands
    <3>3. q.shown = a
      <4> HIDE DEF a, w
      <4> QED BY <1>1, <2>2, <3>2, SameArticle
    <3>4. page'[t] = q
      BY <2>1
    <3>5. v \in Nat \ {0}
      BY <1>3
    <3>6. /\ q.at = "form" /\ IsArticle(q.shown) /\ q.ulid \in minted' /\ q.version \in Nat \ {0}
          /\ q.version <= record'[q.ulid].version
          /\ record'[q.ulid].version = q.version => record'[q.ulid].article = q.shown
      <4> HIDE DEF a, v, w
      <4> QED BY ONLY <1>1, <1>2, <1>3, <1>4, <2>2, <3>1, <3>3, <3>5
    <3> QED BY ONLY <2>3, <3>4, <3>6, WonFormIsOK
  <2>5. CASE p.version # j.at
    <3>1. w = p.version /\ p.version <= v /\ p.version # v
      BY <1>3, <2>5
    <3> HIDE DEF w, v
    <3> QED BY <1>2, <1>3, <1>4, <2>1, <2>2, <2>3, <3>1, WonFormIsOK
  <2> QED BY <2>4, <2>5
<1> QED BY <1>5, <1>6

(* A record that was saved is in its bucket, and among the cleared ones if *)
(* it was cleared.                                                         *)
LEMMA SavedParts ==
    ASSUME NEW j, Parted(j), j.ulid \in j.todo, NEW n, n = BulkSaved(j)
    PROVE  /\ n.step = "bulk" /\ Parted(n)
           /\ j.ulid \in n.buckets["saved"] /\ j.ulid \notin n.buckets["conflicted"]
           /\ j.ulid \in n.buckets["cleared"] <=> Clears(j)
<1>1. PICK m : m = Bucketed(j, "saved", j.ulid)
  OBVIOUS
<1>2. /\ m.step = "bulk" /\ Parted(m) /\ j.ulid \in m.buckets["saved"]
      /\ m.buckets["cleared"] = j.buckets["cleared"]
      /\ \A k \in {"saved", "conflicted", "missing"} \ {"saved"} :
            m.buckets[k] = j.buckets[k] /\ j.ulid \notin m.buckets[k]
      /\ DOMAIN m = {"step", "op", "todo", "plan", "offered", "asked", "buckets"}
  BY <1>1, BucketedParts
<1>3. j.ulid \notin j.buckets["cleared"]
  BY DEF Parted
<1>4. CASE ~Clears(j)
  <2>1. n = m
    BY <1>1, <1>4 DEF BulkSaved
  <2> QED BY <1>2, <1>3, <1>4, <2>1
<1>5. CASE Clears(j)
  <2>1. n = [m EXCEPT !.buckets.cleared = @ \union {j.ulid}]
    BY <1>1, <1>5 DEF BulkSaved
  <2>2. DOMAIN m.buckets = {"saved", "conflicted", "missing", "cleared"}
    BY <1>2 DEF Parted
  <2>3. /\ n.step = "bulk" /\ n.plan = m.plan /\ n.todo = m.todo /\ n.offered = m.offered
        /\ n.buckets = [m.buckets EXCEPT !.cleared = @ \union {j.ulid}]
    BY <1>2, <2>1
  <2>4. /\ n.buckets = [f \in {"saved", "conflicted", "missing", "cleared"} |-> n.buckets[f]]
        /\ n.buckets["saved"] = m.buckets["saved"]
        /\ n.buckets["conflicted"] = m.buckets["conflicted"]
        /\ n.buckets["missing"] = m.buckets["missing"]
        /\ n.buckets["cleared"] = m.buckets["cleared"] \union {j.ulid}
    BY <2>2, <2>3
  <2>5. Parted(n)
    BY <1>2, <2>3, <2>4 DEF Parted
  <2> QED BY <1>2, <1>5, <2>3, <2>4, <2>5
<1> QED BY <1>4, <1>5

LEMMA CommitWinsKeeps ==
    ASSUME IInv, NEW t \in Archivists, CommitWins(t)
    PROVE  IInv'
<1> USE DEF CommitWins, Shows, Ends
<1> DEFINE j == job[t]
<1>1. CommitOK(t) /\ j.ulid \in Ulids
  BY CommitParts
<1>2. /\ Now(j.ulid, j.at) /\ Moves /\ RecordsOK' /\ DOMAIN record' = Ulids
      /\ record'[j.ulid] = [version |-> j.at + 1, article |-> j.article]
  BY WinnerWrites
<1>3. Shapes' /\ OnlyBy(t)
  BY <1>1, <1>2 DEF IInv, Shapes, OnlyBy, CommitOK
<1>4. CASE j.op \in {"edit", "publish"}
  <2>1. page'[t] = NoPage /\ job'[t] = NoJob
    BY <1>4 DEF IInv, Shapes
  <2> QED BY <1>2, <1>3, <2>1, NoPageIsOK, NoJobIsOK, OneActs
<1>5. CASE j.op = "media"
  <2>1. job'[t] = NoJob /\ page'[t] = MediaSurface(page[t], j.article, j.at + 1, j.js, TRUE)
    BY <1>5 DEF IInv, Shapes
  <2>2. PageOK(t)'
    BY <1>2, <1>5, <2>1, WonMediaIsOK
  <2> QED BY <1>2, <1>3, <2>1, <2>2, NoJobIsOK, OneActs
<1>6. CASE j.op = "bulk"
  <2>1. job'[t] = BulkSaved(j) /\ page' = page
    BY <1>6 DEF IInv, Shapes
  <2>2. Parted(j) /\ j.ulid \in j.todo
    BY <1>1, <1>6 DEF CommitOK, BulkOK
  <2>3. job'[t].step = "bulk" /\ Parted(job'[t])
    <3> PICK n : n = job'[t]
      OBVIOUS
    <3> HIDE DEF j
    <3>1. n = BulkSaved(j)
      BY <2>1
    <3> QED BY <2>2, <3>1, SavedParts
  <2>4. JobOK(t)'
    BY <2>3 DEF JobOK, At, Steps
  <2>5. PageOK(t)'
    BY <1>2, <2>1, PageStays DEF IInv, PagesOK
  <2> QED BY <1>2, <1>3, <2>4, <2>5, OneActs
<1> QED BY <1>1, <1>4, <1>5, <1>6 DEF CommitOK

LEMMA StoreFailsKeeps ==
    ASSUME IInv, NEW t \in Archivists, StoreFails(t)
    PROVE  IInv'
<1> USE DEF StoreFails, Ends
<1> DEFINE j == job[t]
<1>1. CommitOK(t) /\ j.ulid \in Ulids
  BY CommitParts
<1>2. Moves /\ RecordsOK' /\ DOMAIN record' = Ulids
  <2>1. CASE record' = record
    BY <2>1, StillMoves, StillRecords DEF Still, IInv, Shapes
  <2>2. CASE Version(j.ulid) = j.at /\ Writes(j)
    BY <2>2, WinnerWrites
  <2> QED BY <2>1, <2>2
<1>3. Shapes' /\ OnlyBy(t) /\ page' = page
  BY <1>1, <1>2 DEF IInv, Shapes, OnlyBy
<1>4. PageOK(t)'
  BY <1>2, <1>3, PageStays DEF IInv, PagesOK
<1>5. CASE j.op # "bulk"
  BY <1>2, <1>3, <1>4, <1>5, NoJobIsOK, OneActs DEF IInv, Shapes
<1>6. CASE j.op = "bulk"
  <2>1. job'[t] = Bucketed(j, "conflicted", j.ulid)
    BY <1>6 DEF IInv, Shapes
  <2>2. Parted(j) /\ j.ulid \in j.todo
    BY <1>1, <1>6 DEF CommitOK, BulkOK
  <2>3. job'[t].step = "bulk" /\ Parted(job'[t])
    <3> PICK n : n = job'[t]
      OBVIOUS
    <3> HIDE DEF j
    <3>1. n = Bucketed(j, "conflicted", j.ulid)
      BY <2>1
    <3> QED BY <2>2, <3>1, BucketedParts
  <2>4. JobOK(t)'
    BY <2>3 DEF JobOK, At, Steps
  <2> QED BY <1>2, <1>3, <1>4, <2>4, OneActs
<1> QED BY <1>5, <1>6

LEMMA InitIInv == Init => IInv
<1> SUFFICES ASSUME Init PROVE IInv
  OBVIOUS
<1>1. Shapes /\ PagesOK /\ JobsOK
  BY UlidsAssumption
  DEF Init, Shapes, PagesOK, PageOK, JobsOK, JobOK, NoPage, NoJob, At, Steps
<1>2. PICK made \in [Begun -> Catalogued] :
          record = [u \in Ulids |-> IF u \in Begun THEN [version |-> 1, article |-> made[u]]
                                                 ELSE Absent]
  BY DEF Init
<1>3. ASSUME NEW a \in Catalogued PROVE IsArticle(a) /\ WellFormed(a)
  BY CataloguedAssumption DEF Articles, IsArticle, ArticleFields
<1>4. RecordsOK
  <2> SUFFICES ASSUME NEW u \in Ulids, record[u] # Absent PROVE RecordOK(u)
    BY DEF RecordsOK, RecordOK
  <2>1. u \in Begun /\ record[u] = [version |-> 1, article |-> made[u]]
    BY <1>2
  <2> QED BY <1>3, <2>1 DEF RecordOK, Init
<1> QED BY <1>1, <1>4 DEF IInv

(***************************************************************************)
(* Every step is one of an archivist's, or a change of a Collection.       *)
(***************************************************************************)
LEMMA NextIInv == IInv /\ [Next]_vars => IInv'
<1> SUFFICES ASSUME IInv, [Next]_vars PROVE IInv'
  OBVIOUS
<1>1. ASSUME NEW t \in Archivists, Asks(t) PROVE IInv'
  BY <1>1, OpenKeeps, CopyKeeps, DeleteKeeps, CreateKeeps, PostEditKeeps, PostPublishKeeps,
     PostMediaKeeps, AskRemovalKeeps, PostBulkKeeps, ConfirmBulkKeeps DEF Asks
<1>2. ASSUME NEW t \in Archivists, GoesOn(t) PROVE IInv'
  BY <1>2, ParseKeeps, LoadPublishKeeps, GatePublishKeeps, LoadMediaKeeps, LostMediaKeeps,
     LoadBulkKeeps, ReportBulkKeeps, CommitWinsKeeps, CommitLosesKeeps, WinnerKeeps,
     StoreFailsKeeps DEF GoesOn
<1>3. ASSUME NEW c \in Shifting, ChainChanges(c) PROVE IInv'
  BY <1>3, ChainKeeps
<1>4. CASE UNCHANGED vars
  <2>1. Still /\ Shapes' /\ UNCHANGED <<page, job>>
    BY <1>4 DEF vars, Still, Shapes, IInv
  <2> QED BY <2>1, StillMoves, StillRecords, NobodyActs DEF IInv
<1> QED BY <1>1, <1>2, <1>3, <1>4 DEF Next

(***************************************************************************)
(* Every page shown, request under way and bulk edit keeps what it read    *)
(* beside the version it read it with (catalog.py, bulk_views.py).         *)
(***************************************************************************)
THEOREM Invariant == Spec => []IInv
BY InitIInv, NextIInv, PTL DEF Spec

(***************************************************************************)
(* No record ever holds a Dokumenttyp its Medienart does not admit, and no *)
(* template is published, through forms, copies and bulk edits.            *)
(***************************************************************************)
THEOREM RecordsFitHolds == Spec => []RecordsFit
<1>1. IInv => RecordsFit
  BY DEF IInv, RecordsOK, RecordOK, RecordsFit
<1> QED BY <1>1, Invariant, PTL

(***************************************************************************)
(* Who moves: a request goes on only by a step of its own archivist, and   *)
(* nobody asks for anything while one waits.                               *)
(***************************************************************************)
LEMMA OthersWait ==
    ASSUME IInv, NEW s \in Archivists, NEW t \in Archivists \ {s}, Asks(s) \/ GoesOn(s)
    PROVE  job'[t] = job[t]
<1>1. DOMAIN job = Archivists
  BY DEF IInv, Shapes
<1> USE <1>1
<1>2. CASE Asks(s)
  <2>1. \A u \in Ulids : Open(s, u) \/ Copy(s, u) \/ Delete(s, u) => job' = job
    BY DEF Open, Copy, Delete
  <2>2. \A u \in Ulids, c \in Collections : Create(s, u, c) => job' = job
    BY DEF Create
  <2>3. \A e \in Entries, named \in BOOLEAN : PostEdit(s, e, named) => job'[t] = job[t]
    BY DEF PostEdit, Gated, NotFound, Ends
  <2>4. PostPublish(s) => job'[t] = job[t]
    BY DEF PostPublish, Ends
  <2>5. \A c \in MediaChanges, js \in BOOLEAN : PostMedia(s, c, js) => job'[t] = job[t]
    BY DEF PostMedia, Gated, NotFound, Ends
  <2>6. \A js \in BOOLEAN : AskRemoval(s, js) => job' = job
    BY DEF AskRemoval
  <2>7. \A S, e : PostBulk(s, S, e) => job' = job
    BY DEF PostBulk
  <2>8. \A clear \in BOOLEAN : ConfirmBulk(s, clear) => job'[t] = job[t]
    BY DEF ConfirmBulk
  <2> QED BY <1>2, <2>1, <2>2, <2>3, <2>4, <2>5, <2>6, <2>7, <2>8 DEF Asks
<1>3. CASE GoesOn(s)
  <2>1. Parse(s) => job'[t] = job[t]
    BY DEF Parse, Ends
  <2>2. LoadPublish(s) \/ GatePublish(s) => job'[t] = job[t]
    BY DEF LoadPublish, GatePublish, Ends, NotFound
  <2>3. LoadMedia(s) \/ LostMedia(s) => job'[t] = job[t]
    BY DEF LoadMedia, LostMedia, Ends, NotFound
  <2>4. \A u \in Ulids : LoadBulk(s, u) => job'[t] = job[t]
    BY DEF LoadBulk
  <2>5. ReportBulk(s) \/ Winner(s) \/ StoreFails(s) => job'[t] = job[t]
    BY DEF ReportBulk, Winner, StoreFails, Ends, NotFound
  <2>6. CommitLoses(s) => job'[t] = job[t]
    BY CommitParts DEF CommitLoses, CommitOK, Ends
  <2>7. CommitWins(s) => job'[t] = job[t]
    BY CommitParts DEF CommitWins, CommitOK, Ends
  <2> QED BY <1>3, <2>1, <2>2, <2>3, <2>4, <2>5, <2>6, <2>7 DEF GoesOn
<1> QED BY <1>2, <1>3

LEMMA AsksFromIdle ==
    ASSUME NEW t \in Archivists, Asks(t)
    PROVE  At(t, "idle")
BY DEF Asks, Open, Copy, Delete, Create, PostEdit, PostPublish, PostMedia, Gated, AskRemoval,
       PostBulk, ConfirmBulk, Request

LEMMA OwnStep ==
    ASSUME IInv, [Next]_vars, NEW t \in Archivists, job'[t] # job[t]
    PROVE  Asks(t) \/ GoesOn(t)
<1>1. Next
  BY DEF vars
<1>2. ~(\E c \in Shifting : ChainChanges(c))
  BY DEF ChainChanges
<1>3. PICK s \in Archivists : Asks(s) \/ GoesOn(s)
  BY <1>1, <1>2 DEF Next
<1> QED BY <1>3, OthersWait

LEMMA CommitStep ==
    ASSUME IInv, [Next]_vars, NEW t \in Archivists, At(t, "commit"), job'[t] # job[t]
    PROVE  CommitWins(t) \/ CommitLoses(t) \/ StoreFails(t)
<1>1. GoesOn(t)
  BY OwnStep, AsksFromIdle DEF At
<1> QED BY <1>1 DEF GoesOn, Parse, LoadPublish, GatePublish, LoadMedia, LostMedia, LoadBulk,
                    ReportBulk, Winner, At

LEMMA BulkStep ==
    ASSUME IInv, [Next]_vars, NEW t \in Archivists, At(t, "bulk"), job'[t] # job[t]
    PROVE  ReportBulk(t) \/ \E u \in Ulids : LoadBulk(t, u)
<1>1. GoesOn(t)
  BY OwnStep, AsksFromIdle DEF At
<1> QED BY <1>1 DEF GoesOn, Parse, LoadPublish, GatePublish, LoadMedia, LostMedia, Winner,
                    CommitWins, CommitLoses, StoreFails, At

(* A request that replaces a record has read the version that stands.      *)
LEMMA ReplacesNow ==
    ASSUME IInv, [Next]_vars, NEW t \in Archivists, NEW u \in Ulids, Replaces(t, u)
    PROVE  CommitOK(t) /\ Now(u, job[t].at)
<1>1. At(t, "commit") /\ job[t].ulid = u /\ record'[u] # record[u] /\ job'[t] # job[t]
  BY DEF Replaces
<1>2. CommitOK(t)
  BY <1>1, CommitParts
<1>3. Version(u) = job[t].at
  BY <1>1, CommitStep DEF CommitWins, CommitLoses, StoreFails
<1> QED BY <1>2, <1>3 DEF Now, Version, Replaces

(***************************************************************************)
(* A save of the form and a publication replace the record their page      *)
(* shows, with its media, whatever was saved in between.                   *)
(***************************************************************************)
THEOREM ShownBeforeReplacedHolds == Spec => ShownBeforeReplaced
<1>1. ASSUME IInv, [Next]_vars, NEW t \in Archivists, NEW u \in Ulids,
             Replaces(t, u), job[t].op \in {"edit", "publish"}
      PROVE  record[u].article = page[t].shown
  <2>1. CommitOK(t) /\ Now(u, job[t].at) /\ job[t].ulid = u
    BY <1>1, ReplacesNow DEF Replaces
  <2>2. CASE job[t].op = "edit"
    <3>1. page[t].at = "form" /\ page[t].ulid = u /\ page[t].version = job[t].at
      BY <2>1, <2>2 DEF CommitOK, EditOK, OnForm
    <3> QED BY <1>1, <2>1, <3>1, PageReads DEF Stands
  <2>3. CASE job[t].op = "publish"
    BY <2>1, <2>3 DEF CommitOK, PublishOK, Stands
  <2> QED BY <1>1, <2>2, <2>3
<1>2. IInv /\ [Next]_vars =>
          [\A t \in Archivists, u \in Ulids :
               Replaces(t, u) /\ job[t].op \in {"edit", "publish"} =>
                   record[u].article = page[t].shown]_vars
  BY <1>1
<1> QED BY <1>2, Invariant, PTL DEF Spec, ShownBeforeReplaced

(***************************************************************************)
(* What a save of the form changes in a record, the archivist typed or a   *)
(* notice had named to her.                                                *)
(***************************************************************************)
THEOREM UndoneWasNamedHolds == Spec => UndoneWasNamed
<1>1. ASSUME IInv, [Next]_vars, NEW t \in Archivists, NEW u \in Ulids,
             Replaces(t, u), job[t].op = "edit"
      PROVE  {f \in Fields : job[t].article[f] # record[u].article[f]} \subseteq job[t].known
  <2>1. CommitOK(t) /\ Now(u, job[t].at) /\ job[t].ulid = u
    BY <1>1, ReplacesNow DEF Replaces
  <2> QED BY <1>1, <2>1 DEF CommitOK, EditOK
<1>2. IInv /\ [Next]_vars =>
          [\A t \in Archivists, u \in Ulids :
              Replaces(t, u) /\ job[t].op = "edit" =>
                  {f \in Fields : job[t].article[f] # record[u].article[f]}
                      \subseteq job[t].known]_vars
  BY <1>1
<1> QED BY <1>2, Invariant, PTL DEF Spec, UndoneWasNamed

(***************************************************************************)
(* What changes a record: a new one, a mark or a delete by somebody with   *)
(* no request in hand, or a save.                                          *)
(***************************************************************************)
Saves(t) ==
    /\ At(t, "commit") /\ Version(job[t].ulid) = job[t].at
    /\ Writes(job[t]) /\ minted' = minted
    /\ job'[t] # job[t]

LEMMA SaveChangesJob ==
    ASSUME IInv, NEW t \in Archivists, CommitWins(t) \/ StoreFails(t)
    PROVE  job'[t] # job[t]
<1>1. DOMAIN job = Archivists /\ CommitOK(t) /\ At(t, "commit")
  BY CommitParts DEF IInv, Shapes, CommitWins, StoreFails
<1>2. job'[t] = NoJob \/ job'[t] = BulkSaved(job[t]) \/ job'[t] = Bucketed(job[t], "conflicted", job[t].ulid)
  BY <1>1 DEF CommitWins, StoreFails, Ends, CommitOK
<1>3. job[t].op = "bulk" \/ job'[t] = NoJob
  BY <1>1 DEF CommitWins, StoreFails, Ends, CommitOK
<1>4. job'[t].step \in {"idle", "bulk"}
  <2>1. CASE job'[t] = NoJob
    BY <2>1 DEF NoJob
  <2>2. CASE job'[t] # NoJob
    <3>1. Parted(job[t]) /\ job[t].ulid \in job[t].todo
      BY <1>1, <1>3, <2>2 DEF CommitOK, BulkOK
    <3>2. PICK n : n = job'[t]
      OBVIOUS
    <3>3. n = BulkSaved(job[t]) \/ n = Bucketed(job[t], "conflicted", job[t].ulid)
      BY <1>2, <2>2, <3>2
    <3>4. n.step = "bulk"
      BY ONLY <3>1, <3>3, SavedParts, BucketedParts
    <3> QED BY <3>2, <3>4
  <2> QED BY <2>1, <2>2
<1> QED BY <1>1, <1>4 DEF At

LEMMA RecordStep ==
    ASSUME IInv, [Next]_vars, record' # record
    PROVE  \/ \E t \in Archivists, u \in Ulids : Copy(t, u) \/ Delete(t, u)
           \/ \E t \in Archivists, u \in Ulids, c \in Collections : Create(t, u, c)
           \/ \E t \in Archivists : Saves(t)
<1>1. Next
  BY DEF vars
<1>2. ~(\E c \in Shifting : ChainChanges(c))
  BY DEF ChainChanges
<1>3. PICK t \in Archivists : Asks(t) \/ GoesOn(t)
  BY <1>1, <1>2 DEF Next
<1>4. CASE Asks(t)
  BY <1>4 DEF Asks, Open, PostEdit, PostPublish, PostMedia, Gated, AskRemoval, PostBulk,
              ConfirmBulk
<1>5. CASE GoesOn(t)
  <2>1. CommitWins(t) \/ StoreFails(t)
    BY <1>5 DEF GoesOn, Parse, LoadPublish, GatePublish, LoadMedia, LostMedia, LoadBulk,
                ReportBulk, CommitLoses, Winner
  <2>2. job'[t] # job[t]
    BY <2>1, SaveChangesJob
  <2> QED BY <2>1, <2>2 DEF CommitWins, StoreFails, Saves
<1> QED BY <1>3, <1>4, <1>5

(***************************************************************************)
(* A record becomes published only by a request that saw its Collection's  *)
(* chain resolve after its gate, and is then no template.                  *)
(***************************************************************************)
LEMMA PublishStep ==
    ASSUME IInv, [Next]_vars, NEW u \in Ulids, Published(record'[u]), ~Published(record[u])
    PROVE  \E t \in Archivists :
              /\ Replaces(t, u) /\ job[t].op \in {"edit", "publish"}
              /\ record'[u].article.collection \in job[t].resolved
              /\ ~record'[u].article.template
<1>1. record'[u] # record[u] /\ record' # record /\ DOMAIN record = Ulids
  BY DEF IInv, Shapes
<1>2. ASSUME NEW t \in Archivists, NEW o \in Ulids, Copy(t, o) PROVE FALSE
  <2>1. page[t].ulid \in Ulids /\ record[page[t].ulid] # Absent
    BY <1>2, PageReads DEF Copy, Live
  <2>2. IsArticle(record[page[t].ulid].article)
    BY <2>1, LoadedIsOK
  <2>3. Copied(record[page[t].ulid].article).lifecycle = "draft"
    BY <2>2 DEF Copied, IsArticle, ArticleFields
  <2> QED BY <1>1, <1>2, <2>3 DEF Copy, Published
<1>3. ASSUME NEW t \in Archivists, NEW o \in Ulids, Delete(t, o) PROVE FALSE
  <2>1. record[o] # Absent /\ IsArticle(record[o].article)
    BY <1>3, LoadedIsOK DEF Delete
  <2> DEFINE a == [record[o].article EXCEPT !.deleted = ~@]
  <2>2. a.lifecycle = record[o].article.lifecycle
    BY <2>1 DEF IsArticle, ArticleFields
  <2>3. o = u
    BY <1>1, <1>3 DEF Delete
  <2>4. \/ record' = [record EXCEPT ![o] = [version |-> record[o].version + 1, article |-> a]]
        \/ record' = [record EXCEPT ![o] = Absent]
    BY <1>3 DEF Delete
  <2> HIDE DEF a
  <2> QED BY <1>1, <2>1, <2>2, <2>3, <2>4 DEF Published
<1>4. ASSUME NEW t \in Archivists, NEW o \in Ulids, NEW c \in Collections, Create(t, o, c)
      PROVE  FALSE
  BY <1>1, <1>4 DEF Create, Published, Born
<1>5. PICK t \in Archivists : Saves(t)
  BY <1>1, <1>2, <1>3, <1>4, RecordStep
<1> DEFINE j == job[t]
<1>6. /\ Now(j.ulid, j.at) /\ record'[j.ulid] = [version |-> j.at + 1, article |-> j.article]
      /\ \A o \in Ulids \ {j.ulid} : record'[o] = record[o]
  BY <1>5, WinnerWrites DEF Saves
<1>7. j.ulid = u /\ CommitOK(t)
  BY <1>1, <1>5, <1>6, CommitParts DEF Saves
<1>8. j.article.lifecycle = "published" /\ record[u].article.lifecycle # "published"
      /\ record[u] # Absent
  BY <1>6, <1>7 DEF Published, Now
<1>9. Replaces(t, u)
  BY <1>1, <1>5, <1>7, <1>8 DEF Replaces, Saves
<1>10. j.op \in {"edit", "publish"}
  <2>1. j.op # "media"
    BY <1>6, <1>7, <1>8 DEF CommitOK, MediaOK, ArticleFields
  <2>2. j.op # "bulk"
    BY <1>6, <1>7, <1>8 DEF CommitOK, BulkOK, Stands
  <2> QED BY <1>7, <2>1, <2>2 DEF CommitOK
<1>11. j.article.collection \in j.resolved
  BY <1>6, <1>7, <1>8, <1>10 DEF CommitOK, EditOK, PublishOK
<1>12. ~j.article.template
  BY <1>7, <1>8 DEF CommitOK, WellFormed
<1> QED BY <1>6, <1>7, <1>9, <1>10, <1>11, <1>12

THEOREM PublishGateHoldsAlways == Spec => PublishGateHolds
<1>1. IInv /\ [Next]_vars =>
          [\A u \in Ulids : Published(record'[u]) /\ ~Published(record[u]) =>
              \E t \in Archivists :
                  /\ Replaces(t, u) /\ job[t].op \in {"edit", "publish"}
                  /\ record'[u].article.collection \in job[t].resolved
                  /\ ~record'[u].article.template]_vars
  BY PublishStep
<1> QED BY <1>1, Invariant, PTL DEF Spec, PublishGateHolds

(***************************************************************************)
(* The report of a bulk edit is true: its buckets part the selection when  *)
(* it ends, and each commit puts its record in the bucket of what it did.  *)
(***************************************************************************)
LEMMA ReportIsWhole ==
    ASSUME IInv, [Next]_vars, NEW t \in Archivists, At(t, "bulk"), At(t, "idle")'
    PROVE  OneBucketEach(job[t].plan, job[t].buckets)
<1>1. job'[t] # job[t] /\ DOMAIN job = Archivists
  BY DEF At, IInv, Shapes
<1>2. Parted(job[t])
  BY DEF IInv, JobsOK, JobOK
<1>3. ASSUME NEW u \in Ulids, LoadBulk(t, u) PROVE FALSE
  <2>1. u \in job[t].todo
    BY <1>3 DEF LoadBulk
  <2>2. \/ job'[t].step = "commit"
        \/ job'[t] = Bucketed(job[t], "missing", u)
        \/ job'[t] = Bucketed(job[t], "conflicted", u)
    BY <1>1, <1>3 DEF LoadBulk
  <2>3. job'[t].step \in {"commit", "bulk"}
    <3> PICK n : n = job'[t]
      OBVIOUS
    <3>1. \/ n.step = "commit"
          \/ n = Bucketed(job[t], "missing", u)
          \/ n = Bucketed(job[t], "conflicted", u)
      BY <2>2
    <3>2. n.step \in {"commit", "bulk"}
      BY ONLY <1>2, <2>1, <3>1, BucketedParts
    <3> QED BY <3>2
  <2> QED BY <2>3 DEF At
<1>4. job[t].todo = {}
  BY <1>1, <1>3, BulkStep DEF ReportBulk
<1> QED BY <1>2, <1>4 DEF Parted, OneBucketEach

LEMMA CommitIsBucketed ==
    ASSUME IInv, [Next]_vars, NEW t \in Archivists, At(t, "commit"), job[t].op = "bulk",
           job'[t] # job[t]
    PROVE  LET u == job[t].ulid
               b == job'[t].buckets
           IN  /\ u \in b.saved => /\ record[u].version = job[t].at
                                  /\ record'[u].version = job[t].at + 1
               /\ u \in b.cleared <=>
                     /\ u \in b.saved /\ job[t].plan.field = "mediaType"
                     /\ record[u].article.documentType # None
                     /\ record'[u].article.documentType = None
               /\ u \in b.conflicted => record' = record \/ events' # events
<1> DEFINE j == job[t]
           u == j.ulid
<1>1. CommitOK(t) /\ DOMAIN job = Archivists /\ events \in Nat
  BY CommitParts DEF IInv, Shapes
<1>2. Parted(j) /\ u \in j.todo /\ Stands(u, j.at, j.loaded)
  BY <1>1 DEF CommitOK, BulkOK
<1>3. u \notin j.buckets["cleared"]
  BY <1>2 DEF Parted
<1>4. PICK n : n = job'[t]
  OBVIOUS
<1>5. CASE CommitWins(t)
  <2>1. n = BulkSaved(j)
    BY <1>1, <1>4, <1>5 DEF CommitWins
  <2>2. /\ u \in n.buckets["saved"] /\ u \notin n.buckets["conflicted"]
        /\ u \in n.buckets["cleared"] <=> Clears(j)
    <3> HIDE DEF j
    <3> QED BY ONLY <1>2, <2>1, SavedParts
  <2>3. /\ Now(u, j.at)
        /\ record'[u] = [version |-> j.at + 1, article |-> j.article]
    BY <1>5, WinnerWrites DEF CommitWins
  <2>4. Clears(j) <=>
            /\ j.plan.field = "mediaType"
            /\ record[u].article.documentType # None
            /\ record'[u].article.documentType = None
    BY <1>2, <2>3 DEF Clears, Stands
  <2> HIDE DEF j
  <2>5. record[u].version = j.at /\ record'[u].version = j.at + 1
    BY <2>3 DEF Now
  <2> QED BY <1>4, <2>2, <2>4, <2>5 DEF j
<1>6. CASE CommitLoses(t) \/ StoreFails(t)
  <2>1. n = Bucketed(j, "conflicted", u) /\ (record' = record \/ events' # events)
    BY <1>1, <1>4, <1>6 DEF CommitLoses, StoreFails
  <2>2. u \notin n.buckets["saved"] /\ u \notin n.buckets["cleared"]
    <3> HIDE DEF j
    <3>1. n = Bucketed(j, "conflicted", j.ulid)
      BY <2>1
    <3> QED BY ONLY <1>2, <1>3, <3>1, BucketedParts
  <2> QED BY <1>4, <2>1, <2>2
<1> QED BY <1>5, <1>6, CommitStep

THEOREM BulkAccountsAlways == Spec => BulkAccounts
<1>1. IInv /\ [Next]_vars =>
          [/\ \A t \in Archivists : At(t, "bulk") /\ At(t, "idle")' =>
                  OneBucketEach(job[t].plan, job[t].buckets)
           /\ \A t \in Archivists :
                  At(t, "commit") /\ job[t].op = "bulk" /\ job'[t] # job[t] =>
                      LET u == job[t].ulid
                          b == job'[t].buckets
                      IN  /\ u \in b.saved => /\ record[u].version = job[t].at
                                             /\ record'[u].version = job[t].at + 1
                          /\ u \in b.cleared <=>
                                /\ u \in b.saved /\ job[t].plan.field = "mediaType"
                                /\ record[u].article.documentType # None
                                /\ record'[u].article.documentType = None
                          /\ u \in b.conflicted => record' = record \/ events' # events]_vars
  BY ReportIsWhole, CommitIsBucketed
<1> QED BY <1>1, Invariant, PTL DEF Spec, BulkAccounts
=============================================================================
