# Bundesarchiv: specification and proofs

TLA+ modules for the archive of the Deutscher Pfadfinderbund: a Django
application that keeps Articles and Collections as folders of files, serves them
from one process with several request threads, indexes them in Postgres and
pushes them to a Nextcloud. Paths below are relative to `src/bundesarchiv/`.

## The system

**Canonical archive** (`persistence/`). An Article is the folder
`articles/<ulid>/` with `README.md` (the current version: metadata, text, a
version number and a change record), `history/<n>.md` (each version it replaced,
byte for byte) and `media/` (write-once files). Collections are the same without
media. `_writer.commit` is the only way to save: under a process-wide lock it
compares the version the caller expects with the one stored, keeps the current
README under `history/`, then replaces it. `_writer.remove` deletes a folder.
`repository.py` adds media files (without the lock) and refuses a README that
names a file that is not stored. Four adapters stand behind one port
(`objectstore.py`): memory, local disk, WebDAV.

**Write services** (`app/articles.py`, `app/collections.py`). Form saves pass the
version their page showed and fail with `Conflict` when it is stale (ADR 0013).
Structural media changes go through `update_article`, which loads, applies the
change and retries after a lost race. Deleting puts a mark on the Article (the
Papierkorb, ADR 0022); only a marked Article can be deleted for good.

**After a write** (`app/after_write.py`, `app/tasks.py`, `index/`). The index row
is recomputed from the files under an advisory lock, in the request when the lock
is free within five seconds, else by a queued job; an hourly rebuild heals what
both missed (ADR 0014). A push job is queued for the system of record.

**Mirror** (`app/mirror.py`, `app/push_record.py`). A worker process pushes media,
then history, then the README, notes every key it sent, retries five times and
parks; a daily reconcile checks everything against a listing (ADR 0020).

**Chunked uploads** (`app/upload_staging.py`). Bytes are staged outside the
archive at growing offsets; a finish that clients repeat turns them into media.

**Access** (`domain/access.py`, `domain/audience.py`, `index/scope.py`). Who sees
an Article follows from its own audience or the nearest one in its Collection
chain; the index stores the outcome as columns that queries filter on.

**Object stores** (`persistence/objectstore.py`, `persistence/adapters/`). The local
adapter places a file by a temp file, a rename or a link, and fsyncs of the folders it
made; a folder is deleted by one rename to a reserved name. The WebDAV adapter retries
only what the server said it did not do.

**Pages** (`app/web/`). An archivist's form holds the version it showed; the list's state
is its query string; bulk edits save one record after the other and report buckets; the
cookies of a browser hold its login by Keycloak, with no session on the server.

**The rest**: page texts of PDFs under the hash of a file (`app/media_text.py`), the
monthly fixity check, a one-time import of the old site, EDTF dates, and what stays out
of the model (see the end): thumbnails, the front matter codec, templates and wording.

| Component | State | Operations | Hard behaviour |
|---|---|---|---|
| Article saves | README, history, media, lock | create, edit, upload, remove, mark, restore, delete for good | races of three versions (page, gate, commit), retries, crash between the two writes |
| Collections | README, history | create, save | a save changes who sees whole subtrees |
| Index | rows, writer lock | refresh, subtree refresh, rebuild | order of refreshes, lock timeout, lost retry, crash before the refresh |
| Mirror | remote keys, push record, jobs | push, delete, reconcile | saves and deletes while a push runs, lost answers, parked jobs |
| Upload staging | folders, offsets, flocks | create, append, finish, discard, sweep | repeated finish, sweep against a chunk |
| Object stores | folders and files, here and on disk | create, replace, delete prefix | what a crash, a power loss or a lost answer leaves |
| Access | none | effective audience, can_view, preview | the columns must agree with the function |
| Search | rows, page texts | search, facets, suggestions | what a viewer may not see must not be counted either |
| Pages | what each page showed | edit, publish, copy, delete, media, bulk, list links | pages grow stale while others save |
| Login | cookies, realm, cached keys | login, callback, page, logout | answers in any order, key rotation, restart |
| Derived files | texts by hash, jobs | extract, reconcile, prune | a shared hash, deadly bytes, lost jobs |
| Fixity | none | walk and report | saves race the walk |
| Legacy import | Collections, Articles | import, dry run | dies anywhere and is started again |

Correctness, component by component, in a sentence each: no save overwrites what its page
did not show and none is half done; a row that differs from the files is owed a refresh;
the system of record never holds a README ahead of its files; told bytes of an upload are
kept and saved once; a told save survives a power loss; the list is that of an archive
holding only what the viewer may see; a live login is served; a text belongs to its file;
the fixity report is exact; an import loses nothing that it does not report.

## Modules

| Module | Models | Kind |
|---|---|---|
| `ArticleLog` | what an Article promises: a log of whole operations | abstract specification |
| `ArticleSaves` | the save protocol of one Article folder | detailed specification |
| `MCArticleSaves` | model values, symmetry | model checking |
| `ArticleSaves_proofs` | types, the safety invariants, `ArticleSaves` implements `ArticleLog` | proofs |
| `Visibility` | chain of Collections, effective audience, the columns of a row | operators |
| `IndexSync` | saves, refreshes, jobs and rebuilds of the search index | detailed specification |
| `MCIndexSync` | model values, symmetry | model checking |
| `Mirror` | pushes, deletes and the reconcile of the system of record, with their jobs | detailed specification |
| `MCMirror` | model values | model checking |
| `UploadStaging` | staged uploads, their finish and the sweep | detailed specification |
| `MCUploadStaging` | model values | model checking |
| `LocalStore` | the local adapter, call by call of the operating system | detailed specification |
| `ObjectStore` | what any adapter promises: calls that take effect at one moment | abstract specification |
| `StoredArticle` | an Article's requests over `LocalStore`, with power losses | composition |
| `MCStoredArticle` | model values, symmetry | model checking |
| `StoredArticle_proofs` | `LocalStore` implements `ObjectStore`, what power losses leave of an Article | proofs |
| `DavStore` | the WebDAV adapter against an unreliable server | detailed specification |
| `ArticlePages` | the archivists' pages and forms over the records | detailed specification |
| `MCArticlePages` | model values, symmetry | model checking |
| `ArticlePages_proofs` | what pages may replace, publish and report | proofs |
| `Access` | effective audience, `can_view`, preview, the scope columns | operators |
| `Edtf` | the days and decades of a date | operators |
| `Search` | the index row and the queries over it | operators |
| `Workbench` | the list, its links, the start page, the suggestions | detailed specification |
| `Session` | one browser's login: cookies, requests, realm, cached keys | detailed specification |
| `Derived` | page texts, their jobs, the reconcile and the pruning | detailed specification |
| `Fixity` | the check against saves, deletes and a failing disk | detailed specification |
| `LegacyImport` | the import of the old site and its report | detailed specification |
| `Workbench_proofs` | who may see a row, the days of a date, what a viewer sees, what links remove and promise | proofs |
| `Around` | the six parts around the records, side by side | composition |
| `MCAround` | model values | model checking |
| `Around_proofs` | login, WebDAV, page texts, fixity and import | proofs |
| `IndexSync_proofs` | what a row depends on, types, row order, no row stale by accident | proofs |
| `Mirror_proofs` | types, the push order, nothing dropped by accident | proofs |
| `UploadStaging_proofs` | types and the safety of uploads | proofs |

### ArticleSaves

One folder and the request threads of the one app process. The state is the
README, the history files, the stored media, `WRITER_LOCK`, and per thread where
it stands (`pc`) and what it has in hand (`job`). Four variables only observe:
`minted` (a ulid is minted once), `gone`, `acked`, and the count `started`.

A request begins with its gate (`_load_gated` and what the view does with the
load): `Create`, `Edit`, `Upload`, `Remove`, `Mark`, `Restore`, `Purge`. What a
form posts is a version some page showed, or, with `GarbageForms`, no number,
which `parse_version` reads as 0. Gate and commit are apart: any other request may
run in between. `Place` is `add_media`, `Load` the load of `update_article`. Under
the lock the steps are the store calls of `_writer.commit` in their order:
`Acquire`, then the compare with its outcomes `Conflict` (raise, or retry for
`update_article`), `Refuse` (media not stored) and `Admit`, then `Keep` (the
history file), then `Replace` (the commit point). `Delete` is `_writer.remove`.
`Reply` tells the caller. `Fail` lets any store call raise or its answer be lost,
and releases the lock; `Crash` ends every request and keeps the files.

Abstracted: the text and metadata of an Article are the thread whose words they
are, a file is a model value (of names that collide, each takes the next free one: the
file of this model is the name it got), one store call is one step (`StoredArticle`
opens it up).

### ArticleLog

The log of versions and the operations between neighbours. The refinement mapping
reads the folder: version `n` is `history/<n>.md`, the last one is the README.
`ImplementsLog` says every step is one whole operation or invisible. It holds only
while no form posts a garbage version (see Findings).

### Visibility

`ResolveChain` is the walk of `resolve_chain` from a Collection to its root, as the
least set that holds the Collection and every parent of a member: the walk visits
exactly these, and it raises (`Broken`) when no member is a root. The first
Collection with an audience decides: `Cut` ends the chain there, so that it can be
stated without the order of the walk. `RowColumns` and `InSubtree` are
`_row_for` and `_in_subtree`.

### IndexSync

The READMEs of all Collections and Articles (`coll`, `art`), the rows (`rows`), the
request threads (`pc`, `saving`, `due`), the one worker (`queue`, `working`), and
the index transaction of whoever holds the writer lock (`tx`). A save is one step
here: `ArticleSaves` says how it becomes one. What matters is what follows.

`SaveArticle` and `HardDelete` owe the Article's own refresh. `Decide` is
`_moves_visibility`, read before the save; `CommitCollection` is the save, and owes
a subtree refresh when it was decided to. A refresh starts with the lock (`Locks`)
and reads one README at a time (`ReadCollection`, `ListArticles`, `ReadArticle`) while
other saves go on; `Finish` writes all its rows. `SyncFails` covers the lock wait that
times out, a database that fails and a scan that finds an Article gone. The refresh
then goes to the queue (`Retry`), unless the enqueue fails too (`Forget`). A job that
raises, or whose worker dies, is not tried again (`JobFails`); `AppCrash` ends every
request. `Tick` queues the hourly rebuild.

`lost` only observes: the refreshes nobody will run any more, each with the count of
failures when it was lost, so that a rebuild heals those lost before it began and
no others. `version` in `art` counts the saves of an Article, with its hard delete as
one more; a row carries the version it was computed from.

Abstracted: an Article is its Collection and what it says of its audience; `Hidden`
stands for a draft and for the Papierkorb alike, so `HardDelete` is allowed a little
more often than in the code. With `MayBreak = FALSE` no save closes a circle of
parents, as no page does today (`save_collection` itself would accept it).

### Mirror

The folders of the working copy (`local`) and of the system of record, a Nextcloud
(`remote`), the push record (`record`), what requests have yet to enqueue (`due`), the
mirror jobs (`queue`), and the one worker: its job, where it stands (`stage`), the record
it is at (`at`), the README it read (`current`), the files it has yet to look at (`left`),
the one sent but not yet noted (`hand`), and for a reconcile the records to come (`todo`)
and its listing (`listed`). A ulid is an Article or a Collection; only an Article is
deleted for good (`dead`), and a ulid is not used again after that.

Requests are cut down to what a push can see of them: `Place` (a media file), `Keep` (the
history file), `Replace` (the README, which owes a push), `HardDelete` (which owes a
delete). `ArticleSaves` says how they come about. `Enqueue` is the enqueue after the
write, with the queueing lock of a push: one that waits stands in for the new one
(`StandsIn`), one that runs does not. `Tick` queues the daily reconcile.

A push is `_Push.folder` call by call: `ListFirst`, `ReadReadme`, `ListKeys`, then for each
file in save order (`InTurn`) either `Skip` (the push record says it is there, `Trusted`)
or `Send` and `Note`. A reconcile lists the saved records (`ListRecords`) and the system of
record (`ListRemote`) once, then does the same for each record (`NextRecord`); it trusts
the push record only for keys its listing shows (`Confirmed`). A delete job is
`DeleteRemote` and `ForgetPrefix`. A call that fails ends a job, which is tried again or
parked (`Retry`), or breaks off one record of a reconcile (`Raises`); `AnswerLost` is a
call that had its effect all the same. `WorkerDies` and `PostgresLost` lose jobs, the
latter the push record as well; with `MayLose`, people remove files on the Nextcloud.

`lost` only observes: per record, up to which version pushes were lost for good and
whether its delete was.

Abstracted: a file is its key and its bytes at once, so a README is its version and the
media it names; whether a file is found on the Nextcloud before or after it is sent makes
no difference to what stands there (`Written`). `Send` may record a file that is gone
from the working copy when the Nextcloud holds it, a little more often than the code.
The order of the queue is left open. A retry whose queueing lock is taken by a newer push
is dropped in favour of it.

### UploadStaging

The folders on local disk that hold staged uploads of one file to one Article: how far a
folder got (`folder`), which of its files it links (`files`), the bytes of `data` (`size`), and
whether that was left alone for a day (`stale`). An actor is a request thread or the sweep in
the worker process: where it stands (`pc`), what it was asked (`job`), the Article it loaded
(`seen`); `lock` is the `flock` of each data file. The Article is cut down to its version,
whether it can be saved (`alive`: there and not in the Papierkorb), and how often it lists the
file; `EditArticle` is any save of another request. The rest only observes: offsets clients
were told (`told`), sizes put into the archive (`placed`), uploads that were `saved`, whose
finish was `answered`, whose removal began (`doomed`).

`Create` and `Rename` are the two halves of `Staging.create`. Any other request opens the data
file (`Ask`), waits for the lock (`Lock`) and looks again (`FoundGone`), then is `Status`,
`Append`, `Discard` or `Claim`. A finish goes on under the lock: `PlaceFile` (`add_media`),
`Load` and `Commit` (`update_article`), `Mark` and `Truncate` (`_Held.finish`), `Answer`. Its
answer, and that of an append, can be lost, so clients ask again: a piece may start at any offset
its client was ever told, and pieces of one upload may race. `Unlink` and `Rmdir` are `rmtree`
file by file. The sweep takes an upload only when the lock is free (`SweepTakes`). `Raises`
ends a request at any step; `AppDies` and `WorkerDies` end a process and drop its locks.

Abstracted: a malformed id, another owner or another Article read as absent, which does nothing
here; a piece of no bytes is left out; what an append gets of its source is one step of any
length up to the piece. The save is one step, as `ArticleSaves` shows it to be, and the file
names `add_media` tries are left out.

### LocalStore, ObjectStore, StoredArticle

`LocalStore` is the record's folder as inodes (`dir`), each with the set of contents a power
loss may leave of it (`disk`): those it had since its last fsync. A placement is `Look`
(`_make_parents` notes which folders are missing), `MakeLeaf`/`MakeAbove`/`MakeAgain`
(`mkdir -p`), `Open` (the temp file, fsynced), `Place` (rename or link), `Sync` and
`SyncAbove` (the fsyncs, by path, deepest first). A delete is `SweepOld`, `Rename`,
`SyncRoot`, `SweepNew`. Between any two of them other actors run, a call raises, the process
or the machine stops. `ObjectStore` is the port: a map whose calls take effect at one moment
between their beginning and their answer, and which promises nothing of bytes not yet on
disk; `ImplementsPort` is the refinement.

`StoredArticle` puts the requests of an Article on top: create, upload (`Upload`,
`FilePlaced`, `Load`), `Save` under `WRITER_LOCK`, `Conflict`, `Delete`. `promised` is what
the last save that was told to stand names, `gone` that a delete was answered. The property
`SavedSurvives` looks at every content the disk may have left. It excuses what no fsync was
ever made for: `cut` holds what calls left unsynced that ended first, `Owes` what a call
still has to sync, when another request found its file taken and reused it. Without the
excuses it fails (Findings).

Abstracted: history files (placed like the README), temp files (their names are reserved and
nobody reads them), one subfolder.

### DavStore

The keys of one folder `Depth` folders down on a WebDAV server. A call goes `make` folder by
folder, `send`, or `find` and `remove` for a delete; a small file is sent first and folders
are made when that fails (`putFirst`). The server may say "locked" or not yet show a folder
(`Locked`, `ParentNotVisible`): the call had no effect and is tried again. An answer that is
lost (`Lost`) is not retried. `DavImplementsPort` is the same `ObjectStore`, so a create is
never refused because of its own file. Only `delete_prefix`, `create` and `replace` are
modelled; a PUT that takes effect after the client gave up is not.

### ArticlePages

The records with their versions (`record`), the state of each Collection's chain (`chain`),
what each archivist has on screen (`page`) and the request under way (`job`). `Form` is a
form: the version it shows, the Article it was loaded from (`shown`), what its fields say
(`values`), and `known`, which only observes: the fields typed into or named by a conflict
notice. `PostEdit`, `Parse`, `CommitWins`, `CommitLoses`, `Winner` are
`_handle_edit_post` and `save_catalog_form` with the form that comes back after a conflict;
`PostPublish` to `GatePublish` are `article_publish`; `PostMedia` to `LostMedia` the media
surface, whose answer advances the version the form holds by its own save alone
(`MediaSurface`); `Check`, `PostBulk`, `ConfirmBulk`, `LoadBulk`, `ReportBulk` the bulk edit
with its buckets. `ChainChanges` breaks or repairs a chain in between, `StoreFails` fails a
save.

Abstracted: the text fields, date and audience are one field `text` whose value is the
archivist who wrote it; documents' own fields, captions and alt texts are left out. A save is
one step (`ArticleSaves`).

### Access, Search, Edtf, Workbench

`Access` is `effective_audience`, `can_view` and `preview` over a resolved chain, the scope
columns of a row and the query over them. `Edtf` is the grammar's tokens with their first and
last day, `_bounds` and `decades`. `Search` is `build_row` and the queries: scope, text (a set
of words, negated ones apart), filters, facets each under every filter but its own, the order
with `NULLS LAST` and the ulid at its end, a page as a slice. `Workbench` is a viewer who
follows links: `params` is the query string, and `promise` what the link said of the list
behind it (a count, an Article it must hold, the same list in another order).
`SeesOnlyItsOwn` compares every answer, counts and suggestions included, with the answer from
an archive that holds only what the viewer may see.

### Session

One browser: its cookies (`jar`), requests under way (`request`) that carry the cookies of the
moment they were sent and set or delete them when they arrive, in any order; the realm (`realm`:
up, signing key, published keys, live logins) and the worker's `cache` of discovery and keys.
`Resolve` to `Refresh` are `viewer_of`, `verify_access` and the refresh; `StartLogin`,
`Callback`, `FetchTokens` the login; `LogoutAlone`, `Revoke` the logout. `calm` only observes:
the realm was up and the login live for as long as the request ran.

### Derived

`media` is what each README names, `named` what its row names, `text` whose words stand under a
hash (`"another's"` would be the harm). `Commit`, `Refresh`, `EnqueueDerived` are a save; the worker
and a command (`proc`) run jobs (`ReadOne`, file by file), the reconcile and the rebuild, which
deletes texts no row names. Bytes on disk may be altered; some files kill their reader.

### Fixity

`tree` holds READMEs with their versions, history and media; saves are two steps (`BeginSave`,
`Commit`), files are placed without the lock, folders deleted, bytes rot. The check lists, reads
version by version, hashes and ends in a report. `touched` and `rotten` only observe: folders
written while it ran, and files damaged all along. `Faults` is what is wrong with a folder, from
the tree alone.

### LegacyImport

Rows and files of an export whose media root may be the wrong one, a run that dies anywhere, is
started again, or finds what archivists made meanwhile. `MapDate` is the date of a row, from its
text or its columns. `ReportOn` is the report: of each kind the count of all, and the name of the
first `MaxSamples` (10 in `app/legacy.py:42`), rows by their id and files by their path. The 11th
date that its columns contradict, or the 11th missing file, is therefore in the count and named
nowhere, and `NothingVanishes` promises no more than that: rows counted exactly, files never
counted short, all of a kind named as long as there are no more than `MaxSamples`.

### Around

Six parts that share no state with each other: the list (`Workbench`), the login (`Session`), the
WebDAV adapter (`DavStore`), page texts (`Derived`), fixity (`Fixity`), the import
(`LegacyImport`). `part` picks one per behaviour and the others rest, so the states of the run are
the sum of the six and not their product, and one run serves them all.

## Runs

| Run | Configuration | Distinct states | Shows |
|---|---|---|---|
| `saves` | 3 threads, 1 file, 4 requests, 1 retry | 383 483 | history, acknowledged saves, no lost update, `ImplementsLog` |
| `saves_end` | 2 threads, 1 file, 4 requests, 1 retry, garbage forms, fair | 276 300 | no README names a file that is not stored, even after a resurrection; every request ends |
| `garbage_form` | 2 threads, 4 requests, garbage forms | violation | a garbage version does not always lose |
| `index` | 2 threads, 2 Collections, 1 Article, 2 saves, 1 failure, fair | 858 966 | no stale row by accident, rows only move forward, the index catches up |
| `index_broken_chain` | 1 thread, 2 Collections, a circle of parents | violation | rows below a broken chain keep their audience |
| `mirror` | 1 record, 1 media name, 2 tries, 3 saves, 2 failures | 4 786 018 | no README there without its files, no push or delete dropped by accident |
| `mirror_heals` | 2 records, 1 try, 2 saves, 2 failures, files vanish, fair | 344 548 | the reconcile makes good whatever was lost |
| `uploads` | 2 threads, 1 upload of 2 units, 4 requests, 1 edit, 1 retry, 2 failures, fair | 662 213 | no told byte lost, only whole files placed, one save per finish, abandoned bytes freed |
| `store` | 2 actors, 2 files, 4 inodes, 4 requests, 1 failure | 1 576 483 | told saves survive a power loss, deletes are final, the adapter is an `ObjectStore` |
| `store_cut` | 2 requests, 1 failure | violation | what a call that was cut off left unsynced is later relied on |
| `pages` | 2 archivists, 2 ulids, 2 Collections, 3 requests, 1 event, 1 retry | 2 678 726 | pairs stay valid, nothing unseen is replaced, a conflict names what it would set back, the publish gate, the bulk report |
| `around` | list 2 clicks; login 2 requests, 4 sends, 4 tokens, 1 trouble; WebDAV 2 clients, depth 2, 1 retry; texts 2 Articles, 2 saves, 1 trouble; fixity 3 writes, 1 damage; import 3 rows, 3 files, 1 sample, 2 troubles | 787 891 | the nine invariants and two temporal properties of the six parts |

Why the bounds are enough. A lost update, or a history file of the wrong version,
takes two requests between the gate and the commit of a third, and one crash or
failure in between: three threads and four requests hold that with a request to
spare. A stale row takes a refresh that read before a save and writes after it, and
the save's own refresh in flight: two threads and the worker. A Collection save decided
not to move visibility is wrong when another save of that Collection lands between the
decision and the commit: two saves. One failure loses a refresh, its retry or a process;
two in a row only lose what one has lost already. What the index run leaves out, audiences
of Collections and longer chains, is in the theorems, which have no bounds.

In `store` four inodes hold the folder and its media folder, and both once more after a
delete; four requests are a create, two uploads that make the media folder together, and
a delete or a save across them. The files of one
folder are placed alike, so two suffice. One failure is a call, a process or the machine.

In `pages` the hazards need one stale page and one save behind it, hence two archivists and
three requests: the page, the other's save, the request that meets it. The one event breaks a
chain or fails a save in between. Only the Collection that shifts changes its chain, and one
Medienart admits the one Dokumenttyp while the other does not, which is what a pair can get
wrong. That a conflict page sets something back takes a form, a save in between, the conflict
and the form posted again.

In `around` two clicks reach every link from every entry, and a save between link and list.
Login: two requests in flight at once, a rotation or an outage between them, a logout behind a
refresh. WebDAV: a retry that meets the other client's file. Texts: two Articles share a hash,
one row is stale and pruned while the other's job runs. Fixity: a save, a delete and one
placed file against a walk and one damage. Import: two runs that die and a third; the three
rows are a date that does not exist, a season, and one whose text and columns differ. The report
names one of a kind, so that two contradicted dates, two kept in words and two missing files are
past its limit, and the one file without a name is at it. The theorems about these parts have none of the bounds.

A push that leaves a README ahead of its files takes a save between two of its calls and
one more whose files it must not miss: two saves beside the first, with a media file and
history. That an Article comes back behind its delete takes a push that runs across the
hard delete, its retry, and the delete job: one record suffices, as jobs touch one folder
each. Two failures use up both tries of a job, or lose an answer and then the retry. In
`mirror_heals` two records make a reconcile that goes on past one that failed, and two
failures are a lost job and a file lost on the Nextcloud, or the push record as well.

In `uploads` the shortest hazards take two pieces that race, a finish and its repeat, or a
request that waits for the lock while the sweep has it: two threads and four requests. Length 2
has a piece that ends early and one that overlaps. One edit makes the save lose its race
(`Retries` 1), marks the Article or takes the file off it; two failures are a crash at any step
of a finish and one in its repeat. The theorems below hold without any of these bounds, and
for any number of uploads.

Symmetry is used only in runs without liveness; threads, files, Collections and
Articles are interchangeable, and no definition tells one of them apart. Deadlock is
checked in the mirror runs, where the reconcile always comes again; in the others
the system stops when the bound on requests is reached. The type invariants of
`ArticleSaves`, `IndexSync` and `UploadStaging` are theorems and not repeated in the runs.

Every property of a passing run has a mutant in `PROJECT.json`: a plausible bug of the
code (the history written under the next number, the lock taken after the first
read, a failed refresh swallowed, a Dokumenttyp without its label on the conflict notice)
that breaks it. The mutated operators stand before what they mutate, marked "Mutant".

## Fairness

`ArticleSaves`: weak fairness of what a live thread does next. Threads hold the lock
for a bounded number of store calls, each of which returns or raises. Nothing makes a
user send a request, a call fail or the process crash.

`IndexSync`: weak fairness of the transactions, of `CommitCollection`, `Retry`, the tick
and the worker taking jobs. Strong fairness of taking the writer lock: it is a Postgres
lock, whose waiters are served in turn, so nobody waits for ever while others take it
again and again. Where a scan meets a deleted Article it raises; no other failure is
bound to happen.

`Mirror`: weak fairness of `Work`, the one worker going on with a job or taking one, and of
the tick. Which job it takes is free, so a push may wait for ever behind reconciles: that
the archive arrives all the same rests on the reconcile alone, as ADR 0020 has it.

`UploadStaging`: weak fairness of threads and of the sweep going on with what they do; strong
fairness of each upload's turn in the hourly sweep, which looks at every folder each time and is
idle in between; days go by. Nobody has to send a request or discard an upload.

`Derived` (in `around`, while its part runs): weak fairness of a save, a job and a command
going on; strong fairness of a waiting job's turn and of the reconcile, which come in queue
order and by the clock while the worker is busy in between. A process that a deadly file kills
starts again; jobs that were running are lost with it.

`StoredArticle`, `ArticlePages`, `Workbench`, `Session`, `DavStore`, `Fixity` and
`LegacyImport` state safety alone.

## Findings

- **A garbage version does not always lose** (run `garbage_form`). `parse_version`
  reads it as 0, which is the version of an absent README: an edit whose gate loaded
  the Article before it was deleted for good commits version 1 and brings it back.
- **Rows below a broken chain** (run `index_broken_chain`). After a save that closes a
  circle of parents, `index_subtree` matches only the Articles directly in the saved
  Collection; those in Collections below keep their old audience until the hourly
  rebuild, where ADR 0014 promises rows that fail closed at once. No page makes such a
  save today.
- **A told save may miss its fsync** (run `store_cut`). `localfs.py:3-5` and 169-172 have
  every placement durable when the call returns. A call that is cut off between making a
  folder, or placing a file, and the fsync leaves it for others to find: they see the
  folder or the file there, have nothing to make, and rely on it. A power loss then
  takes a save that was told to stand.

Smaller things met on the way, none of them a property that fails:

- A hard delete that finds no README answers that all is well, though an earlier one may have
  failed between its rename and its fsync (`DeletedForGood` speaks only of one that found it).
- The question whether a bulk edit of the Medienart may clear a Dokumenttyp is asked of the
  records as they were; a record that gets one before its turn loses it unasked, and is reported.
- The conflict notice names neither the Sammlungsteil nor an Article's own fields, captions
  and alt texts (`docs/tech-debt.md:255`): saving over them sets those back unseen.
  `UndoneWasNamed` speaks of the fields that have a label.
- A row with a broken chain is listed to archivists, whom `can_view` denies the Article, so
  `SeesOnlyItsOwn` counts it among their own; the cell link to its Sammlungsteil leads to a list
  without it.
- A Schlagwort typed twice is stored twice (`catalog.py:229`) and counted twice, where
  `query.py:149` says "how many rows".
- The count of the undated sets a date range aside which its link keeps, so it may open fewer.
- The decades of an open-ended date depend on the year its row was built; one that begins in
  the first year of the current decade gets no decade and is not dateless either.
- Two tabs that log in at once can bounce each other's state cookie again and again, where
  `auth_views.py:132-134` says "it terminates".
  A late refused refresh of an old login deletes newer cookies; `calm` covers the requests
  themselves, not the jar behind them.
- Files behind one that kills its reader, in the same Article, never get their text.
- A save racing the fixity check may move a damaged README to the history unseen by the walk:
  it then shows as unreferenced rather than altered, and the next check has it right.
- An import that died after its first Article cannot be continued; it says so and is started
  over on an empty archive.

## Proofs

All proofs are checked by TLAPS for every value of the constants, from the named
assumptions in the modules: model values such as `Absent` and `Worker` differ from
the sets they stand beside.

**ArticleSaves** (`ArticleSaves_proofs`). `TypeCorrect`; `HistoryIsComplete`,
`MediaIsStored`, `AckedSavesStand`, `NoUpdateIsLost`. None of the properties is
inductive: what a thread compared under the lock must still be stored when it writes,
which holds because `lock` names the one thread between `Acquire` and the release.
`Invariance` proves the conjunction that says so. `Implementation`: initial states map to
initial states of `ArticleLog`, and each step is a step of the log or a stutter, under
`~GarbageForms`.

**IndexSync** (`IndexSync_proofs`). `RowIsLocal`: the row of an Article depends on the
Collections of its chain alone. Chains are least closed sets, so the proof needs no
induction: each of two chains that agree is closed under the other's parents.
`TypeCorrect`. `RowsOnlyMoveForward` from `IInv`: one
transaction at a time, and what it has read lies between the row and the file; a
transaction that read before it held the lock would break this.
`NoRowStaleByAccident`, while no save closes a circle, from `OInv`. `StaleRowsOwed` alone
is not inductive: a running refresh may write a row mixed from several moments. `OInv`
adds that every save after a README was read is owed a refresh by somebody else
(`NewsOwed`), that a save decided not to move visibility does not if it stands
(`StillUnmoved`), and that a rebuild heals only what was lost before it began. With
`RowIsLocal`, a mixed row then differs from the right one only where a Collection of its
chain, or the Article, has such news, and that refresh covers the row.

**Mirror** (`Mirror_proofs`). `TypeCorrect`, from `Base`: the shape of the worker's state, one
README per folder and none for a deleted Article. The other three take a further invariant
each. `ReadmesComplete`, while nobody else removes files there: the property says nothing of
a push half done, so `CompleteInv` adds that the README a push has in hand finds what it
needs among the files there and those still to be sent (`LeftComplete`), which holds because
it was read before the listing, and that the push record and the listing name no write-once
file that is not there (`RecordHonest`, `ListedHonest`), except for a deleted Article between
its delete and the forgetting. `DeletesStayOwed`: a push in flight across the hard delete must
be owed the delete already, before it has sent anything (`DeleteInv`); the delete job runs
when no push does, as there is one worker. `PushesStayOwed`, while nobody else removes files
there: versions there, in the push record and in hand are never ahead of the saved one
(`InOrder`), and a README the push record calls current is there (`RecordReadme`), so a
push that skips it leaves nothing behind.

**UploadStaging** (`UploadStaging_proofs`). `TypeCorrect`; `PlacedIsWhole`, `ToldIsHeld`,
`FreedIsSaved`, `ListedAtMostOnce`, `InUseIsWhole`, and the action property `RepeatsDoNotSave`. One
inductive invariant carries all: `ActorOK` says what an actor relies on between two steps (it
holds the lock of its upload, the folder is whole and unfinished until it marks it itself), and
`UploadOK` what an upload owes its client. That a removal and a request never meet follows
from the one holder of each lock, not from any order of the steps. `OneCreator` is there for the
rename: no id is created twice.

**LocalStore and StoredArticle** (`StoredArticle_proofs`). `Invariant` proves
`IInv == StoreInv /\ Requests /\ Durable`. `StoreInv` is the adapter alone: `Tree`, no folder
is linked twice and no fresh one is linked or held by a second call, and what each call has in
hand at each of its system calls. `Requests` ties a request to its call and says what it relies
on: who writes or removes holds the lock, and what a save found stays until its README is
placed. `Durable` looks at every content a power loss may leave: a README that is there lies in
folders that are on disk, with the files it names, unless somebody still owes the fsync or was
cut off before it. From these, `ImplementsPortHolds` maps each system call to the moment a port's
call takes effect or to a stutter, `DeletedForGoodHolds` has an answered delete final through
every power loss, and `SavedSurvivesHolds` a told save with all its files, the stated excuses
apart.

**ArticlePages** (`ArticlePages_proofs`). `Invariant` proves `IInv`. Its core is one
fact: a version once read is never ahead of its record (`RecordsOK`, `PagesOK`, `JobsOK`), so as
long as the record still has that version, what was read with it is what stands; a save
that wins its compare therefore replaces exactly what its page or its job holds. Each form
carries what it showed, typed or named; each job what its gate and its load saw.
`RecordsFitHolds`, `ShownBeforeReplacedHolds`, `UndoneWasNamedHolds` and
`PublishGateHoldsAlways` follow step by step from there. `BulkAccountsAlways` adds where each
Article of a selection stands: still to come, or in the one bucket its save came to. A ulid is
minted for one copy (`UlidsAssumption`: finitely many, of which `Begun` are taken), what a
form may type and a bulk edit may set are Articles' values (`EntriesAssumption`,
`BulkEditsAssumption`: the Collection and the lifecycle named exist, and a bulk edit sets one of
four fields).

**Access, Edtf, Search, Workbench** (`Workbench_proofs`). `ScopeMatchesCanView`: for every
viewer, Article and chain that resolves, the query over the row's columns admits the row exactly
when `can_view` does; one whose chain does not resolve is kept for archivists alone.
`PreviewTellsTheTruth`: the preview names exactly those who may view the Article once it is
published. Both go through the one lemma on what an effective audience can be, and hold for
chains of any length. `SpansWhatItCovers`: every day of a token lies between its first and
last day, leap years and the winter that ends in the next year included. `BoundsOrdered`: an
accepted date never has an earliest day after its latest. `DecadesShareAYear` and
`OpenEndReachesTheYear`: a date with an end is listed exactly under the decades it shares a
year with, one without under those from its first to that of the year before its row was built.
`RemovableHolds`: the filters a slot shows and those it does not make up all that are set.
`SeesOnlyItsOwnHolds`, from the invariant that the rows are those of the archive: the rows in a
viewer's scope are, by `ScopeMatchesCanView`, those of what the viewer may see, but for the
floored words of members; blanking those is one-to-one on rows, as each has its ulid, and
nothing a member's search reads, counts, orders or shows tells a row from its blanked one. The
assumptions say that every Collection's chain is one (`ChainsAssumption`), and that records have
the fields a row is built of, a ulid each, no date or an accepted one, and every Schlagwort they
name at least once (`RecordsAssumption`).
`PromiseKeptHolds` from `PromiseInv`: the index is kept, the params are some that `parse_query`
would read (`ParamsOK`; a malformed value has fallen to its default, which is also what
`EntriesAssumption` says of a link from outside), and the list is as its link said. Every link
opens a query string of whose list what it says is so (`Honest`, one lemma per link), and a save
voids what was said, as nothing holds a list to an archive that changed under it. A count is
the number of rows because a row carries a value of a column once; the count beside a Schlagwort
counts its namings, of which an Article may have several, so there the link promises only as many
hits as there can be. Pages need a lemma on orders: rows stand in the order of a number, and of
their ulid where that is the same, so their places are 0 to n - 1 with no gap
(`PlacesLeaveNoGap`); a page is a stretch of places and as full as the hits allow (`SliceFills`),
and two neighbouring pages share no hit.

**Around** (`Around_proofs`). Each part has an invariant that no other part touches.

- `GrantedIsServedHolds`, `LogoutEndsHolds` from `LoginInv`: what a calm request relies on until
  it is answered, that its login is live, the token given to it neither expired nor signed with
  a key that was withdrawn. Tokens are numbered as they are minted and expire up to a number, so
  a new one is beyond all expired ones; what the world does to realm and keys ends the calm of
  the requests that could feel it.
- `DavIsAnObjectStore` from `DavInv`: a folder that is not there holds no file, and a call is
  a delete exactly where `_delete_once` is. Each answer of the server is then the moment a
  port's call takes effect, or a stutter.
- `TextOfItsFileHolds`: `parse` gives the text of the bytes it hashed or none, and nobody else
  records.
- `FindingsExactHolds` from `FixityInv`: a folder nobody wrote since the check began still holds
  what was listed, and what the check noted of it so far is what it holds; a file damaged all
  along is listed, and noted wherever the check has looked, written or not.
- `ImportedOnceHolds` from `ImportInv`: while Collections are made there is no Article of a row
  and every name an import ever gave is known to the run; Articles written so far are of
  rows before the next. `NothingVanishesHolds` from `VanishInv`: every name the run knows leads to
  a Collection of that name, and each row before the next has its Article, whose files are those
  of the row but the unnamed and those counted as missing (`WrittenUpTo`). What Articles lack
  at the end is thus what was counted (`ReportIsTrue`). Ranks fill the places (`RanksFill`): so
  the order of an Article's files exists and is one, and the first of some rows are as many as
  there is room for.

Its assumptions: `Nil` is no login and unreadable bytes are no content (`NilAssumption`,
`GarbageAssumption`), a record's folder is not the root (`DepthAssumption`), and an export is a
sequence of rows and a finite set of files with one slot each, and the report names a number of
samples (`LegacyAssumption`: the old site had three slots, 1 to 3).

Only model-checked: `EveryRequestEnds`, `IndexCatchesUp`, `MirrorCatchesUp`,
`AbandonedBytesFreed` and `TextCatchesUp`, which are liveness under fairness and out of this
prover's reach, and the three violations.

## Not modelled, and why

- A file placed without the lock may outlive a hard delete in a folder without a README;
  the code accepts it, and only the fixity check reads such a folder (`Fixity` has it).
- In `IndexSync`: READMEs that do not decode, unknown Collections (both become archivist-only rows),
  page texts and their vectors, new Collections (they hold no Article), the rebuild at
  deploy time (a rebuild like the hourly one).
- In `IndexSync`, an Article deleted for good is never saved again; the garbage form
  above is the one way it could be.
- A delete job that is parked or lost leaves the Article on the Nextcloud; the reconcile only
  reports it (`remote_only`). ADR 0020 accepts that, and `DeletesOwed` excuses it by `lost`.
- In `Mirror`: READMEs that do not decode (never pushed), write-once files found in another
  size (left as they are), the report and its counts.
- In `UploadStaging`: what a `rmtree` leaves that dies half way. A folder without its data file
  is met by no sweep again, and an upload that lost its mark but not its data looks unfinished
  again; the properties excuse uploads whose removal began. A finish that crashed after its save
  and before its mark saves once more when repeated, without listing the file twice.
- Rows of mixed moments are not excluded, as the code does not exclude them: they last
  until the refresh that is owed.
- In `Search` and `Workbench`: ranks and headlines (they order and mark hits, never choose
  them), the prefix form of the last word (a word is a whole here), the "bis <year>" tile of the start page, the selection and the bulk bar.
- In `Derived`: thumbnails (derived from the bytes as they are, without a digest check; one that
  a job lost is made by a request or by `rebuild_thumbnails`).
- An Article loaded before its chain in the detail and media views: the two loads may be of
  different moments, as `can_view` accepts.
- In `DavStore`: the read paths and `list`, a 404 of a PROPFIND that is wrong, a PUT that takes
  effect after the client gave up.
- In `LegacyImport`: two imports at once (an operator's command), blobs of an Article whose save
  failed, files whose item is in no row; of the report, the lines on vocabulary, on document types
  that disagree and on the moment a record was added.
- In `ArticlePages` records begin with pairs that the vocabulary admits: the import may have stored
  values outside it, which its report lists.
  Today's vocabulary admits every pair (`vocab.py:58-61`): the race of a bulk edit that
  `RecordsFit` is about bites once a Medienart is narrowed.
- In `Derived` the scan of a rebuild is one step; `IndexSync` opens it up.
- The front matter codec and the layout of keys: round trips of text, character by character,
  which the repository's tests cover by examples; a README is a value here.
- `scripts/quality`, templates, styles, deployment: no state of the archive.

## Plan

Done, in this order: the saves and their log; the index with visibility; the mirror; the uploads;
the object stores and an Article over them; the pages; access and dates; search and the list;
login, page texts, fixity, the import. Every safety property of a passing run, and every
refinement, is a theorem.

Left, most valuable first:

1. Composing the finish of `UploadStaging` with the media operations of `ArticleSaves`: that what
   a save was told it holds is still held by the store when the staging folder is freed.
2. `IndexSync` with the chain as `ArticlePages` sees it: what a page shows of who may see an
   Article, against the row a search goes by.
3. The hazard that no property covers, `bulk_views.py:139`: what a bulk edit asked before its commit
   loop, against the records it then meets.
