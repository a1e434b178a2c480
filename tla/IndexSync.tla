------------------------------ MODULE IndexSync ------------------------------
(***************************************************************************)
(* The search index and the files it is computed from: app/after_write.py  *)
(* (run), app/collections.py (save_collection), index/indexer.py (rebuild, *)
(* index_article, index_subtree), app/tasks.py (reindex_article,           *)
(* reindex_subtree, reconcile).                                            *)
(*                                                                         *)
(* Request threads save Articles and Collections (one step each, see       *)
(* ArticleSaves for how a save becomes one) and then refresh the rows the  *)
(* save moved.  A refresh runs in one transaction that takes the writer    *)
(* lock, reads README after README while other saves go on, and writes its *)
(* rows when it commits.  A refresh that fails in the request is queued    *)
(* for the one worker process, which also rebuilds the whole index every   *)
(* hour.                                                                   *)
(***************************************************************************)
EXTENDS Naturals, Sequences, Functions, Visibility

CONSTANTS
    Threads,      \* request threads of the app process
    Worker,       \* the worker process: it runs one job at a time
    Articles,
    MayBreak,     \* a save may give a Collection a parent from its own subtree
    MaxSaves,     \* bound: how many saves are tried
    MaxFailures,  \* bound: how many refreshes, enqueues and processes fail
    Absent        \* no README, nothing in hand

ASSUME WorkerAssumption == Worker \notin Threads
ASSUME MayBreakAssumption == MayBreak \in BOOLEAN

VARIABLES
    coll,      \* the README of each Collection
    art,       \* the README of each Article, or Absent, and how often it was written
    rows,      \* the index
    tx,        \* the index transaction of each holder of the writer lock, or Absent
    pc,        \* where each thread stands
    saving,    \* the Collection save a thread has decided on
    due,       \* the refresh a thread has to run for its save
    queue,     \* the reindex jobs, in their order
    working,   \* the job the worker runs, or Absent
    lost,      \* refreshes nobody will run: only a rebuild heals them
    saves,
    failures

fileVars == <<coll, art>>
Holders == Threads \union {Worker}

threadVars == <<pc, saving, due>>
vars == <<coll, art, rows, tx, pc, saving, due, queue, working, lost, saves, failures>>

Refreshes == [kind: {"article"}, of: Articles] \union [kind: {"subtree"}, of: Collections]

ASSUME AbsentAssumption == Absent \notin Placements \union Refreshes
Rebuild == [kind |-> "rebuild", of |-> Absent]

CollectionReadmes ==
    [parent: Collections \union {Top}, audience: Audiences \union {Silent}, version: Nat]

(* version counts the saves of the Article, and its hard delete as one     *)
(* more: what a row was computed from is older or newer by it.             *)
ArticleReadmes == [version: Nat, article: Placements \union {Absent}]

IndexRows == [version: Nat, scope: Scopes, ancestors: SUBSET Collections]

(* A transaction: what for, the READMEs it has read (Absent while it has   *)
(* not), whether it has listed the Articles, and the lost refreshes a      *)
(* rebuild makes good.                                                     *)
Transactions ==
    [todo: Refreshes \union {Rebuild},
     colls: [Collections -> CollectionReadmes \union {Absent}],
     arts: [Articles -> ArticleReadmes \union {Absent}],
     listed: BOOLEAN, heals: SUBSET (Refreshes \X Nat)]

Savings ==
    [of: Collections, parent: Collections \union {Top}, audience: Audiences \union {Silent},
     expected: Nat, moves: BOOLEAN]

TypeOK ==
    /\ coll \in [Collections -> CollectionReadmes]
    /\ art \in [Articles -> ArticleReadmes]
    /\ rows \in [Articles -> IndexRows]
    /\ tx \in [Holders -> Transactions \union {Absent}]
    /\ pc \in [Threads -> {"idle", "commit", "sync", "hold", "retry"}]
    /\ saving \in [Threads -> Savings \union {Absent}]
    /\ due \in [Threads -> Refreshes \union {Absent}]
    /\ \A t \in Threads :
          /\ pc[t] = "commit" => saving[t] \in Savings
          /\ pc[t] \in {"sync", "hold", "retry"} => due[t] \in Refreshes
    /\ queue \in Seq(Refreshes \union {Rebuild})
    /\ working \in Refreshes \union {Rebuild, Absent}
    /\ lost \subseteq Refreshes \X Nat
    /\ saves \in Nat /\ failures \in Nat

(* The row of an Article as last read, given the Collections as read. *)
RowFor(read, lookup) ==
    IF read.article = Absent
    THEN [version |-> read.version, scope |-> NoRow, ancestors |-> {}]
    ELSE LET columns == RowColumns(read.article, lookup) IN
         [version |-> read.version, scope |-> columns.scope, ancestors |-> columns.ancestors]

Tree(lookup) == \A c \in Collections : ~Broken(c, lookup)

(* The archive at any time it is quiet: a forest of Collections, Articles  *)
(* saved once or not yet, and the rows that follow from them.              *)
Init ==
    /\ coll \in [Collections -> [parent: Collections \union {Top},
                               audience: Audiences \union {Silent}, version: {1}]]
    /\ Tree(coll)
    /\ art \in [Articles -> [version: {1}, article: Placements]
                              \union [version: {0}, article: {Absent}]]
    /\ rows = [a \in Articles |-> RowFor(art[a], coll)]
    /\ tx = [h \in Holders |-> Absent]
    /\ pc = [t \in Threads |-> "idle"]
    /\ saving = [t \in Threads |-> Absent]
    /\ due = [t \in Threads |-> Absent]
    /\ queue = <<>> /\ working = Absent /\ lost = {}
    /\ saves = 0 /\ failures = 0

-----------------------------------------------------------------------------
(* Saves *)

AskedToSave(t) == pc[t] = "idle" /\ saves < MaxSaves /\ saves' = saves + 1

(* The save stands; after_write.run has refresh to do. *)
Owes(t, refresh) ==
    /\ pc' = [pc EXCEPT ![t] = "sync"]
    /\ due' = [due EXCEPT ![t] = refresh]

Ends(t) ==
    /\ pc' = [pc EXCEPT ![t] = "idle"]
    /\ due' = [due EXCEPT ![t] = Absent]

(* create_article, save_article, delete_article, restore_article. *)
SaveArticle(t) ==
    /\ AskedToSave(t)
    /\ \E a \in Articles, placement \in Placements :
          /\ art[a].article # Absent \/ art[a].version = 0
          /\ art' = [art EXCEPT ![a] = [version |-> @.version + 1, article |-> placement]]
          /\ Owes(t, [kind |-> "article", of |-> a])
    /\ UNCHANGED <<coll, rows, tx, saving, queue, working, lost, failures>>

(* hard_delete_article: only an Article in the Papierkorb. *)
HardDelete(t) ==
    /\ AskedToSave(t)
    /\ \E a \in Articles :
          /\ art[a].article # Absent /\ art[a].article.audience = Hidden
          /\ art' = [art EXCEPT ![a] = [version |-> @.version + 1, article |-> Absent]]
          /\ Owes(t, [kind |-> "article", of |-> a])
    /\ UNCHANGED <<coll, rows, tx, saving, queue, working, lost, failures>>

(* Mutant of MovesVisibility: only what the save changes, whatever version *)
(* it was read at.                                                         *)
MovesAsRead(stored, parent, audience, expected) ==
    stored.parent # parent \/ stored.audience # audience

(* _moves_visibility: a save of another version counts as a change. *)
MovesVisibility(stored, parent, audience, expected) ==
    stored.version # expected \/ stored.parent # parent \/ stored.audience # audience

(* save_collection before the save.  The caller may expect any version,    *)
(* the next one included.                                                  *)
Decide(t) ==
    /\ AskedToSave(t)
    /\ \E c \in Collections, parent \in Collections \union {Top},
          audience \in Audiences \union {Silent} : \E expected \in 1..(coll[c].version + 1) :
          saving' = [saving EXCEPT ![t] =
              [of |-> c, parent |-> parent, audience |-> audience, expected |-> expected,
               moves |-> MovesVisibility(coll[c], parent, audience, expected)]]
    /\ pc' = [pc EXCEPT ![t] = "commit"]
    /\ UNCHANGED <<coll, art, rows, tx, due, queue, working, lost, failures>>

(* The save itself; a stale version raises Conflict.  Unless MayBreak, no  *)
(* caller closes a circle of parents.                                      *)
CommitCollection(t) ==
    /\ pc[t] = "commit"
    /\ LET save == saving[t]  c == save.of
           after == [coll EXCEPT ![c] =
                         [parent |-> save.parent, audience |-> save.audience,
                          version |-> @.version + 1]] IN
       IF coll[c].version # save.expected \/ ~(MayBreak \/ Tree(after))
       THEN Ends(t) /\ UNCHANGED coll
       ELSE /\ coll' = after
            /\ IF save.moves THEN Owes(t, [kind |-> "subtree", of |-> c]) ELSE Ends(t)
    /\ saving' = [saving EXCEPT ![t] = Absent]
    /\ UNCHANGED <<art, rows, tx, queue, working, lost, saves, failures>>

-----------------------------------------------------------------------------
(* Refreshes *)

NothingRead(todo) ==
    [todo |-> todo, listed |-> FALSE, heals |-> IF todo = Rebuild THEN lost ELSE {},
     colls |-> [c \in Collections |-> Absent], arts |-> [a \in Articles |-> Absent]]

(* Mutant of Locks: the lock is not taken, or after the first reads. *)
LocksLate(h, todo) ==
    /\ tx[h] = Absent
    /\ tx' = [tx EXCEPT ![h] = NothingRead(todo)]

(* The transaction takes the lock before its first read. *)
Locks(h, todo) ==
    /\ \A other \in Holders : tx[other] = Absent
    /\ tx' = [tx EXCEPT ![h] = NothingRead(todo)]

StartSync(t) ==
    /\ pc[t] = "sync" /\ Locks(t, due[t])
    /\ pc' = [pc EXCEPT ![t] = "hold"]
    /\ UNCHANGED <<fileVars, rows, saving, due, queue, working, lost, saves, failures>>

StartJob ==
    /\ working # Absent /\ Locks(Worker, working)
    /\ UNCHANGED <<fileVars, rows, threadVars, queue, working, lost, saves, failures>>

OfArticle(h) == tx[h].todo.kind = "article"

(* index_article reads the Article first and, if there is one, the         *)
(* Collections; the others read the Collections first.                     *)
ReadsCollections(h) ==
    OfArticle(h) =>
        LET read == tx[h].arts[tx[h].todo.of] IN read # Absent /\ read.article # Absent

CollectionsRead(h) == \A c \in Collections : tx[h].colls[c] # Absent

(* _collection_lookup, one README at a time. *)
ReadCollection(h) ==
    /\ tx[h] # Absent /\ ReadsCollections(h)
    /\ \E c \in Collections :
          /\ tx[h].colls[c] = Absent
          /\ tx' = [tx EXCEPT ![h].colls[c] = coll[c]]
    /\ UNCHANGED <<fileVars, rows, threadVars, queue, working, lost, saves, failures>>

(* The scan of the Articles begins with their list: one that is not on it  *)
(* is not read.                                                            *)
ListArticles(h) ==
    /\ tx[h] # Absent /\ ~OfArticle(h) /\ ~tx[h].listed /\ CollectionsRead(h)
    /\ tx' = [tx EXCEPT ![h].listed = TRUE,
                        ![h].arts = [a \in Articles |->
                                        IF art[a].article = Absent THEN art[a] ELSE Absent]]
    /\ UNCHANGED <<fileVars, rows, threadVars, queue, working, lost, saves, failures>>

ToRead(h) ==
    {a \in Articles : /\ tx[h].arts[a] = Absent
                      /\ IF OfArticle(h) THEN a = tx[h].todo.of ELSE tx[h].listed}

(* A listed Article that is gone raises, see ScanRaises. *)
ReadArticle(h) ==
    /\ tx[h] # Absent
    /\ \E a \in ToRead(h) :
          /\ OfArticle(h) \/ art[a].article # Absent
          /\ tx' = [tx EXCEPT ![h].arts[a] = art[a]]
    /\ UNCHANGED <<fileVars, rows, threadVars, queue, working, lost, saves, failures>>

Complete(h) ==
    /\ OfArticle(h) \/ tx[h].listed
    /\ ToRead(h) = {}
    /\ ReadsCollections(h) => CollectionsRead(h)

(* Mutant of Recomputed: a rebuild keeps the rows of Articles it does not find. *)
RecomputedFound(h) ==
    {a \in Articles :
        CASE tx[h].todo.kind = "article" -> a = tx[h].todo.of
          [] tx[h].todo.kind = "rebuild" -> tx[h].arts[a].article # Absent
          [] tx[h].todo.kind = "subtree" ->
                /\ tx[h].arts[a].article # Absent
                /\ InSubtree(tx[h].arts[a].article, tx[h].todo.of, tx[h].colls)}

(* The Articles whose rows the transaction writes or drops. *)
Recomputed(h) ==
    {a \in Articles :
        CASE tx[h].todo.kind = "article" -> a = tx[h].todo.of
          [] tx[h].todo.kind = "rebuild" -> TRUE
          [] tx[h].todo.kind = "subtree" ->
                /\ tx[h].arts[a].article # Absent
                /\ InSubtree(tx[h].arts[a].article, tx[h].todo.of, tx[h].colls)}

(* The transaction commits and gives up the lock. *)
Finish(h) ==
    /\ tx[h] # Absent /\ Complete(h)
    /\ rows' = [a \in Articles |->
                   IF a \in Recomputed(h) THEN RowFor(tx[h].arts[a], tx[h].colls) ELSE rows[a]]
    /\ lost' = lost \ tx[h].heals
    /\ tx' = [tx EXCEPT ![h] = Absent]
    /\ IF h = Worker
       THEN working' = Absent /\ UNCHANGED threadVars
       ELSE Ends(h) /\ UNCHANGED <<saving, working>>
    /\ UNCHANGED <<fileVars, queue, saves, failures>>

-----------------------------------------------------------------------------
(* What goes wrong *)

(* Bound: at most MaxFailures that the saves did not bring about. *)
FailsOnce(excused) == (excused \/ failures < MaxFailures) /\ failures' = failures + 1

(* The transactions of who are rolled back, and the lock is free. *)
RolledBack(who) == tx' = [h \in Holders |-> IF h \in who THEN Absent ELSE tx[h]]

Lose(refreshes) == lost' = lost \union ((refreshes \ {Absent, Rebuild}) \X {failures})

(* A scan found an Article on its list gone. *)
ScanRaises(h) ==
    tx[h] # Absent /\ ~OfArticle(h) /\ \E a \in ToRead(h) : art[a].article = Absent

(* The refresh in the request raises: the lock wait timed out, the         *)
(* database or the scan failed.                                            *)
SyncFails(t) ==
    /\ pc[t] \in {"sync", "hold"}
    /\ FailsOnce(ScanRaises(t))
    /\ RolledBack({t})
    /\ pc' = [pc EXCEPT ![t] = "retry"]
    /\ UNCHANGED <<fileVars, rows, saving, due, queue, working, lost, saves>>

(* Mutant of Retry: the failed refresh is swallowed. *)
Swallow(t) ==
    /\ pc[t] = "retry"
    /\ Ends(t)
    /\ UNCHANGED <<fileVars, rows, tx, saving, queue, working, lost, saves, failures>>

Retry(t) ==
    /\ pc[t] = "retry"
    /\ queue' = Append(queue, due[t])
    /\ Ends(t)
    /\ UNCHANGED <<fileVars, rows, tx, saving, working, lost, saves, failures>>

(* The enqueue fails too, or the save itself raised after its README was   *)
(* in place, so that after_write never ran.                                *)
Forget(t) ==
    /\ pc[t] \in {"sync", "retry"}
    /\ FailsOnce(FALSE) /\ Lose({due[t]})
    /\ Ends(t)
    /\ UNCHANGED <<fileVars, rows, tx, saving, queue, working, saves>>

(* The hourly tick queues a rebuild.  Bound: one at a time. *)
Tick ==
    /\ working # Rebuild /\ Rebuild \notin Range(queue)
    /\ queue' = Append(queue, Rebuild)
    /\ UNCHANGED <<fileVars, rows, tx, threadVars, working, lost, saves, failures>>

TakeJob ==
    /\ working = Absent /\ queue # <<>>
    /\ working' = Head(queue) /\ queue' = Tail(queue)
    /\ UNCHANGED <<fileVars, rows, tx, threadVars, lost, saves, failures>>

(* A job raises, or the worker dies in it: it is not tried again. *)
JobFails ==
    /\ working # Absent
    /\ FailsOnce(ScanRaises(Worker))
    /\ RolledBack({Worker}) /\ Lose({working})
    /\ working' = Absent
    /\ UNCHANGED <<fileVars, rows, threadVars, queue, saves>>

(* The app process dies; its transaction is rolled back. *)
AppCrash ==
    /\ \E t \in Threads : pc[t] # "idle"
    /\ FailsOnce(FALSE) /\ Lose(Range(due))
    /\ RolledBack(Threads)
    /\ pc' = [t \in Threads |-> "idle"]
    /\ saving' = [t \in Threads |-> Absent]
    /\ due' = [t \in Threads |-> Absent]
    /\ UNCHANGED <<fileVars, rows, queue, working, saves>>

Runs(h) == ReadCollection(h) \/ ListArticles(h) \/ ReadArticle(h) \/ Finish(h)

Next ==
    \/ (\E h \in Holders : Runs(h))
    \/ StartJob \/ Tick \/ TakeJob \/ JobFails \/ AppCrash
    \/ \E t \in Threads :
          \/ SaveArticle(t) \/ HardDelete(t) \/ Decide(t) \/ CommitCollection(t)
          \/ StartSync(t) \/ SyncFails(t) \/ Retry(t) \/ Forget(t)

Spec == Init /\ [][Next]_vars

(* Live threads and the worker go on, the hourly tick comes, the queue and *)
(* the waiters of the writer lock (a Postgres lock) are served in turn.    *)
(* Nothing makes a user save, or a call fail that need not.                *)
FairSpec ==
    /\ Spec
    /\ \A h \in Holders : WF_vars(Runs(h))
    /\ \A t \in Threads :
          /\ WF_vars(CommitCollection(t)) /\ SF_vars(StartSync(t)) /\ WF_vars(Retry(t))
          /\ WF_vars(ScanRaises(t) /\ SyncFails(t))
    /\ SF_vars(StartJob) /\ WF_vars(ScanRaises(Worker) /\ JobFails)
    /\ WF_vars(Tick) /\ WF_vars(TakeJob)

-----------------------------------------------------------------------------
(* Properties *)

(* The row the files give now. *)
Fresh(a) == RowFor(art[a], coll)

(* A refresh that recomputes the row of a, as the files stand. *)
Covers(refresh, a) ==
    \/ refresh.kind = "article" /\ refresh.of = a
    \/ /\ refresh.kind = "subtree" /\ art[a].article # Absent
       /\ InSubtree(art[a].article, refresh.of, coll)

Owed ==
    (Range(due) \union Range(queue) \union {working} \union {l[1] : l \in lost})
        \ {Absent, Rebuild}

(* No row is stale by accident: a row that differs from what the files     *)
(* give is one that some refresh, running, waiting, queued or known to be  *)
(* lost since the last rebuild began, will recompute; whatever moments of  *)
(* the archive the refreshes before it read together (ADR 0014).           *)
StaleRowsOwed == \A a \in Articles : rows[a] # Fresh(a) => \E r \in Owed : Covers(r, a)

(* A refresh that read an older Article never commits after one that read  *)
(* a newer one, and no row comes back for an Article deleted for good      *)
(* once it was dropped (ADR 0014, "Writer coordination").                  *)
RowsMoveForward == [][\A a \in Articles : rows'[a].version >= rows[a].version]_vars

(* Once saves and failures stop, every row comes to say what the files     *)
(* give, also after refreshes were lost: the hourly rebuild heals them     *)
(* (ADR 0014, "Scheduled reconcile bounds every failure").                 *)
IndexCatchesUp == <>[](\A a \in Articles : rows[a] = Fresh(a))

(* What ADR 0014 says of the incremental paths: an Article whose chain     *)
(* breaks becomes an archivist-only row, as in a rebuild.                  *)
BrokenChainsFailClosed ==
    Owed = {} => \A a \in Articles :
        art[a].article # Absent /\ Broken(art[a].article.collection, coll)
            => rows[a].scope = ArchivistOnly

-----------------------------------------------------------------------------
(* The inductive invariant IndexSync_proofs proves. *)

OneWriter == \A h, i \in Holders : tx[h] # Absent /\ tx[i] # Absent => h = i

(* A transaction works on what its thread or the worker has in hand. *)
InHand ==
    /\ \A t \in Threads :
          /\ tx[t] # Absent => pc[t] = "hold" /\ tx[t].todo = due[t]
          /\ pc[t] \in {"idle", "commit"} => due[t] = Absent
    /\ tx[Worker] # Absent => working # Absent /\ tx[Worker].todo = working

(* What a transaction has read is not older than the row it will write.    *)
ReadsBetween ==
    /\ \A a \in Articles : rows[a].version <= art[a].version
    /\ \A h \in Holders : tx[h] # Absent => \A a \in Articles :
          tx[h].arts[a] # Absent =>
              /\ rows[a].version <= tx[h].arts[a].version
              /\ tx[h].arts[a].version <= art[a].version

(* Only a rebuild heals, and only what was lost before it began. *)
HealsWhatWasLost ==
    /\ \A l \in lost : l[2] < failures
    /\ \A h \in Holders : tx[h] # Absent =>
          /\ \A l \in tx[h].heals : l[2] < failures
          /\ tx[h].heals # {} => tx[h].todo = Rebuild

(* A save that was decided not to move visibility does not, if it stands.  *)
StillUnmoved ==
    \A t \in Threads : pc[t] = "commit" /\ ~saving[t].moves =>
        LET stored == coll[saving[t].of] IN
        /\ saving[t].expected <= stored.version
        /\ saving[t].expected = stored.version =>
              stored.parent = saving[t].parent /\ stored.audience = saving[t].audience

(* The refresh is owed by somebody besides the transaction of h. *)
OwedElse(h, refresh) ==
    \/ \E t \in Threads \ {h} : due[t] = refresh
    \/ h # Worker /\ working = refresh
    \/ refresh \in Range(queue)
    \/ \E l \in lost \ tx[h].heals : l[1] = refresh

(* What was saved after a transaction read it is owed by another one. *)
NewsOwed ==
    \A h \in Holders : tx[h] # Absent =>
        /\ \A c \in Collections : LET read == tx[h].colls[c] IN
              read # Absent /\ (read.parent # coll[c].parent \/ read.audience # coll[c].audience)
                  => OwedElse(h, [kind |-> "subtree", of |-> c])
        /\ \A a \in Articles :
              tx[h].arts[a] # Absent /\ tx[h].arts[a] # art[a]
                  => OwedElse(h, [kind |-> "article", of |-> a])

IInv == TypeOK /\ OneWriter /\ InHand /\ ReadsBetween

OInv ==
    /\ IInv /\ Tree(coll) /\ HealsWhatWasLost /\ StillUnmoved /\ NewsOwed /\ StaleRowsOwed
=============================================================================
