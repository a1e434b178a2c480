---------------------------- MODULE ArticleSaves ----------------------------
(***************************************************************************)
(* One Article folder of the canonical archive and the request threads of  *)
(* the app process that change it: persistence/_writer.py (commit, remove),*)
(* persistence/repository.py (save, mark_deleted, add_media, hard_delete), *)
(* app/articles.py (the save services, the retrying update_article) and    *)
(* the gates of app/web/catalog_views.py in front of them.                 *)
(*                                                                         *)
(* The folder holds README.md (the current version), history/<n>.md (each  *)
(* replaced version) and media files.  A request reads the README without  *)
(* the lock, prepares a new Article, and commits it under WRITER_LOCK by   *)
(* comparing versions.  Every store call is one step: the local store      *)
(* places a file by one rename or link and removes a folder by one rename. *)
(***************************************************************************)
EXTENDS Naturals, Sequences, FiniteSets, TLC

CONSTANTS
    Threads,       \* request threads of the one app process
    Media,         \* files that may be uploaded to the Article
    MaxRequests,   \* bound: how many requests are made in all
    Retries,       \* retries of a structural save after a lost race
    GarbageForms,  \* forms may also post a version that is no number
    NoThread,      \* nobody holds WRITER_LOCK
    Absent         \* what a key without a file reads as

ASSUME RetriesAssumption == Retries \in Nat
ASSUME NoThreadAssumption == NoThread \notin Threads
ASSUME GarbageAssumption == GarbageForms \in BOOLEAN

VARIABLES
    readme,    \* README.md, or Absent
    history,   \* version -> the bytes history/<version>.md holds
    stored,    \* the media files in the folder
    lock,      \* who holds WRITER_LOCK
    pc,        \* where each thread stands in its request
    job,       \* what each thread has in hand
    minted,    \* the Article's ulid was minted
    gone,      \* the Article was deleted for good
    acked,     \* the saves whose caller was told they stand
    started    \* how many requests were made

fileVars == <<readme, history, stored>>
ghostVars == <<minted, gone, acked>>
vars == <<readme, history, stored, lock, pc, job, minted, gone, acked, started>>

Articles == [text: Threads, media: SUBSET Media, deleted: BOOLEAN]

(***************************************************************************)
(* The bytes of one version: the Article, its version number and the       *)
(* change record naming who saved it.                                      *)
(***************************************************************************)
Readmes == [version: Nat \ {0}, by: Threads, article: Articles]

Updates == {"attach", "detach"}
Ops == Updates \union {"create", "edit", "mark", "restore", "purge"}

(***************************************************************************)
(* A request: what it does, with which file, the version its page showed,  *)
(* the Article it wants saved and the version it expects to replace, what  *)
(* it read under the lock, and the retries it has made.                    *)
(***************************************************************************)
Jobs == [op: Ops, file: Media \union {Absent}, posted: Nat,
         article: Articles, expected: Nat,
         current: Readmes \union {Absent}, tries: 0..Retries]

ASSUME AbsentAssumption == Absent \notin Readmes /\ Absent \notin Jobs

Steps == {"idle", "place", "load", "lock", "check", "keep", "replace", "reply"}

TypeOK ==
    /\ readme \in Readmes \union {Absent}
    /\ DOMAIN history \subseteq Nat \ {0}
    /\ \A n \in DOMAIN history : history[n] \in Readmes
    /\ stored \subseteq Media
    /\ lock \in Threads \union {NoThread}
    /\ pc \in [Threads -> Steps]
    /\ job \in [Threads -> Jobs \union {Absent}]
    /\ \A t \in Threads : pc[t] # "idle" => job[t] \in Jobs
    /\ minted \in BOOLEAN /\ gone \in BOOLEAN
    /\ acked \subseteq Readmes
    /\ started \in Nat

NoFiles == [n \in {} |-> Absent]

Init ==
    /\ readme = Absent /\ history = NoFiles /\ stored = {}
    /\ lock = NoThread
    /\ pc = [t \in Threads |-> "idle"]
    /\ job = [t \in Threads |-> Absent]
    /\ minted = FALSE /\ gone = FALSE /\ acked = {} /\ started = 0

-----------------------------------------------------------------------------
(* Requests and their gates *)

Version == IF readme = Absent THEN 0 ELSE readme.version

(* The gate's load: the Article, on the marked or the unmarked side. *)
Loads(marked) == readme # Absent /\ readme.article.deleted = marked

(* Thread t takes up a request and goes on at step. *)
Begin(t, step, request) ==
    /\ pc[t] = "idle" /\ started < MaxRequests
    /\ started' = started + 1
    /\ pc' = [pc EXCEPT ![t] = step]
    /\ job' = [job EXCEPT ![t] = request]
    /\ UNCHANGED <<fileVars, lock, gone, acked>>

Request(op, file, posted, article) ==
    [op |-> op, file |-> file, posted |-> posted, article |-> article,
     expected |-> posted, current |-> Absent, tries |-> 0]

(* A new Article is saved as the version after 0, its files placed first. *)
Create(t) ==
    /\ ~minted /\ minted' = TRUE
    /\ LET new(files) == [text |-> t, media |-> files, deleted |-> FALSE] IN
       \/ Begin(t, "lock", Request("create", Absent, 0, new({})))
       \/ \E f \in Media : Begin(t, "place", Request("create", f, 0, new({f})))

(* A form posts a version some page showed; a garbage one is read as 0. *)
Posted == (1..Version) \union (IF GarbageForms THEN {0} ELSE {})

(* Mutant of Edit: the save expects the version the gate read. *)
EditAtGate(t) ==
    /\ Loads(FALSE) /\ UNCHANGED minted
    /\ \E v \in Posted :
          Begin(t, "lock", [Request("edit", Absent, v, [readme.article EXCEPT !.text = t])
                              EXCEPT !.expected = Version])

(* The edit form: the archivist's words against the version the form was   *)
(* loaded from, the files of the version the gate reads.                   *)
Edit(t) ==
    /\ Loads(FALSE) /\ UNCHANGED minted
    /\ \E v \in Posted :
          Begin(t, "lock", Request("edit", Absent, v, [readme.article EXCEPT !.text = t]))

(* An upload places its file, then updates; a removal only updates. *)
Upload(t) ==
    /\ Loads(FALSE) /\ UNCHANGED minted
    /\ \E f \in Media : Begin(t, "place", Request("attach", f, 0, readme.article))

Remove(t) ==
    /\ Loads(FALSE) /\ UNCHANGED minted
    /\ \E f \in Media : Begin(t, "load", Request("detach", f, 0, readme.article))

(* The confirmed deletes and the restore go on only when their page showed *)
(* the version the gate reads.                                             *)
Confirmed(t, op, marked, deleted) ==
    /\ Loads(marked) /\ UNCHANGED minted
    /\ Begin(t, "lock", Request(op, Absent, Version, [readme.article EXCEPT !.deleted = deleted]))

Mark(t) == Confirmed(t, "mark", FALSE, TRUE)
Restore(t) == Confirmed(t, "restore", TRUE, FALSE)
Purge(t) == Confirmed(t, "purge", TRUE, TRUE)

-----------------------------------------------------------------------------
(* Before the lock *)

Go(t, step) == pc' = [pc EXCEPT ![t] = step]

(* The request is over, whatever it answers. *)
End(t) == Go(t, "idle") /\ job' = [job EXCEPT ![t] = Absent]

(* add_media: takes no lock; a file already there with these bytes is reused. *)
Place(t) ==
    /\ pc[t] = "place"
    /\ stored' = stored \union {job[t].file}
    /\ Go(t, IF job[t].op = "create" THEN "lock" ELSE "load")
    /\ UNCHANGED <<readme, history, lock, job, ghostVars, started>>

Transformed(request, media) ==
    IF request.op = "attach" THEN media \union {request.file} ELSE media \ {request.file}

(* Mutant of Load: the change is applied to the Article in hand, read      *)
(* before, and saved at the version loaded now.                            *)
LoadVersionOnly(t) ==
    /\ pc[t] = "load"
    /\ IF Loads(FALSE)
       THEN /\ job' = [job EXCEPT
                  ![t].article.media = Transformed(job[t], @),
                  ![t].expected = readme.version]
            /\ Go(t, "lock")
       ELSE End(t)
    /\ UNCHANGED <<fileVars, lock, ghostVars, started>>

(* update_article loads, applies the change and saves at the version it    *)
(* loaded; an Article gone or in the Papierkorb is Missing.                *)
Load(t) ==
    /\ pc[t] = "load"
    /\ IF Loads(FALSE)
       THEN /\ job' = [job EXCEPT
                  ![t].article = [readme.article EXCEPT !.media = Transformed(job[t], @)],
                  ![t].expected = readme.version]
            /\ Go(t, "lock")
       ELSE End(t)
    /\ UNCHANGED <<fileVars, lock, ghostVars, started>>

-----------------------------------------------------------------------------
(* Under the lock *)

(* Mutant of Acquire: the compare and the write are not one critical section. *)
AcquireAnyway(t) ==
    /\ pc[t] = "lock"
    /\ lock' = t
    /\ Go(t, "check")
    /\ UNCHANGED <<fileVars, job, ghostVars, started>>

Acquire(t) ==
    /\ pc[t] = "lock" /\ lock = NoThread
    /\ lock' = t
    /\ Go(t, "check")
    /\ UNCHANGED <<fileVars, job, ghostVars, started>>

Release == lock' = NoThread

(* A stale version raises Conflict.  Of the services only update_article   *)
(* catches it, and tries again while it has retries left.                  *)
Conflict(t) ==
    /\ pc[t] = "check" /\ Version # job[t].expected
    /\ ~(job[t].op = "purge" /\ readme = Absent)
    /\ Release
    /\ IF job[t].op \in Updates /\ job[t].tries < Retries
       THEN Go(t, "load") /\ job' = [job EXCEPT ![t].tries = @ + 1]
       ELSE End(t)
    /\ UNCHANGED <<fileVars, ghostVars, started>>

AtExpected(t) ==
    pc[t] = "check" /\ Version = job[t].expected /\ job[t].op # "purge"

(* A README never names a file that is not stored: the save is refused. *)
Refuse(t) ==
    /\ AtExpected(t) /\ ~(job[t].article.media \subseteq stored)
    /\ Release /\ End(t)
    /\ UNCHANGED <<fileVars, ghostVars, started>>

(* Mutant of Admit: the media precondition is forgotten. *)
AdmitUnchecked(t) ==
    /\ AtExpected(t)
    /\ job' = [job EXCEPT ![t].current = readme]
    /\ Go(t, IF readme = Absent THEN "replace" ELSE "keep")
    /\ UNCHANGED <<fileVars, lock, ghostVars, started>>

Admit(t) ==
    /\ AtExpected(t) /\ job[t].article.media \subseteq stored
    /\ job' = [job EXCEPT ![t].current = readme]
    /\ Go(t, IF readme = Absent THEN "replace" ELSE "keep")
    /\ UNCHANGED <<fileVars, lock, ghostVars, started>>

(* Mutant of Keep: the replaced bytes go under the number of the new version. *)
KeepAsNext(t) ==
    /\ pc[t] = "keep"
    /\ LET n == job[t].current.version + 1 IN
       /\ history' = [m \in DOMAIN history \union {n} |->
                         IF m = n THEN job[t].current ELSE history[m]]
       /\ Go(t, "replace")
    /\ UNCHANGED <<readme, stored, lock, job, ghostVars, started>>

(* history/<n>.md is created, or found with the same bytes after a save    *)
(* that stopped here; other bytes refuse the save.                         *)
Keep(t) ==
    /\ pc[t] = "keep"
    /\ LET current == job[t].current  n == current.version IN
       IF n \in DOMAIN history /\ history[n] # current
       THEN Release /\ End(t) /\ UNCHANGED history
       ELSE /\ history' = [m \in DOMAIN history \union {n} |->
                              IF m = n THEN current ELSE history[m]]
            /\ Go(t, "replace") /\ UNCHANGED <<lock, job>>
    /\ UNCHANGED <<readme, stored, ghostVars, started>>

Written(t) ==
    [version |-> job[t].expected + 1, by |-> t, article |-> job[t].article]

(* The commit point. *)
Replace(t) ==
    /\ pc[t] = "replace"
    /\ readme' = Written(t)
    /\ Release /\ Go(t, "reply")
    /\ UNCHANGED <<history, stored, job, ghostVars, started>>

(* hard_delete: everything in the folder; a folder without a README goes   *)
(* unchecked.                                                              *)
Delete(t) ==
    /\ pc[t] = "check" /\ job[t].op = "purge"
    /\ readme = Absent \/ Version = job[t].expected
    /\ readme' = Absent /\ history' = NoFiles /\ stored' = {}
    /\ gone' = TRUE
    /\ Release /\ End(t)
    /\ UNCHANGED <<minted, acked, started>>

-----------------------------------------------------------------------------
(* After the lock, and what goes wrong *)

(* The caller learns that the save stands. *)
Reply(t) ==
    /\ pc[t] = "reply"
    /\ acked' = acked \union {Written(t)}
    /\ End(t)
    /\ UNCHANGED <<fileVars, lock, minted, gone, started>>

(* Mutant of Fail: the error path keeps the lock. *)
FailHolding(t) ==
    /\ pc[t] \in {"place", "load", "check", "keep", "replace", "reply"}
    /\ End(t)
    /\ UNCHANGED <<fileVars, lock, ghostVars, started>>

(* A store call fails, or the answer is lost: the request ends where it    *)
(* stands, and the lock it held is released on the way out.                *)
Fail(t) ==
    /\ pc[t] \in {"place", "load", "check", "keep", "replace", "reply"}
    /\ lock' = IF lock = t THEN NoThread ELSE lock
    /\ End(t)
    /\ UNCHANGED <<fileVars, ghostVars, started>>

(* The process dies: every request ends, the lock is in memory only, the   *)
(* placed files stay.                                                      *)
Crash ==
    /\ \E t \in Threads : pc[t] # "idle"
    /\ pc' = [t \in Threads |-> "idle"]
    /\ job' = [t \in Threads |-> Absent]
    /\ lock' = NoThread
    /\ UNCHANGED <<fileVars, ghostVars, started>>

Asks(t) == Create(t) \/ Edit(t) \/ Upload(t) \/ Remove(t) \/ Mark(t) \/ Restore(t) \/ Purge(t)

Works(t) ==
    \/ Place(t) \/ Load(t) \/ Acquire(t) \/ Conflict(t) \/ Refuse(t)
    \/ Admit(t) \/ Keep(t) \/ Replace(t) \/ Delete(t) \/ Reply(t)

Next == Crash \/ \E t \in Threads : Asks(t) \/ Works(t) \/ Fail(t)

Spec == Init /\ [][Next]_vars

(* A thread of a live process goes on with its request.  Nothing makes a   *)
(* user ask, a call fail or the process die.                               *)
FairSpec == Spec /\ \A t \in Threads : WF_vars(Works(t))

-----------------------------------------------------------------------------
(* Properties *)

(* Every version before the current one is kept, byte for byte, under its  *)
(* own number, whatever crashed or failed between the history write and    *)
(* the commit; history holds nothing of versions to come (ADR 0019).       *)
HistoryComplete ==
    /\ \A n \in 1..Version : n < Version => n \in DOMAIN history
    /\ \A n \in DOMAIN history :
          /\ n <= Version /\ history[n].version = n
          /\ n = Version => history[n] = readme

(* No version of the Article, current or kept, names a file that is not in *)
(* the folder, though files are placed and the Article is deleted without  *)
(* waiting for one another.                                                *)
NamedMediaStored ==
    /\ readme # Absent => readme.article.media \subseteq stored
    /\ \A n \in DOMAIN history : history[n].article.media \subseteq stored

(* The version is current or kept, unless the Article was deleted for good. *)
Survives(saved) ==
    \/ gone
    \/ readme = saved
    \/ saved.version \in DOMAIN history /\ history[saved.version] = saved

(* A save whose caller was told it stands survives: no later save, crash   *)
(* or failed call takes it back.                                           *)
AckedSavesSurvive == \A saved \in acked : Survives(saved)

(* A form, a confirmed delete or a restore replaces or deletes the version *)
(* its page showed and no other, however many saves land between the page, *)
(* the gate and the commit (ADR 0013: never silent last-writer-wins).      *)
NoLostUpdate ==
    [][\A t \in Threads :
          /\ readme' # readme
          /\ lock = t /\ job[t].op \notin Updates
          => Version = job[t].posted]_vars

(* The folder, read as a log of versions: what history keeps, then the     *)
(* README.                                                                 *)
Entry(bytes) ==
    [by |-> bytes.by, text |-> bytes.article.text,
     media |-> bytes.article.media, deleted |-> bytes.article.deleted]

LogOnDisk ==
    [n \in 1..Version |-> Entry(IF n = Version THEN readme ELSE history[n])]

Log == INSTANCE ArticleLog WITH log <- LogOnDisk

(* Every step any thread takes is one whole operation applied to the       *)
(* version before it, or invisible: two saves never mix, no upload is lost *)
(* to an edit or brought back by one, nothing but a restore touches an     *)
(* Article in the Papierkorb, nothing but a confirmed delete removes it,   *)
(* and an Article deleted for good stays so.                               *)
ImplementsLog == Log!LogSpec

(* Every request ends: no thread waits on WRITER_LOCK for ever, and a      *)
(* structural save that keeps losing races gives up.                       *)
EveryRequestEnds == \A t \in Threads : pc[t] # "idle" ~> pc[t] = "idle"

(* What catalog.parse_version says of a garbage version: read as 0, it     *)
(* "just loses the CAS check".                                             *)
GarbageLosesCas ==
    [][\A t \in Threads :
          (readme' # readme /\ lock = t /\ job[t].op = "edit") => job[t].posted # 0]_vars
-----------------------------------------------------------------------------
(* The inductive invariant ArticleSaves_proofs proves.  The properties     *)
(* above hold because of what a thread may rely on while it has the lock.  *)

Critical == {"check", "keep", "replace"}

MutualExclusion == \A t \in Threads : pc[t] \in Critical <=> lock = t

(* What was read under the lock is still there when the README is written. *)
ReadStands ==
    \A t \in Threads : pc[t] \in {"keep", "replace"} =>
        /\ job[t].op # "purge" /\ job[t].current = readme
        /\ job[t].expected = Version
        /\ job[t].article.media \subseteq stored
        /\ pc[t] = "keep" => readme # Absent
        /\ pc[t] = "replace" => readme = Absent \/ Version \in DOMAIN history

UnackedSavesSurvive == \A t \in Threads : pc[t] = "reply" => Survives(Written(t))

PostedIsExpected ==
    \A t \in Threads :
        pc[t] # "idle" /\ job[t].op \notin Updates => job[t].posted = job[t].expected

(* Requests that look at a file have one in hand. *)
FileInHand ==
    \A t \in Threads :
        /\ pc[t] = "place" => job[t].op \in {"create", "attach"} /\ job[t].file \in Media
        /\ pc[t] = "load" => job[t].op \in Updates
        /\ pc[t] # "idle" /\ job[t].op \in Updates => job[t].file \in Media

IInv ==
    /\ TypeOK /\ MutualExclusion /\ ReadStands /\ HistoryComplete
    /\ NamedMediaStored /\ AckedSavesSurvive /\ UnackedSavesSurvive
    /\ PostedIsExpected /\ FileInHand

(* The rest of what the refinement needs: a create is alone until it is    *)
(* committed, any other request began on a saved Article, and what it      *)
(* prepared is one operation applied to the version it expects.            *)
CreatesAlone ==
    /\ readme # Absent \/ gone \/ (\E t \in Threads : pc[t] # "idle") => minted
    /\ gone => readme = Absent
    /\ \A t \in Threads : pc[t] \notin {"idle", "reply"} /\ job[t].op = "create" =>
           /\ readme = Absent /\ ~gone
           /\ \A u \in Threads \ {t} : pc[u] = "idle"
           /\ job[t].expected = 0
           /\ Log!Creates(Entry(Written(t)))

PreparedFollows ==
    \A t \in Threads : pc[t] \notin {"idle", "reply"} /\ job[t].op # "create" =>
        /\ readme # Absent \/ gone
        /\ pc[t] \in {"lock"} \union Critical =>
              /\ job[t].expected > 0
              /\ readme # Absent => job[t].expected <= Version
              /\ readme # Absent /\ job[t].expected = Version =>
                    /\ job[t].op = "purge" => readme.article.deleted
                    /\ job[t].op # "purge" => Log!Follows(Entry(readme), Entry(Written(t)))

RInv == IInv /\ CreatesAlone /\ PreparedFollows
=============================================================================
