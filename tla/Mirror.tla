------------------------------- MODULE Mirror -------------------------------
(***************************************************************************)
(* The push of saved records to the system of record: app/mirror.py (push, *)
(* delete_article, reconcile, _Push), the jobs of app/tasks.py that run    *)
(* it, the push record of app/push_record.py, and what app/after_write.py  *)
(* enqueues (ADR 0020).                                                    *)
(*                                                                         *)
(* Request threads save records into local folders and enqueue a push, or  *)
(* hard-delete one and enqueue a delete.  The one worker process runs one  *)
(* job at a time, while saves go on: a push sends what the push record     *)
(* lacks, the daily reconcile checks every saved record against one        *)
(* listing of the system of record.  Remote calls fail, with or without    *)
(* their effect; the worker dies; Postgres, which holds the queue and the  *)
(* push record, is lost.                                                   *)
(***************************************************************************)
EXTENDS Naturals, FiniteSets

CONSTANTS
    Ulids,        \* the records, each an Article or a Collection, with its folder
    Names,        \* media file names
    MaxAttempts,  \* how often a push or a delete job is tried
    MayLose,      \* files vanish from the system of record by another hand
    MaxSaves,     \* bound: saves and hard deletes
    MaxFailures,  \* bound: calls, enqueues and processes that fail
    Absent

ASSUME MaxAttemptsAssumption == MaxAttempts \in Nat \ {0}
ASSUME MayLoseAssumption == MayLose \in BOOLEAN

VARIABLES
    local,     \* the files in each folder of the working copy
    dead,      \* the hard-deleted Articles
    remote,    \* the files in each folder of the system of record
    record,    \* the push record: per folder, what the app last pushed there
    due,       \* what requests have yet to enqueue
    queue,     \* the mirror jobs waiting
    lost,      \* per record: pushes up to which version, and whether its delete, nobody will run
    job,       \* the job the worker runs, or Absent
    stage,     \* where it stands
    at,        \* the record it works on
    current,   \* the README it read, whole, before it listed the files to send
    left,      \* the files it has yet to look at
    hand,      \* the file sent or found there, not yet in the push record
    todo,      \* the records a reconcile has yet to push
    listed,    \* the listing of the system of record a reconcile took
    saves, failures

jobVars == <<job, stage, at, current, left, hand, todo, listed>>
vars == <<local, dead, remote, record, due, queue, lost, jobVars, saves, failures>>

Media(name) == [kind |-> "media", of |-> name]
History(version) == [kind |-> "history", of |-> version]
Readme(version, names) == [kind |-> "readme", of |-> version, names |-> names]

Readmes == [kind: {"readme"}, of: Nat, names: SUBSET Names]
WriteOnce == [kind: {"media"}, of: Names] \union [kind: {"history"}, of: Nat]
Files == WriteOnce \union Readmes

ReadmesIn(folder) == {f \in folder : f.kind = "readme"}
HasReadme(folder) == ReadmesIn(folder) # {}

(* Every file but the README has a key of its own; a new README takes the  *)
(* place of the one before.                                                *)
SameKey(f, g) == f = g \/ (f.kind = "readme" /\ g.kind = "readme")
Put(folder, file) == {f \in folder : ~SameKey(f, file)} \union {file}

(* What must be there for a README to be complete. *)
Needs(readme) ==
    {Media(n) : n \in readme.names} \union {History(v) : v \in 1 .. readme.of - 1}

Dues == [kind: {"push", "delete"}, of: Ulids, version: Nat]
RecordJobs == [kind: {"push", "delete"}, of: Ulids, try: Nat]
Reconcile == [kind |-> "reconcile", of |-> Absent, try |-> 0]

ASSUME AbsentAssumption ==
    Absent \notin Ulids \union Files \union RecordJobs \union {Reconcile}

(* A job in the queue or with the worker has tries left. *)
TypeOK ==
    /\ local \in [Ulids -> SUBSET Files]
    /\ dead \subseteq Ulids
    /\ remote \in [Ulids -> SUBSET Files]
    /\ record \in [Ulids -> SUBSET Files]
    /\ due \subseteq Dues
    /\ queue \subseteq RecordJobs \union {Reconcile}
    /\ lost \in [Ulids -> [pushes: Nat, delete: BOOLEAN]]
    /\ job \in RecordJobs \union {Reconcile, Absent}
    /\ \A j \in queue \union ({job} \ {Absent}) : j.try < MaxAttempts
    /\ stage \in {"idle", "records", "remote", "next", "list", "read", "keys", "send", "note",
                  "delete", "forget"}
    /\ at \in Ulids \union {Absent}
    /\ current \in Readmes \union {Absent}
    /\ left \subseteq Files
    /\ hand \in Files \union {Absent}
    /\ todo \subseteq Ulids
    /\ listed \in [Ulids -> SUBSET Files]
    /\ saves \in Nat /\ failures \in Nat

NoJob ==
    /\ job = Absent /\ stage = "idle" /\ at = Absent /\ current = Absent /\ left = {}
    /\ hand = Absent /\ todo = {} /\ listed = [u \in Ulids |-> {}]

Init ==
    /\ local = [u \in Ulids |-> {}] /\ dead = {}
    /\ remote = [u \in Ulids |-> {}] /\ record = [u \in Ulids |-> {}]
    /\ due = {} /\ queue = {}
    /\ lost = [u \in Ulids |-> [pushes |-> 0, delete |-> FALSE]]
    /\ NoJob
    /\ saves = 0 /\ failures = 0

Fails == failures < MaxFailures /\ failures' = failures + 1

-----------------------------------------------------------------------------
(* Requests.  ArticleSaves models how they get this far. *)

(* A file of a save is placed before the save, and stays when it fails or  *)
(* finds the Article gone.                                                 *)
Place(u, name) ==
    /\ Media(name) \notin local[u]
    /\ local' = [local EXCEPT ![u] = @ \union {Media(name)}]
    /\ UNCHANGED <<dead, remote, record, due, queue, lost, jobVars, saves, failures>>

Keep(u) ==
    /\ saves < MaxSaves
    /\ \E readme \in ReadmesIn(local[u]) :
          /\ History(readme.of) \notin local[u]
          /\ local' = [local EXCEPT ![u] = @ \union {History(readme.of)}]
    /\ UNCHANGED <<dead, remote, record, due, queue, lost, jobVars, saves, failures>>

Commits(u, version) ==
    \E names \in SUBSET {n \in Names : Media(n) \in local[u]} :
        local' = [local EXCEPT ![u] = Put(@, Readme(version, names))]

Replace(u) ==
    /\ u \notin dead /\ saves < MaxSaves
    /\ \E version \in 1 .. MaxSaves :
          /\ \/ version = 1 /\ ~HasReadme(local[u])
             \/ \E readme \in ReadmesIn(local[u]) :
                   version = readme.of + 1 /\ History(readme.of) \in local[u]
          /\ Commits(u, version)
          /\ due' = due \union {[kind |-> "push", of |-> u, version |-> version]}
    /\ saves' = saves + 1
    /\ UNCHANGED <<dead, remote, record, queue, lost, jobVars, failures>>

HardDelete(u) ==
    /\ HasReadme(local[u]) /\ saves < MaxSaves
    /\ local' = [local EXCEPT ![u] = {}]
    /\ dead' = dead \union {u}
    /\ due' = due \union {[kind |-> "delete", of |-> u, version |-> 0]}
    /\ saves' = saves + 1
    /\ UNCHANGED <<remote, record, queue, lost, jobVars, failures>>

(* Mutant of StandsIn: the job the worker runs holds the lock as well.     *)
StandsInRunning(u) == \E j \in queue \union ({job} \ {Absent}) : j.kind = "push" /\ j.of = u

(* A push already waiting stands in for this one; a running one does not.  *)
StandsIn(u) == \E j \in queue : j.kind = "push" /\ j.of = u

(* Mutant of Enqueue: one lock per record, whatever the job does to it.    *)
EnqueueOnePerRecord(d) ==
    /\ d \in due
    /\ due' = due \ {d}
    /\ queue' = IF StandsIn(d.of) THEN queue
                ELSE queue \union {[kind |-> d.kind, of |-> d.of, try |-> 0]}
    /\ UNCHANGED <<local, dead, remote, record, lost, jobVars, saves, failures>>

Enqueue(d) ==
    /\ d \in due
    /\ due' = due \ {d}
    /\ queue' = IF d.kind = "push" /\ StandsIn(d.of)
                THEN queue
                ELSE queue \union {[kind |-> d.kind, of |-> d.of, try |-> 0]}
    /\ UNCHANGED <<local, dead, remote, record, lost, jobVars, saves, failures>>

(* The version a push running now would send. *)
Version(u) == IF HasReadme(local[u]) THEN (CHOOSE r \in local[u] : r.kind = "readme").of ELSE 0

Later(a, b) == IF a > b THEN a ELSE b

LosesPush(u, version) == lost' = [lost EXCEPT ![u].pushes = Later(@, version)]
LosesDelete(u) == lost' = [lost EXCEPT ![u].delete = TRUE]

Lose(jobs) ==
    lost' = [u \in Ulids |->
        [pushes |-> IF \E j \in jobs : j.kind = "push" /\ j.of = u
                    THEN Later(lost[u].pushes, Version(u)) ELSE lost[u].pushes,
         delete |-> lost[u].delete \/ \E j \in jobs : j.kind = "delete" /\ j.of = u]]

(* The enqueue fails, which after_write suppresses, or the app dies first. *)
Forget(d) ==
    /\ d \in due /\ Fails
    /\ due' = due \ {d}
    /\ IF d.kind = "push" THEN LosesPush(d.of, d.version) ELSE LosesDelete(d.of)
    /\ UNCHANGED <<local, dead, remote, record, queue, jobVars, saves>>

(* The daily reconcile falls due. *)
Tick ==
    /\ Reconcile \notin queue
    /\ queue' = queue \union {Reconcile}
    /\ UNCHANGED <<local, dead, remote, record, due, lost, jobVars, saves, failures>>

-----------------------------------------------------------------------------
(* The worker *)

TakeJob ==
    /\ stage = "idle"
    /\ \E j \in queue :
          /\ job' = j /\ queue' = queue \ {j}
          /\ at' = j.of
          /\ stage' = IF j.kind = "push" THEN "list"
                      ELSE IF j.kind = "delete" THEN "delete" ELSE "records"
    /\ UNCHANGED <<local, dead, remote, record, due, lost, current, left, hand, todo, listed,
                   saves, failures>>

EndJob ==
    /\ job' = Absent /\ stage' = "idle" /\ at' = Absent /\ current' = Absent /\ left' = {}
    /\ hand' = Absent /\ todo' = {} /\ listed' = [u \in Ulids |-> {}]

EndFolder ==
    IF job.kind = "push" THEN EndJob
    ELSE /\ stage' = "next" /\ at' = Absent /\ current' = Absent /\ left' = {} /\ hand' = Absent
         /\ UNCHANGED <<job, todo, listed>>

(* Mutant of Retry: the attempt that just failed is not counted.           *)
RetryOnceMore ==
    LET again == [job EXCEPT !.try = @ + 1] IN
    IF job.kind = "push" /\ StandsIn(job.of) THEN UNCHANGED <<queue, lost>>
    ELSE IF job.try < MaxAttempts THEN queue' = queue \union {again} /\ UNCHANGED lost
    ELSE UNCHANGED queue /\ Lose({job})

(* A failed job is tried again, unless a push that waits for the record    *)
(* stands in for it, or parked when its tries are used up.                 *)
Retry ==
    LET again == [job EXCEPT !.try = @ + 1] IN
    IF job.kind = "push" /\ StandsIn(job.of) THEN UNCHANGED <<queue, lost>>
    ELSE IF again.try < MaxAttempts THEN queue' = queue \union {again} /\ UNCHANGED lost
    ELSE UNCHANGED queue /\ Lose({job})

(* A call raises: a reconcile leaves the record it is at for the next one, *)
(* unless it is the push record that failed; any other job ends there.     *)
Raises ==
    IF job.kind = "reconcile"
    THEN /\ IF at = Absent \/ stage = "note" THEN EndJob ELSE EndFolder
         /\ UNCHANGED <<queue, lost>>
    ELSE Retry /\ EndJob

(* reconcile, before it pushes: the saved records, then the listing. *)
ListRecords ==
    /\ stage = "records" /\ stage' = "remote"
    /\ todo' = {u \in Ulids : HasReadme(local[u])}
    /\ UNCHANGED <<local, dead, remote, record, due, queue, lost, job, at, current, left, hand,
                   listed, saves, failures>>

ListRemote ==
    /\ stage = "remote" /\ stage' = "next"
    /\ listed' = remote
    /\ UNCHANGED <<local, dead, remote, record, due, queue, lost, job, at, current, left, hand,
                   todo, saves, failures>>

NextRecord ==
    /\ stage = "next"
    /\ IF todo = {} THEN EndJob
       ELSE \E u \in todo :
              /\ at' = u /\ todo' = todo \ {u} /\ stage' = "list"
              /\ UNCHANGED <<job, current, left, hand, listed>>
    /\ UNCHANGED <<local, dead, remote, record, due, queue, lost, saves, failures>>

(* _Push.folder: the README is listed, read, and only then the files are   *)
(* listed that are sent.                                                   *)
ListFirst ==
    /\ stage = "list"
    /\ stage' = IF HasReadme(local[at]) THEN "read" ELSE "keys"
    /\ UNCHANGED <<local, dead, remote, record, due, queue, lost, job, at, current, left, hand,
                   todo, listed, saves, failures>>

ReadReadme ==
    /\ stage = "read"
    /\ IF HasReadme(local[at])
       THEN /\ \E r \in ReadmesIn(local[at]) : current' = r
            /\ stage' = "keys"
            /\ UNCHANGED <<queue, lost, job, at, left, hand, todo, listed>>
       ELSE Raises
    /\ UNCHANGED <<local, dead, remote, record, due, saves, failures>>

ListKeys ==
    /\ stage = "keys" /\ stage' = "send"
    /\ left' = (local[at] \ ReadmesIn(local[at]))
                 \union (IF HasReadme(local[at]) THEN {current} \ {Absent} ELSE {})
    /\ UNCHANGED <<local, dead, remote, record, due, queue, lost, job, at, current, hand, todo,
                   listed, saves, failures>>

(* Save order: media, then history, then the README. *)
Rank(file) == IF file.kind = "media" THEN 0 ELSE IF file.kind = "history" THEN 1 ELSE 2

InTurn(file) == file \in left /\ \A g \in left : Rank(file) <= Rank(g)

(* Mutant of Confirmed: a reconcile trusts the push record like a push.    *)
ConfirmedByRecord(file) == TRUE

(* The push record's word for a file stands in a push, and in a reconcile  *)
(* when the listing shows its key.                                         *)
Confirmed(file) == job.kind = "push" \/ \E g \in listed[at] : SameKey(file, g)
Trusted(file) == file \in record[at] /\ Confirmed(file)

Skip(file) ==
    /\ stage = "send" /\ InTurn(file) /\ Trusted(file)
    /\ left' = left \ {file}
    /\ UNCHANGED <<local, dead, remote, record, due, queue, lost, job, stage, at, current, hand,
                   todo, listed, saves, failures>>

(* Mutant of Written: the README is streamed from its folder as it is sent. *)
WrittenStreamed(file) ==
    IF file.kind # "readme" /\ file \in listed[at] THEN remote
    ELSE [remote EXCEPT ![at] = Put(@,
             IF file.kind = "readme" /\ HasReadme(local[at])
             THEN CHOOSE r \in local[at] : r.kind = "readme" ELSE file)]

(* A write-once file the listing shows is recorded, not sent; one found by *)
(* the create that it refuses is not replaced either.                      *)
Written(file) ==
    IF file.kind # "readme" /\ file \in listed[at] THEN remote
    ELSE [remote EXCEPT ![at] = Put(@, file)]

AtHand(file) == file.kind = "readme" \/ file \in local[at] \union remote[at]

Send(file) ==
    /\ stage = "send" /\ InTurn(file) /\ ~Trusted(file) /\ AtHand(file)
    /\ remote' = Written(file)
    /\ stage' = "note" /\ hand' = file /\ left' = left \ {file}
    /\ UNCHANGED <<local, dead, record, due, queue, lost, job, at, current, todo, listed, saves,
                   failures>>

Note ==
    /\ stage = "note" /\ stage' = "send"
    /\ record' = [record EXCEPT ![at] = Put(@, hand)]
    /\ hand' = Absent
    /\ UNCHANGED <<local, dead, remote, due, queue, lost, job, at, current, left, todo, listed,
                   saves, failures>>

FolderDone ==
    /\ stage = "send" /\ left = {}
    /\ EndFolder
    /\ UNCHANGED <<local, dead, remote, record, due, queue, lost, saves, failures>>

(* A hard delete took the local file of the push away. *)
FileGone(file) ==
    /\ stage = "send" /\ InTurn(file) /\ ~Trusted(file)
    /\ file.kind # "readme" /\ file \notin local[at]
    /\ Raises
    /\ UNCHANGED <<local, dead, remote, record, due, saves, failures>>

DeleteRemote ==
    /\ stage = "delete" /\ stage' = "forget"
    /\ remote' = [remote EXCEPT ![at] = {}]
    /\ UNCHANGED <<local, dead, record, due, queue, lost, job, at, current, left, hand, todo,
                   listed, saves, failures>>

ForgetPrefix ==
    /\ stage = "forget"
    /\ record' = [record EXCEPT ![at] = {}]
    /\ EndJob
    /\ UNCHANGED <<local, dead, remote, due, queue, lost, saves, failures>>

-----------------------------------------------------------------------------
(* What fails *)

Refused ==
    /\ stage \in {"remote", "send", "note", "delete", "forget"} /\ Fails
    /\ Raises
    /\ UNCHANGED <<local, dead, remote, record, due, saves>>

(* The system of record did what it was asked, and its answer is lost. *)
AnswerLost ==
    /\ Fails
    /\ \/ \E file \in left : /\ stage = "send" /\ InTurn(file) /\ ~Trusted(file) /\ AtHand(file)
                             /\ remote' = Written(file)
       \/ stage = "delete" /\ remote' = [remote EXCEPT ![at] = {}]
    /\ Raises
    /\ UNCHANGED <<local, dead, record, due, saves>>

WorkerDies ==
    /\ job # Absent /\ Fails
    /\ Lose({job}) /\ EndJob
    /\ UNCHANGED <<local, dead, remote, record, due, queue, saves>>

(* Postgres comes back empty; the worker's job goes with it. *)
PostgresLost ==
    /\ Fails
    /\ record' = [u \in Ulids |-> {}] /\ queue' = {}
    /\ Lose(queue \union ({job} \ {Absent})) /\ EndJob
    /\ UNCHANGED <<local, dead, remote, due, saves>>

RemoteLoss(u) ==
    /\ MayLose /\ Fails
    /\ \E file \in remote[u] : remote' = [remote EXCEPT ![u] = @ \ {file}]
    /\ UNCHANGED <<local, dead, record, due, queue, lost, jobVars, saves>>

-----------------------------------------------------------------------------
Work ==
    \/ TakeJob \/ ListRecords \/ ListRemote \/ NextRecord
    \/ ListFirst \/ ReadReadme \/ ListKeys
    \/ \E file \in left : Skip(file) \/ Send(file) \/ FileGone(file)
    \/ Note \/ FolderDone \/ DeleteRemote \/ ForgetPrefix

Request(u) == (\E name \in Names : Place(u, name)) \/ Keep(u) \/ Replace(u) \/ HardDelete(u)

AfterWrite == \E d \in due : Enqueue(d) \/ Forget(d)

Next ==
    \/ \E u \in Ulids : Request(u) \/ RemoteLoss(u)
    \/ AfterWrite \/ Tick \/ Work
    \/ Refused \/ AnswerLost \/ WorkerDies \/ PostgresLost

Spec == Init /\ [][Next]_vars

(* The worker goes on with what it can do, the daily reconcile falls due.  *)
FairSpec == Spec /\ WF_vars(Work) /\ WF_vars(Tick)

-----------------------------------------------------------------------------
(* The system of record never holds a README without every file it names   *)
(* and the history before it, whatever broke off: what ADR 0020 calls the  *)
(* push order, with the README read before the listing (_Push.folder).     *)
RemoteReadmeComplete ==
    \A u \in Ulids : \A readme \in ReadmesIn(remote[u]) : Needs(readme) \subseteq remote[u]

(* A saved README the system of record lacks is on its way, unless its     *)
(* push was lost: an enqueue that failed, a parked job, a dead worker, a   *)
(* lost queue (after_write.run, the queueing lock, the retry of tasks.py). *)
WillSend(u, readme) ==
    /\ job # Absent /\ job.kind = "push" /\ at = u
    /\ stage \in {"list", "read"} \/ (current = readme /\ (stage = "keys" \/ readme \in left))

PushOwed(u, readme) ==
    \/ \E d \in due : d.kind = "push" /\ d.of = u /\ d.version >= readme.of
    \/ StandsIn(u)
    \/ WillSend(u, readme)
    \/ lost[u].pushes >= readme.of

PushesOwed ==
    \A u \in Ulids : \A readme \in ReadmesIn(local[u]) :
        readme \notin remote[u] => PushOwed(u, readme)

(* A hard-deleted Article whose README stands on the system of record is   *)
(* going to be deleted there, unless its delete was lost: no push or       *)
(* reconcile that ran across the delete brings it back (delete_article).   *)
DeleteOwed(u) ==
    \/ \E d \in due : d.kind = "delete" /\ d.of = u
    \/ \E j \in queue : j.kind = "delete" /\ j.of = u
    \/ job # Absent /\ job.kind = "delete" /\ at = u /\ stage = "delete"
    \/ lost[u].delete

DeletesOwed == \A u \in dead : HasReadme(remote[u]) => DeleteOwed(u)

(* Once saves and failures have ceased the system of record holds every    *)
(* saved record whole: the reconcile makes good what was lost, the push    *)
(* record and files on the system of record included.                      *)
MirrorCatchesUp ==
    <>[](\A u \in Ulids : HasReadme(local[u]) => local[u] \subseteq remote[u])
=============================================================================
