---------------------------- MODULE StoredArticle ----------------------------
(***************************************************************************)
(* An Article on the local disk: the requests of ArticleSaves that place   *)
(* files, composed with the store call by call, and what a power loss may  *)
(* take of what they were told.  A save is told to stand when its README   *)
(* is placed; the files it names were placed before, by requests without   *)
(* the lock, and in folders another request may have made.                 *)
(***************************************************************************)
EXTENDS LocalStore

CONSTANTS
    Files,        \* media files that may be uploaded
    Readme,       \* the key of README.md
    Media,        \* the name of the folder for media files
    MaxRequests,  \* bound: how many requests are made
    MaxFailures,  \* bound: how many calls fail, processes die, machines stop
    NoActor       \* nobody holds WRITER_LOCK

ASSUME ArticleAssumption ==
    /\ Keys = Files \union {Readme} /\ Readme \notin Files
    /\ Media \in Subs
    /\ Home = [k \in Keys |-> IF k = Readme THEN Record ELSE Media]
    /\ Values = SUBSET Files
    /\ NoActor \notin Actors

VARIABLES
    lock,      \* who holds WRITER_LOCK
    at,        \* where each actor stands in its request
    job,       \* its file, the README it loaded and the one it wants
    promised,  \* what the last save that was told to stand names, or Nothing
    gone,      \* a caller whose delete found the Article was told it is deleted
    cut,       \* files placed, and the Article's folder if made, by calls that ended before
               \* their fsync
    requests, failures

articleVars == <<lock, at, job, promised, gone, cut, requests, failures>>
vars == <<storeVars, articleVars>>

\* README.md is the set of files it names; a media file holds the bytes it is named for.
Bytes(f) == {f}
Stored(f) == Read(f) = Bytes(f)

NoJob == [file |-> Nothing, loaded |-> Nothing, wanted |-> {}]

Init ==
    /\ StoreInit
    /\ lock = NoActor
    /\ at = [a \in Actors |-> "idle"]
    /\ job = [a \in Actors |-> NoJob]
    /\ promised = Nothing
    /\ gone = FALSE /\ cut = {}
    /\ requests = 0 /\ failures = 0

Goes(a, from, to) == at[a] = from /\ at' = [at EXCEPT ![a] = to]

Asks(a, to) ==
    /\ Goes(a, "idle", to)
    /\ requests < MaxRequests /\ requests' = requests + 1
    /\ UNCHANGED <<lock, promised, gone, cut, failures>>

-----------------------------------------------------------------------------
(* Requests *)

\* create_article: the first request there is, its ulid is fresh.
Create(a) ==
    /\ requests = 0
    /\ Asks(a, "saving")
    /\ job' = [job EXCEPT ![a] = NoJob]
    /\ UNCHANGED storeVars

\* An upload's gate loads the Article; add_media then places the file without the lock.
Upload(a) ==
    /\ Read(Readme) # Nothing
    /\ Asks(a, "placing")
    /\ \E f \in Files :
        /\ job' = [job EXCEPT ![a] = [NoJob EXCEPT !.file = f]]
        /\ Begin(a, [op |-> "create", key |-> f, value |-> Bytes(f)])

\* A name that is taken is reused when it holds these bytes.
FilePlaced(a) ==
    /\ Goes(a, "placing", "loading")
    /\ pc[a] \in {"ok", "refused"} /\ Stored(job[a].file)
    /\ Takes(a)
    /\ UNCHANGED <<lock, job, promised, gone, cut, requests, failures>>

\* update_article loads the Article again and attaches the file.
Load(a) ==
    /\ Goes(a, "loading", "saving")
    /\ Read(Readme) # Nothing
    /\ job' = [job EXCEPT ![a].loaded = Read(Readme),
                          ![a].wanted = Read(Readme) \union {job[a].file}]
    /\ UNCHANGED <<storeVars, lock, promised, gone, cut, requests, failures>>

\* Under the lock, commit compares what it loaded and refuses files that are not stored.
Save(a) ==
    /\ Goes(a, "saving", "writing")
    /\ lock = NoActor /\ lock' = a
    /\ Read(Readme) = job[a].loaded
    /\ \A f \in job[a].wanted : Stored(f)
    /\ Begin(a, [op |-> "replace", key |-> Readme, value |-> job[a].wanted])
    /\ UNCHANGED <<job, promised, gone, cut, requests, failures>>

Saved(a) ==
    /\ Goes(a, "writing", "idle")
    /\ pc[a] = "ok" /\ Takes(a)
    /\ lock' = NoActor
    /\ promised' = job[a].wanted
    /\ UNCHANGED <<job, gone, cut, requests, failures>>

\* A lost race is tried again from the load, unless the Article is gone.
Conflict(a) ==
    /\ Goes(a, "saving", IF job[a].file = Nothing THEN "idle" ELSE "loading")
    /\ lock = NoActor /\ Read(Readme) # job[a].loaded
    /\ UNCHANGED <<storeVars, lock, job, promised, gone, cut, requests, failures>>

Delete(a) ==
    /\ Read(Readme) # Nothing
    /\ Asks(a, "deleting")
    /\ job' = [job EXCEPT ![a] = [NoJob EXCEPT !.loaded = Read(Readme)]]
    /\ UNCHANGED storeVars

\* remove: once the delete has begun nothing is promised of the Article any more.
Remove(a) ==
    /\ Goes(a, "deleting", "removing")
    /\ lock = NoActor /\ lock' = a
    /\ Read(Readme) \in {job[a].loaded, Nothing}
    /\ Begin(a, [op |-> "delete"])
    /\ job' = [job EXCEPT ![a].loaded = Read(Readme)]
    /\ promised' = Nothing
    /\ UNCHANGED <<gone, cut, requests, failures>>

Deleted(a) ==
    /\ Goes(a, "removing", "idle")
    /\ pc[a] = "ok" /\ Takes(a)
    /\ lock' = NoActor
    /\ gone' = (gone \/ job[a].loaded # Nothing)
    /\ UNCHANGED <<job, promised, cut, requests, failures>>

\* Whatever was raised ends the request and frees the lock: a call, a load of an Article
\* that is gone, a file that is not stored, a delete whose Article moved on.
GivesUp(a) ==
    /\ at[a] # "idle" /\ at' = [at EXCEPT ![a] = "idle"]
    /\ \/ pc[a] = "raised" /\ Takes(a)
       \/ at[a] = "placing" /\ pc[a] = "refused" /\ ~Stored(job[a].file) /\ Takes(a)
       \/ at[a] = "loading" /\ Read(Readme) = Nothing /\ UNCHANGED storeVars
       \/ /\ at[a] = "saving" /\ lock = NoActor /\ Read(Readme) = job[a].loaded
          /\ \E f \in job[a].wanted : ~Stored(f)
          /\ UNCHANGED storeVars
       \/ /\ at[a] = "deleting" /\ lock = NoActor
          /\ Read(Readme) \notin {job[a].loaded, Nothing}
          /\ UNCHANGED storeVars
    /\ lock' = IF lock = a THEN NoActor ELSE lock
    /\ UNCHANGED <<job, promised, gone, cut, requests, failures>>

-----------------------------------------------------------------------------
(* Failures *)

Fails == failures < MaxFailures /\ failures' = failures + 1

\* What the call has placed, or found missing, and has yet to fsync.
Owes(a) ==
    (IF pc[a] \in Placings THEN hand[a].made \intersect {Record} ELSE {})
        \union (IF pc[a] = "sync" THEN {call[a].key} ELSE {})

CallFails(a) ==
    /\ Fails /\ Raises(a)
    /\ cut' = cut \union Owes(a)
    /\ UNCHANGED <<lock, at, job, promised, gone, requests>>

AllStop ==
    /\ Fails
    /\ at' = [a \in Actors |-> "idle"]
    /\ job' = [a \in Actors |-> NoJob]
    /\ lock' = NoActor
    /\ cut' = cut \union UNION {Owes(a) : a \in Actors}
    /\ UNCHANGED <<promised, gone, requests>>

AppDies == AllStop /\ StoreStops

PowerLoss == AllStop /\ LosesPower

StoreStep(a) == Steps(a) /\ UNCHANGED articleVars

Next ==
    \/ \E a \in Actors :
        \/ Create(a) \/ Upload(a) \/ FilePlaced(a) \/ Load(a)
        \/ Save(a) \/ Saved(a) \/ Conflict(a)
        \/ Delete(a) \/ Remove(a) \/ Deleted(a)
        \/ GivesUp(a) \/ CallFails(a) \/ StoreStep(a)
    \/ AppDies
    \/ PowerLoss

Spec == Init /\ [][Next]_vars

-----------------------------------------------------------------------------
(* Properties *)

\* The contents a power loss may leave of the folder with this name in a content of its parent.
Left(content, name) == IF content[name] = Nothing THEN {Empty} ELSE disk[content[name]]

\* On disk for certain: a README with at least these files, and the files.
OnDisk(files) ==
    \A root \in disk[Root] : \A record \in Left(root, Record) :
        /\ record[Readme] # Nothing /\ files \subseteq record[Readme]
        /\ \A media \in Left(record, Media) : \A f \in files : media[f] = Bytes(f)

(***************************************************************************)
(* A save whose caller was told it stands survives a power loss at any     *)
(* moment: its README or a later one is on disk, with every file it names, *)
(* until a delete begins.  An upload may return before the folder its file *)
(* is in is on disk, when another upload is about to fsync it; the fsync   *)
(* of the save's own README must cover that (_commit's directory fsyncs).  *)
(* Excused are a file that the call of another request has yet to fsync,   *)
(* when this one found it taken and reused it, and what calls that were    *)
(* cut off left to fsync.                                                  *)
(***************************************************************************)
SavedSurvives ==
    promised # Nothing /\ Record \notin cut =>
        OnDisk(promised \ (cut \union UNION {Owes(a) : a \in Actors}))

(***************************************************************************)
(* The same without excuses, as localfs.py:3-5 and 169-172 have it.     *)
(***************************************************************************)
ToldSavesSurvive == promised # Nothing => OnDisk(promised)

(***************************************************************************)
(* A hard delete that found the Article and was answered is final: no      *)
(* power loss brings the README back, and no upload that was under way     *)
(* does (delete_prefix's rename and fsync, the compare of a save).  One    *)
(* that found no README is answered too, though an earlier delete may have *)
(* failed between its rename and its fsync.                                *)
(***************************************************************************)
DeletedForGood ==
    gone => \A root \in disk[Root] : \A record \in Left(root, Record) : record[Readme] = Nothing

=============================================================================
