---------------------------- MODULE UploadStaging ----------------------------
(***************************************************************************)
(* Chunked uploads of one file to one Article (ADR 0026):                  *)
(* app/upload_staging.py, and the finish of app/web/catalog_views.py that  *)
(* turns a staged upload into a media file.                                *)
(*                                                                         *)
(* Request threads of the app and the hourly sweep of the worker process   *)
(* share a folder per upload on local disk and serialise on a lock of its  *)
(* data file.  Clients repeat what they got no answer to.  Calls fail,     *)
(* pieces end early, either process dies; other requests save the Article. *)
(***************************************************************************)
EXTENDS Naturals

CONSTANTS
    Threads, Sweeper,
    Uploads,      \* upload ids; every upload stages the same file
    Length,       \* of the file, in units a piece is cut into
    Retries,      \* _STRUCTURAL_SAVE_RETRIES
    MaxRequests,  \* bound: requests on staged uploads
    MaxEdits,     \* bound: saves of the Article by other requests
    MaxFailures,  \* bound: calls that raise, processes that die
    Absent

ASSUME LengthAssumption == Length \in Nat
ASSUME RetriesAssumption == Retries \in Nat
ASSUME SweeperAssumption == Sweeper \notin Threads

Actors == Threads \union {Sweeper}

VARIABLES
    folder,    \* how far an upload's folder got
    files,     \* which of its files are linked in it
    size,      \* the bytes in its data file
    stale,     \* its data file (or its partial folder) was not changed for a day
    lock,      \* who holds the lock of its data file
    pc,        \* where an actor stands
    job,       \* what it was asked to do
    seen,      \* the Article update_article loaded
    article,   \* its version, whether it can be saved, how often it lists the file
    told,      \* the greatest offset an upload's client was told
    placed,    \* the sizes of the files add_media stored
    saved,     \* the uploads whose file a save put into the Article
    answered,  \* the uploads whose finish was answered as saved
    doomed,    \* the uploads whose removal began
    requests, edits, failures

disk == <<folder, files, size, stale>>
actors == <<lock, pc, job, seen>>
history == <<told, placed, saved, answered, doomed>>
vars == <<disk, actors, article, history, requests, edits, failures>>

Stages == {"idle", "create", "open", "held", "place", "load", "commit", "mark", "truncate",
           "answer", "remove"}

Jobs == [op: {"create", "status", "append", "claim", "discard", "sweep"}, on: Uploads,
         offset: 0 .. Length, size: Nat, tries: 0 .. Retries]

Article == [version: Nat, alive: BOOLEAN, listed: Nat]

ASSUME AbsentAssumption == Absent \notin Actors \union Jobs \union Article

TypeOK ==
    /\ folder \in [Uploads -> {"none", "partial", "staged", "gone"}]
    /\ files \in [Uploads -> SUBSET {"meta", "data", "finished"}]
    /\ size \in [Uploads -> 0 .. Length]
    /\ stale \in [Uploads -> BOOLEAN]
    /\ lock \in [Uploads -> Actors \union {Absent}]
    /\ pc \in [Actors -> Stages]
    /\ job \in [Actors -> Jobs \union {Absent}]
    /\ seen \in [Actors -> Article \union {Absent}]
    /\ article \in Article
    /\ told \in [Uploads -> 0 .. Length]
    /\ placed \subseteq 0 .. Length
    /\ saved \subseteq Uploads /\ answered \subseteq Uploads /\ doomed \subseteq Uploads
    /\ requests \in Nat /\ edits \in Nat /\ failures \in Nat

Init ==
    /\ folder = [u \in Uploads |-> "none"] /\ files = [u \in Uploads |-> {}]
    /\ size = [u \in Uploads |-> 0] /\ stale = [u \in Uploads |-> FALSE]
    /\ lock = [u \in Uploads |-> Absent]
    /\ pc = [a \in Actors |-> "idle"] /\ job = [a \in Actors |-> Absent]
    /\ seen = [a \in Actors |-> Absent]
    /\ article = [version |-> 1, alive |-> TRUE, listed |-> 0]
    /\ told = [u \in Uploads |-> 0] /\ placed = {} /\ saved = {} /\ answered = {}
    /\ doomed = {}
    /\ requests = 0 /\ edits = 0 /\ failures = 0

Linked(u) == "data" \in files[u]
Finished(u) == "finished" \in files[u]

(* Mutant of Offset: a finished upload has the offset of its freed bytes.  *)
OffsetOfBytes(u) == size[u]

Offset(u) == IF Finished(u) THEN Length ELSE size[u]

Goes(a, stage) == pc' = [pc EXCEPT ![a] = stage]
Touch(u) == stale' = [stale EXCEPT ![u] = FALSE]

(* An actor leaves, and with it its lock. *)
Ends(a) ==
    /\ Goes(a, "idle")
    /\ job' = [job EXCEPT ![a] = Absent] /\ seen' = [seen EXCEPT ![a] = Absent]
    /\ lock' = [u \in Uploads |-> IF lock[u] = a THEN Absent ELSE lock[u]]

Dooms(u) == doomed' = doomed \union {u}
Tells(u, offset) == told' = [told EXCEPT ![u] = IF offset > @ THEN offset ELSE @]

-----------------------------------------------------------------------------
(* Staging.create, one new id each time: the folder is built, then renamed. *)
Create(t, u) ==
    /\ pc[t] = "idle" /\ article.alive /\ folder[u] = "none"
    /\ folder' = [folder EXCEPT ![u] = "partial"] /\ Touch(u)
    /\ Goes(t, "create")
    /\ job' = [job EXCEPT ![t] =
                  [op |-> "create", on |-> u, offset |-> 0, size |-> 0, tries |-> 0]]
    /\ UNCHANGED <<files, size, lock, seen, article, history, requests, edits, failures>>

Rename(t) ==
    /\ pc[t] = "create"
    /\ LET u == job[t].on IN
          /\ folder' = [folder EXCEPT ![u] = "staged"]
          /\ files' = [files EXCEPT ![u] = {"meta", "data"}]
    /\ Ends(t)
    /\ UNCHANGED <<size, stale, article, history, requests, edits, failures>>

(* A request passes its gate and opens the data file: it waits for the     *)
(* lock.  Without a data file, and for anyone but the upload's archivist   *)
(* on its Article, the upload is absent and nothing happens.               *)
Opens(a, u, op, offset, piece) ==
    /\ pc[a] = "idle" /\ Linked(u)
    /\ Goes(a, "open")
    /\ job' = [job EXCEPT ![a] =
                  [op |-> op, on |-> u, offset |-> offset, size |-> piece, tries |-> 0]]
    /\ UNCHANGED <<disk, lock, seen, article, history, edits, failures>>

(* A piece starts at an offset its client once was told. *)
Ask(t, u) ==
    /\ article.alive /\ requests < MaxRequests
    /\ \/ \E op \in {"status", "claim", "discard"} : Opens(t, u, op, 0, 0)
       \/ \E offset \in 0 .. told[u], piece \in 1 .. Length : Opens(t, u, "append", offset, piece)
    /\ requests' = requests + 1

Lock(t) ==
    /\ pc[t] = "open"
    /\ LET u == job[t].on IN lock[u] = Absent /\ lock' = [lock EXCEPT ![u] = t]
    /\ Goes(t, "held")
    /\ UNCHANGED <<disk, job, seen, article, history, requests, edits, failures>>

Holds(t, op) == pc[t] = "held" /\ job[t].op = op
Whole(u) == {"meta", "data"} \subseteq files[u]

(* A discard or sweep that held the lock first unlinked the file; one that *)
(* died half way may have left it without its record, which raises.        *)
FoundGone(t) ==
    /\ pc[t] = "held" /\ ~Whole(job[t].on)
    /\ Ends(t)
    /\ UNCHANGED <<disk, article, history, requests, edits, failures>>

Status(t) ==
    /\ Holds(t, "status") /\ Whole(job[t].on)
    /\ Tells(job[t].on, Offset(job[t].on))
    /\ Ends(t)
    /\ UNCHANGED <<disk, article, placed, saved, answered, doomed, requests, edits, failures>>

(* A source that ends early leaves what it gave. *)
Writes(u, offset, piece) ==
    \E n \in 0 .. piece :
        /\ size' = [size EXCEPT ![u] = offset + n]
        /\ stale' = [stale EXCEPT ![u] = @ /\ n = 0]

(* At another offset, or past the end, nothing is written. *)
Append(t) ==
    /\ Holds(t, "append") /\ Whole(job[t].on)
    /\ IF job[t].offset = Offset(job[t].on) /\ job[t].offset + job[t].size <= Length
       THEN /\ Writes(job[t].on, job[t].offset, job[t].size)
            /\ Goes(t, "answer")
            /\ UNCHANGED <<lock, job, seen>>
       ELSE UNCHANGED <<size, stale>> /\ Ends(t)
    /\ UNCHANGED <<folder, files, article, history, requests, edits, failures>>

Discard(t) ==
    /\ Holds(t, "discard") /\ Whole(job[t].on)
    /\ Goes(t, "remove") /\ Dooms(job[t].on)
    /\ UNCHANGED <<disk, lock, job, seen, article, told, placed, saved, answered, requests, edits,
                   failures>>

(* shutil.rmtree, one file after another, then the folder. *)
Unlink(a) ==
    /\ pc[a] = "remove"
    /\ \E f \in files[job[a].on] : files' = [files EXCEPT ![job[a].on] = @ \ {f}]
    /\ UNCHANGED <<folder, size, stale, actors, article, history, requests, edits, failures>>

Rmdir(a) ==
    /\ pc[a] = "remove" /\ files[job[a].on] = {}
    /\ folder' = [folder EXCEPT ![job[a].on] = "gone"]
    /\ Ends(a)
    /\ UNCHANGED <<files, size, stale, article, history, requests, edits, failures>>

-----------------------------------------------------------------------------
(* _finish_upload *)

(* Mutant of Claim: any upload may be finished.                            *)
ClaimPartial(t) ==
    /\ Holds(t, "claim") /\ Whole(job[t].on)
    /\ IF Finished(job[t].on)
       THEN /\ answered' = IF article.alive THEN answered \union {job[t].on} ELSE answered
            /\ Ends(t)
       ELSE Goes(t, "place") /\ UNCHANGED <<answered, lock, job, seen>>
    /\ UNCHANGED <<disk, article, told, placed, saved, doomed, requests, edits, failures>>

(* Mutant of Claim: a finished upload is finished again.                   *)
ClaimAgain(t) ==
    /\ Holds(t, "claim") /\ Whole(job[t].on)
    /\ IF Offset(job[t].on) # Length THEN Ends(t)
       ELSE Goes(t, "place") /\ UNCHANGED <<lock, job, seen>>
    /\ UNCHANGED <<disk, article, history, requests, edits, failures>>

(* Only a complete upload; a finished one is answered as its finish was.   *)
Claim(t) ==
    /\ Holds(t, "claim") /\ Whole(job[t].on)
    /\ LET u == job[t].on IN
       IF Offset(u) # Length THEN Ends(t) /\ UNCHANGED answered
       ELSE IF Finished(u)
       THEN /\ answered' = IF article.alive THEN answered \union {u} ELSE answered
            /\ Ends(t)
       ELSE Goes(t, "place") /\ UNCHANGED <<answered, lock, job, seen>>
    /\ UNCHANGED <<disk, article, told, placed, saved, doomed, requests, edits, failures>>

PlaceFile(t) ==
    /\ pc[t] = "place"
    /\ placed' = placed \union {size[job[t].on]}
    /\ Goes(t, "load")
    /\ UNCHANGED <<disk, lock, job, seen, article, told, saved, answered, doomed, requests, edits, failures>>

Load(t) ==
    /\ pc[t] = "load"
    /\ IF article.alive
       THEN /\ seen' = [seen EXCEPT ![t] = article] /\ Goes(t, "commit")
            /\ UNCHANGED <<lock, job>>
       ELSE Ends(t)
    /\ UNCHANGED <<disk, article, history, requests, edits, failures>>

(* Mutant of With: listed once more. *)
WithAgain(listed) == listed + 1

(* The file is appended unless the Article lists it already. *)
With(listed) == IF listed > 0 THEN listed ELSE 1

(* Mutant of Commit: a save that lost every race is taken for saved.       *)
CommitOrNot(t) ==
    /\ pc[t] = "commit"
    /\ IF article.version = seen[t].version
       THEN /\ article' = [article EXCEPT !.version = @ + 1, !.listed = With(seen[t].listed)]
            /\ saved' = saved \union {job[t].on}
       ELSE UNCHANGED <<article, saved>>
    /\ Goes(t, "mark")
    /\ UNCHANGED <<disk, lock, job, seen, told, placed, answered, doomed, requests, edits, failures>>

(* update_article: a save that stands, another try, or the last race lost. *)
Commit(t) ==
    /\ pc[t] = "commit"
    /\ IF article.version = seen[t].version
       THEN /\ article' = [article EXCEPT !.version = @ + 1, !.listed = With(seen[t].listed)]
            /\ saved' = saved \union {job[t].on}
            /\ Goes(t, "mark") /\ UNCHANGED <<lock, job, seen>>
       ELSE /\ IF job[t].tries < Retries
               THEN /\ job' = [job EXCEPT ![t].tries = @ + 1] /\ Goes(t, "load")
                    /\ UNCHANGED <<lock, seen>>
               ELSE Ends(t)
            /\ UNCHANGED <<article, saved>>
    /\ UNCHANGED <<disk, told, placed, answered, doomed, requests, edits, failures>>

(* _Held.finish marks the upload, then frees its bytes. *)
Mark(t) ==
    /\ pc[t] = "mark"
    /\ files' = [files EXCEPT ![job[t].on] = @ \union {"finished"}]
    /\ Goes(t, "truncate")
    /\ UNCHANGED <<folder, size, stale, lock, job, seen, article, history, requests, edits, failures>>

Truncate(t) ==
    /\ pc[t] = "truncate"
    /\ size' = [size EXCEPT ![job[t].on] = 0] /\ Touch(job[t].on)
    /\ Goes(t, "answer")
    /\ UNCHANGED <<folder, files, lock, job, seen, article, history, requests, edits, failures>>

(* The lock goes with the answer, which a dropped connection may lose. *)
Answer(t) ==
    /\ pc[t] = "answer"
    /\ \/ job[t].op = "append" /\ Tells(job[t].on, Offset(job[t].on)) /\ UNCHANGED answered
       \/ job[t].op = "claim" /\ answered' = answered \union {job[t].on} /\ UNCHANGED told
    /\ Ends(t)
    /\ UNCHANGED <<disk, article, placed, saved, doomed, requests, edits, failures>>

-----------------------------------------------------------------------------
(* The sweep of the worker, and time *)

SweepOpens(u) == Opens(Sweeper, u, "sweep", 0, 0) /\ UNCHANGED requests

(* Mutant of SweepTakes: the sweep does not mind who holds the lock. *)
SweepTakesAnyway ==
    /\ pc[Sweeper] = "open"
    /\ LET u == job[Sweeper].on IN
       IF Linked(u) /\ stale[u]
       THEN Goes(Sweeper, "remove") /\ Dooms(u) /\ UNCHANGED <<lock, job, seen>>
       ELSE Ends(Sweeper) /\ UNCHANGED doomed
    /\ UNCHANGED <<disk, article, told, placed, saved, answered, requests, edits, failures>>

(* Mutant of SweepTakes: finished uploads stay.                            *)
SweepTakesUnfinished ==
    /\ pc[Sweeper] = "open"
    /\ LET u == job[Sweeper].on IN
       IF lock[u] = Absent /\ Linked(u) /\ stale[u] /\ ~Finished(u)
       THEN /\ lock' = [lock EXCEPT ![u] = Sweeper]
            /\ Goes(Sweeper, "remove") /\ Dooms(u)
            /\ UNCHANGED <<job, seen>>
       ELSE Ends(Sweeper) /\ UNCHANGED doomed
    /\ UNCHANGED <<disk, article, told, placed, saved, answered, requests, edits, failures>>

(* It does not wait for the lock: an upload in use is left for the next.   *)
SweepTakes ==
    /\ pc[Sweeper] = "open"
    /\ LET u == job[Sweeper].on IN
       IF lock[u] = Absent /\ Linked(u) /\ stale[u]
       THEN /\ lock' = [lock EXCEPT ![u] = Sweeper]
            /\ Goes(Sweeper, "remove") /\ Dooms(u)
            /\ UNCHANGED <<job, seen>>
       ELSE Ends(Sweeper) /\ UNCHANGED doomed
    /\ UNCHANGED <<disk, article, told, placed, saved, answered, requests, edits, failures>>

SweepPartial(u) ==
    /\ pc[Sweeper] = "idle" /\ folder[u] = "partial" /\ stale[u]
    /\ folder' = [folder EXCEPT ![u] = "gone"]
    /\ UNCHANGED <<files, size, stale, actors, article, history, requests, edits, failures>>

(* A day goes by; no create takes that long. *)
Age(u) ==
    /\ folder[u] \in {"partial", "staged"} /\ ~stale[u]
    /\ \A t \in Threads : pc[t] = "create" => job[t].on # u
    /\ stale' = [stale EXCEPT ![u] = TRUE]
    /\ UNCHANGED <<folder, files, size, actors, article, history, requests, edits, failures>>

-----------------------------------------------------------------------------
(* Other requests save the Article (ArticleSaves): they may take the file  *)
(* off it, mark it deleted or restore it.                                  *)
EditArticle ==
    /\ edits < MaxEdits /\ edits' = edits + 1
    /\ \E alive \in BOOLEAN, listed \in {0, article.listed} :
          article' = [version |-> article.version + 1, alive |-> alive, listed |-> listed]
    /\ UNCHANGED <<disk, actors, history, requests, failures>>

Fails == failures < MaxFailures /\ failures' = failures + 1

(* A call of a request raises: its answer is a failure, its lock goes. *)
Raises(t) ==
    /\ pc[t] # "idle" /\ Fails
    /\ Ends(t)
    /\ UNCHANGED <<disk, article, history, requests, edits>>

(* A process dies, with the locks of its threads. *)
Dies(dead) ==
    /\ \E a \in dead : pc[a] # "idle"
    /\ Fails
    /\ pc' = [a \in Actors |-> IF a \in dead THEN "idle" ELSE pc[a]]
    /\ job' = [a \in Actors |-> IF a \in dead THEN Absent ELSE job[a]]
    /\ seen' = [a \in Actors |-> IF a \in dead THEN Absent ELSE seen[a]]
    /\ lock' = [u \in Uploads |-> IF lock[u] \in dead THEN Absent ELSE lock[u]]
    /\ UNCHANGED <<disk, article, history, requests, edits>>

AppDies == Dies(Threads)
WorkerDies == Dies({Sweeper})

-----------------------------------------------------------------------------
Proceeds(t) ==
    \/ Rename(t) \/ FoundGone(t) \/ Status(t) \/ Append(t) \/ Discard(t)
    \/ Claim(t) \/ PlaceFile(t) \/ Load(t) \/ Commit(t) \/ Mark(t) \/ Truncate(t) \/ Answer(t)

Removes(a) == Unlink(a) \/ Rmdir(a)

Request(t) ==
    \/ \E u \in Uploads : Create(t, u) \/ Ask(t, u)
    \/ Lock(t) \/ Proceeds(t) \/ Removes(t) \/ Raises(t)

Sweep ==
    \/ \E u \in Uploads : SweepOpens(u) \/ SweepPartial(u)
    \/ SweepTakes \/ Removes(Sweeper)

Next ==
    \/ \E t \in Threads : Request(t)
    \/ Sweep
    \/ \E u \in Uploads : Age(u)
    \/ EditArticle \/ AppDies \/ WorkerDies

Spec == Init /\ [][Next]_vars

(* Threads and the hourly sweep go on, each upload's turn comes, days pass.*)
FairSpec ==
    /\ Spec
    /\ \A t \in Threads : WF_vars(Proceeds(t) \/ Removes(t)) /\ WF_vars(Lock(t))
    /\ WF_vars(SweepTakes) /\ WF_vars(Removes(Sweeper))
    /\ \A u \in Uploads : SF_vars(SweepOpens(u)) /\ SF_vars(SweepPartial(u)) /\ WF_vars(Age(u))

-----------------------------------------------------------------------------
(* Whatever became of its pieces, an upload is put into the archive whole: *)
(* Staging.append under the lock, Staging.claim of complete uploads only.  *)
PlacedWhole == placed \subseteq {Length}

(* Until its removal begins, an offset the client of an upload was told    *)
(* holds: nothing it may have forgotten is lost (Staging.append,           *)
(* _Held.finish, the sweep of what was not touched for a day).             *)
ToldOffsetsHold ==
    \A u \in Uploads : folder[u] = "staged" /\ u \notin doomed => Whole(u) /\ told[u] <= Offset(u)

(* The bytes of an upload are freed only when a save put its file into the *)
(* Article (_finish_upload, _Held.finish).                                 *)
FreedOnlyWhenSaved == \A u \in Uploads : Finished(u) => u \in saved

(* However often finishes are repeated, and whichever uploads stage it,    *)
(* the Article lists the file once (_with under update_article).           *)
ListedOnce == article.listed <= 1

(* No request works on an upload whose bytes are being removed: a sweep    *)
(* leaves one in use for the next (_sweep_upload, Staging._held).          *)
InUse(u, t) ==
    /\ pc[t] \in {"place", "load", "commit", "mark", "truncate", "answer"}
    /\ job[t].on = u

InUseStands == \A u \in Uploads, t \in Threads : InUse(u, t) => Whole(u)

(* A finish answered as saved is not saved again by a repeat, also one     *)
(* that waited for the lock since before (Staging.claim).                  *)
RepeatsSaveNothing ==
    [][\A t \in Threads : pc[t] = "commit" /\ pc'[t] = "mark"
          => job[t].on \notin answered \ doomed]_vars

(* The bytes of an upload nobody goes on with are freed (Staging.sweep).   *)
AbandonedBytesFreed == <>[](\A u \in Uploads : ~Linked(u))
=============================================================================
