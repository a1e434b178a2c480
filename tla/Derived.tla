------------------------------- MODULE Derived -------------------------------
(***************************************************************************)
(* The page texts of media files (app/media_text.py): records in Postgres  *)
(* under the hash of a file, shared by every Article that names it, filled *)
(* by jobs (app/tasks.py), looked after by the hourly reconcile            *)
(* (app/jobs.py) and pruned by every rebuild of the index (indexer.py).    *)
(*                                                                         *)
(* Only files that text is read from are modelled, and of an index row     *)
(* only the hashes it names.  A row that misses its refresh is repaired    *)
(* here by the rebuild alone; the retry of a refresh is IndexSync's.       *)
(***************************************************************************)
EXTENDS Naturals, Sequences, FiniteSets, SequencesExt

CONSTANTS
    Articles,
    Hashes,
    Deadly,      \* of them, files whose bytes kill the process that reads them
    AtFirst,     \* the files of the Articles that were there before page texts were
    Edits,       \* the files an Article may be saved with, in their order; one is <<>>
    MaxSaves,    \* bound: saves and hard deletes
    MaxTroubles, \* bound: altered files, failed reads, refreshes and enqueues, crashes
    None

VARIABLES
    media,    \* the files each Article's README names; none of one that is gone
    altered,  \* <<article, hash>>: stored bytes that no longer match their hash
    named,    \* what each row names of them
    text,     \* MediaText: the hash -> "none", or whose words its records hold
    save,     \* the save under way: its Article or None, and what it has left to do
    queued,   \* Articles with an extract_media_text job that waits
    proc,     \* the worker and a management command: what each is doing
    saves, mishaps

derivedVars == <<media, altered, named, text, save, queued, proc, saves, mishaps>>

Processes == {"worker", "command"}
Idle == [pc |-> "idle"]

DerivedInit ==
    /\ media = AtFirst
    /\ altered = {}
    /\ named = [a \in Articles |-> Range(AtFirst[a])]
    /\ text = [h \in Hashes |-> "none"]
    /\ save = [article |-> None, pc |-> "none"]
    /\ queued = {}
    /\ proc = [p \in Processes |-> Idle]
    /\ saves = 0
    /\ mishaps = 0

Mishap == mishaps < MaxTroubles /\ mishaps' = mishaps + 1
Locked == \E p \in Processes : proc[p].pc = "rebuild"
GoesTo(p, j) == proc' = [proc EXCEPT ![p] = j]

(***************************************************************************)
(* A save or hard delete: the README, then the row (_synced), then the     *)
(* job (_enqueue_derived).  The refresh fails or gives up on the writer    *)
(* lock of a rebuild, the enqueue fails: the save stands.                  *)
(***************************************************************************)
Commit(a, files) ==
    /\ save.article = None /\ saves < MaxSaves
    /\ files # media[a]
    /\ saves' = saves + 1
    /\ media' = [media EXCEPT ![a] = files]
    /\ altered' = {c \in altered : c[1] = a => c[2] \in Range(files)}
    /\ save' = [article |-> a, pc |-> "refresh"]
    /\ UNCHANGED <<named, text, queued, proc, mishaps>>

Refresh ==
    LET a == save.article IN
    /\ save.pc = "refresh"
    /\ \/ ~Locked /\ named' = [named EXCEPT ![a] = Range(media[a])] /\ UNCHANGED mishaps
       \/ Locked /\ UNCHANGED <<named, mishaps>>
       \/ Mishap /\ UNCHANGED named
    /\ save' = [save EXCEPT !.pc = "enqueue"]
    /\ UNCHANGED <<media, altered, text, queued, proc, saves>>

EnqueueDerived ==
    LET a == save.article IN
    /\ save.pc = "enqueue"
    /\ \/ /\ queued' = IF media[a] # <<>> THEN queued \union {a} ELSE queued
          /\ UNCHANGED mishaps
       \/ Mishap /\ UNCHANGED queued
    /\ save' = [article |-> None, pc |-> "none"]
    /\ UNCHANGED <<media, altered, named, text, proc, saves>>

(***************************************************************************)
(* fill: the files that have no text yet, each read and recorded in turn.  *)
(* "then" holds the Articles the process fills after this one.             *)
(***************************************************************************)
Fill(a, files, then) ==
    LET todo == SelectSeq(files, LAMBDA h : text[h] = "none") IN
    [pc |-> "fill", article |-> a, files |-> todo, then |-> then]

(* parse: what a file gives; bytes that are not the file their hash names  *)
(* give nothing.                                                           *)
ParseUnchecked(a, h) == IF <<a, h>> \in altered THEN "another's" ELSE "its own"
ParseOrMark(a, h) == IF <<a, h>> \in altered THEN "marker" ELSE "its own"

Parse(a, h) == IF <<a, h>> \in altered THEN "none" ELSE "its own"

(* store_media_text: what is stored already wins.                          *)
Record(h, words) == text' = IF text[h] = "none" THEN [text EXCEPT ![h] = words] ELSE text

Stored(a, h) == h \in Range(media[a])
Kills(a, h) == h \in Deadly /\ Stored(a, h) /\ <<a, h>> \notin altered

(* One file: read and recorded; gone; its read fails; or its reader dies,  *)
(* and the process with it.                                                *)
ReadOne(p) ==
    LET j == proc[p] h == Head(j.files) IN
    /\ j.pc = "fill" /\ j.files # <<>>
    /\ \/ /\ Stored(j.article, h) /\ ~Kills(j.article, h)
          /\ Record(h, Parse(j.article, h))
          /\ GoesTo(p, [j EXCEPT !.files = Tail(@)])
          /\ UNCHANGED mishaps
       \/ /\ IF Stored(j.article, h) THEN Mishap ELSE UNCHANGED mishaps
          /\ GoesTo(p, [j EXCEPT !.files = Tail(@)])
          /\ UNCHANGED text
       \/ /\ Kills(j.article, h)
          /\ GoesTo(p, Idle)
          /\ UNCHANGED <<text, mishaps>>
    /\ UNCHANGED <<media, altered, named, save, queued, saves>>

(* The files read, rebuild_index turns to the next Article.                *)
FillNext(p) ==
    LET j == proc[p] IN
    /\ j.pc = "fill" /\ j.files = <<>>
    /\ \/ j.then = {} /\ GoesTo(p, Idle)
       \/ \E a \in j.then : GoesTo(p, Fill(a, media[a], j.then \ {a}))
    /\ UNCHANGED <<media, altered, named, text, save, queued, saves, mishaps>>

Crash(p) ==
    /\ Mishap /\ proc[p].pc # "idle"
    /\ GoesTo(p, Idle)
    /\ UNCHANGED <<media, altered, named, text, save, queued, saves>>

(***************************************************************************)
(* rebuild: one transaction under the writer lock, which reads the         *)
(* READMEs, writes every row and deletes the text no row names.            *)
(***************************************************************************)
StartRebuild(p, then) ==
    /\ proc[p].pc = "idle" /\ ~Locked
    /\ GoesTo(p, [pc |-> "rebuild", scan |-> [a \in Articles |-> Range(media[a])], then |-> then])
    /\ UNCHANGED <<media, altered, named, text, save, queued, saves, mishaps>>

Rebuilt(p) ==
    LET j == proc[p] IN
    /\ j.pc = "rebuild"
    /\ named' = j.scan
    /\ text' = [h \in Hashes |-> IF \E a \in Articles : h \in named'[a] THEN text[h] ELSE "none"]
    /\ GoesTo(p, IF j.then = "nothing" THEN Idle ELSE [pc |-> j.then])
    /\ UNCHANGED <<media, altered, save, queued, saves, mishaps>>

(***************************************************************************)
(* missing: the Articles with a file that has no text yet.  The reconcile  *)
(* enqueues a job for each, rebuild_index fills them in turn.              *)
(***************************************************************************)
Missing == {a \in Articles : \E h \in Range(media[a]) : text[h] = "none"}

EnqueueMissing(p) ==
    /\ proc[p].pc = "enqueue"
    /\ \/ queued' = queued \union Missing /\ UNCHANGED mishaps
       \/ Mishap /\ \E some \in SUBSET Missing : queued' = queued \union some
    /\ GoesTo(p, Idle)
    /\ UNCHANGED <<media, altered, named, text, save, saves>>

FillMissing(p) ==
    /\ proc[p].pc = "fill all"
    /\ GoesTo(p, IF Missing = {} THEN Idle ELSE Fill(None, <<>>, Missing))
    /\ UNCHANGED <<media, altered, named, text, save, queued, saves, mishaps>>

(***************************************************************************)
(* The worker takes a waiting job, or the reconcile of the hour.           *)
(***************************************************************************)
ExtractMediaText(a) ==
    /\ proc["worker"].pc = "idle" /\ a \in queued
    /\ queued' = queued \ {a}
    /\ GoesTo("worker", Fill(a, media[a], {}))
    /\ UNCHANGED <<media, altered, named, text, save, saves, mishaps>>

Reconcile == StartRebuild("worker", "enqueue")

(* rebuild_index, or ensure_index_current at a deploy.                     *)
RebuildIndex == \E then \in {"fill all", "nothing"} : StartRebuild("command", then)

(* Bytes on disk change under their name.                                  *)
Alter(a, h) ==
    /\ Mishap /\ Stored(a, h) /\ <<a, h>> \notin altered
    /\ altered' = altered \union {<<a, h>>}
    /\ UNCHANGED <<media, named, text, save, queued, proc, saves>>

Step(p) ==
    \/ ReadOne(p) \/ FillNext(p) \/ Rebuilt(p)
    \/ EnqueueMissing(p) \/ FillMissing(p)

DerivedNext ==
    \/ \E a \in Articles : \E files \in Edits : Commit(a, files)
    \/ Refresh \/ EnqueueDerived
    \/ \E p \in Processes : Step(p) \/ Crash(p)
    \/ \E a \in Articles : ExtractMediaText(a)
    \/ Reconcile \/ RebuildIndex
    \/ \E a \in Articles, h \in Hashes : Alter(a, h)

(***************************************************************************)
(* What keeps going on: a save, a job and a command that run; a job that   *)
(* waits gets its turn, as the queue is read in order; so does the         *)
(* reconcile of some hour.                                                 *)
(***************************************************************************)
DerivedFairness ==
    /\ WF_derivedVars(Refresh \/ EnqueueDerived)
    /\ \A p \in Processes : WF_derivedVars(Step(p))
    /\ \A a \in Articles : SF_derivedVars(ExtractMediaText(a))
    /\ SF_derivedVars(Reconcile)

DerivedSpec == DerivedInit /\ [][DerivedNext]_derivedVars /\ DerivedFairness

-----------------------------------------------------------------------------
(* Text found by hash never carries another file's words into an Article   *)
(* (ADR 0023), whatever becomes of the bytes on disk.                      *)
TextOfItsFile == \A h \in Hashes : text[h] # "another's"

(* A file that some Article names and holds whole gets its text and keeps  *)
(* it, whatever else was lost: an enqueue, a job, a rebuild that had not   *)
(* seen the save and pruned, an altered copy under another Article.  Only  *)
(* the files that come after one that kills its reader may wait.           *)
Reachable(a, i) ==
    /\ <<a, media[a][i]>> \notin altered
    /\ \A k \in 1..i : media[a][k] \in Deadly => <<a, media[a][k]>> \in altered

EveryTextRead ==
    \A a \in Articles : \A i \in DOMAIN media[a] : Reachable(a, i) => text[media[a][i]] = "its own"

TextCatchesUp == <>[]EveryTextRead
=============================================================================
