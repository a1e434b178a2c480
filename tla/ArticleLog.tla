----------------------------- MODULE ArticleLog -----------------------------
(***************************************************************************)
(* What the archive promises of one Article, seen from outside: a log of   *)
(* versions that grows by one whole operation at a time, each applied to   *)
(* the version before it, until the record is deleted for good.            *)
(*                                                                         *)
(* There are no files, locks, requests or crashes here.  ArticleSaves is   *)
(* the program that has them, and implements this module.                  *)
(***************************************************************************)
EXTENDS Naturals, Sequences

CONSTANTS
    Threads,    \* who may save: the request threads of the one app process
    Media       \* the files an Article may name

VARIABLES
    log,        \* the versions of the Article, oldest first
    gone        \* the Article was deleted for good

logVars == <<log, gone>>

(***************************************************************************)
(* One version: who saved it, whose words its text is, the files it names  *)
(* and whether it lies in the Papierkorb.                                  *)
(***************************************************************************)
Entries == [by: Threads, text: Threads, media: SUBSET Media, deleted: BOOLEAN]

Last == log[Len(log)]

(***************************************************************************)
(* The saves an Article knows.  Each but the first states what it keeps of *)
(* the version it replaces.                                                *)
(***************************************************************************)
Creates(new) == ~new.deleted /\ new.text = new.by

Rewrites(old, new) ==
    ~old.deleted /\ ~new.deleted /\ new.text = new.by /\ new.media = old.media

Attaches(old, new) ==
    /\ ~old.deleted /\ ~new.deleted /\ new.text = old.text
    /\ \E f \in Media : new.media = old.media \union {f}

Detaches(old, new) ==
    /\ ~old.deleted /\ ~new.deleted /\ new.text = old.text
    /\ \E f \in Media : new.media = old.media \ {f}

Flips(old, new) ==
    new.deleted = ~old.deleted /\ new.text = old.text /\ new.media = old.media

Follows(old, new) ==
    Rewrites(old, new) \/ Attaches(old, new) \/ Detaches(old, new) \/ Flips(old, new)

Create ==
    /\ log = <<>> /\ ~gone
    /\ \E new \in Entries : Creates(new) /\ log' = <<new>>
    /\ UNCHANGED gone

Save ==
    /\ log # <<>>
    /\ \E new \in Entries : Follows(Last, new) /\ log' = Append(log, new)
    /\ UNCHANGED gone

DeleteForGood ==
    /\ log # <<>> /\ Last.deleted
    /\ log' = <<>> /\ gone' = TRUE

LogInit == log = <<>> /\ gone = FALSE

LogNext == Create \/ Save \/ DeleteForGood

LogSpec == LogInit /\ [][LogNext]_logVars
=============================================================================
