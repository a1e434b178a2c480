------------------------------ MODULE DavStore ------------------------------
(***************************************************************************)
(* The WebDAV adapter (persistence/adapters/webdav.py) against a server    *)
(* that answers late, says "locked", does not yet show a folder it just    *)
(* made, or is cut off before its answer.  Calls are retried only while    *)
(* the server said that it did nothing.                                    *)
(*                                                                         *)
(* The keys are those of one folder, `Depth' folders down.                 *)
(***************************************************************************)
EXTENDS Naturals

CONSTANTS
    Clients,   \* the threads that make calls
    Keys,      \* the files of the folder
    Values,    \* what a file may hold
    Nothing,   \* an absent file
    Depth,     \* folders on the way to the file
    Retries    \* the delays of _RETRY_DELAYS

VARIABLES
    files,     \* on the server: key -> what it holds
    folders,   \* on the server: how many of the folders on the way exist
    step,      \* how far the call of each client got
    call,      \* the call itself
    putFirst,  \* whether it sends its file before it makes folders
    tries      \* retries it has left

davVars == <<files, folders, step, call, putFirst, tries>>

Puts == [op : {"create", "replace"}, key : Keys, value : Values]
DeleteFolder == [op |-> "delete"]

DavInit ==
    /\ files = [k \in Keys |-> Nothing]
    /\ folders \in 0..1
    /\ step = [c \in Clients |-> <<"idle">>]
    /\ call = [c \in Clients |-> DeleteFolder]
    /\ putFirst = [c \in Clients |-> FALSE]
    /\ tries = [c \in Clients |-> 0]

At(c, s) == step[c] = s
GoesTo(c, s) == step' = [step EXCEPT ![c] = s]

(***************************************************************************)
(* _retrying: where an attempt of a call begins, and the whole attempt     *)
(* once more, or the last error for the caller.                            *)
(***************************************************************************)
Starts(delete, first) ==
    CASE delete -> <<"find">>
      [] ~delete /\ first -> <<"send", "first">>
      [] ~delete /\ ~first -> <<"make", 1>>

Again(c) ==
    IF tries[c] > 0
    THEN /\ GoesTo(c, Starts(call[c].op = "delete", putFirst[c]))
         /\ tries' = [tries EXCEPT ![c] = @ - 1]
    ELSE GoesTo(c, <<"raised">>) /\ tries' = tries

(***************************************************************************)
(* A PUT of little is sent at once, one of much after its folders are      *)
(* made; one of a stream that cannot be read again is not retried.         *)
(***************************************************************************)
Begin(c) ==
    \E new \in Puts \union {DeleteFolder}, first \in BOOLEAN, n \in {0, Retries} :
        /\ At(c, <<"idle">>)
        /\ n = 0 => new # DeleteFolder /\ ~first
        /\ GoesTo(c, Starts(new = DeleteFolder, first))
        /\ call' = [call EXCEPT ![c] = new]
        /\ putFirst' = [putFirst EXCEPT ![c] = first]
        /\ tries' = [tries EXCEPT ![c] = n]
        /\ UNCHANGED <<files, folders>>

(***************************************************************************)
(* MKCOL of each folder on the way; 201 and 405 go on.                     *)
(***************************************************************************)
After(n) == IF n = Depth THEN <<"send", "last">> ELSE <<"make", n + 1>>

MakeFolder(c, n) ==
    /\ At(c, <<"make", n>>)
    /\ folders >= n - 1
    /\ folders' = IF folders > n THEN folders ELSE n
    /\ GoesTo(c, After(n))
    /\ UNCHANGED <<files, call, putFirst, tries>>

(***************************************************************************)
(* Any request may be answered "locked", and a MKCOL or PUT below a folder *)
(* that is missing, or was just made, with 404 or 409.                     *)
(***************************************************************************)
UnderWay == {"make", "send", "find", "remove"}

Locked(c) ==
    /\ step[c][1] \in UnderWay
    /\ Again(c)
    /\ UNCHANGED <<files, folders, call, putFirst>>

ParentNotVisible(c) ==
    /\ step[c][1] \in {"make", "send"}
    /\ IF At(c, <<"send", "first">>)
       THEN GoesTo(c, <<"make", 1>>) /\ tries' = tries
       ELSE Again(c)
    /\ UNCHANGED <<files, folders, call, putFirst>>

(***************************************************************************)
(* PUT, with If-None-Match for a create.                                   *)
(***************************************************************************)
Place(c) ==
    /\ step[c][1] = "send" /\ folders = Depth
    /\ call[c].op = "create" => files[call[c].key] = Nothing
    /\ files' = [files EXCEPT ![call[c].key] = call[c].value]
    /\ GoesTo(c, <<"placed">>)
    /\ UNCHANGED <<folders, call, putFirst, tries>>

Exists(c) ==
    /\ step[c][1] = "send" /\ folders = Depth
    /\ call[c].op = "create" /\ files[call[c].key] # Nothing
    /\ GoesTo(c, <<"refused">>)
    /\ UNCHANGED <<files, folders, call, putFirst, tries>>

(***************************************************************************)
(* _delete_once: only a folder that is there is deleted, with all in it.   *)
(***************************************************************************)
Find(c) ==
    /\ At(c, <<"find">>)
    /\ GoesTo(c, IF folders = Depth THEN <<"remove">> ELSE <<"placed">>)
    /\ UNCHANGED <<files, folders, call, putFirst, tries>>

Remove(c) ==
    /\ At(c, <<"remove">>)
    /\ files' = [k \in Keys |-> Nothing]
    /\ folders' = IF folders = Depth THEN Depth - 1 ELSE folders
    /\ GoesTo(c, <<"placed">>)
    /\ UNCHANGED <<call, putFirst, tries>>

(***************************************************************************)
(* The answer comes, or is lost, or lacks the ETag; and any request may be *)
(* lost on its way.  All but the first raise ArchiveError: it is not known *)
(* whether the call took effect, and it is not sent again.                 *)
(***************************************************************************)
Answered(c) ==
    /\ At(c, <<"placed">>)
    /\ GoesTo(c, <<"ok">>)
    /\ UNCHANGED <<files, folders, call, putFirst, tries>>

LostAgain(c) ==
    /\ step[c][1] \in UnderWay \union {"placed"}
    /\ Again(c)
    /\ UNCHANGED <<files, folders, call, putFirst>>

Lost(c) ==
    /\ step[c][1] \in UnderWay \union {"placed"}
    /\ GoesTo(c, <<"raised">>)
    /\ UNCHANGED <<files, folders, call, putFirst, tries>>

Taken(c) ==
    /\ step[c][1] \in {"ok", "refused", "raised"}
    /\ GoesTo(c, <<"idle">>)
    /\ UNCHANGED <<files, folders, call, putFirst, tries>>

DavNext ==
    \E c \in Clients :
        \/ Begin(c) \/ Locked(c) \/ ParentNotVisible(c) \/ Place(c) \/ Exists(c) \/ Find(c) \/ Remove(c)
        \/ \E n \in 1..Depth : MakeFolder(c, n)
        \/ Answered(c) \/ Lost(c) \/ Taken(c)

(***************************************************************************)
(* The adapter is an object store like any other: between its beginning    *)
(* and its answer a call takes effect at one moment and once, a create     *)
(* that is refused did nothing, and one that raises may have had its       *)
(* effect.  So no create is refused because of its own file, retried or    *)
(* not.                                                                    *)
(***************************************************************************)
Phase ==
    [c \in Clients |->
        CASE step[c][1] \in UnderWay -> "begun"
          [] step[c][1] = "placed" -> "effective"
          [] OTHER -> step[c][1]]

Port == INSTANCE ObjectStore WITH Actors <- Clients, values <- files, phase <- Phase

DavImplementsPort == Port!Spec
=============================================================================
