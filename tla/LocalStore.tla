------------------------------ MODULE LocalStore ------------------------------
(***************************************************************************)
(* The folder of one record on the local disk                              *)
(* (persistence/adapters/localfs.py), call by call of the operating        *)
(* system, with what a power loss may leave of it.                         *)
(*                                                                         *)
(* A folder is an inode; the record's folder holds blobs and subfolders.   *)
(* Bytes are on disk before they are placed (the temp file is fsynced); a  *)
(* placement is an entry of a folder, on disk for certain only after an    *)
(* fsync of that folder.  disk[i] is the set of contents a power loss may  *)
(* leave of folder i: those it had since its last fsync.                   *)
(***************************************************************************)
EXTENDS Naturals

CONSTANTS
    Actors,    \* threads and processes that make calls
    Inodes,    \* bound: the folders that can be there at once
    Root,      \* the folder that holds the record's folder
    Record,    \* the name of the record's folder
    Doomed,    \* the reserved name a delete renames it to
    Subs,      \* the names of its subfolders
    Keys,      \* its blobs
    Values,    \* the bytes a blob may hold
    Home,      \* the folder each blob is in: Record or one of Subs
    Nothing    \* no folder, no blob

ASSUME HomeAssumption == Home \in [Keys -> Subs \union {Record}]
ASSUME NameAssumption ==
    /\ {Record, Doomed} \intersect Subs = {} /\ Record # Doomed
    /\ Keys \intersect (Subs \union {Record, Doomed}) = {}
ASSUME NothingAssumption ==
    /\ Root \notin Inodes /\ Nothing \notin Inodes \union {Root}
    /\ \A v \in Values : v # Nothing

VARIABLES
    dir,     \* the contents of every folder, as processes see them
    disk,    \* for every folder, what a power loss may leave of it
    pc,      \* where each actor stands in its call
    call,    \* the call of each actor
    hand     \* what it remembers: the folder of its temp file, the folders it found missing

storeVars == <<dir, disk, pc, call, hand>>

Folders == Inodes \union {Root}
Names == Subs \union {Record, Doomed}
Empty == [e \in Names \union Keys |-> Nothing]

Placings == {"look", "mkdir", "mkdirAbove", "mkdirAgain", "open", "place", "sync", "syncAbove"}
Removals == {"sweepOld", "rename", "syncRoot", "sweepNew"}
Outcomes == {"ok", "refused", "raised"}

-----------------------------------------------------------------------------
(* Paths *)

\* The folder that the path of `name` leads to in the tree t, or Nothing.
At(t, name) ==
    LET top == t[Root][Record] IN
    IF name = Record THEN top
    ELSE IF top = Nothing THEN Nothing ELSE t[top][name]

Above(name) == IF name = Record THEN Root ELSE At(dir, Record)

\* What a read of k finds (read, exists, list_entries).
Read(k) ==
    LET i == At(dir, Home[k]) IN IF i = Nothing THEN Nothing ELSE dir[i][k]

Missing(name) == {n \in {name, Record} : At(dir, n) = Nothing}

\* The folders a content of i leads to, and below.
Below(i) == ({i} \union {dir[i][s] : s \in Subs}) \ {Nothing}

\* An inode nobody can reach, whatever a power loss leaves.
Free(i) ==
    /\ \A f \in Folders, n \in Names : \A c \in disk[f] \union {dir[f]} : c[n] # i
    /\ \A a \in Actors : hand[a].leaf # i

Changed(i, content) ==
    /\ dir' = [dir EXCEPT ![i] = content]
    /\ disk' = [disk EXCEPT ![i] = @ \union {content}]

Fsync(i) == disk' = [disk EXCEPT ![i] = {dir[i]}] /\ UNCHANGED dir

Moves(a, from, to) == pc[a] = from /\ pc' = [pc EXCEPT ![a] = to]

NoHand == [leaf |-> Nothing, made |-> {}]

StoreInit ==
    /\ dir = [i \in Folders |-> Empty]
    /\ disk = [i \in Folders |-> {Empty}]
    /\ pc = [a \in Actors |-> "idle"]
    /\ call = [a \in Actors |-> [op |-> "delete"]]
    /\ hand = [a \in Actors |-> NoHand]

-----------------------------------------------------------------------------
(* _commit: write_atomic, create, create_large *)

Begin(a, c) ==
    /\ Moves(a, "idle", IF c.op = "delete" THEN "sweepOld" ELSE "look")
    /\ call' = [call EXCEPT ![a] = c]
    /\ UNCHANGED <<dir, disk, hand>>

Leaf(a) == Home[call[a].key]

\* _make_parents first notes which folders of the path are missing.
Look(a) ==
    /\ Moves(a, "look", "mkdir")
    /\ hand' = [hand EXCEPT ![a].made = Missing(Leaf(a))]
    /\ UNCHANGED <<dir, disk, call>>

\* A folder appears under its name; whatever its inode held before is forgotten.
Appears(name) ==
    \E i \in {j \in Inodes : Free(j)} :
        LET above == Above(name)
            content == [dir[above] EXCEPT ![name] = i]
        IN  /\ dir' = [dir EXCEPT ![i] = Empty, ![above] = content]
            /\ disk' = [disk EXCEPT ![i] = {Empty}, ![above] = @ \union {content}]

MadeOrThere(name) ==
    /\ Above(name) # Nothing
    /\ IF At(dir, name) = Nothing THEN Appears(name) ELSE UNCHANGED <<dir, disk>>

\* mkdir(parents=True, exist_ok=True): the folder, else the one above it, then the folder again.
MakeLeaf(a) ==
    /\ \/ Moves(a, "mkdir", "open") /\ MadeOrThere(Leaf(a))
       \/ Moves(a, "mkdir", "mkdirAbove") /\ Above(Leaf(a)) = Nothing /\ UNCHANGED <<dir, disk>>
    /\ UNCHANGED <<call, hand>>

MakeAbove(a) ==
    /\ Moves(a, "mkdirAbove", "mkdirAgain")
    /\ MadeOrThere(Record)
    /\ UNCHANGED <<call, hand>>

MakeAgain(a) ==
    /\ \/ Moves(a, "mkdirAgain", "open") /\ MadeOrThere(Leaf(a))
       \/ Moves(a, "mkdirAgain", "raised") /\ Above(Leaf(a)) = Nothing /\ UNCHANGED <<dir, disk>>
    /\ UNCHANGED <<call, hand>>

\* The temp file, written and fsynced; its name is reserved.
Open(a) ==
    LET i == At(dir, Leaf(a)) IN
    /\ \/ Moves(a, "open", "place") /\ i # Nothing /\ hand' = [hand EXCEPT ![a].leaf = i]
       \/ Moves(a, "open", "raised") /\ i = Nothing /\ UNCHANGED hand
    /\ UNCHANGED <<dir, disk, call>>

\* Whether the path of the temp file still leads to it.
Reaches(a) == At(dir, Leaf(a)) = hand[a].leaf

Taken(a) == dir[hand[a].leaf][call[a].key] # Nothing

\* Mutant: a create renames as well, and replaces what another create placed.
PlaceByRename(a) ==
    /\ Moves(a, "place", "sync")
    /\ Reaches(a)
    /\ Changed(hand[a].leaf, [dir[hand[a].leaf] EXCEPT ![call[a].key] = call[a].value])
    /\ hand' = [hand EXCEPT ![a].leaf = Nothing]
    /\ UNCHANGED call

\* The temp file's rename, or its link, which refuses a taken name.
Place(a) ==
    /\ Moves(a, "place", "sync")
    /\ Reaches(a)
    /\ call[a].op = "create" => ~Taken(a)
    /\ Changed(hand[a].leaf, [dir[hand[a].leaf] EXCEPT ![call[a].key] = call[a].value])
    /\ hand' = [hand EXCEPT ![a].leaf = Nothing]
    /\ UNCHANGED call

Refuse(a) ==
    /\ Moves(a, "place", "refused")
    /\ Reaches(a) /\ call[a].op = "create" /\ Taken(a)
    /\ UNCHANGED <<dir, disk, call, hand>>

PlaceFails(a) ==
    /\ Moves(a, "place", "raised")
    /\ ~Reaches(a)
    /\ UNCHANGED <<dir, disk, call, hand>>

\* _fsync_dir opens the folder by its path.
Sync(a) ==
    LET i == At(dir, Leaf(a)) IN
    /\ \/ Moves(a, "sync", "syncAbove") /\ i # Nothing /\ Fsync(i)
       \/ Moves(a, "sync", "raised") /\ i = Nothing /\ UNCHANGED <<dir, disk>>
    /\ UNCHANGED <<call, hand>>

\* Each folder it found missing has the one above fsynced, the deepest first.
SyncAbove(a) ==
    \E name \in hand[a].made :
        /\ name = Record => hand[a].made = {Record}
        /\ \/ /\ Moves(a, "syncAbove", "syncAbove") /\ Above(name) # Nothing
              /\ Fsync(Above(name))
              /\ hand' = [hand EXCEPT ![a].made = @ \ {name}]
           \/ /\ Moves(a, "syncAbove", "raised") /\ Above(name) = Nothing
              /\ UNCHANGED <<dir, disk, hand>>
        /\ UNCHANGED call

\* Mutant: the folders above are not fsynced.
PlacedAtOnce(a) == Moves(a, "syncAbove", "ok") /\ UNCHANGED <<dir, disk, call, hand>>

Placed(a) ==
    /\ Moves(a, "syncAbove", "ok")
    /\ hand[a].made = {}
    /\ UNCHANGED <<dir, disk, call, hand>>

-----------------------------------------------------------------------------
(* delete_prefix *)

\* _remove_tree of what a delete left under the reserved name, if anything.
Removed ==
    LET i == dir[Root][Doomed] IN
    IF i = Nothing THEN UNCHANGED <<dir, disk>>
    ELSE LET content == [dir[Root] EXCEPT ![Doomed] = Nothing] IN
         /\ dir' = [f \in Folders |->
                IF f = Root THEN content ELSE IF f \in Below(i) THEN Empty ELSE dir[f]]
         /\ disk' = [f \in Folders |->
                IF f = Root THEN disk[f] \union {content}
                ELSE IF f \in Below(i) THEN disk[f] \union {Empty} ELSE disk[f]]

SweepOld(a) == Moves(a, "sweepOld", "rename") /\ Removed /\ UNCHANGED <<call, hand>>

\* One rename takes the whole folder out of sight.
Rename(a) ==
    LET i == At(dir, Record) IN
    /\ \/ /\ Moves(a, "rename", "syncRoot") /\ i # Nothing /\ dir[Root][Doomed] = Nothing
          /\ Changed(Root, [dir[Root] EXCEPT ![Record] = Nothing, ![Doomed] = i])
       \/ Moves(a, "rename", "return") /\ i = Nothing /\ UNCHANGED <<dir, disk>>
       \* Another delete's leftover came in between.
       \/ Moves(a, "rename", "raised") /\ i # Nothing /\ dir[Root][Doomed] # Nothing
          /\ UNCHANGED <<dir, disk>>
    /\ UNCHANGED <<call, hand>>

\* Mutant: the rename is not fsynced.
SyncNothing(a) == Moves(a, "syncRoot", "sweepNew") /\ UNCHANGED <<dir, disk, call, hand>>

SyncRoot(a) == Moves(a, "syncRoot", "sweepNew") /\ Fsync(Root) /\ UNCHANGED <<call, hand>>

SweepNew(a) == Moves(a, "sweepNew", "return") /\ Removed /\ UNCHANGED <<call, hand>>

Return(a) == Moves(a, "return", "ok") /\ UNCHANGED <<dir, disk, call, hand>>

-----------------------------------------------------------------------------
(* Failures *)

\* A call of the operating system fails (_backend maps it), at any step.
Raises(a) ==
    /\ pc[a] \in Placings \union Removals
    /\ pc' = [pc EXCEPT ![a] = "raised"]
    /\ UNCHANGED <<dir, disk, call, hand>>

\* The process stops; what it did stays, its temp files are reserved names.
StoreStops ==
    /\ pc' = [a \in Actors |-> "idle"]
    /\ hand' = [a \in Actors |-> NoHand]
    /\ UNCHANGED <<dir, disk, call>>

\* The machine stops: each folder as it was at some moment since its last fsync.
LosesPower ==
    LET Unsure == {i \in Folders : disk[i] # {dir[i]}} IN
    /\ \E left \in [Unsure -> UNION {disk[i] : i \in Unsure}] :
        /\ \A i \in Unsure : left[i] \in disk[i]
        /\ dir' = [i \in Folders |-> IF i \in Unsure THEN left[i] ELSE dir[i]]
    /\ disk' = [i \in Folders |-> {dir'[i]}]
    /\ pc' = [a \in Actors |-> "idle"]
    /\ hand' = [a \in Actors |-> NoHand]
    /\ UNCHANGED call

\* The caller takes the answer.
Takes(a) ==
    /\ pc[a] \in Outcomes
    /\ pc' = [pc EXCEPT ![a] = "idle"]
    /\ hand' = [hand EXCEPT ![a] = NoHand]
    /\ UNCHANGED <<dir, disk, call>>

Steps(a) ==
    \/ Look(a) \/ MakeLeaf(a) \/ MakeAbove(a) \/ MakeAgain(a) \/ Open(a)
    \/ Place(a) \/ Refuse(a) \/ PlaceFails(a) \/ Sync(a) \/ SyncAbove(a) \/ Placed(a)
    \/ SweepOld(a) \/ Rename(a) \/ SyncRoot(a) \/ SweepNew(a) \/ Return(a)

-----------------------------------------------------------------------------
(* Refinement *)

Phase(p) ==
    CASE p \in {"idle", "ok", "refused", "raised"} -> p
      [] p \in {"sync", "syncAbove", "syncRoot", "sweepNew", "return"} -> "effective"
      [] OTHER -> "begun"

Port == INSTANCE ObjectStore WITH
    values <- [k \in Keys |-> Read(k)],
    phase <- [a \in Actors |-> Phase(pc[a])]

(***************************************************************************)
(* Every call takes effect for all keys at one moment between its          *)
(* beginning and its answer: of creates of one key one wins, a delete      *)
(* takes the whole folder, and what raises or dies half way has had its    *)
(* whole effect or none.                                                   *)
(***************************************************************************)
ImplementsPort == Port!Spec
=============================================================================
