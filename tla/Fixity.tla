------------------------------- MODULE Fixity --------------------------------
(***************************************************************************)
(* The fixity check (persistence/fixity.py): the monthly walk that holds   *)
(* every README version against the files it names, while saves, uploads   *)
(* and hard deletes go on and bytes on the disk are lost.                  *)
(*                                                                         *)
(* A record is a folder: its README, the versions that one replaced and,   *)
(* for an Article, its media.  A media file's name stands for its bytes    *)
(* as well: two uploads under one name get two names (ADR 0019).           *)
(***************************************************************************)
EXTENDS Naturals, FiniteSets, Functions

CONSTANTS
    Articles,
    Collections,
    Names,       \* media files
    MaxWrites,   \* bound: files placed, saves begun, hard deletes
    MaxDamages,  \* bound: files damaged or lost and saves cut short
    Garbage,     \* bytes that are no README version, nor what any version states the hash of
    NoRead,      \* bytes the disk does not give back
    Nobody

VARIABLES
    tree,    \* folder -> key -> content: the bytes of a media file, a README's version
    writer,  \* the save that holds the writer lock, or Nobody
    check,   \* the check that runs, or ran
    writes, damages

fixityVars == <<tree, writer, check, writes, damages>>

Folders == Articles \union Collections
Readme == <<"README.md">>
HistoryKey(n) == <<"history", n>>
MediaKey(name) == <<"media", name>>
IsHistoryKey(k) == k[1] = "history"

Empty == [k \in {} |-> Garbage]
With(files, k, content) == [x \in DOMAIN files \union {k} |-> IF x = k THEN content ELSE files[x]]
Lacking(files, k) == Restrict(files, DOMAIN files \ {k})
Stored(c) == c[2] \in DOMAIN tree[c[1]]
Bytes(c) == tree[c[1]][c[2]]
Decodes(c) == Stored(c) /\ Bytes(c) \notin {Garbage, NoRead}

Running == check.pc \in {"records", "hash"}

FixityInit ==
    /\ tree = [f \in Folders |-> Empty]
    /\ writer = Nobody
    /\ check = [pc |-> "none"]
    /\ writes = 0
    /\ damages = 0

(* A folder changes; the check marks it and what stays damaged, for the    *)
(* property alone.                                                         *)
Becomes(f, files) ==
    /\ tree' = [tree EXCEPT ![f] = files]
    /\ check' = IF check.pc = "none" THEN check
                ELSE [check EXCEPT !.touched = @ \union {f},
                                   !.rotten = {c \in @ : c[1] = f => c[2] \in DOMAIN files /\ files[c[2]] = Garbage}]

Write == writes < MaxWrites /\ writes' = writes + 1
Damage == damages < MaxDamages /\ damages' = damages + 1

(* _place: a name that is free, without the writer lock.                   *)
Place(f, name) ==
    /\ Write
    /\ ~Stored(<<f, MediaKey(name)>>)
    /\ Becomes(f, With(tree[f], MediaKey(name), name))
    /\ UNCHANGED <<writer, damages>>

(* commit: every file stored; the version that is replaced is kept under   *)
(* history, then the README is written.                                    *)
BeginSave(f, names) ==
    LET readme == <<f, Readme>>
        version == IF Stored(readme) THEN Bytes(readme).version ELSE 0
        kept == HistoryKey(version) IN
    /\ Write /\ writer = Nobody
    /\ Stored(readme) => Decodes(readme)
    /\ \A name \in names : Stored(<<f, MediaKey(name)>>)
    /\ IF version = 0
       THEN UNCHANGED <<tree, check>>
       ELSE /\ Stored(<<f, kept>>) => tree[f][kept] = Bytes(readme)
            /\ Becomes(f, With(tree[f], kept, Bytes(readme)))
    /\ writer' = [folder |-> f, states |-> [version |-> version + 1, names |-> names]]
    /\ UNCHANGED damages

Commit ==
    /\ writer # Nobody
    /\ Becomes(writer.folder, With(tree[writer.folder], Readme, writer.states))
    /\ writer' = Nobody
    /\ UNCHANGED <<writes, damages>>

(* The README's write fails, or its process dies.                          *)
CutShort ==
    /\ Damage /\ writer # Nobody
    /\ writer' = Nobody
    /\ UNCHANGED <<tree, check, writes>>

(* A folder without a README goes unchecked.                               *)
HardDelete(f) ==
    /\ Write /\ writer = Nobody
    /\ Stored(<<f, Readme>>) => Decodes(<<f, Readme>>)
    /\ Becomes(f, Empty)
    /\ UNCHANGED <<writer, damages>>

(* The disk: a file's bytes change, cannot be read any more, or are gone.  *)
Rot(f, k) ==
    /\ Damage
    /\ \E files \in {With(tree[f], k, Garbage), With(tree[f], k, NoRead), Lacking(tree[f], k)} :
          Becomes(f, files)
    /\ UNCHANGED <<writer, writes>>

-----------------------------------------------------------------------------
(***************************************************************************)
(* verify: list every key; record by record list its history and read its  *)
(* versions, the README first; then hash the files they name.              *)
(***************************************************************************)
Keys == UNION {{f} \X DOMAIN tree[f] : f \in Folders}

(* What decodes names its files; a Collection's version names none.        *)
NamedBy(c) == IF Decodes(c) THEN {<<c[1], MediaKey(name)>> : name \in Bytes(c).names} ELSE {}

StartCheck ==
    /\ ~Running
    /\ check' = [pc |-> "records", stored |-> Keys,
                 todo |-> {f \in Folders : <<f, Readme>> \in Keys}, reading |-> {},
                 versions |-> {}, unreadable |-> {}, named |-> {}, hashing |-> {}, hashes |-> Empty,
                 touched |-> {}, rotten |-> {c \in Keys : Bytes(c) = Garbage}]
    /\ UNCHANGED <<tree, writer, writes, damages>>

(* _records and _history: the next record, and its versions as listed now. *)
ReadmeAlone(f) == {<<f, Readme>>}

VersionsOf(f) == {<<f, Readme>>} \union {c \in {f} \X DOMAIN tree[f] : IsHistoryKey(c[2])}

NextRecord(f) ==
    /\ check.pc = "records" /\ check.reading = {} /\ f \in check.todo
    /\ check' = [check EXCEPT !.todo = @ \ {f}, !.reading = VersionsOf(f)]
    /\ UNCHANGED <<tree, writer, writes, damages>>

ReadVersion(c) ==
    /\ check.pc = "records" /\ c \in check.reading
    /\ <<c[1], Readme>> \in check.reading => c[2] = Readme
    /\ check' = [check EXCEPT
          !.reading = @ \ {c},
          !.versions = @ \union {c},
          !.unreadable = IF Decodes(c) THEN @ ELSE @ \union {c},
          !.named = @ \union NamedBy(c)]
    /\ UNCHANGED <<tree, writer, writes, damages>>

StartHashing ==
    /\ check.pc = "records" /\ check.todo = {} /\ check.reading = {}
    /\ check' = [check EXCEPT !.pc = "hash", !.hashing = check.named \intersect check.stored]
    /\ UNCHANGED <<tree, writer, writes, damages>>

(* _hashes: a file that is gone by now is skipped.                         *)
Hash(c) ==
    /\ check.pc = "hash" /\ c \in check.hashing
    /\ check' = [check EXCEPT
          !.hashing = @ \ {c},
          !.hashes = IF Stored(c) THEN With(@, c, Bytes(c)) ELSE @]
    /\ UNCHANGED <<tree, writer, writes, damages>>

(* Report: each finding is a key.                                          *)
ReportOf(c) ==
    [unreadable_readmes |-> c.unreadable,
     unreadable_files |-> {x \in DOMAIN c.hashes : c.hashes[x] = NoRead},
     altered |-> {x \in DOMAIN c.hashes : c.hashes[x] \notin {NoRead, x[2][2]}},
     missing |-> c.named \ DOMAIN c.hashes,
     unreferenced |-> c.stored \ (c.versions \union c.named)]

EndCheck ==
    /\ check.pc = "hash" /\ check.hashing = {}
    /\ check' = [pc |-> "done", report |-> ReportOf(check), touched |-> check.touched,
                 rotten |-> check.rotten]
    /\ UNCHANGED <<tree, writer, writes, damages>>

FixityNext ==
    \/ \E f \in Articles, name \in Names : Place(f, name)
    \/ \E f \in Folders, names \in SUBSET Names : (f \in Collections => names = {}) /\ BeginSave(f, names)
    \/ Commit \/ CutShort
    \/ \E f \in Articles : HardDelete(f)
    \/ \E f \in Folders : \E k \in DOMAIN tree[f] : Rot(f, k)
    \/ StartCheck \/ StartHashing \/ EndCheck
    \/ \E f \in Folders : NextRecord(f)
    \/ check.pc = "records" /\ \E c \in check.reading : ReadVersion(c)
    \/ check.pc = "hash" /\ \E c \in check.hashing : Hash(c)

-----------------------------------------------------------------------------
(***************************************************************************)
(* What is wrong with a folder, from the canonical tree alone: what a      *)
(* version names is what keeps a file from being one without a reference.  *)
(***************************************************************************)
Faults(f) ==
    LET stored == {f} \X DOMAIN tree[f]
        versions == IF Stored(<<f, Readme>>) THEN {c \in stored : c[2] = Readme \/ IsHistoryKey(c[2])} ELSE {}
        named == UNION {NamedBy(c) : c \in versions} IN
    [unreadable_readmes |-> {c \in versions : ~Decodes(c)},
     unreadable_files |-> {c \in named \intersect stored : Bytes(c) = NoRead},
     altered |-> {c \in named \intersect stored : Bytes(c) = Garbage},
     missing |-> named \ stored,
     unreferenced |-> stored \ (versions \union named)]

(***************************************************************************)
(* A check that ran tells all that is wrong with the folders nobody wrote  *)
(* meanwhile, and nothing else of them, whatever went on in other folders; *)
(* "a save or a delete racing the check can show as a finding that the     *)
(* next check no longer reports" (fixity.py), but no write hides a damaged *)
(* file: one damaged from the check's start to its end is found.           *)
(***************************************************************************)
FindingsExact ==
    check.pc = "done" =>
        /\ \A f \in Folders \ check.touched, kind \in DOMAIN check.report :
              {c \in check.report[kind] : c[1] = f} = Faults(f)[kind]
        /\ \A c \in check.rotten : \E kind \in DOMAIN check.report : c \in check.report[kind]
=============================================================================
