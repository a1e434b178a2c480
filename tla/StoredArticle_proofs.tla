------------------------- MODULE StoredArticle_proofs -------------------------
(***************************************************************************)
(* Proofs about StoredArticle: for every number of requests, files and     *)
(* folders the adapter does what the port promises, a delete that was      *)
(* answered is final, and a save whose caller was told it stands survives  *)
(* a power loss.                                                           *)
(***************************************************************************)
EXTENDS StoredArticle, TLAPS

-----------------------------------------------------------------------------
(* Names for what the invariant speaks of                                  *)

Content ==
    {c \in [Names \union Keys -> Inodes \union Values \union {Nothing}] :
        /\ \A n \in Names : c[n] \in Inodes \union {Nothing}
        /\ \A k \in Keys : c[k] \in Values \union {Nothing}}

Calls == [op : {"create", "replace"}, key : Keys, value : Values] \union [op : {"delete"}]

States == {"idle", "return"} \union Placings \union Removals \union Outcomes
Unplaced == {"look", "mkdir", "mkdirAbove", "mkdirAgain", "open", "place"}
Stations == {"idle", "placing", "loading", "saving", "writing", "deleting", "removing"}

(* The folder of the Article and of its media, as processes see them.      *)
Top == dir[Root][Record]
MediaFolder == dir[Top][Media]

NoReadme(root) == \A record \in Left(root, Record) : record[Readme] = Nothing
Gone == \A root \in disk[Root] : NoReadme(root)

Owed == UNION {Owes(a) : a \in Actors}

(* What an fsync of the Article's folder has made of a README with these   *)
(* files: it or a later one is on disk, and the entry of the media folder. *)
Covered(files) ==
    /\ Read(Readme) # Nothing
    /\ \A c \in disk[Top] :
        /\ c[Readme] # Nothing /\ files \subseteq c[Readme]
        /\ files # {} => c[Media] # Nothing /\ c[Media] = MediaFolder

-----------------------------------------------------------------------------
(* The folders: their types, and that no folder is in two places.          *)

StoreTypes ==
    /\ dir \in [Folders -> Content]
    /\ disk \in [Folders -> SUBSET Content]
    /\ pc \in [Actors -> States]
    /\ call \in [Actors -> Calls]
    /\ hand \in [Actors -> [leaf : Inodes \union {Nothing}, made : SUBSET Names]]

Tree ==
    /\ \A f \in Folders : dir[f] \in disk[f]
    /\ \A f, g \in Folders : \A c \in disk[f], d \in disk[g] : \A n, m \in Names :
        c[n] # Nothing /\ c[n] = d[m] => f = g
    /\ \A f \in Folders : \A c \in disk[f] : \A n, m \in Names :
        c[n] # Nothing /\ c[n] = c[m] => n = m

InCall(a) ==
    /\ pc[a] \in Placings => call[a].op \in {"create", "replace"}
    /\ pc[a] \in Removals \union {"return"} => call[a].op = "delete"
    /\ pc[a] = "refused" => call[a].op = "create"
    /\ pc[a] = "place" => hand[a].leaf # Nothing

StoreInv == StoreTypes /\ Tree /\ \A a \in Actors : InCall(a)

-----------------------------------------------------------------------------
(* The requests                                                            *)

RequestTypes ==
    /\ lock \in Actors \union {NoActor}
    /\ at \in [Actors -> Stations]
    /\ job \in [Actors -> [file : Files \union {Nothing}, loaded : Values \union {Nothing},
                           wanted : SUBSET Files]]
    /\ promised \in Values \union {Nothing}
    /\ gone \in BOOLEAN
    /\ cut \subseteq Keys \union {Record}
    /\ requests \in Nat /\ failures \in Nat

(* Where a request stands is where its call stands; the lock is held for   *)
(* the whole call of a save and of a delete.                               *)
InRequest(a) ==
    /\ at[a] \in {"idle", "loading", "saving", "deleting"} => pc[a] = "idle"
    /\ at[a] \in {"placing", "loading"} => job[a].file \in Files
    /\ at[a] = "placing" =>
        /\ pc[a] \in Placings \union Outcomes
        /\ call[a] = [op |-> "create", key |-> job[a].file, value |-> Bytes(job[a].file)]
    /\ at[a] = "writing" =>
        /\ pc[a] \in Placings \union {"ok", "raised"} /\ lock = a
        /\ call[a] = [op |-> "replace", key |-> Readme, value |-> job[a].wanted]
    /\ at[a] = "removing" =>
        /\ pc[a] \in Removals \union {"return", "ok", "raised"} /\ lock = a
        /\ call[a] = [op |-> "delete"]

(* Nothing is there before the first request.                              *)
Unborn ==
    requests = 0 =>
        /\ disk[Root] = {Empty} /\ promised = Nothing /\ ~gone
        /\ \A a \in Actors : at[a] = "idle"

(* A save that loaded no README is the first request, and alone until it   *)
(* has placed one.                                                         *)
Creating(a) ==
    at[a] \in {"saving", "writing"} /\ job[a].loaded = Nothing =>
        /\ promised = Nothing /\ ~gone
        /\ at[a] = "saving" \/ pc[a] \in Unplaced =>
            /\ \A k \in Keys : Read(k) = Nothing
            /\ \A b \in Actors \ {a} : at[b] = "idle"
        /\ at[a] = "saving" \/ pc[a] = "look" => Top = Nothing
        /\ at[a] = "writing" /\ pc[a] \in Unplaced \ {"look"} => Record \in hand[a].made

(* What a save found under the lock stays until it has placed its README.  *)
Saving(a) ==
    /\ at[a] \in {"saving", "writing"} /\ job[a].loaded # Nothing => job[a].loaded \subseteq job[a].wanted
    /\ at[a] = "writing" => ~gone
    /\ at[a] = "writing" => \A f \in job[a].wanted : Stored(f)
    /\ at[a] = "writing" /\ pc[a] \in Unplaced => Read(Readme) = job[a].loaded
    /\ at[a] = "writing" /\ pc[a] = "sync" => Read(Readme) = job[a].wanted
    /\ at[a] = "writing" /\ pc[a] \in {"syncAbove", "ok"} => Covered(job[a].wanted)

(* Only the first save finds the Article's folder missing, or an upload    *)
(* that comes after a delete.                                              *)
Making(a) ==
    /\ pc[a] \in Placings /\ Record \in hand[a].made /\ Read(Readme) # Nothing =>
        at[a] = "writing" /\ job[a].loaded = Nothing
    /\ pc[a] \in {"idle", "look"} => hand[a].made = {}

Removing(a) ==
    at[a] = "removing" =>
        /\ promised = Nothing
        /\ pc[a] \in {"sweepOld", "rename"} /\ job[a].loaded # Nothing => Read(Readme) # Nothing
        /\ pc[a] = "syncRoot" => NoReadme(dir[Root])
        /\ pc[a] \in {"sweepNew", "return", "ok"} /\ job[a].loaded # Nothing => Gone

(* A README that is there is in a folder that is on disk, unless whoever   *)
(* made the folder has yet to fsync the one above or was cut off.          *)
FolderOnDisk ==
    Read(Readme) # Nothing /\ Record \notin cut \union Owed =>
        \A root \in disk[Root] : root[Record] = Top

(* So with a file that is there.                                           *)
FilesOnDisk ==
    Read(Readme) # Nothing =>
        \A f \in Files \ (cut \union Owed) :
            Stored(f) => \A c \in disk[MediaFolder] : c[f] = Bytes(f)

Promised ==
    promised # Nothing /\ Record \notin cut =>
        /\ Covered(promised)
        /\ \A f \in promised \ cut : Stored(f)

Requests ==
    /\ RequestTypes /\ Unborn
    /\ \A a \in Actors : InRequest(a) /\ Creating(a) /\ Saving(a) /\ Making(a) /\ Removing(a)

Durable == FolderOnDisk /\ FilesOnDisk /\ Promised /\ (gone => Gone)

IInv == StoreInv /\ Requests /\ Durable

-----------------------------------------------------------------------------
(***************************************************************************)
(* Names and contents                                                      *)
(***************************************************************************)
LEMMA Naming ==
    /\ Record \in Names /\ Doomed \in Names /\ Media \in Names /\ Subs \subseteq Names
    /\ Media \in Subs /\ Record \notin Subs /\ Doomed \notin Subs
    /\ Record # Doomed /\ Record # Media /\ Doomed # Media
    /\ \A n \in Names, k \in Keys : n # k
    /\ Readme \in Keys /\ Files \subseteq Keys /\ Readme \notin Files
    /\ \A k \in Keys : k # Readme => k \in Files
BY NameAssumption, ArticleAssumption DEF Names

LEMMA Homes == Home[Readme] = Record /\ \A f \in Files : Home[f] = Media
BY Naming, ArticleAssumption

LEMMA Nowhere ==
    /\ Root \in Folders /\ Root \notin Inodes /\ Root # Nothing /\ Inodes \subseteq Folders
    /\ Nothing \notin Inodes /\ Nothing \notin Values /\ Nothing \notin Folders
BY NothingAssumption DEF Folders

LEMMA BytesAreValues == \A f \in Files : Bytes(f) \in Values /\ Bytes(f) # Nothing
BY Nowhere, ArticleAssumption DEF Bytes

LEMMA ContentParts ==
    ASSUME NEW c \in Content
    PROVE  /\ \A n \in Names : c[n] \in Inodes \union {Nothing}
           /\ \A k \in Keys : c[k] \in Values \union {Nothing}
BY DEF Content

LEMMA Emptiness ==
    /\ Empty \in Content
    /\ \A n \in Names : Empty[n] = Nothing
    /\ \A k \in Keys : Empty[k] = Nothing
BY DEF Empty, Content

LEMMA Relinked ==
    ASSUME NEW c \in Content, NEW n \in Names, NEW i \in Inodes \union {Nothing},
           NEW d, d = [c EXCEPT ![n] = i]
    PROVE  /\ d \in Content
           /\ d[n] = i
           /\ \A m \in Names : m # n => d[m] = c[m]
           /\ \A k \in Keys : d[k] = c[k]
BY Naming DEF Content

-----------------------------------------------------------------------------
(***************************************************************************)
(* Folders                                                                 *)
(***************************************************************************)
FolderTypes == dir \in [Folders -> Content] /\ disk \in [Folders -> SUBSET Content]
FolderInv == FolderTypes /\ Tree

LEMMA ReadsAre ==
    /\ Read(Readme) = IF Top = Nothing THEN Nothing ELSE dir[Top][Readme]
    /\ \A f \in Files :
        Read(f) = IF Top = Nothing \/ MediaFolder = Nothing THEN Nothing ELSE dir[MediaFolder][f]
BY Homes, Naming DEF Read, At, Top, MediaFolder

LEMMA PathsAre ==
    /\ At(dir, Record) = Top /\ Above(Record) = Root
    /\ Above(Media) = Top
    /\ At(dir, Media) = IF Top = Nothing THEN Nothing ELSE MediaFolder
BY Naming DEF At, Above, Top, MediaFolder

LEMMA Walks ==
    ASSUME FolderTypes
    PROVE  /\ Top \in Inodes \union {Nothing}
           /\ Top # Nothing => MediaFolder \in Inodes \union {Nothing}
           /\ dir[Root] \in Content /\ (Top # Nothing => dir[Top] \in Content)
BY Naming, Nowhere, ContentParts DEF FolderTypes, Top, MediaFolder

LEMMA NoReadmeIs ==
    ASSUME NEW root
    PROVE  NoReadme(root) <=>
              root[Record] = Nothing \/ \A c \in disk[root[Record]] : c[Readme] = Nothing
BY Emptiness, Naming DEF NoReadme, Left

LEMMA NoReadmeNext ==
    ASSUME NEW root
    PROVE  NoReadme(root)' <=>
              root[Record] = Nothing \/ \A c \in disk'[root[Record]] : c[Readme] = Nothing
BY Emptiness, Naming DEF NoReadme, Left

LEMMA ReadsNext ==
    /\ Read(Readme)' = IF Top' = Nothing THEN Nothing ELSE dir'[Top'][Readme]
    /\ \A f \in Files :
        Read(f)' = IF Top' = Nothing \/ MediaFolder' = Nothing THEN Nothing
                   ELSE dir'[MediaFolder'][f]
BY Homes, Naming DEF Read, At, Top, MediaFolder

(* A tree has its folders on disk as they are, or as they were.            *)
LEMMA NoneWhenGone ==
    ASSUME FolderInv, NoReadme(dir[Root])
    PROVE  Read(Readme) = Nothing
<1>1. Top = Nothing \/ dir[Top][Readme] = Nothing
      BY Walks, NoReadmeIs, Nowhere DEF FolderInv, Tree, Top
<1>. QED BY <1>1, ReadsAre

LEMMA Apart ==
    ASSUME FolderInv, Top # Nothing
    PROVE  /\ Top # Root
           /\ MediaFolder # Nothing => MediaFolder # Top /\ MediaFolder # Root
           /\ dir[Root][Doomed] # Nothing => Top \notin Below(dir[Root][Doomed])
           /\ dir[Root][Doomed] # Nothing /\ MediaFolder # Nothing =>
                 MediaFolder \notin Below(dir[Root][Doomed])
           /\ dir[Root][Doomed] # Nothing => Root \notin Below(dir[Root][Doomed])
<1>. DEFINE i == dir[Root][Doomed]
<1>1. /\ Top \in Inodes /\ MediaFolder \in Inodes \union {Nothing} /\ i \in Inodes \union {Nothing}
      /\ dir[Root] \in Content /\ dir[Top] \in Content
      BY Walks, ContentParts, Naming DEF FolderInv
<1>2. Top # Root BY <1>1, Nowhere
<1>3. /\ dir[Root] \in disk[Root] /\ dir[Top] \in disk[Top]
      /\ Root \in Folders /\ Top \in Folders
      BY <1>1, Nowhere DEF FolderInv, Tree
<1>4. MediaFolder # Nothing => MediaFolder # Top /\ MediaFolder # Root
      BY <1>1, <1>2, <1>3, Nowhere, Naming DEF FolderInv, Tree, Top, MediaFolder
<1>5. ASSUME i # Nothing
      PROVE  /\ Top \notin Below(i) /\ Root \notin Below(i)
             /\ MediaFolder # Nothing => MediaFolder \notin Below(i)
  <2>1. i \in Inodes /\ i \in Folders /\ dir[i] \in disk[i] /\ dir[i] \in Content
        BY <1>1, <1>5, Nowhere DEF FolderInv, Tree, FolderTypes
  <2>2. i # Root BY <2>1, Nowhere
  <2>3. i # Top
        BY <1>1, <1>3, Naming, Nowhere DEF FolderInv, Tree, Top
  <2>4. ASSUME NEW s \in Subs, dir[i][s] # Nothing
        PROVE  /\ dir[i][s] # Root /\ dir[i][s] # Top
               /\ MediaFolder # Nothing => dir[i][s] # MediaFolder
    <3>1. s \in Names /\ dir[i][s] \in Inodes BY <2>1, <2>4, Naming, ContentParts
    <3>2. dir[i][s] # Top BY <1>3, <2>1, <2>2, <2>4, <3>1, Naming DEF FolderInv, Tree, Top
    <3>3. MediaFolder # Nothing => dir[i][s] # MediaFolder
          BY <1>3, <2>1, <2>3, <2>4, <3>1, Naming DEF FolderInv, Tree, MediaFolder
    <3>. QED BY <3>1, <3>2, <3>3, Nowhere
  <2>5. MediaFolder # Nothing => MediaFolder # i
        BY <1>2, <1>3, <1>5, Naming DEF FolderInv, Tree, MediaFolder
  <2>. QED BY <2>2, <2>3, <2>4, <2>5 DEF Below
<1>. QED BY <1>2, <1>4, <1>5

(* Folders keep their tree when every content on disk has its entries from *)
(* one that was there, but for a folder that was nowhere.                  *)
Sprouts(i, up, n) ==
    /\ \A f \in Folders : dir'[f] \in disk'[f]
    /\ \A f \in Folders : \A c \in disk[f] : \A m \in Names : c[m] # i
    /\ \A f \in Folders : \A c \in disk'[f] : \E d \in disk[f] : \A m \in Names :
        c[m] \in {d[m], Nothing} \/ (c[m] = i /\ f = up /\ m = n)

LEMMA TreeKept ==
    ASSUME FolderInv, FolderTypes', NEW i, NEW up \in Folders, NEW n \in Names, Sprouts(i, up, n)
    PROVE  FolderInv'
<1>. USE DEF Sprouts
<1>1. ASSUME NEW f \in Folders, NEW g \in Folders, NEW c \in disk'[f], NEW d \in disk'[g],
             NEW m \in Names, NEW o \in Names, c[m] # Nothing, c[m] = d[o]
      PROVE  f = g
  <2>1. PICK x \in disk[f] : \A p \in Names :
            c[p] \in {x[p], Nothing} \/ (c[p] = i /\ f = up /\ p = n)
        OBVIOUS
  <2>2. PICK y \in disk[g] : \A p \in Names :
            d[p] \in {y[p], Nothing} \/ (d[p] = i /\ g = up /\ p = n)
        OBVIOUS
  <2>3. CASE c[m] = i BY <1>1, <2>1, <2>2, <2>3
  <2>4. CASE c[m] # i
    <3>1. x[m] = c[m] /\ y[o] = c[m] BY <1>1, <2>1, <2>2, <2>4
    <3>. QED BY <1>1, <3>1 DEF FolderInv, Tree
  <2>. QED BY <2>3, <2>4
<1>2. ASSUME NEW f \in Folders, NEW c \in disk'[f], NEW m \in Names, NEW o \in Names,
             c[m] # Nothing, c[m] = c[o]
      PROVE  m = o
  <2>1. PICK x \in disk[f] : \A p \in Names :
            c[p] \in {x[p], Nothing} \/ (c[p] = i /\ f = up /\ p = n)
        OBVIOUS
  <2>2. CASE c[m] = i
    <3>1. x[m] # i /\ x[o] # i OBVIOUS
    <3>2. m = n BY ONLY <1>2, <2>1, <2>2, <3>1
    <3>3. o = n BY ONLY <1>2, <2>1, <2>2, <3>1
    <3>. QED BY <3>2, <3>3
  <2>3. CASE c[m] # i
    <3>1. x[m] = c[m] /\ x[o] = c[m] BY <1>2, <2>1, <2>3
    <3>. QED BY <1>2, <3>1 DEF FolderInv, Tree
  <2>. QED BY <2>2, <2>3
<1>. QED BY <1>1, <1>2 DEF FolderInv, Tree

(* The same when nothing new appears.                                      *)
LEMMA TreeStays ==
    ASSUME FolderInv, FolderTypes',
           \A f \in Folders : dir'[f] \in disk'[f],
           \A f \in Folders : \A c \in disk'[f] : \E d \in disk[f] : \A m \in Names :
               c[m] \in {d[m], Nothing}
    PROVE  FolderInv'
<1>1. ASSUME NEW f \in Folders, NEW g \in Folders, NEW c \in disk'[f], NEW d \in disk'[g],
             NEW m \in Names, NEW o \in Names, c[m] # Nothing, c[m] = d[o]
      PROVE  f = g
  <2>1. PICK x \in disk[f] : \A p \in Names : c[p] \in {x[p], Nothing} OBVIOUS
  <2>2. PICK y \in disk[g] : \A p \in Names : d[p] \in {y[p], Nothing} OBVIOUS
  <2>3. x[m] = c[m] /\ y[o] = c[m] BY <1>1, <2>1, <2>2
  <2>. QED BY <1>1, <2>3 DEF FolderInv, Tree
<1>2. ASSUME NEW f \in Folders, NEW c \in disk'[f], NEW m \in Names, NEW o \in Names,
             c[m] # Nothing, c[m] = c[o]
      PROVE  m = o
  <2>1. PICK x \in disk[f] : \A p \in Names : c[p] \in {x[p], Nothing} OBVIOUS
  <2>2. x[m] = c[m] /\ x[o] = c[m] BY <1>2, <2>1
  <2>. QED BY <1>2, <2>2 DEF FolderInv, Tree
<1>. QED BY <1>1, <1>2 DEF FolderInv, Tree

(***************************************************************************)
(* What the calls of the operating system do to the folders.  Quiet: no    *)
(* read changes, and where the Article's folder is, it stays, with what    *)
(* its README, its media folder and its files are on disk.                 *)
(***************************************************************************)
SameReads == \A k \in Keys : Read(k)' = Read(k)

Quiet ==
    /\ SameReads
    /\ Top # Nothing =>
        /\ Top' = Top
        /\ \A root \in disk'[Root] : \E r \in disk[Root] : root[Record] = r[Record]
        /\ \A c \in disk'[Top] : \E d \in disk[Top] :
            c[Readme] = d[Readme] /\ (MediaFolder # Nothing => c[Media] = d[Media])
    /\ Top # Nothing /\ MediaFolder # Nothing =>
        /\ MediaFolder' = MediaFolder
        /\ \A c \in disk'[MediaFolder] : \E d \in disk[MediaFolder] : \A k \in Keys : c[k] = d[k]
    /\ Gone => Gone'
    /\ NoReadme(dir[Root]) => NoReadme(dir[Root])'

LEMMA StillIsQuiet ==
    ASSUME FolderInv, UNCHANGED <<dir, disk>>
    PROVE  FolderInv' /\ Quiet
<1>1. FolderInv' BY DEF FolderInv, FolderTypes, Tree
<1>2. SameReads BY DEF SameReads, Read, At
<1>3. Top' = Top /\ (MediaFolder # Nothing => MediaFolder' = MediaFolder) BY DEF Top, MediaFolder
<1>4. (Gone => Gone') /\ (NoReadme(dir[Root]) => NoReadme(dir[Root])')
      BY DEF Gone, NoReadme, Left
<1>. QED BY <1>1, <1>2, <1>3, <1>4 DEF Quiet

LEMMA FlushIsQuiet ==
    ASSUME FolderInv, NEW i \in Folders, Fsync(i)
    PROVE  FolderInv' /\ Quiet
<1>1. /\ dir' = dir
      /\ \A f \in Folders : disk'[f] = IF f = i THEN {dir[i]} ELSE disk[f]
      BY DEF Fsync, FolderInv, FolderTypes
<1>2. FolderTypes' BY DEF Fsync, FolderInv, FolderTypes
<1>3. \A f \in Folders : disk'[f] \subseteq disk[f] BY <1>1 DEF FolderInv, Tree
<1>4. FolderInv'
  <2>1. \A f \in Folders : dir'[f] \in disk'[f] BY <1>1 DEF FolderInv, Tree
  <2>. QED BY <1>2, <1>3, <2>1, TreeStays
<1>5. SameReads BY <1>1 DEF SameReads, Read, At
<1>6. Top' = Top /\ (MediaFolder # Nothing => MediaFolder' = MediaFolder)
      BY <1>1 DEF Top, MediaFolder
<1>7. /\ Root \in Folders
      /\ Top # Nothing => Top \in Folders /\ (MediaFolder # Nothing => MediaFolder \in Folders)
      BY Walks, Nowhere DEF FolderInv
<1>8. ASSUME NEW root, NoReadme(root), root \in Content PROVE NoReadme(root)'
      BY <1>3, <1>8, NoReadmeIs, NoReadmeNext, ContentParts, Naming, Nowhere
<1>9. Gone => Gone' BY <1>3, <1>7, <1>8 DEF Gone, FolderInv, FolderTypes
<1>10. NoReadme(dir[Root]) => NoReadme(dir[Root])' BY <1>1, <1>7, <1>8 DEF FolderInv, FolderTypes
<1>. QED BY <1>3, <1>4, <1>5, <1>6, <1>7, <1>9, <1>10 DEF Quiet

(* A folder that appears was nowhere before and is empty.                  *)
LEMMA GrowthIsQuiet ==
    ASSUME FolderInv, NEW name \in {Record, Media}, Above(name) # Nothing,
           At(dir, name) = Nothing, Appears(name)
    PROVE  FolderInv' /\ Quiet
<1>0. PICK up : up = Above(name) OBVIOUS
<1>1. PICK i \in Inodes : /\ Free(i)
                          /\ LET content == [dir[up] EXCEPT ![name] = i] IN
                             /\ dir' = [dir EXCEPT ![i] = Empty, ![up] = content]
                             /\ disk' = [disk EXCEPT ![i] = {Empty}, ![up] = @ \union {content}]
      BY <1>0 DEF Appears
<1>2. PICK content : content = [dir[up] EXCEPT ![name] = i] OBVIOUS
<1>3. /\ up \in Folders /\ dir[up] \in Content /\ dir[up] \in disk[up] /\ name \in Names
      /\ i \in Folders /\ i # Nothing /\ i # Root
  <2>1. up \in Folders BY <1>0, PathsAre, Walks, Nowhere DEF FolderInv
  <2>. QED BY <2>1, Naming, Nowhere DEF FolderInv, FolderTypes, Tree
<1>4. \A f \in Folders : \A c \in disk[f] : \A n \in Names : c[n] # i
      BY <1>1 DEF Free
<1>5. i # up
  <2>1. Top # Nothing => Top # i BY <1>4, Naming, Nowhere DEF Top, FolderInv, Tree
  <2>. QED BY <1>0, <1>3, <2>1, PathsAre
<1>6. /\ \A f \in Folders : dir'[f] = IF f = up THEN content ELSE IF f = i THEN Empty ELSE dir[f]
      /\ \A f \in Folders : disk'[f] = IF f = up THEN disk[f] \union {content}
                                       ELSE IF f = i THEN {Empty} ELSE disk[f]
      BY <1>1, <1>2, <1>3, <1>5 DEF FolderInv, FolderTypes
<1>66. /\ disk'[up] = disk[up] \union {content} /\ disk'[i] = {Empty}
       /\ \A f \in Folders : f # up /\ f # i => disk'[f] = disk[f]
      BY <1>3, <1>5, <1>6
<1>7. /\ content \in Content /\ content[name] = i
      /\ \A m \in Names : m # name => content[m] = dir[up][m]
      /\ \A k \in Keys : content[k] = dir[up][k]
      BY <1>2, <1>3, Relinked
<1>8. FolderTypes'
      BY <1>1, <1>2, <1>3, <1>6, <1>7, Emptiness DEF FolderInv, FolderTypes
<1>9. \A f \in Folders : dir'[f] \in disk'[f] BY <1>6 DEF FolderInv, Tree
<1>10. FolderInv'
  <2>1. \A f \in Folders : \A c \in disk'[f] : \E d \in disk[f] : \A m \in Names :
            c[m] \in {d[m], Nothing} \/ (c[m] = i /\ f = up /\ m = name)
    <3>1. SUFFICES ASSUME NEW f \in Folders, NEW c \in disk'[f]
                   PROVE  \E d \in disk[f] : \A m \in Names :
                              c[m] \in {d[m], Nothing} \/ (c[m] = i /\ f = up /\ m = name)
          OBVIOUS
    <3>2. CASE c = content /\ f = up BY <1>3, <1>7, <3>2
    <3>3. CASE c = Empty
      <4>1. dir[f] \in disk[f] BY DEF FolderInv, Tree
      <4>. QED BY <3>3, <4>1, Emptiness
    <3>4. CASE c \in disk[f] BY <3>4
    <3>5. \/ c = content /\ f = up
          \/ c = Empty
          \/ c \in disk[f]
      <4>1. CASE f = up BY <1>66, <3>1, <4>1
      <4>2. CASE f = i BY <1>66, <3>1, <4>2
      <4>3. CASE f # up /\ f # i BY <1>66, <3>1, <4>3
      <4>. QED BY <4>1, <4>2, <4>3
    <3>. QED BY <3>2, <3>3, <3>4, <3>5
  <2>2. Sprouts(i, up, name) BY <1>4, <1>9, <2>1 DEF Sprouts
  <2>. QED BY <1>3, <1>8, <2>2, TreeKept
<1>11. ASSUME Top # Nothing
       PROVE  name = Media /\ up = Top /\ MediaFolder = Nothing /\ Top # Root /\ Top # i /\ Top \in Inodes
  <2>1. name = Media /\ up = Top /\ MediaFolder = Nothing BY <1>0, <1>11, PathsAre, Naming
  <2>. QED BY <1>5, <1>11, <2>1, Walks, Nowhere DEF FolderInv
<1>12. Top = Nothing => name = Record /\ up = Root BY <1>0, PathsAre, Naming
<1>13. Top # Nothing => Top' = Top /\ MediaFolder' = i
  <2>1. Top # Nothing => Top' = Top BY <1>6, <1>11, Nowhere DEF Top
  <2>. QED BY <1>3, <1>6, <1>7, <1>11, <2>1, Nowhere DEF MediaFolder
<1>14. Top = Nothing => Top' = i BY <1>3, <1>6, <1>7, <1>12, Nowhere DEF Top
<1>15. SameReads
  <2>1. CASE Top # Nothing
    <3>1. Read(Readme)' = Read(Readme)
          BY <1>3, <1>6, <1>7, <1>11, <1>13, <2>1, ReadsAre, ReadsNext, Naming
    <3>2. \A f \in Files : Read(f)' = Read(f)
      <4>1. dir'[i] = Empty BY <1>3, <1>5, <1>6
      <4>2. \A f \in Files : Read(f)' = Nothing
            BY <1>3, <1>11, <1>13, <2>1, <4>1, ReadsNext, Emptiness, Naming
      <4>. QED BY <1>11, <2>1, <4>2, ReadsAre
    <3>. QED BY <3>1, <3>2, Naming DEF SameReads
  <2>2. CASE Top = Nothing
    <3>1. dir'[i] = Empty /\ Top' = i BY <1>3, <1>5, <1>6, <1>14, <2>2
    <3>2. MediaFolder' = Nothing BY <3>1, Emptiness, Naming DEF MediaFolder
    <3>3. \A k \in Keys : Read(k)' = Nothing
          BY <3>1, <3>2, ReadsNext, Emptiness, Naming
    <3>4. \A k \in Keys : Read(k) = Nothing BY <2>2, ReadsAre, Naming
    <3>. QED BY <3>3, <3>4 DEF SameReads
  <2>. QED BY <2>1, <2>2
<1>16. ASSUME NEW root \in Content, NoReadme(root),
              root[Record] # i, root[Record] = up => \A c \in disk[up] : c[Readme] = Nothing
       PROVE  NoReadme(root)'
  <2>1. root[Record] \in Inodes \union {Nothing} BY ContentParts, Naming
  <2>2. CASE root[Record] = Nothing BY <2>2, NoReadmeNext
  <2>3. CASE root[Record] # Nothing
    <3>1. root[Record] \in Folders BY <2>1, <2>3, Nowhere
    <3>2. \A c \in disk[root[Record]] : c[Readme] = Nothing BY <1>16, <2>3, NoReadmeIs
    <3>3. ASSUME NEW c \in disk'[root[Record]] PROVE c[Readme] = Nothing
      <4>1. CASE c \in disk[root[Record]] BY <3>2, <4>1
      <4>2. CASE c \notin disk[root[Record]]
        <5>1. root[Record] = up /\ c = content BY <1>66, <1>16, <3>1, <3>3, <4>2
        <5>. QED BY <1>3, <1>7, <3>2, <5>1, Naming
      <4>. QED BY <4>1, <4>2
    <3>. QED BY <3>3, NoReadmeNext
  <2>. QED BY <2>2, <2>3
<1>17. ASSUME NEW root \in Content, NoReadme(root), root[Record] # i
       PROVE  NoReadme(root)'
  <2>1. root[Record] = up => \A c \in disk[up] : c[Readme] = Nothing
        BY <1>3, <1>17, NoReadmeIs, Nowhere
  <2>. QED BY <1>16, <1>17, <2>1
<1>18. ASSUME name = Record PROVE NoReadme(content)'
  <2>1. content[Record] = i /\ disk'[i] = {Empty} BY <1>3, <1>5, <1>6, <1>7, <1>18
  <2>. QED BY <2>1, NoReadmeNext, Emptiness, Naming
<1>19. Root \in Folders /\ \A r \in disk[Root] : r \in Content /\ r[Record] # i
       BY <1>4, Nowhere, Naming DEF FolderInv, FolderTypes
<1>20. \A root \in disk'[Root] : root \in disk[Root] \/ (root = content /\ name = Record)
  <2>1. CASE Top # Nothing
    <3>1. disk'[Root] = disk[Root] BY <1>3, <1>6, <1>11, <1>19, <2>1
    <3>. QED BY <3>1
  <2>2. CASE Top = Nothing
    <3>1. disk'[Root] = disk[Root] \union {content} BY <1>6, <1>12, <1>19, <2>2
    <3>. QED BY <1>12, <2>2, <3>1
  <2>. QED BY <2>1, <2>2
<1>21. Gone => Gone' BY <1>17, <1>18, <1>19, <1>20 DEF Gone
<1>22. NoReadme(dir[Root]) => NoReadme(dir[Root])'
  <2>1. dir[Root] \in disk[Root] BY <1>19 DEF FolderInv, Tree
  <2>2. dir'[Root] = dir[Root] \/ (dir'[Root] = content /\ name = Record)
        BY <1>3, <1>6, <1>11, <1>12, <1>19, Nowhere
  <2>. QED BY <1>17, <1>18, <1>19, <2>1, <2>2, NoReadmeNext
<1>23. ASSUME Top # Nothing
       PROVE  /\ disk'[Root] = disk[Root]
              /\ \A c \in disk'[Top] : \E d \in disk[Top] : c[Readme] = d[Readme]
  <2>1. disk'[Root] = disk[Root] /\ disk'[Top] = disk[Top] \union {content}
        BY <1>3, <1>6, <1>11, <1>19, <1>23, Nowhere
  <2>. QED BY <1>3, <1>7, <1>11, <1>23, <2>1, Naming
<1>. QED BY <1>10, <1>11, <1>13, <1>15, <1>21, <1>22, <1>23 DEF Quiet

(* What a delete left under the reserved name is nowhere near the Article. *)
LEMMA RemovedIsQuiet ==
    ASSUME FolderInv, Removed
    PROVE  FolderInv' /\ Quiet
<1>0. PICK i : i = dir[Root][Doomed] OBVIOUS
<1>1. CASE i = Nothing BY <1>0, <1>1, StillIsQuiet DEF Removed
<1>2. CASE i # Nothing
  <2>1. PICK content : content = [dir[Root] EXCEPT ![Doomed] = Nothing] OBVIOUS
  <2>2. /\ content \in Content /\ content[Doomed] = Nothing
        /\ \A n \in Names : n # Doomed => content[n] = dir[Root][n]
        /\ dir[Root] \in Content /\ dir[Root] \in disk[Root] /\ Root \in Folders
    <3>1. dir[Root] \in Content /\ dir[Root] \in disk[Root] /\ Root \in Folders
          BY Nowhere DEF FolderInv, FolderTypes, Tree
    <3>2. PICK r : r = dir[Root] OBVIOUS
    <3>3. Nothing \in Inodes \union {Nothing} OBVIOUS
    <3>4. /\ content \in Content /\ content[Doomed] = Nothing
          /\ \A n \in Names : n # Doomed => content[n] = r[n]
          BY ONLY <2>1, <3>1, <3>2, Naming DEF Content
    <3>. QED BY <3>1, <3>2, <3>4
  <2>3. /\ dir' = [f \in Folders |->
              IF f = Root THEN content ELSE IF f \in Below(i) THEN Empty ELSE dir[f]]
        /\ disk' = [f \in Folders |->
              IF f = Root THEN disk[f] \union {content}
              ELSE IF f \in Below(i) THEN disk[f] \union {Empty} ELSE disk[f]]
        BY <1>0, <1>2, <2>1 DEF Removed
  <2>4. /\ dir'[Root] = content /\ disk'[Root] = disk[Root] \union {content}
        /\ \A f \in Folders : f # Root /\ f \in Below(i) =>
              dir'[f] = Empty /\ disk'[f] = disk[f] \union {Empty}
        /\ \A f \in Folders : f # Root /\ f \notin Below(i) =>
              dir'[f] = dir[f] /\ disk'[f] = disk[f]
        BY <2>2, <2>3
  <2>5. FolderTypes'
    <3>1. \A f \in Folders : dir'[f] \in Content /\ disk'[f] \subseteq Content
          BY <2>2, <2>4, Emptiness DEF FolderInv, FolderTypes
    <3>. QED BY <2>3, <3>1 DEF FolderTypes
  <2>6. \A f \in Folders : dir'[f] \in disk'[f] BY <2>4 DEF FolderInv, Tree
  <2>7. FolderInv'
    <3>1. ASSUME NEW f \in Folders, NEW c \in disk'[f]
          PROVE  \E d \in disk[f] : \A m \in Names : c[m] \in {d[m], Nothing}
      <4>1. CASE c \in disk[f] BY <4>1
      <4>2. CASE c = content /\ f = Root BY <2>2, <4>2
      <4>3. CASE c = Empty
        <5>1. dir[f] \in disk[f] BY DEF FolderInv, Tree
        <5>. QED BY <4>3, <5>1, Emptiness
      <4>. QED BY <2>4, <3>1, <4>1, <4>2, <4>3
    <3>. QED BY <2>5, <2>6, <3>1, TreeStays
  <2>8. Top' = Top BY <2>2, <2>4, Naming DEF Top
  <2>9. ASSUME Top # Nothing
        PROVE  /\ Top \in Folders /\ dir'[Top] = dir[Top] /\ disk'[Top] = disk[Top]
               /\ MediaFolder' = MediaFolder
               /\ MediaFolder # Nothing =>
                    /\ MediaFolder \in Folders
                    /\ dir'[MediaFolder] = dir[MediaFolder]
                    /\ disk'[MediaFolder] = disk[MediaFolder]
    <3>1. Top \in Folders /\ (MediaFolder # Nothing => MediaFolder \in Folders)
          BY <2>9, Walks, Nowhere DEF FolderInv
    <3>2. dir'[Top] = dir[Top] /\ disk'[Top] = disk[Top]
          BY <1>0, <1>2, <2>4, <2>9, <3>1, Apart
    <3>3. MediaFolder' = MediaFolder BY <2>8, <3>2 DEF MediaFolder
    <3>. QED BY <1>0, <1>2, <2>4, <2>9, <3>1, <3>2, <3>3, Apart
  <2>10. SameReads BY <2>8, <2>9, ReadsAre, ReadsNext, Naming DEF SameReads
  <2>11. ASSUME NEW root \in Content, NoReadme(root) PROVE NoReadme(root)'
    <3>1. root[Record] \in Inodes \union {Nothing} BY ContentParts, Naming
    <3>2. CASE root[Record] = Nothing BY <3>2, NoReadmeNext
    <3>3. CASE root[Record] # Nothing
      <4>1. root[Record] \in Folders /\ root[Record] # Root BY <3>1, <3>3, Nowhere
      <4>2. \A c \in disk[root[Record]] : c[Readme] = Nothing BY <2>11, <3>3, NoReadmeIs
      <4>3. disk'[root[Record]] \subseteq disk[root[Record]] \union {Empty} BY <2>4, <4>1
      <4>. QED BY <4>2, <4>3, NoReadmeNext, Emptiness, Naming
    <3>. QED BY <3>2, <3>3
  <2>12. NoReadme(dir[Root]) => NoReadme(content)'
    <3>1. content[Record] = dir[Root][Record] BY <2>2, Naming
    <3>. QED BY <2>2, <2>11, <3>1, NoReadmeNext
  <2>13. disk[Root] \subseteq Content BY <2>2 DEF FolderInv, FolderTypes
  <2>14. Gone => Gone' BY <2>2, <2>4, <2>11, <2>12, <2>13 DEF Gone
  <2>15. NoReadme(dir[Root]) => NoReadme(dir[Root])' BY <2>4, <2>12, NoReadmeNext
  <2>16. \A root \in disk'[Root] : \E r \in disk[Root] : root[Record] = r[Record]
         BY <2>2, <2>4, Naming
  <2>. QED BY <2>7, <2>8, <2>9, <2>10, <2>14, <2>15, <2>16 DEF Quiet
<1>. QED BY <1>1, <1>2

(* A placement changes one key and the contents of one folder.             *)
Put(k, v) ==
    /\ Read(k)' = v /\ \A j \in Keys : j # k => Read(j)' = Read(j)
    /\ Top # Nothing /\ Top' = Top /\ MediaFolder' = MediaFolder
    /\ disk'[Root] = disk[Root]
    /\ \A c \in disk'[Top] : \E d \in disk[Top] :
        c[Media] = d[Media] /\ (c[Readme] = d[Readme] \/ (k = Readme /\ c[Readme] = v /\ d = dir[Top]))
    /\ MediaFolder # Nothing =>
        \A c \in disk'[MediaFolder] : \E d \in disk[MediaFolder] : \A j \in Keys : j # k => c[j] = d[j]
    /\ k # Readme => (Gone => Gone') /\ (NoReadme(dir[Root]) => NoReadme(dir[Root])')

LEMMA ChangedPuts ==
    ASSUME FolderInv, NEW k \in Keys, NEW v \in Values, NEW i, i # Nothing, At(dir, Home[k]) = i,
           Changed(i, [dir[i] EXCEPT ![k] = v])
    PROVE  FolderInv' /\ Put(k, v)
<1>0. PICK content : content = [dir[i] EXCEPT ![k] = v] OBVIOUS
<1>1. /\ Top # Nothing /\ Top \in Folders /\ Top # Root
      /\ MediaFolder # Nothing => MediaFolder \in Folders /\ MediaFolder # Top /\ MediaFolder # Root
      /\ k = Readme => i = Top
      /\ k # Readme => i = MediaFolder /\ k \in Files
  <2>1. k = Readme => i = Top BY Homes, PathsAre
  <2>2. k # Readme => k \in Files /\ i = MediaFolder /\ Top # Nothing BY Homes, PathsAre, Naming
  <2>3. Top # Nothing BY <2>1, <2>2
  <2>. QED BY <2>1, <2>2, <2>3, Walks, Apart, Nowhere DEF FolderInv
<1>2. i \in Folders /\ i # Root /\ dir[i] \in Content /\ dir[i] \in disk[i]
      BY <1>1 DEF FolderInv, FolderTypes, Tree
<1>3. /\ content \in Content /\ content[k] = v
      /\ \A n \in Names : content[n] = dir[i][n]
      /\ \A j \in Keys : j # k => content[j] = dir[i][j]
  <2>1. PICK c : c = dir[i] OBVIOUS
  <2>2. content = [c EXCEPT ![k] = v] /\ c \in Content BY <1>0, <1>2, <2>1
  <2>3. /\ content \in Content /\ content[k] = v
        /\ \A n \in Names : content[n] = c[n]
        /\ \A j \in Keys : j # k => content[j] = c[j]
        BY ONLY <2>2, Naming, k \in Keys, v \in Values DEF Content
  <2>. QED BY <2>1, <2>3
<1>4. /\ dir' = [dir EXCEPT ![i] = content] /\ disk' = [disk EXCEPT ![i] = @ \union {content}]
      /\ dir'[i] = content /\ disk'[i] = disk[i] \union {content}
      /\ \A f \in Folders : f # i => dir'[f] = dir[f] /\ disk'[f] = disk[f]
      BY <1>0, <1>2 DEF Changed, FolderInv, FolderTypes
<1>5. FolderTypes' BY <1>2, <1>3, <1>4 DEF FolderInv, FolderTypes
<1>6. \A f \in Folders : dir'[f] \in disk'[f] BY <1>2, <1>4 DEF FolderInv, Tree
<1>7. ASSUME NEW f \in Folders, NEW c \in disk'[f]
      PROVE  \E d \in disk[f] :
                /\ \A n \in Names : c[n] = d[n]
                /\ \A j \in Keys : j # k => c[j] = d[j]
                /\ c[k] = d[k] \/ (c[k] = v /\ f = i /\ d = dir[i])
  <2>1. CASE c \in disk[f] BY <2>1
  <2>2. CASE c = content /\ f = i BY <1>2, <1>3, <2>2
  <2>. QED BY <1>4, <1>7, <2>1, <2>2
<1>8. FolderInv'
  <2>1. \A f \in Folders : \A c \in disk'[f] : \E d \in disk[f] : \A m \in Names :
            c[m] \in {d[m], Nothing}
        BY <1>7
  <2>. QED BY <1>5, <1>6, <2>1, TreeStays
<1>9. Top' = Top /\ disk'[Root] = disk[Root] /\ dir'[Root] = dir[Root]
      BY <1>2, <1>4, Nowhere DEF Top
<1>10. MediaFolder' = MediaFolder BY <1>1, <1>3, <1>4, <1>9, Naming DEF MediaFolder
<1>11. Read(k)' = v /\ \A j \in Keys : j # k => Read(j)' = Read(j)
  <2>1. CASE k = Readme
    <3>1. Read(k)' = v BY <1>1, <1>3, <1>4, <1>9, <2>1, ReadsNext
    <3>2. MediaFolder # Nothing => dir'[MediaFolder] = dir[MediaFolder] BY <1>1, <1>4, <2>1
    <3>3. \A j \in Files : Read(j)' = Read(j) BY <1>1, <1>9, <1>10, <3>2, ReadsAre, ReadsNext
    <3>. QED BY <2>1, <3>1, <3>3, Naming
  <2>2. CASE k # Readme
    <3>1. i = MediaFolder /\ i # Nothing /\ k \in Files BY <1>1, <2>2
    <3>2. Read(k)' = v BY <1>1, <1>3, <1>4, <1>9, <1>10, <3>1, ReadsNext
    <3>3. Read(Readme)' = Read(Readme)
      <4>1. dir'[Top] = dir[Top] BY <1>1, <1>4, <3>1
      <4>. QED BY <1>1, <1>9, <4>1, ReadsAre, ReadsNext
    <3>4. \A j \in Files : j # k => Read(j)' = Read(j)
      <4>1. \A j \in Files : j # k => dir'[MediaFolder][j] = dir[MediaFolder][j]
            BY <1>3, <1>4, <3>1, Naming
      <4>. QED BY <1>1, <1>9, <1>10, <4>1, ReadsAre, ReadsNext
    <3>. QED BY <3>2, <3>3, <3>4, Naming
  <2>. QED BY <2>1, <2>2
<1>12. \A c \in disk'[Top] : \E d \in disk[Top] :
          c[Media] = d[Media] /\ (c[Readme] = d[Readme] \/ (k = Readme /\ c[Readme] = v /\ d = dir[Top]))
  <2>1. SUFFICES ASSUME NEW c \in disk'[Top]
                 PROVE  \E d \in disk[Top] : /\ c[Media] = d[Media]
                                             /\ \/ c[Readme] = d[Readme]
                                                \/ k = Readme /\ c[Readme] = v /\ d = dir[Top]
        OBVIOUS
  <2>2. PICK d \in disk[Top] :
                /\ \A n \in Names : c[n] = d[n]
                /\ \A j \in Keys : j # k => c[j] = d[j]
                /\ c[k] = d[k] \/ (c[k] = v /\ Top = i /\ d = dir[i])
        BY <1>1, <1>7
  <2>. QED BY <2>2, Naming
<1>13. MediaFolder # Nothing =>
          \A c \in disk'[MediaFolder] : \E d \in disk[MediaFolder] : \A j \in Keys : j # k => c[j] = d[j]
       BY <1>1, <1>7
<1>14. ASSUME k # Readme, NEW root \in Content, NoReadme(root) PROVE NoReadme(root)'
  <2>1. root[Record] \in Inodes \union {Nothing} BY ContentParts, Naming
  <2>2. CASE root[Record] = Nothing BY <2>2, NoReadmeNext
  <2>3. CASE root[Record] # Nothing
    <3>1. root[Record] \in Folders BY <2>1, <2>3, Nowhere
    <3>2. \A c \in disk[root[Record]] : c[Readme] = Nothing BY <1>14, <2>3, NoReadmeIs
    <3>3. \A c \in disk'[root[Record]] : \E d \in disk[root[Record]] : c[Readme] = d[Readme]
          BY <1>7, <1>14, <3>1, Naming
    <3>. QED BY <3>2, <3>3, NoReadmeNext
  <2>. QED BY <2>2, <2>3
<1>15. dir[Root] \in Content /\ disk[Root] \subseteq Content
       BY Nowhere DEF FolderInv, FolderTypes
<1>16. k # Readme => (Gone => Gone') /\ (NoReadme(dir[Root]) => NoReadme(dir[Root])')
  <2>1. k # Readme => (Gone => Gone') BY <1>9, <1>14, <1>15 DEF Gone
  <2>2. k # Readme => (NoReadme(dir[Root]) => NoReadme(dir[Root])')
        BY <1>9, <1>14, <1>15, NoReadmeNext
  <2>. QED BY <2>1, <2>2
<1>. QED BY <1>1, <1>8, <1>9, <1>10, <1>11, <1>12, <1>13, <1>16 DEF Put

(* One rename takes every key out of sight.                                *)
LEMMA RenamedTakesAll ==
    ASSUME FolderInv, Top # Nothing, dir[Root][Doomed] = Nothing,
           Changed(Root, [dir[Root] EXCEPT ![Record] = Nothing, ![Doomed] = Top])
    PROVE  /\ FolderInv'
           /\ \A k \in Keys : Read(k)' = Nothing
           /\ Gone => Gone'
           /\ NoReadme(dir[Root])'
<1>1. PICK old : old = dir[Root] OBVIOUS
<1>2. PICK content : content = [old EXCEPT ![Record] = Nothing, ![Doomed] = Top] OBVIOUS
<1>3. Top \in Inodes /\ Root \in Folders /\ old \in Content /\ old \in disk[Root] /\ old[Record] = Top
      BY <1>1, Walks, Nowhere DEF FolderInv, FolderTypes, Tree, Top
<1>4. /\ content \in Content /\ content[Record] = Nothing /\ content[Doomed] = Top
      /\ \A n \in Names : n # Record /\ n # Doomed => content[n] = old[n]
      BY ONLY <1>2, <1>3, Naming DEF Content
<1>5. /\ dir' = [dir EXCEPT ![Root] = content] /\ disk' = [disk EXCEPT ![Root] = @ \union {content}]
      /\ dir'[Root] = content /\ disk'[Root] = disk[Root] \union {content}
      /\ \A f \in Folders : f # Root => dir'[f] = dir[f] /\ disk'[f] = disk[f]
      BY <1>1, <1>2, <1>3 DEF Changed, FolderInv, FolderTypes
<1>6. FolderTypes' BY <1>3, <1>4, <1>5 DEF FolderInv, FolderTypes
<1>7. \A f \in Folders : dir'[f] \in disk'[f] BY <1>3, <1>5 DEF FolderInv, Tree
<1>8. ASSUME NEW f \in Folders, NEW c \in disk'[f], NEW m \in Names, c[m] # Nothing
      PROVE  \E d \in disk[f], n \in Names : d[n] = c[m]
  <2>1. CASE c \in disk[f] BY <2>1
  <2>2. CASE f = Root /\ c = content BY <1>3, <1>4, <1>8, <2>2, Naming
  <2>. QED BY <1>5, <1>8, <2>1, <2>2
<1>9. ASSUME NEW f \in Folders, NEW g \in Folders, NEW c \in disk'[f], NEW d \in disk'[g],
             NEW m \in Names, NEW o \in Names, c[m] # Nothing, c[m] = d[o]
      PROVE  f = g
  <2>1. PICK x \in disk[f], n \in Names : x[n] = c[m] BY <1>8, <1>9
  <2>2. PICK y \in disk[g], p \in Names : y[p] = d[o] BY <1>8, <1>9
  <2>. QED BY <1>9, <2>1, <2>2 DEF FolderInv, Tree
<1>10. ASSUME NEW f \in Folders, NEW c \in disk'[f], NEW m \in Names, NEW o \in Names,
              c[m] # Nothing, c[m] = c[o]
       PROVE  m = o
  <2>1. CASE c \in disk[f] BY <1>10, <2>1 DEF FolderInv, Tree
  <2>2. CASE f = Root /\ c = content
    <3>1. \A n \in Names : old[n] = Top => n = Record
          BY <1>3, Naming, Nowhere DEF FolderInv, Tree
    <3>2. \A n \in Names : content[n] = Top => n = Doomed BY <1>3, <1>4, <3>1, Nowhere
    <3>3. CASE m = Doomed \/ o = Doomed BY <1>4, <1>10, <2>2, <3>2, <3>3
    <3>4. CASE m # Doomed /\ o # Doomed
      <4>1. content[m] = old[m] /\ content[o] = old[o] /\ old[m] # Nothing
            BY <1>4, <1>10, <2>2, <3>4
      <4>. QED BY <1>3, <1>10, <2>2, <4>1 DEF FolderInv, Tree
    <3>. QED BY <3>3, <3>4
  <2>. QED BY <1>5, <1>10, <2>1, <2>2
<1>11. FolderInv' BY <1>6, <1>7, <1>9, <1>10 DEF FolderInv, Tree
<1>12. Top' = Nothing BY <1>4, <1>5 DEF Top
<1>13. \A k \in Keys : Read(k)' = Nothing BY <1>12, ReadsNext, Naming
<1>14. NoReadme(content)' BY <1>4, NoReadmeNext
<1>15. NoReadme(dir[Root])' BY <1>4, <1>5, NoReadmeNext
<1>16. ASSUME NEW root \in disk[Root], NoReadme(root) PROVE NoReadme(root)'
  <2>1. root[Record] \in Inodes \union {Nothing}
        BY <1>3, ContentParts, Naming DEF FolderInv, FolderTypes
  <2>2. CASE root[Record] = Nothing BY <2>2, NoReadmeNext
  <2>3. CASE root[Record] # Nothing
    <3>1. disk'[root[Record]] = disk[root[Record]] BY <1>5, <2>1, <2>3, Nowhere
    <3>. QED BY <1>16, <3>1, NoReadmeIs, NoReadmeNext
  <2>. QED BY <2>2, <2>3
<1>17. Gone => Gone' BY <1>5, <1>14, <1>16 DEF Gone
<1>. QED BY <1>11, <1>13, <1>15, <1>17

(* A power loss leaves of each folder one of the contents it may leave.    *)
LEMMA PowerLeaves ==
    ASSUME FolderInv, LosesPower
    PROVE  /\ FolderInv'
           /\ \A f \in Folders : dir'[f] \in disk[f] /\ disk'[f] = {dir'[f]}
           /\ Gone => Gone'
<1>. DEFINE Unsure == {i \in Folders : disk[i] # {dir[i]}}
<1>3. PICK left \in [Unsure -> UNION {disk[i] : i \in Unsure}] :
          /\ \A i \in Unsure : left[i] \in disk[i]
          /\ dir' = [f \in Folders |-> IF f \in Unsure THEN left[f] ELSE dir[f]]
      BY DEF LosesPower
<1>5. \A f \in Folders : dir'[f] \in disk[f] BY <1>3 DEF FolderInv, Tree
<1>6. disk' = [i \in Folders |-> {dir'[i]}] BY DEF LosesPower
<1>7. FolderTypes'
  <2>1. \A f \in Folders : dir'[f] \in Content BY <1>5 DEF FolderInv, FolderTypes
  <2>. QED BY <1>3, <1>6, <2>1 DEF FolderTypes
<1>8. FolderInv'
  <2>1. \A f \in Folders : dir'[f] \in disk'[f] BY <1>6
  <2>2. \A f \in Folders : \A c \in disk'[f] : \E d \in disk[f] : \A m \in Names :
            c[m] \in {d[m], Nothing}
        BY <1>5, <1>6
  <2>. QED BY <1>7, <2>1, <2>2, TreeStays
<1>9. Gone => Gone'
  <2>1. SUFFICES ASSUME Gone, NEW root \in disk'[Root] PROVE NoReadme(root)'
        BY DEF Gone
  <2>2. root \in disk[Root] /\ root \in Content /\ NoReadme(root)
        BY <1>5, <1>6, <2>1, Nowhere DEF Gone, FolderInv, FolderTypes
  <2>3. root[Record] \in Inodes \union {Nothing} BY <2>2, ContentParts, Naming
  <2>4. CASE root[Record] = Nothing BY <2>4, NoReadmeNext
  <2>5. CASE root[Record] # Nothing
    <3>1. disk'[root[Record]] \subseteq disk[root[Record]] BY <1>5, <1>6, <2>3, <2>5, Nowhere
    <3>. QED BY <2>2, <2>5, <3>1, NoReadmeIs, NoReadmeNext
  <2>. QED BY <2>4, <2>5
<1>. QED BY <1>5, <1>6, <1>8, <1>9

-----------------------------------------------------------------------------
(***************************************************************************)
(* Calls                                                                   *)
(***************************************************************************)
LEMMA CallParts ==
    ASSUME NEW c \in Calls
    PROVE  /\ c.op \in {"create", "replace", "delete"}
           /\ c.op # "delete" => c.key \in Keys /\ c.value \in Values
BY DEF Calls

LEMMA Leaves ==
    ASSUME NEW a \in Actors, call[a] \in Calls, call[a].op # "delete"
    PROVE  /\ Leaf(a) \in {Record, Media}
           /\ call[a].key \in Keys /\ call[a].value \in Values
           /\ call[a].key = Readme => Leaf(a) = Record
           /\ call[a].key # Readme => Leaf(a) = Media /\ call[a].key \in Files
BY CallParts, Homes, Naming DEF Leaf

LEMMA StoreParts ==
    ASSUME StoreInv
    PROVE  /\ FolderInv /\ DOMAIN pc = Actors /\ DOMAIN call = Actors /\ DOMAIN hand = Actors
           /\ \A a \in Actors : pc[a] \in States /\ call[a] \in Calls /\ InCall(a)
                                /\ hand[a].leaf \in Inodes \union {Nothing} /\ hand[a].made \subseteq Names
BY DEF StoreInv, StoreTypes, FolderInv, FolderTypes

LEMMA AboveIsFolder ==
    ASSUME FolderInv, NEW name, Above(name) # Nothing
    PROVE  Above(name) \in Folders
BY PathsAre, Walks, Nowhere DEF Above, FolderInv

LEMMA MadeIsQuiet ==
    ASSUME FolderInv, NEW name \in {Record, Media}, MadeOrThere(name)
    PROVE  FolderInv' /\ Quiet
<1>1. CASE At(dir, name) = Nothing BY <1>1, GrowthIsQuiet DEF MadeOrThere
<1>2. CASE At(dir, name) # Nothing BY <1>2, StillIsQuiet DEF MadeOrThere
<1>. QED BY <1>1, <1>2

(* All steps of a call but the one that places and the rename of a delete. *)
QuietStep(a) ==
    \/ Look(a) \/ MakeLeaf(a) \/ MakeAbove(a) \/ MakeAgain(a) \/ Open(a)
    \/ Refuse(a) \/ PlaceFails(a) \/ Sync(a) \/ SyncAbove(a) \/ Placed(a)
    \/ SweepOld(a) \/ SyncRoot(a) \/ SweepNew(a) \/ Return(a)

LEMMA QuietSteps ==
    ASSUME StoreInv, NEW a \in Actors, QuietStep(a)
    PROVE  FolderInv' /\ Quiet
<1>0. FolderInv /\ InCall(a) /\ call[a] \in Calls /\ pc[a] \in States BY StoreParts
<1>1. CASE Look(a) \/ Open(a) \/ Refuse(a) \/ PlaceFails(a) \/ Placed(a) \/ Return(a)
      BY <1>0, <1>1, StillIsQuiet DEF Look, Open, Refuse, PlaceFails, Placed, Return
<1>2. CASE MakeLeaf(a) \/ MakeAgain(a)
  <2>1. Leaf(a) \in {Record, Media}
        BY <1>0, <1>2, Leaves DEF MakeLeaf, MakeAgain, Moves, InCall, Placings
  <2>. QED BY <1>0, <1>2, <2>1, MadeIsQuiet, StillIsQuiet DEF MakeLeaf, MakeAgain
<1>3. CASE MakeAbove(a) BY <1>0, <1>3, MadeIsQuiet DEF MakeAbove
<1>4. CASE Sync(a)
  <2>1. Leaf(a) \in {Record, Media} BY <1>0, <1>4, Leaves DEF Sync, Moves, InCall, Placings
  <2>2. At(dir, Leaf(a)) # Nothing => At(dir, Leaf(a)) \in Folders
        BY <1>0, <2>1, PathsAre, Walks, Nowhere DEF FolderInv
  <2>. QED BY <1>0, <1>4, <2>2, FlushIsQuiet, StillIsQuiet DEF Sync
<1>5. CASE SyncAbove(a)
      BY <1>0, <1>5, AboveIsFolder, FlushIsQuiet, StillIsQuiet DEF SyncAbove
<1>6. CASE SyncRoot(a) BY <1>0, <1>6, Nowhere, FlushIsQuiet DEF SyncRoot
<1>7. CASE SweepOld(a) \/ SweepNew(a) BY <1>0, <1>7, RemovedIsQuiet DEF SweepOld, SweepNew
<1>. QED BY <1>1, <1>2, <1>3, <1>4, <1>5, <1>6, <1>7 DEF QuietStep

LEMMA PlacePuts ==
    ASSUME StoreInv, NEW a \in Actors, Place(a)
    PROVE  FolderInv' /\ \E k \in Keys, v \in Values :
                             k = call[a].key /\ v = call[a].value /\ Put(k, v)
<1>1. /\ FolderInv /\ InCall(a) /\ call[a] \in Calls
      /\ hand[a].leaf # Nothing /\ call[a].op # "delete"
      BY StoreParts DEF Place, Moves, InCall, Placings
<1>2. PICK k \in Keys, v \in Values : k = call[a].key /\ v = call[a].value BY <1>1, CallParts
<1>3. PICK i : i = hand[a].leaf OBVIOUS
<1>4. At(dir, Home[k]) = i BY <1>2, <1>3 DEF Place, Reaches, Leaf
<1>5. Changed(i, [dir[i] EXCEPT ![k] = v]) BY <1>2, <1>3 DEF Place
<1>6. FolderInv' /\ Put(k, v) BY <1>1, <1>3, <1>4, <1>5, ChangedPuts
<1>. QED BY <1>2, <1>6

LEMMA RenameTakes ==
    ASSUME StoreInv, NEW a \in Actors, Rename(a)
    PROVE  /\ FolderInv'
           /\ \/ Quiet /\ pc' = [pc EXCEPT ![a] = "raised"]
              \/ Quiet /\ pc' = [pc EXCEPT ![a] = "return"] /\ \A k \in Keys : Read(k) = Nothing
              \/ /\ pc' = [pc EXCEPT ![a] = "syncRoot"]
                 /\ \A k \in Keys : Read(k)' = Nothing
                 /\ Gone => Gone'
                 /\ NoReadme(dir[Root])'
<1>1. FolderInv BY StoreParts
<1>2. At(dir, Record) = Top BY PathsAre
<1>3. CASE Top # Nothing /\ dir[Root][Doomed] = Nothing
  <2>1. /\ Changed(Root, [dir[Root] EXCEPT ![Record] = Nothing, ![Doomed] = Top])
        /\ pc' = [pc EXCEPT ![a] = "syncRoot"]
        BY <1>2, <1>3 DEF Rename, Moves
  <2>. QED BY <1>1, <1>3, <2>1, RenamedTakesAll
<1>4. CASE Top = Nothing
  <2>1. UNCHANGED <<dir, disk>> /\ pc' = [pc EXCEPT ![a] = "return"]
        BY <1>2, <1>4 DEF Rename, Moves
  <2>2. \A k \in Keys : Read(k) = Nothing BY <1>4, ReadsAre, Naming
  <2>. QED BY <1>1, <2>1, <2>2, StillIsQuiet
<1>5. CASE Top # Nothing /\ dir[Root][Doomed] # Nothing
  <2>1. UNCHANGED <<dir, disk>> /\ pc' = [pc EXCEPT ![a] = "raised"]
        BY <1>2, <1>5 DEF Rename, Moves
  <2>. QED BY <1>1, <2>1, StillIsQuiet
<1>. QED BY <1>3, <1>4, <1>5

HandTypes == hand \in [Actors -> [leaf : Inodes \union {Nothing}, made : SUBSET Names]]

(* A call moves on: what is left to show of the store.                     *)
LEMMA CallMoves ==
    ASSUME StoreInv, FolderInv', HandTypes', NEW a \in Actors, NEW q \in States,
           pc' = [pc EXCEPT ![a] = q], call' = call,
           \A b \in Actors \ {a} : hand'[b] = hand[b],
           q \in Placings => call[a].op \in {"create", "replace"},
           q \in Removals \union {"return"} => call[a].op = "delete",
           q = "refused" => call[a].op = "create",
           q = "place" => hand'[a].leaf # Nothing
    PROVE  StoreInv'
<1>1. StoreTypes' BY DEF StoreInv, StoreTypes, FolderInv, FolderTypes, HandTypes
<1>2. ASSUME NEW b \in Actors PROVE InCall(b)'
  <2>1. CASE b = a
    <3>1. pc'[a] = q /\ call'[a] = call[a] BY DEF StoreInv, StoreTypes
    <3>. QED BY <2>1, <3>1 DEF InCall
  <2>2. CASE b # a
    <3>1. pc'[b] = pc[b] /\ call'[b] = call[b] /\ hand'[b] = hand[b] /\ InCall(b)
          BY <2>2 DEF StoreInv, StoreTypes
    <3>. QED BY <3>1 DEF InCall
  <2>. QED BY <2>1, <2>2
<1>. QED BY <1>1, <1>2 DEF StoreInv, FolderInv

LEMMA StoreStepKeeps ==
    ASSUME StoreInv, NEW a \in Actors, Steps(a)
    PROVE  StoreInv'
<1>0. /\ FolderInv /\ InCall(a) /\ pc[a] \in States /\ HandTypes /\ call[a] \in Calls
      /\ call[a].op \in {"create", "replace", "delete"}
      BY StoreParts, CallParts DEF StoreInv, StoreTypes, HandTypes
<1>1. FolderInv'
  <2>1. CASE QuietStep(a) BY <2>1, QuietSteps
  <2>2. CASE Place(a) BY <2>2, PlacePuts
  <2>3. CASE Rename(a) BY <2>3, RenameTakes
  <2>. QED BY <2>1, <2>2, <2>3 DEF Steps, QuietStep
<1>2. call' = call
      BY DEF Steps, Look, MakeLeaf, MakeAbove, MakeAgain, Open, Place, Refuse, PlaceFails, Sync,
             SyncAbove, Placed, SweepOld, Rename, SyncRoot, SweepNew, Return
<1>. USE DEF Moves, InCall, Placings, Removals, Outcomes, States
<1>3. CASE Look(a)
  <2>1. HandTypes' /\ \A b \in Actors \ {a} : hand'[b] = hand[b]
    <3>1. Missing(Leaf(a)) \subseteq Names
          BY <1>0, <1>3, Leaves, Naming DEF Look, Missing
    <3>. QED BY <1>0, <1>3, <3>1 DEF Look, HandTypes
  <2>. QED BY <1>0, <1>1, <1>2, <1>3, <2>1, CallMoves DEF Look
<1>4. CASE MakeLeaf(a) \/ MakeAbove(a) \/ MakeAgain(a)
  <2>1. hand' = hand BY <1>4 DEF MakeLeaf, MakeAbove, MakeAgain
  <2>2. HandTypes' BY <1>0, <2>1 DEF HandTypes
  <2>3. /\ pc[a] \in Placings
        /\ \E q \in {"mkdirAbove", "mkdirAgain", "open", "raised"} : pc' = [pc EXCEPT ![a] = q]
        BY <1>4 DEF MakeLeaf, MakeAbove, MakeAgain
  <2>. QED BY <1>0, <1>1, <1>2, <2>1, <2>2, <2>3, CallMoves
<1>5. CASE Open(a)
  <2>1. pc[a] = "open" BY <1>5 DEF Open
  <2>2. CASE At(dir, Leaf(a)) # Nothing
    <3>1. PICK i \in Inodes : i = At(dir, Leaf(a))
          BY <1>0, <2>1, <2>2, Leaves, PathsAre, Walks DEF FolderInv
    <3>2. hand' = [hand EXCEPT ![a].leaf = i] /\ pc' = [pc EXCEPT ![a] = "place"]
          BY <1>5, <2>2, <3>1 DEF Open
    <3>3. HandTypes' /\ (\A b \in Actors \ {a} : hand'[b] = hand[b]) /\ hand'[a].leaf # Nothing
          BY <1>0, <3>1, <3>2, Nowhere DEF HandTypes
    <3>. QED BY <1>0, <1>1, <1>2, <2>1, <3>2, <3>3, CallMoves
  <2>3. CASE At(dir, Leaf(a)) = Nothing
    <3>1. hand' = hand /\ pc' = [pc EXCEPT ![a] = "raised"] BY <1>5, <2>3 DEF Open
    <3>2. HandTypes' BY <1>0, <3>1 DEF HandTypes
    <3>. QED BY <1>0, <1>1, <1>2, <2>1, <3>1, <3>2, CallMoves
  <2>. QED BY <2>2, <2>3
<1>6. CASE Place(a)
  <2>1. HandTypes' /\ \A b \in Actors \ {a} : hand'[b] = hand[b]
        BY <1>0, <1>6 DEF Place, HandTypes
  <2>. QED BY <1>0, <1>1, <1>2, <1>6, <2>1, CallMoves DEF Place
<1>7. CASE SyncAbove(a)
  <2>1. HandTypes' /\ \A b \in Actors \ {a} : hand'[b] = hand[b]
    <3>1. CASE hand' = hand BY <1>0, <3>1 DEF HandTypes
    <3>2. CASE \E name \in Names : hand' = [hand EXCEPT ![a].made = @ \ {name}]
          BY <1>0, <3>2 DEF HandTypes
    <3>3. hand[a].made \subseteq Names BY <1>0 DEF HandTypes
    <3>. QED BY <1>7, <3>1, <3>2, <3>3 DEF SyncAbove
  <2>2. pc[a] = "syncAbove" /\ \E q \in {"syncAbove", "raised"} : pc' = [pc EXCEPT ![a] = q]
        BY <1>7 DEF SyncAbove
  <2>. QED BY <1>0, <1>1, <1>2, <2>1, <2>2, CallMoves
<1>8. CASE Refuse(a) \/ PlaceFails(a) \/ Sync(a) \/ Placed(a)
  <2>1. hand' = hand BY <1>8 DEF Refuse, PlaceFails, Sync, Placed
  <2>2. HandTypes' BY <1>0, <2>1 DEF HandTypes
  <2>3. /\ pc[a] \in Placings
        /\ \E q \in {"refused", "raised", "syncAbove", "ok"} :
              pc' = [pc EXCEPT ![a] = q] /\ (q = "refused" => call[a].op = "create")
        BY <1>8 DEF Refuse, PlaceFails, Sync, Placed
  <2>. QED BY <1>0, <1>1, <1>2, <2>1, <2>2, <2>3, CallMoves
<1>9. CASE SweepOld(a) \/ Rename(a) \/ SyncRoot(a) \/ SweepNew(a) \/ Return(a)
  <2>1. hand' = hand BY <1>9 DEF SweepOld, Rename, SyncRoot, SweepNew, Return
  <2>2. HandTypes' BY <1>0, <2>1 DEF HandTypes
  <2>3. /\ pc[a] \in Removals \union {"return"}
        /\ \E q \in {"rename", "syncRoot", "sweepNew", "return", "ok", "raised"} :
              pc' = [pc EXCEPT ![a] = q]
        BY <1>9 DEF SweepOld, Rename, SyncRoot, SweepNew, Return
  <2>. QED BY <1>0, <1>1, <1>2, <2>1, <2>2, <2>3, CallMoves
<1>. QED BY <1>3, <1>4, <1>5, <1>6, <1>7, <1>8, <1>9 DEF Steps

(* The ways a call begins and ends, and the ends of all.                   *)
LEMMA BeginKeeps ==
    ASSUME StoreInv, NEW a \in Actors, NEW c \in Calls, Begin(a, c)
    PROVE  StoreInv' /\ Quiet
<1>0. FolderInv /\ UNCHANGED <<dir, disk>> BY StoreParts DEF Begin
<1>1. FolderInv' /\ Quiet BY <1>0, StillIsQuiet
<1>2. /\ pc' = [pc EXCEPT ![a] = IF c.op = "delete" THEN "sweepOld" ELSE "look"]
      /\ call' = [call EXCEPT ![a] = c] /\ hand' = hand
      BY DEF Begin, Moves
<1>3. StoreTypes'
      BY <1>0, <1>1, <1>2 DEF StoreInv, StoreTypes, FolderInv, FolderTypes, States, Placings, Removals
<1>4. ASSUME NEW b \in Actors PROVE InCall(b)'
  <2>1. CASE b = a
    <3>1. /\ call'[a] = c /\ pc'[a] = (IF c.op = "delete" THEN "sweepOld" ELSE "look")
          /\ c.op \in {"create", "replace", "delete"}
          BY <1>2, CallParts DEF StoreInv, StoreTypes
    <3>. QED BY <2>1, <3>1 DEF InCall, Placings, Removals
  <2>2. CASE b # a
    <3>1. pc'[b] = pc[b] /\ call'[b] = call[b] /\ hand'[b] = hand[b] /\ InCall(b)
          BY <1>2, <2>2 DEF StoreInv, StoreTypes
    <3>. QED BY <3>1 DEF InCall
  <2>. QED BY <2>1, <2>2
<1>. QED BY <1>1, <1>3, <1>4 DEF StoreInv, FolderInv

LEMMA NoHandTyped == NoHand \in [leaf : Inodes \union {Nothing}, made : SUBSET Names]
BY DEF NoHand

LEMMA TakesKeeps ==
    ASSUME StoreInv, NEW a \in Actors, Takes(a)
    PROVE  StoreInv' /\ Quiet
<1>0. FolderInv /\ UNCHANGED <<dir, disk>> BY StoreParts DEF Takes
<1>1. FolderInv' /\ Quiet BY <1>0, StillIsQuiet
<1>2. HandTypes' /\ \A b \in Actors \ {a} : hand'[b] = hand[b]
      BY NoHandTyped DEF Takes, StoreInv, StoreTypes, HandTypes
<1>. QED BY <1>1, <1>2, CallMoves DEF Takes, States, Placings, Removals

LEMMA RaisesKeeps ==
    ASSUME StoreInv, NEW a \in Actors, Raises(a)
    PROVE  StoreInv' /\ Quiet
<1>0. FolderInv /\ UNCHANGED <<dir, disk>> BY StoreParts DEF Raises
<1>1. FolderInv' /\ Quiet BY <1>0, StillIsQuiet
<1>2. HandTypes' /\ \A b \in Actors \ {a} : hand'[b] = hand[b]
      BY DEF Raises, StoreInv, StoreTypes, HandTypes
<1>. QED BY <1>1, <1>2, CallMoves DEF Raises, States, Outcomes, Placings, Removals

LEMMA AllIdle ==
    ASSUME StoreInv, FolderInv', pc' = [a \in Actors |-> "idle"], hand' = [a \in Actors |-> NoHand],
           call' = call
    PROVE  StoreInv'
<1>1. StoreTypes'
      BY NoHandTyped DEF StoreInv, StoreTypes, FolderInv, FolderTypes, States
<1>2. \A a \in Actors : InCall(a)' BY DEF InCall, Placings, Removals
<1>. QED BY <1>1, <1>2 DEF StoreInv, FolderInv

LEMMA StopsKeeps ==
    ASSUME StoreInv, StoreStops
    PROVE  StoreInv' /\ Quiet
<1>1. FolderInv' /\ Quiet BY StoreParts, StillIsQuiet DEF StoreStops
<1>. QED BY <1>1, AllIdle DEF StoreStops

LEMMA LossKeeps ==
    ASSUME StoreInv, LosesPower
    PROVE  StoreInv'
<1>1. FolderInv' BY StoreParts, PowerLeaves
<1>. QED BY <1>1, AllIdle DEF LosesPower

LEMMA StoreStarts ==
    ASSUME StoreInit
    PROVE  StoreInv
<1>1. FolderTypes BY Emptiness DEF StoreInit, FolderTypes
<1>2. Tree BY Emptiness DEF StoreInit, Tree
<1>3. [op |-> "delete"] \in Calls BY DEF Calls
<1>4. StoreTypes BY <1>1, <1>3, NoHandTyped DEF StoreInit, StoreTypes, FolderTypes, States
<1>5. \A a \in Actors : InCall(a) BY DEF StoreInit, InCall, Placings, Removals
<1>. QED BY <1>2, <1>4, <1>5 DEF StoreInv

-----------------------------------------------------------------------------
(***************************************************************************)
(* The adapter implements the port                                         *)
(***************************************************************************)
PortValues == [k \in Keys |-> Read(k)]
PortPhase == [a \in Actors |-> Phase(pc[a])]

LEMMA Phases ==
    /\ \A p \in {"idle", "ok", "refused", "raised"} : Phase(p) = p
    /\ \A p \in {"sync", "syncAbove", "syncRoot", "sweepNew", "return"} : Phase(p) = "effective"
    /\ \A p \in Unplaced \union {"sweepOld", "rename"} : Phase(p) = "begun"
BY DEF Phase, Unplaced

LEMMA PhaseMoves ==
    ASSUME StoreInv, NEW a \in Actors, NEW q \in States, pc' = [pc EXCEPT ![a] = q]
    PROVE  PortPhase' = [PortPhase EXCEPT ![a] = Phase(q)] /\ PortPhase[a] = Phase(pc[a])
<1>1. DOMAIN pc = Actors BY StoreParts
<1>2. \A b \in Actors : pc'[b] = IF b = a THEN q ELSE pc[b] BY <1>1
<1>3. PortPhase' = [b \in Actors |-> Phase(pc'[b])] BY DEF PortPhase
<1>4. PortPhase' = [b \in Actors |-> IF b = a THEN Phase(q) ELSE Phase(pc[b])] BY <1>2, <1>3
<1>. QED BY <1>4 DEF PortPhase

LEMMA SameValues ==
    ASSUME SameReads
    PROVE  PortValues' = PortValues
<1>1. PortValues' = [k \in Keys |-> Read(k)'] BY DEF PortValues
<1>. QED BY <1>1 DEF PortValues, SameReads

(* A step of a call that changes no read is a step of the port's call that *)
(* changes no value, or none.                                              *)
LEMMA PortMoves ==
    ASSUME StoreInv, NEW a \in Actors, NEW q \in States, pc' = [pc EXCEPT ![a] = q], call' = call, SameReads,
           \/ Phase(q) = Phase(pc[a])
           \/ Phase(pc[a]) = "effective" /\ Phase(q) = "ok"
           \/ Phase(pc[a]) \in {"begun", "effective"} /\ Phase(q) = "raised"
           \/ Phase(pc[a]) \in {"ok", "refused", "raised"} /\ Phase(q) = "idle"
    PROVE  [Port!Next]_(Port!vars)
<1>1. PortPhase' = [PortPhase EXCEPT ![a] = Phase(q)] /\ PortPhase[a] = Phase(pc[a]) BY PhaseMoves
<1>2. PortValues' = PortValues BY SameValues
<1>3. CASE Phase(q) = Phase(pc[a])
  <2>1. PortPhase' = PortPhase BY <1>1, <1>3 DEF PortPhase
  <2>. QED BY <1>2, <2>1 DEF Port!vars, PortValues, PortPhase
<1>4. CASE Phase(pc[a]) = "effective" /\ Phase(q) = "ok"
  <2>1. Port!Return(a) BY <1>1, <1>2, <1>4 DEF Port!Return, Port!Goes, PortValues, PortPhase
  <2>. QED BY <2>1 DEF Port!Next
<1>5. CASE Phase(pc[a]) \in {"begun", "effective"} /\ Phase(q) = "raised"
  <2>1. Port!Raise(a) BY <1>1, <1>2, <1>5 DEF Port!Raise, Port!Goes, PortValues, PortPhase
  <2>. QED BY <2>1 DEF Port!Next
<1>6. CASE Phase(pc[a]) \in {"ok", "refused", "raised"} /\ Phase(q) = "idle"
  <2>1. Port!Take(a) BY <1>1, <1>2, <1>6 DEF Port!Take, Port!Goes, PortValues, PortPhase
  <2>. QED BY <2>1 DEF Port!Next
<1>. QED BY <1>3, <1>4, <1>5, <1>6

LEMMA PortStutters ==
    ASSUME UNCHANGED storeVars
    PROVE  [Port!Next]_(Port!vars)
<1>1. \A k \in Keys : Read(k)' = Read(k) BY DEF storeVars, Read, At
<1>2. PortValues' = PortValues BY <1>1, SameValues DEF SameReads
<1>3. PortPhase' = PortPhase BY DEF storeVars, PortPhase
<1>. QED BY <1>2, <1>3 DEF storeVars, Port!vars, PortValues, PortPhase

LEMMA PortBegins ==
    ASSUME StoreInv, NEW a \in Actors, NEW c \in Calls, Begin(a, c)
    PROVE  [Port!Next]_(Port!vars)
<1>1. PICK q \in {"sweepOld", "look"} : pc' = [pc EXCEPT ![a] = q] BY DEF Begin, Moves
<1>2. PortPhase' = [PortPhase EXCEPT ![a] = "begun"] /\ PortPhase[a] = "idle"
  <2>1. q \in States /\ pc[a] = "idle" BY DEF Begin, Moves, States, Placings, Removals
  <2>2. Phase(q) = "begun" /\ Phase(pc[a]) = "idle" BY <2>1, Phases DEF Unplaced
  <2>. QED BY <1>1, <2>1, <2>2, PhaseMoves
<1>3. PortValues' = PortValues BY BeginKeeps, SameValues DEF Quiet
<1>4. call' = [call EXCEPT ![a] = c] /\ c \in Port!Calls BY DEF Begin, Calls, Port!Calls
<1>5. Port!Begin(a)
      BY <1>2, <1>3, <1>4 DEF Port!Begin, Port!Goes, PortValues, PortPhase
<1>. QED BY <1>5 DEF Port!Next

LEMMA PortSteps ==
    ASSUME StoreInv, NEW a \in Actors, Steps(a)
    PROVE  [Port!Next]_(Port!vars)
<1>0. /\ call' = call /\ InCall(a) /\ call[a] \in Calls
  <2>1. call' = call
        BY DEF Steps, Look, MakeLeaf, MakeAbove, MakeAgain, Open, Place, Refuse, PlaceFails, Sync,
               SyncAbove, Placed, SweepOld, Rename, SyncRoot, SweepNew, Return
  <2>. QED BY <2>1, StoreParts
<1>1. CASE Place(a)
  <2>1. PICK k \in Keys, v \in Values : k = call[a].key /\ v = call[a].value /\ Put(k, v)
        BY <1>1, PlacePuts
  <2>2. pc[a] = "place" /\ pc' = [pc EXCEPT ![a] = "sync"] /\ call[a].op \in {"create", "replace"}
        BY <1>0, <1>1 DEF Place, Moves, InCall, Placings
  <2>3. PortPhase' = [PortPhase EXCEPT ![a] = "effective"] /\ PortPhase[a] = "begun"
    <3>1. "sync" \in States /\ Phase("sync") = "effective" /\ Phase("place") = "begun"
          BY Phases DEF Unplaced, States, Placings
    <3>. QED BY <2>2, <3>1, PhaseMoves
  <2>4. PortValues' = [PortValues EXCEPT ![call[a].key] = call[a].value]
    <3>1. PortValues' = [j \in Keys |-> Read(j)'] BY DEF PortValues
    <3>2. Read(k)' = v /\ \A j \in Keys : j # k => Read(j)' = Read(j) BY <2>1 DEF Put
    <3>3. PortValues' = [PortValues EXCEPT ![k] = v] BY <3>1, <3>2 DEF PortValues
    <3>. QED BY <2>1, <3>3
  <2>5. call[a].op = "create" => PortValues[call[a].key] = Nothing
    <3>1. call[a].op = "create" => dir[hand[a].leaf][call[a].key] = Nothing
          BY <1>1 DEF Place, Taken
    <3>2. At(dir, Home[call[a].key]) = hand[a].leaf BY <1>1 DEF Place, Reaches, Leaf
    <3>. QED BY <2>1, <3>1, <3>2 DEF PortValues, Read
  <2>6. Port!TakeEffect(a)
        BY <1>0, <2>2, <2>3, <2>4, <2>5 DEF Port!TakeEffect, Port!Goes, PortValues, PortPhase
  <2>. QED BY <2>6 DEF Port!Next
<1>2. CASE Rename(a)
  <2>1. pc[a] = "rename" /\ call[a].op = "delete"
        BY <1>0, <1>2 DEF Rename, Moves, InCall, Removals
  <2>2. CASE Quiet /\ pc' = [pc EXCEPT ![a] = "raised"]
    <3>1. "raised" \in States /\ Phase("raised") = "raised" /\ Phase(pc[a]) = "begun"
          BY <2>1, Phases DEF States, Outcomes
    <3>. QED BY <1>0, <2>2, <3>1, PortMoves DEF Quiet
  <2>3. ASSUME NEW q \in {"return", "syncRoot"}, pc' = [pc EXCEPT ![a] = q],
               \A k \in Keys : Read(k)' = Nothing
        PROVE  Port!TakeEffect(a)
    <3>1. PortValues' = [k \in Keys |-> Nothing]
      <4>1. PortValues' = [k \in Keys |-> Read(k)'] BY DEF PortValues
      <4>. QED BY <2>3, <4>1
    <3>2. PortPhase' = [PortPhase EXCEPT ![a] = "effective"] /\ PortPhase[a] = "begun"
      <4>1. q \in States BY DEF States, Removals
      <4>2. Phase(q) = "effective" /\ Phase(pc[a]) = "begun" BY <2>1, Phases
      <4>. QED BY <2>3, <4>1, <4>2, PhaseMoves
    <3>. QED BY <1>0, <2>1, <3>1, <3>2 DEF Port!TakeEffect, Port!Goes, PortValues, PortPhase
  <2>4. CASE Quiet /\ pc' = [pc EXCEPT ![a] = "return"] /\ \A k \in Keys : Read(k) = Nothing
    <3>1. Port!TakeEffect(a) BY <2>3, <2>4 DEF Quiet, SameReads
    <3>. QED BY <3>1 DEF Port!Next
  <2>5. CASE pc' = [pc EXCEPT ![a] = "syncRoot"] /\ \A k \in Keys : Read(k)' = Nothing
    <3>1. Port!TakeEffect(a) BY <2>3, <2>5
    <3>. QED BY <3>1 DEF Port!Next
  <2>. QED BY <1>2, <2>2, <2>4, <2>5, RenameTakes
<1>3. CASE Refuse(a)
  <2>1. SameReads BY <1>3, QuietSteps DEF QuietStep, Quiet
  <2>2. PortValues' = PortValues BY <2>1, SameValues
  <2>3. PortPhase' = [PortPhase EXCEPT ![a] = "refused"] /\ PortPhase[a] = "begun"
    <3>1. pc[a] = "place" /\ pc' = [pc EXCEPT ![a] = "refused"] BY <1>3 DEF Refuse, Moves
    <3>2. "refused" \in States /\ Phase("refused") = "refused" /\ Phase("place") = "begun"
          BY Phases DEF Unplaced, States, Outcomes
    <3>. QED BY <3>1, <3>2, PhaseMoves
  <2>4. call[a].op = "create" /\ call[a].key \in Keys BY <1>0, <1>3, CallParts DEF Refuse
  <2>5. PortValues[call[a].key] # Nothing
    <3>1. dir[hand[a].leaf][call[a].key] # Nothing BY <1>3 DEF Refuse, Taken
    <3>2. At(dir, Home[call[a].key]) = hand[a].leaf BY <1>3 DEF Refuse, Reaches, Leaf
    <3>3. hand[a].leaf # Nothing BY <1>0, <1>3 DEF Refuse, Moves, InCall
    <3>. QED BY <2>4, <3>1, <3>2, <3>3 DEF PortValues, Read
  <2>6. Port!Refuse(a)
        BY <1>0, <2>2, <2>3, <2>4, <2>5 DEF Port!Refuse, Port!Goes, PortValues, PortPhase
  <2>. QED BY <2>6 DEF Port!Next
<1>4. CASE QuietStep(a) /\ ~Refuse(a)
  <2>1. SameReads BY <1>4, QuietSteps DEF Quiet
  <2>2. \E q \in States :
           /\ pc' = [pc EXCEPT ![a] = q]
           /\ \/ Phase(q) = Phase(pc[a])
              \/ Phase(pc[a]) = "effective" /\ Phase(q) = "ok"
              \/ Phase(pc[a]) \in {"begun", "effective"} /\ Phase(q) = "raised"
    <3>. USE Phases DEF Moves, Unplaced, States, Placings, Removals, Outcomes
    <3>1. CASE Look(a) \/ MakeLeaf(a) \/ MakeAbove(a) \/ MakeAgain(a) \/ Open(a) \/ PlaceFails(a)
          BY <3>1 DEF Look, MakeLeaf, MakeAbove, MakeAgain, Open, PlaceFails
    <3>2. CASE Sync(a) \/ SyncAbove(a) \/ Placed(a)
          BY <3>2 DEF Sync, SyncAbove, Placed
    <3>3. CASE SweepOld(a) \/ SyncRoot(a) \/ SweepNew(a) \/ Return(a)
          BY <3>3 DEF SweepOld, SyncRoot, SweepNew, Return
    <3>. QED BY <1>4, <3>1, <3>2, <3>3 DEF QuietStep
  <2>. QED BY <1>0, <2>1, <2>2, PortMoves
<1>. QED BY <1>1, <1>2, <1>3, <1>4 DEF Steps, QuietStep

LEMMA PortTakes ==
    ASSUME StoreInv, NEW a \in Actors, Takes(a)
    PROVE  [Port!Next]_(Port!vars)
BY TakesKeeps, Phases, PortMoves DEF Takes, Outcomes, States, Quiet

LEMMA PortRaises ==
    ASSUME StoreInv, NEW a \in Actors, Raises(a)
    PROVE  [Port!Next]_(Port!vars)
<1>1. Phase(pc[a]) \in {"begun", "effective"}
      BY Phases DEF Raises, Placings, Removals, Unplaced
<1>. QED BY <1>1, RaisesKeeps, Phases, PortMoves DEF Raises, Quiet, States, Outcomes

LEMMA IdlePhase ==
    ASSUME pc' = [a \in Actors |-> "idle"]
    PROVE  PortPhase' = [a \in Actors |-> "idle"]
BY Phases DEF PortPhase

LEMMA PortStops ==
    ASSUME StoreInv, StoreStops
    PROVE  [Port!Next]_(Port!vars)
<1>1. PortPhase' = [a \in Actors |-> "idle"] BY IdlePhase DEF StoreStops
<1>2. PortValues' = PortValues BY StopsKeeps, SameValues DEF Quiet
<1>3. Port!Stop BY <1>1, <1>2 DEF Port!Stop, StoreStops, PortValues, PortPhase
<1>. QED BY <1>3 DEF Port!Next

LEMMA ReadsAreValues ==
    ASSUME FolderInv
    PROVE  \A k \in Keys : Read(k) \in Values \union {Nothing}
BY ReadsAre, Walks, ContentParts, Naming, Nowhere DEF FolderInv, FolderTypes

LEMMA PortLosesPower ==
    ASSUME StoreInv, LosesPower
    PROVE  [Port!Next]_(Port!vars)
<1>1. PortPhase' = [a \in Actors |-> "idle"] BY IdlePhase DEF LosesPower
<1>2. FolderInv' BY LossKeeps, StoreParts, PowerLeaves
<1>3. Top' \in Inodes \union {Nothing} /\ (Top' # Nothing => MediaFolder' \in Inodes \union {Nothing})
      BY <1>2, Naming, Nowhere, ContentParts DEF FolderInv, FolderTypes, Top, MediaFolder
<1>4. \A k \in Keys : Read(k)' \in Values \union {Nothing}
      BY <1>2, <1>3, ReadsNext, ContentParts, Naming, Nowhere DEF FolderInv, FolderTypes
<1>5. PortValues' \in [Keys -> Values \union {Nothing}]
  <2>1. PortValues' = [k \in Keys |-> Read(k)'] BY DEF PortValues
  <2>. QED BY <1>4, <2>1
<1>6. Port!LosePower BY <1>1, <1>5 DEF Port!LosePower, LosesPower, PortValues, PortPhase
<1>. QED BY <1>6 DEF Port!Next

LEMMA PortStarts ==
    ASSUME StoreInit, StoreInv
    PROVE  Port!Init
<1>1. PortValues \in [Keys -> Values \union {Nothing}]
      BY StoreParts, ReadsAreValues DEF PortValues
<1>2. PortPhase = [a \in Actors |-> "idle"] BY Phases DEF StoreInit, PortPhase
<1>3. call \in [Actors -> Port!Calls] BY DEF StoreInv, StoreTypes, Calls, Port!Calls
<1>. QED BY <1>1, <1>2, <1>3 DEF Port!Init, PortValues, PortPhase

-----------------------------------------------------------------------------
(***************************************************************************)
(* The requests                                                            *)
(***************************************************************************)
LEMMA CoveredStays ==
    ASSUME FolderInv, Quiet, NEW files, Covered(files)
    PROVE  Covered(files)'
<1>1. Top # Nothing /\ Top \in Folders BY ReadsAre, Walks, Nowhere DEF Covered, FolderInv
<1>2. dir[Top] \in disk[Top] BY <1>1 DEF FolderInv, Tree
<1>3. Read(Readme)' # Nothing BY Naming DEF Covered, Quiet, SameReads
<1>4. Top' = Top BY <1>1 DEF Quiet
<1>5. files # {} => MediaFolder # Nothing /\ MediaFolder' = MediaFolder
      BY <1>1, <1>2 DEF Covered, Quiet
<1>6. ASSUME NEW c \in disk'[Top]
      PROVE  /\ c[Readme] # Nothing /\ files \subseteq c[Readme]
             /\ files # {} => c[Media] # Nothing /\ c[Media] = MediaFolder'
  <2>1. PICK d \in disk[Top] :
            c[Readme] = d[Readme] /\ (MediaFolder # Nothing => c[Media] = d[Media])
        BY <1>1 DEF Quiet
  <2>. QED BY <1>5, <2>1 DEF Covered
<1>. QED BY <1>3, <1>4, <1>6 DEF Covered

LEMMA CoveredPut ==
    ASSUME FolderInv, NEW k \in Keys, NEW v \in Values, Put(k, v), NEW files, Covered(files),
           k = Readme => files \subseteq v
    PROVE  Covered(files)'
<1>1. Read(Readme)' # Nothing
      BY Naming, Nowhere DEF Covered, Put
<1>2. Top' = Top /\ MediaFolder' = MediaFolder BY DEF Put
<1>3. ASSUME NEW c \in disk'[Top]
      PROVE  /\ c[Readme] # Nothing /\ files \subseteq c[Readme]
             /\ files # {} => c[Media] # Nothing /\ c[Media] = MediaFolder
  <2>1. PICK d \in disk[Top] :
            /\ c[Media] = d[Media]
            /\ c[Readme] = d[Readme] \/ (k = Readme /\ c[Readme] = v /\ d = dir[Top])
        BY DEF Put
  <2>. QED BY <2>1, Nowhere DEF Covered
<1>. QED BY <1>1, <1>2, <1>3 DEF Covered

Actor(a) == InRequest(a) /\ Creating(a) /\ Saving(a) /\ Making(a) /\ Removing(a)

LEMMA RequestParts ==
    ASSUME Requests
    PROVE  RequestTypes /\ Unborn /\ \A a \in Actors : Actor(a)
BY DEF Requests, Actor

LEMMA StoredIsRead == \A f \in Files : Stored(f) <=> Read(f) = Bytes(f)
BY DEF Stored

(* A request that is about to create is alone; nobody else is in a call.   *)
LEMMA Alone ==
    ASSUME Requests, NEW a \in Actors, NEW b \in Actors \ {a},
           at[a] \in {"saving", "writing"}, job[a].loaded = Nothing,
           at[a] = "saving" \/ pc[a] \in Unplaced
    PROVE  at[b] = "idle" /\ pc[b] = "idle" /\ \A k \in Keys : Read(k) = Nothing
<1>1. at[b] = "idle" /\ \A k \in Keys : Read(k) = Nothing BY DEF Requests, Creating
<1>2. InRequest(b) BY DEF Requests
<1>. QED BY <1>1, <1>2 DEF InRequest

Untouched(b) ==
    /\ at'[b] = at[b] /\ job'[b] = job[b]
    /\ pc'[b] = pc[b] /\ call'[b] = call[b] /\ hand'[b] = hand[b]

(* What one request does besides: it takes or frees the lock, begins or    *)
(* goes on, and only under the lock says what is promised or gone.         *)
Manners(a) ==
    /\ \A b \in Actors \ {a} : Untouched(b) /\ (lock = b => lock' = b)
    /\ at[a] # "idle" \/ Read(Readme) # Nothing \/ requests = 0
    /\ \/ promised' \in {promised, Nothing} /\ gone' = gone
       \/ lock = a /\ at[a] # "idle"

LEMMA BystanderInRequest ==
    ASSUME NEW a \in Actors, Manners(a), NEW b \in Actors \ {a}, InRequest(b)
    PROVE  InRequest(b)'
<1>1. Untouched(b) /\ (lock = b => lock' = b) BY DEF Manners
<1>. QED BY <1>1 DEF InRequest, Untouched, Bytes

LEMMA BystandersAtQuiet ==
    ASSUME StoreInv, Requests, Quiet, NEW a \in Actors, Manners(a), NEW b \in Actors \ {a}
    PROVE  Actor(b)'
<1>0. Actor(b) /\ FolderInv BY RequestParts, StoreParts
<1>1. InRequest(b)' BY <1>0, BystanderInRequest DEF Actor
<1>2. Untouched(b) /\ (lock = b => lock' = b) BY DEF Manners
<1>3. \A k \in Keys : Read(k)' = Read(k) BY DEF Quiet, SameReads
<1>4. Readme \in Keys /\ Files \subseteq Keys BY Naming
<1>5. at[b] \in {"writing", "removing"} =>
          lock = b /\ promised' \in {promised, Nothing} /\ gone' = gone
      BY <1>0 DEF Actor, InRequest, Manners
<1>6. Creating(b)'
  <2>1. SUFFICES ASSUME at[b] \in {"saving", "writing"}, job[b].loaded = Nothing
                 PROVE  promised' = Nothing /\ ~gone' /\ at[b] = "writing" /\ pc[b] \notin Unplaced
        BY <1>2 DEF Creating, Untouched, Unplaced
  <2>2. promised = Nothing /\ ~gone BY <1>0, <2>1 DEF Actor, Creating
  <2>3. at[b] = "saving" \/ pc[b] \in Unplaced =>
            (\A k \in Keys : Read(k) = Nothing) /\ at[a] = "idle"
        BY <1>0, <2>1 DEF Actor, Creating
  <2>4. requests # 0 BY <2>1 DEF Requests, Unborn
  <2>5. ~(at[b] = "saving" \/ pc[b] \in Unplaced) BY <1>4, <2>3, <2>4 DEF Manners
  <2>. QED BY <1>5, <2>1, <2>2, <2>5 DEF Manners
<1>7. Saving(b)'
  <2>1. PICK wanted : wanted = job[b].wanted /\ job'[b].wanted = wanted BY <1>2 DEF Untouched
  <2>2. /\ at[b] = "writing" => ~gone'
        /\ at[b] \in {"saving", "writing"} /\ job[b].loaded # Nothing => job[b].loaded \subseteq wanted
        /\ at[b] = "writing" /\ pc[b] \in Unplaced => Read(Readme)' = job[b].loaded
        /\ at[b] = "writing" /\ pc[b] = "sync" => Read(Readme)' = wanted
        BY <1>0, <1>3, <1>4, <1>5, <2>1 DEF Actor, Saving
  <2>3. at[b] = "writing" => \A f \in wanted : Stored(f)'
    <3>1. at[b] = "writing" => \A f \in wanted : Stored(f) BY <1>0, <2>1 DEF Actor, Saving
    <3>2. job[b].wanted \subseteq Files BY DEF Requests, RequestTypes
    <3>3. \A f \in Files : Stored(f)' <=> Read(f)' = Bytes(f) BY DEF Stored, Bytes
    <3>. QED BY <1>3, <1>4, <2>1, <3>1, <3>2, <3>3, StoredIsRead
  <2>4. at[b] = "writing" /\ pc[b] \in {"syncAbove", "ok"} => Covered(wanted)'
        BY <1>0, <2>1, CoveredStays DEF Actor, Saving
  <2>5. at[b] = "writing" /\ pc[b] \in {"syncAbove", "ok"} => Covered(job[b].wanted)'
        BY <2>1, <2>4 DEF Covered
  <2>. QED BY <1>2, <2>1, <2>2, <2>3, <2>5 DEF Saving, Untouched
<1>8. Making(b)'
      BY <1>0, <1>2, <1>3, <1>4 DEF Actor, Making, Untouched
<1>9. Removing(b)'
  <2>1. at[b] = "removing" => promised' = Nothing
        BY <1>0, <1>5 DEF Actor, Removing
  <2>2. NoReadme(dir[Root]) => NoReadme(dir[Root])' BY DEF Quiet
  <2>. QED BY <1>0, <1>2, <1>3, <1>4, <2>1, <2>2 DEF Actor, Removing, Untouched, Quiet
<1>. QED BY <1>1, <1>6, <1>7, <1>8, <1>9 DEF Actor

(* Where a call places: whose request it is, and what was there before.    *)
LEMMA PlacerIs ==
    ASSUME StoreInv, Requests, NEW a \in Actors, Place(a)
    PROVE  /\ pc[a] = "place" /\ pc' = [pc EXCEPT ![a] = "sync"] /\ call' = call
           /\ hand' = [hand EXCEPT ![a].leaf = Nothing]
           /\ \/ /\ at[a] = "placing" /\ call[a].key \in Files
                 /\ call[a].value = Bytes(call[a].key) /\ Read(call[a].key) = Nothing
              \/ /\ at[a] = "writing" /\ lock = a
                 /\ call[a].key = Readme /\ call[a].value = job[a].wanted
<1>1. /\ pc[a] = "place" /\ pc' = [pc EXCEPT ![a] = "sync"] /\ call' = call
      /\ hand' = [hand EXCEPT ![a].leaf = Nothing]
      BY DEF Place, Moves
<1>2. InRequest(a) /\ at[a] \in Stations BY RequestParts DEF Actor, RequestTypes
<1>3. at[a] = "placing" \/ at[a] = "writing"
      BY <1>1, <1>2 DEF InRequest, Stations, Removals
<1>4. CASE at[a] = "placing"
  <2>1. /\ call[a].op = "create" /\ call[a].key = job[a].file /\ job[a].file \in Files
        /\ call[a].value = Bytes(job[a].file)
        BY <1>2, <1>4 DEF InRequest
  <2>2. dir[hand[a].leaf][call[a].key] = Nothing BY <2>1 DEF Place, Taken
  <2>3. At(dir, Home[call[a].key]) = hand[a].leaf BY DEF Place, Reaches, Leaf
  <2>4. Read(call[a].key) = Nothing BY <2>2, <2>3 DEF Read
  <2>. QED BY <1>1, <1>4, <2>1, <2>4
<1>5. CASE at[a] = "writing"
      BY <1>1, <1>2, <1>5 DEF InRequest
<1>. QED BY <1>3, <1>4, <1>5

LEMMA BystandersAtPlace ==
    ASSUME StoreInv, Requests, NEW a \in Actors, Place(a), UNCHANGED articleVars,
           NEW b \in Actors \ {a}
    PROVE  Actor(b)'
<1>0. Actor(b) /\ Actor(a) /\ FolderInv /\ RequestTypes BY RequestParts, StoreParts
<1>1. /\ pc[a] = "place" /\ pc' = [pc EXCEPT ![a] = "sync"] /\ call' = call
      /\ hand' = [hand EXCEPT ![a].leaf = Nothing]
      BY PlacerIs
<1>2. /\ lock' = lock /\ at' = at /\ job' = job /\ promised' = promised /\ gone' = gone
      BY DEF articleVars
<1>3. pc'[b] = pc[b] /\ call'[b] = call[b] /\ hand'[b] = hand[b] BY <1>1, StoreParts
<1>4. PICK k \in Keys, v \in Values : k = call[a].key /\ v = call[a].value /\ Put(k, v)
      BY PlacePuts
<1>5. /\ Read(k)' = v /\ \A j \in Keys : j # k => Read(j)' = Read(j)
      /\ k # Readme => (Gone => Gone') /\ (NoReadme(dir[Root]) => NoReadme(dir[Root])')
      BY <1>4 DEF Put
<1>6. Readme \in Keys /\ Files \subseteq Keys /\ Readme \notin Files BY Naming
<1>7. at[a] \in {"placing", "writing"} BY PlacerIs
<1>8. InRequest(b)' BY <1>0, <1>2, <1>3 DEF Actor, InRequest, Bytes
<1>9. at[b] \in {"saving", "writing"} /\ job[b].loaded = Nothing =>
          at[b] = "writing" /\ pc[b] \notin Unplaced
      BY <1>7, Alone
<1>10. Creating(b)' BY <1>0, <1>2, <1>3, <1>9 DEF Actor, Creating, Unplaced
<1>11. CASE k = Readme
  <2>1. at[a] = "writing" /\ lock = a BY <1>4, <1>6, <1>11, PlacerIs
  <2>2. at[b] \notin {"writing", "removing"} BY <1>0, <2>1 DEF Actor, InRequest
  <2>3. Saving(b)' BY <1>0, <1>2, <1>3, <2>2 DEF Actor, Saving
  <2>4. Removing(b)' BY <1>2, <2>2 DEF Removing
  <2>5. Making(b)'
    <3>1. CASE Read(Readme) # Nothing BY <1>0, <1>3, <2>2, <3>1 DEF Actor, Making
    <3>2. CASE Read(Readme) = Nothing
      <4>1. job[a].loaded = Nothing BY <1>0, <1>1, <2>1, <3>2 DEF Actor, Saving, Unplaced
      <4>2. pc[b] = "idle" BY <1>1, <2>1, <4>1, Alone DEF Unplaced
      <4>. QED BY <1>0, <1>3, <4>2 DEF Actor, Making, Placings
    <3>. QED BY <3>1, <3>2
  <2>. QED BY <1>8, <1>10, <2>3, <2>4, <2>5 DEF Actor
<1>12. CASE k # Readme
  <2>1. k \in Files /\ Read(k) = Nothing /\ v = Bytes(k) BY <1>4, <1>6, <1>12, PlacerIs
  <2>2. Read(Readme)' = Read(Readme) BY <1>5, <1>6, <1>12
  <2>3. Saving(b)'
    <3>1. PICK wanted : wanted = job[b].wanted OBVIOUS
    <3>2. wanted \subseteq Files BY <1>0, <3>1 DEF RequestTypes
    <3>3. at[b] = "writing" => \A f \in wanted : Stored(f)'
      <4>1. at[b] = "writing" => \A f \in wanted : Stored(f) BY <1>0, <3>1 DEF Actor, Saving
      <4>2. \A f \in Files : Stored(f)' <=> Read(f)' = Bytes(f) BY DEF Stored, Bytes
      <4>3. \A f \in wanted : Bytes(f) # Nothing BY <3>2, BytesAreValues
      <4>4. at[b] = "writing" => \A f \in wanted : f # k BY <2>1, <3>2, <4>1, <4>3, StoredIsRead
      <4>. QED BY <1>5, <1>6, <3>2, <4>1, <4>2, <4>4, StoredIsRead
    <3>4. at[b] = "writing" /\ pc[b] \in {"syncAbove", "ok"} => Covered(wanted)'
          BY <1>0, <1>4, <1>12, <3>1, CoveredPut DEF Actor, Saving
    <3>5. at[b] = "writing" /\ pc[b] \in {"syncAbove", "ok"} => Covered(job[b].wanted)'
          BY <1>2, <3>1, <3>4 DEF Covered
    <3>6. /\ at[b] \in {"saving", "writing"} /\ job[b].loaded # Nothing => job[b].loaded \subseteq wanted
          /\ at[b] = "writing" => ~gone'
          /\ at[b] = "writing" /\ pc[b] \in Unplaced => Read(Readme)' = job[b].loaded
          /\ at[b] = "writing" /\ pc[b] = "sync" => Read(Readme)' = wanted
          BY <1>0, <1>2, <2>2, <3>1 DEF Actor, Saving
    <3>. QED BY <1>2, <1>3, <3>1, <3>3, <3>5, <3>6 DEF Saving
  <2>4. Making(b)' BY <1>0, <1>2, <1>3, <2>2 DEF Actor, Making
  <2>5. Removing(b)' BY <1>0, <1>2, <1>3, <1>5, <1>12, <2>2 DEF Actor, Removing
  <2>. QED BY <1>8, <1>10, <2>3, <2>4, <2>5 DEF Actor
<1>. QED BY <1>11, <1>12

LEMMA RenamerIs ==
    ASSUME Requests, NEW a \in Actors, pc[a] \in Removals \union {"return"}
    PROVE  at[a] = "removing" /\ lock = a
<1>1. InRequest(a) /\ at[a] \in Stations BY RequestParts DEF Actor, RequestTypes
<1>. QED BY <1>1 DEF InRequest, Stations, Removals, Placings, Outcomes

LEMMA BystandersAtRename ==
    ASSUME Requests, NEW a \in Actors, pc[a] = "rename", hand' = hand, call' = call,
           pc' = [pc EXCEPT ![a] = "syncRoot"], DOMAIN pc = Actors,
           \A k \in Keys : Read(k)' = Nothing, UNCHANGED articleVars, NEW b \in Actors \ {a}
    PROVE  Actor(b)'
<1>0. Actor(b) BY RequestParts
<1>1. at[a] = "removing" /\ lock = a BY RenamerIs DEF Removals
<1>2. /\ lock' = lock /\ at' = at /\ job' = job /\ promised' = promised /\ gone' = gone
      /\ pc'[b] = pc[b] /\ call'[b] = call[b] /\ hand'[b] = hand[b]
      BY DEF articleVars
<1>3. at[b] \notin {"writing", "removing"} BY <1>0, <1>1 DEF Actor, InRequest
<1>4. at[b] = "saving" => job[b].loaded # Nothing
      BY <1>1, Alone
<1>5. InRequest(b)' BY <1>0, <1>2 DEF Actor, InRequest, Bytes
<1>6. Creating(b)' BY <1>2, <1>3, <1>4 DEF Creating
<1>7. Saving(b)' BY <1>0, <1>2, <1>3 DEF Actor, Saving
<1>8. Making(b)' BY <1>0, <1>2, Naming DEF Actor, Making
<1>9. Removing(b)' BY <1>2, <1>3 DEF Removing
<1>. QED BY <1>5, <1>6, <1>7, <1>8, <1>9 DEF Actor

-----------------------------------------------------------------------------
(***************************************************************************)
(* The request that acts                                                   *)
(***************************************************************************)
LEMMA Rests ==
    ASSUME NEW a \in Actors, at'[a] \in {"idle", "loading", "deleting"}, pc'[a] = "idle",
           hand'[a].made = {}, at'[a] = "loading" => job'[a].file \in Files
    PROVE  Actor(a)'
BY DEF Actor, InRequest, Creating, Saving, Making, Removing, Placings, Removals, Unplaced, Outcomes

LEMMA TakesRests ==
    ASSUME StoreInv, NEW a \in Actors, Takes(a)
    PROVE  pc'[a] = "idle" /\ hand'[a].made = {} /\ call' = call
BY StoreParts DEF Takes, NoHand

LEMMA CallKept ==
    ASSUME NEW a \in Actors, Steps(a)
    PROVE  call' = call
BY DEF Steps, Look, MakeLeaf, MakeAbove, MakeAgain, Open, Place, Refuse, PlaceFails, Sync,
       SyncAbove, Placed, SweepOld, Rename, SyncRoot, SweepNew, Return

(* The order of a placement's calls.                                       *)
LEMMA PlacingMoves ==
    ASSUME StoreInv, NEW a \in Actors, pc[a] \in Placings, Steps(a)
    PROVE  /\ pc'[a] \in (Placings \ {"look"}) \union Outcomes
           /\ pc'[a] \in Unplaced => pc[a] \in Unplaced
           /\ pc[a] = "look" => hand'[a].made = Missing(Leaf(a)) /\ pc'[a] = "mkdir"
           /\ pc[a] \in Unplaced \ {"look"} => hand'[a].made = hand[a].made
           /\ pc[a] # "look" => hand'[a].made \subseteq hand[a].made
           /\ pc'[a] = "sync" => Place(a)
           /\ pc'[a] = "syncAbove" => Sync(a) \/ pc[a] = "syncAbove"
           /\ pc'[a] = "refused" => call[a].op = "create"
           /\ pc'[a] = "ok" => pc[a] = "syncAbove"
           /\ Place(a) \/ QuietStep(a)
<1>0. pc \in [Actors -> States] /\ HandTypes BY DEF StoreInv, StoreTypes, HandTypes
<1>. USE DEF Moves, Placings, Outcomes, Unplaced
<1>1. CASE Look(a)
  <2>1. pc[a] = "look" /\ pc'[a] = "mkdir" /\ hand'[a].made = Missing(Leaf(a))
        BY <1>0, <1>1 DEF Look, HandTypes
  <2>. QED BY <1>1, <2>1 DEF QuietStep
<1>2. CASE MakeLeaf(a) \/ MakeAbove(a) \/ MakeAgain(a)
  <2>1. hand' = hand BY <1>2 DEF MakeLeaf, MakeAbove, MakeAgain
  <2>2. /\ pc[a] \in {"mkdir", "mkdirAbove", "mkdirAgain"}
        /\ pc'[a] \in {"mkdirAbove", "mkdirAgain", "open", "raised"}
        BY <1>0, <1>2 DEF MakeLeaf, MakeAbove, MakeAgain
  <2>. QED BY <1>2, <2>1, <2>2 DEF QuietStep
<1>3. CASE Open(a)
  <2>1. pc[a] = "open" /\ pc'[a] \in {"place", "raised"} BY <1>0, <1>3 DEF Open
  <2>2. hand'[a].made = hand[a].made BY <1>0, <1>3 DEF Open, HandTypes
  <2>. QED BY <1>3, <2>1, <2>2 DEF QuietStep
<1>4. CASE Place(a)
  <2>1. pc[a] = "place" /\ pc'[a] = "sync" /\ hand'[a].made = hand[a].made
        BY <1>0, <1>4 DEF Place, HandTypes
  <2>. QED BY <1>4, <2>1
<1>5. CASE Refuse(a) \/ PlaceFails(a)
  <2>1. /\ pc[a] = "place" /\ hand' = hand
        /\ pc'[a] = "raised" \/ (pc'[a] = "refused" /\ call[a].op = "create")
        BY <1>0, <1>5 DEF Refuse, PlaceFails
  <2>. QED BY <1>5, <2>1 DEF QuietStep
<1>6. CASE Sync(a)
  <2>1. pc[a] = "sync" /\ hand' = hand /\ pc'[a] \in {"syncAbove", "raised"} BY <1>0, <1>6 DEF Sync
  <2>. QED BY <1>6, <2>1 DEF QuietStep
<1>7. CASE SyncAbove(a)
  <2>1. pc[a] = "syncAbove" /\ pc'[a] \in {"syncAbove", "raised"} BY <1>0, <1>7 DEF SyncAbove
  <2>2. hand'[a].made \subseteq hand[a].made
    <3>1. CASE hand' = hand BY <3>1
    <3>2. CASE \E name \in hand[a].made : hand' = [hand EXCEPT ![a].made = @ \ {name}]
          BY <1>0, <3>2 DEF HandTypes
    <3>. QED BY <1>7, <3>1, <3>2 DEF SyncAbove
  <2>. QED BY <1>7, <2>1, <2>2 DEF QuietStep
<1>8. CASE Placed(a)
  <2>1. pc[a] = "syncAbove" /\ hand' = hand /\ pc'[a] = "ok" BY <1>0, <1>8 DEF Placed
  <2>. QED BY <1>8, <2>1 DEF QuietStep
<1>9. CASE SweepOld(a) \/ Rename(a) \/ SyncRoot(a) \/ SweepNew(a) \/ Return(a)
      BY <1>9 DEF SweepOld, Rename, SyncRoot, SweepNew, Return
<1>. QED BY <1>1, <1>2, <1>3, <1>4, <1>5, <1>6, <1>7, <1>8, <1>9 DEF Steps

(* A call finds the Article's folder missing only if no README is there.   *)
LEMMA MissingIs ==
    ASSUME NEW name \in {Record, Media}
    PROVE  Record \in Missing(name) <=> Top = Nothing
BY PathsAre DEF Missing

(* An fsync of the Article's folder after a README with these files.       *)
LEMMA SyncCovers ==
    ASSUME StoreInv, NEW a \in Actors, Sync(a), pc'[a] = "syncAbove", call[a].key = Readme,
           NEW files \in Values, Read(Readme) = files, \A f \in files : Stored(f)
    PROVE  Covered(files)'
<1>0. FolderInv /\ files \subseteq Files BY StoreParts, ArticleAssumption
<1>1. Top # Nothing /\ dir[Top][Readme] = files /\ files # Nothing BY ReadsAre, Nowhere
<1>2. Leaf(a) = Record BY Homes DEF Leaf
<1>3. Fsync(Top)
  <2>1. DOMAIN pc = Actors BY StoreParts
  <2>. QED BY <1>1, <1>2, <2>1, PathsAre DEF Sync, Moves
<1>4. Top \in Folders BY <1>0, <1>1, Walks, Nowhere DEF FolderInv
<1>5. dir' = dir /\ disk'[Top] = {dir[Top]} BY <1>0, <1>3, <1>4 DEF Fsync, FolderInv, FolderTypes
<1>6. Top' = Top /\ MediaFolder' = MediaFolder /\ MediaFolder = dir[Top][Media]
      BY <1>5 DEF Top, MediaFolder
<1>7. files # {} => MediaFolder # Nothing
  <2>1. SUFFICES ASSUME NEW f \in files PROVE MediaFolder # Nothing OBVIOUS
  <2>2. Read(f) = Bytes(f) /\ Bytes(f) # Nothing BY <1>0, BytesAreValues, StoredIsRead
  <2>. QED BY <1>0, <2>2, ReadsAre
<1>8. Read(Readme)' = files BY <1>1, <1>5, <1>6, ReadsNext
<1>. QED BY <1>1, <1>5, <1>6, <1>7, <1>8 DEF Covered

(* The file an upload places, or the README of a save.                     *)
LEMMA ReadAtPlace ==
    ASSUME StoreInv, Requests, NEW a \in Actors, Place(a)
    PROVE  /\ at[a] = "placing" => Read(Readme)' = Read(Readme)
           /\ at[a] = "writing" =>
                Read(Readme)' = job[a].wanted /\ \A f \in Files : Read(f)' = Read(f)
<1>1. PICK k \in Keys, v \in Values : k = call[a].key /\ v = call[a].value /\ Put(k, v)
      BY PlacePuts
<1>2. Read(k)' = v /\ \A j \in Keys : j # k => Read(j)' = Read(j) BY <1>1 DEF Put
<1>3. Readme \in Keys /\ Files \subseteq Keys /\ Readme \notin Files BY Naming
<1>. QED BY <1>1, <1>2, <1>3, PlacerIs

LEMMA UploadGoesOn ==
    ASSUME StoreInv, Requests, NEW a \in Actors, at[a] = "placing", Steps(a), UNCHANGED articleVars
    PROVE  Actor(a)'
<1>0. Actor(a) BY RequestParts
<1>1. at'[a] = "placing" /\ job' = job /\ call' = call BY CallKept DEF articleVars
<1>2. pc[a] \in Placings /\ call[a].key \in Files /\ call[a].op = "create" /\ call[a] \in Calls
  <2>1. ~(pc[a] \in Outcomes)
        BY DEF Steps, Look, MakeLeaf, MakeAbove, MakeAgain, Open, Place, Refuse, PlaceFails, Sync,
               SyncAbove, Placed, SweepOld, Rename, SyncRoot, SweepNew, Return, Moves, Outcomes
  <2>. QED BY <1>0, <2>1, StoreParts DEF Actor, InRequest
<1>3. /\ pc'[a] \in (Placings \ {"look"}) \union Outcomes
      /\ pc[a] = "look" => hand'[a].made = Missing(Leaf(a))
      /\ pc[a] # "look" => hand'[a].made \subseteq hand[a].made
      /\ Place(a) \/ QuietStep(a)
      BY <1>2, PlacingMoves
<1>4. Read(Readme)' = Read(Readme)
  <2>1. CASE Place(a) BY <2>1, ReadAtPlace
  <2>2. CASE QuietStep(a) BY <2>2, QuietSteps, Naming DEF Quiet, SameReads
  <2>. QED BY <1>3, <2>1, <2>2
<1>5. InRequest(a)' BY <1>0, <1>1, <1>3 DEF Actor, InRequest, Bytes
<1>6. Making(a)'
  <2>1. pc'[a] \notin {"idle", "look"} BY <1>3 DEF Placings, Outcomes
  <2>2. ASSUME Record \in hand'[a].made PROVE Read(Readme) = Nothing
    <3>1. CASE pc[a] = "look"
      <4>1. Leaf(a) \in {Record, Media} BY <1>2, Leaves
      <4>. QED BY <1>3, <2>2, <3>1, <4>1, MissingIs, ReadsAre
    <3>2. CASE pc[a] # "look" BY <1>0, <1>2, <1>3, <2>2, <3>2 DEF Actor, Making
    <3>. QED BY <3>1, <3>2
  <2>. QED BY <1>4, <2>1, <2>2 DEF Making
<1>7. Creating(a)' /\ Saving(a)' /\ Removing(a)' BY <1>1 DEF Creating, Saving, Removing
<1>. QED BY <1>5, <1>6, <1>7 DEF Actor

LEMMA SaveGoesOn ==
    ASSUME StoreInv, Requests, NEW a \in Actors, at[a] = "writing", Steps(a), UNCHANGED articleVars
    PROVE  Actor(a)'
<1>0. Actor(a) /\ FolderInv BY RequestParts, StoreParts
<1>1. /\ at' = at /\ job' = job /\ call' = call /\ lock' = lock
      /\ promised' = promised /\ gone' = gone
      BY CallKept DEF articleVars
<1>2. /\ pc[a] \in Placings /\ call[a].op = "replace" /\ call[a].key = Readme
      /\ call[a].value = job[a].wanted /\ call[a] \in Calls
  <2>1. ~(pc[a] \in Outcomes)
        BY DEF Steps, Look, MakeLeaf, MakeAbove, MakeAgain, Open, Place, Refuse, PlaceFails, Sync,
               SyncAbove, Placed, SweepOld, Rename, SyncRoot, SweepNew, Return, Moves, Outcomes
  <2>. QED BY <1>0, <2>1, StoreParts DEF Actor, InRequest, Outcomes
<1>3. /\ pc'[a] \in (Placings \ {"look"}) \union Outcomes
      /\ pc'[a] \in Unplaced => pc[a] \in Unplaced
      /\ pc[a] = "look" => hand'[a].made = Missing(Leaf(a))
      /\ pc[a] \in Unplaced \ {"look"} => hand'[a].made = hand[a].made
      /\ pc[a] # "look" => hand'[a].made \subseteq hand[a].made
      /\ pc'[a] = "sync" => Place(a)
      /\ pc'[a] = "syncAbove" => Sync(a) \/ pc[a] = "syncAbove"
      /\ pc'[a] = "refused" => call[a].op = "create"
      /\ pc'[a] = "ok" => pc[a] = "syncAbove"
      /\ Place(a) \/ QuietStep(a)
      BY <1>2, PlacingMoves
<1>4. Place(a) => pc[a] = "place" /\ pc'[a] = "sync"
      BY StoreParts DEF Place, Moves
<1>5. Leaf(a) = Record BY <1>2, Homes DEF Leaf
<1>6. Readme \in Keys /\ Files \subseteq Keys /\ Readme \notin Files BY Naming
<1>7. QuietStep(a) => Quiet /\ \A k \in Keys : Read(k)' = Read(k)
      BY QuietSteps DEF Quiet, SameReads
<1>8. PICK wanted \in Values : wanted = job[a].wanted
      BY ArticleAssumption DEF Requests, RequestTypes
<1>9. InRequest(a)' BY <1>0, <1>1, <1>2, <1>3 DEF Actor, InRequest, Outcomes
<1>10. pc[a] = "look" => (Record \in hand'[a].made <=> Top = Nothing)
       BY <1>3, <1>5, MissingIs
<1>11. Creating(a)'
  <2>1. SUFFICES ASSUME job[a].loaded = Nothing
                 PROVE  /\ promised = Nothing /\ ~gone
                        /\ pc'[a] \in Unplaced =>
                            /\ \A k \in Keys : Read(k)' = Nothing
                            /\ \A b \in Actors \ {a} : at[b] = "idle"
                        /\ pc'[a] \in Unplaced \ {"look"} => Record \in hand'[a].made
        BY <1>1, <1>3 DEF Creating, Placings, Outcomes
  <2>2. /\ promised = Nothing /\ ~gone
        /\ pc[a] \in Unplaced =>
            /\ \A k \in Keys : Read(k) = Nothing
            /\ \A b \in Actors \ {a} : at[b] = "idle"
        /\ pc[a] = "look" => Top = Nothing
        /\ pc[a] \in Unplaced \ {"look"} => Record \in hand[a].made
        BY <1>0, <2>1 DEF Actor, Creating
  <2>3. pc'[a] \in Unplaced => QuietStep(a)
        BY <1>3, <1>4 DEF Unplaced
  <2>4. pc'[a] \in Unplaced => \A k \in Keys : Read(k)' = Nothing
        BY <1>3, <1>7, <2>2, <2>3
  <2>5. pc'[a] \in Unplaced \ {"look"} => Record \in hand'[a].made
        BY <1>3, <1>10, <2>2
  <2>. QED BY <1>3, <2>2, <2>4, <2>5
<1>12. Saving(a)'
  <2>1. /\ job[a].loaded # Nothing => job[a].loaded \subseteq job[a].wanted
        /\ ~gone /\ \A f \in wanted : Stored(f)
        /\ pc[a] \in Unplaced => Read(Readme) = job[a].loaded
        /\ pc[a] = "sync" => Read(Readme) = wanted
        /\ pc[a] \in {"syncAbove", "ok"} => Covered(wanted)
        BY <1>0, <1>8 DEF Actor, Saving
  <2>2. wanted \subseteq Files BY <1>8, ArticleAssumption
  <2>3. \A f \in Files : Read(f)' = Read(f) BY <1>3, <1>6, <1>7, ReadAtPlace
  <2>4. \A f \in wanted : Stored(f)'
    <3>1. \A f \in Files : Stored(f)' <=> Read(f)' = Bytes(f) BY DEF Stored, Bytes
    <3>. QED BY <2>1, <2>2, <2>3, <3>1, StoredIsRead
  <2>5. pc'[a] \in Unplaced => Read(Readme)' = job[a].loaded
        BY <1>3, <1>4, <1>6, <1>7, <2>1 DEF Unplaced
  <2>6. pc'[a] = "sync" => Read(Readme)' = wanted
        BY <1>3, <1>8, ReadAtPlace
  <2>7. ASSUME pc'[a] \in {"syncAbove", "ok"} PROVE Covered(wanted)'
    <3>1. CASE Sync(a)
      <4>1. pc[a] = "sync" BY <3>1 DEF Sync, Moves
      <4>2. pc'[a] # "ok" BY <1>3, <4>1
      <4>. QED BY <1>2, <2>1, <2>7, <3>1, <4>1, <4>2, SyncCovers
    <3>2. CASE ~Sync(a)
      <4>1. pc[a] = "syncAbove" BY <1>3, <2>7, <3>2
      <4>2. QuietStep(a) BY <1>3, <1>4, <2>7
      <4>. QED BY <1>0, <1>7, <2>1, <4>1, <4>2, CoveredStays
    <3>. QED BY <3>1, <3>2
  <2>8. pc'[a] \in {"syncAbove", "ok"} => Covered(job[a].wanted)'
        BY <1>1, <1>8, <2>7 DEF Covered
  <2>. QED BY <1>1, <1>8, <2>1, <2>4, <2>5, <2>6, <2>8 DEF Saving
<1>13. Making(a)'
  <2>1. pc'[a] \notin {"idle", "look"} BY <1>3 DEF Placings, Outcomes
  <2>2. SUFFICES ASSUME Record \in hand'[a].made, Read(Readme)' # Nothing
                 PROVE  job[a].loaded = Nothing
        BY <1>1, <2>1 DEF Making
  <2>3. CASE QuietStep(a)
    <3>1. Read(Readme) # Nothing BY <1>6, <1>7, <2>2, <2>3
    <3>2. pc[a] # "look" BY <1>10, <2>2, <3>1, ReadsAre
    <3>. QED BY <1>0, <1>2, <1>3, <2>2, <3>1, <3>2 DEF Actor, Making
  <2>4. CASE Place(a)
    <3>1. pc[a] = "place" /\ Record \in hand[a].made BY <1>3, <1>4, <2>2, <2>4
    <3>2. CASE Read(Readme) # Nothing BY <1>0, <1>2, <3>1, <3>2 DEF Actor, Making
    <3>3. CASE Read(Readme) = Nothing BY <1>0, <3>1, <3>3 DEF Actor, Saving, Unplaced
    <3>. QED BY <3>2, <3>3
  <2>. QED BY <1>3, <2>3, <2>4
<1>14. Removing(a)' BY <1>1 DEF Removing
<1>. QED BY <1>9, <1>11, <1>12, <1>13, <1>14 DEF Actor

LEMMA DeleteGoesOn ==
    ASSUME StoreInv, Requests, NEW a \in Actors, at[a] = "removing", Steps(a), UNCHANGED articleVars
    PROVE  Actor(a)'
<1>0. Actor(a) /\ FolderInv /\ pc \in [Actors -> States]
      BY RequestParts, StoreParts DEF StoreInv, StoreTypes
<1>1. /\ at' = at /\ job' = job /\ call' = call /\ lock' = lock /\ promised' = promised
      BY CallKept DEF articleVars
<1>2. /\ promised = Nothing /\ lock = a
      /\ pc[a] \in {"sweepOld", "rename"} /\ job[a].loaded # Nothing => Read(Readme) # Nothing
      /\ pc[a] = "syncRoot" => NoReadme(dir[Root])
      /\ pc[a] \in {"sweepNew", "return", "ok"} /\ job[a].loaded # Nothing => Gone
      BY <1>0 DEF Actor, Removing, InRequest
<1>3. pc[a] \in Removals \union {"return"}
  <2>1. pc[a] \in Removals \union {"return", "ok", "raised"} BY <1>0 DEF Actor, InRequest
  <2>. QED BY <2>1 DEF Steps, Look, MakeLeaf, MakeAbove, MakeAgain, Open, Place, Refuse, PlaceFails, Sync,
               SyncAbove, Placed, SweepOld, Rename, SyncRoot, SweepNew, Return, Moves, Removals
<1>4. Readme \in Keys BY Naming
<1>5. Creating(a)' /\ Saving(a)' BY <1>1 DEF Creating, Saving
<1>6. ASSUME pc'[a] \in Removals \union {"return", "ok", "raised"},
             pc'[a] \in {"sweepOld", "rename"} /\ job[a].loaded # Nothing => Read(Readme)' # Nothing,
             pc'[a] = "syncRoot" => NoReadme(dir[Root])',
             pc'[a] \in {"sweepNew", "return", "ok"} /\ job[a].loaded # Nothing => Gone'
      PROVE  Actor(a)'
  <2>1. InRequest(a)' BY <1>0, <1>1, <1>6 DEF Actor, InRequest
  <2>2. Making(a)' BY <1>6 DEF Making, Removals, Placings
  <2>3. Removing(a)' BY <1>1, <1>2, <1>6 DEF Removing
  <2>. QED BY <1>5, <2>1, <2>2, <2>3 DEF Actor
<1>7. CASE SweepOld(a)
  <2>1. pc[a] = "sweepOld" /\ pc'[a] = "rename" /\ Quiet
        BY <1>0, <1>7, QuietSteps DEF SweepOld, Moves, QuietStep
  <2>. QED BY <1>2, <1>4, <1>6, <2>1 DEF Quiet, SameReads, Removals
<1>8. CASE Rename(a)
  <2>1. pc[a] = "rename" BY <1>8 DEF Rename, Moves
  <2>2. CASE pc'[a] = "raised" BY <1>6, <2>2
  <2>3. CASE pc'[a] = "return" /\ \A k \in Keys : Read(k) = Nothing
    <3>1. job[a].loaded = Nothing BY <1>2, <1>4, <2>1, <2>3
    <3>. QED BY <1>6, <2>3, <3>1
  <2>4. CASE pc'[a] = "syncRoot" /\ NoReadme(dir[Root])' BY <1>6, <2>4 DEF Removals
  <2>. QED BY <1>0, <1>8, <2>2, <2>3, <2>4, RenameTakes
<1>9. CASE SyncRoot(a)
  <2>1. pc[a] = "syncRoot" /\ pc'[a] = "sweepNew" /\ Fsync(Root) /\ Quiet
        BY <1>0, <1>9, QuietSteps DEF SyncRoot, Moves, QuietStep
  <2>2. disk'[Root] = {dir'[Root]}
        BY <1>0, <2>1, Nowhere DEF Fsync, FolderInv, FolderTypes
  <2>3. NoReadme(dir[Root])' BY <1>2, <2>1 DEF Quiet
  <2>4. Gone' BY <2>2, <2>3, NoReadmeNext DEF Gone
  <2>. QED BY <1>6, <2>1, <2>4 DEF Removals
<1>10. CASE SweepNew(a) \/ Return(a)
  <2>1. /\ pc[a] \in {"sweepNew", "return"} /\ pc'[a] \in {"return", "ok"} /\ Quiet
        BY <1>0, <1>10, QuietSteps DEF SweepNew, Return, Moves, QuietStep
  <2>. QED BY <1>2, <1>6, <2>1 DEF Quiet
<1>11. CASE \/ Look(a) \/ MakeLeaf(a) \/ MakeAbove(a) \/ MakeAgain(a) \/ Open(a)
            \/ Place(a) \/ Refuse(a) \/ PlaceFails(a) \/ Sync(a) \/ SyncAbove(a) \/ Placed(a)
       BY <1>3, <1>11 DEF Look, MakeLeaf, MakeAbove, MakeAgain, Open, Place, Refuse, PlaceFails, Sync,
               SyncAbove, Placed, Moves, Removals
<1>. QED BY <1>7, <1>8, <1>9, <1>10, <1>11 DEF Steps

-----------------------------------------------------------------------------
(***************************************************************************)
(* Every action of a request                                               *)
(***************************************************************************)
LEMMA StillKeeps ==
    ASSUME StoreInv, UNCHANGED storeVars
    PROVE  /\ StoreInv' /\ Quiet
           /\ UNCHANGED <<dir, disk, pc, call, hand>>
<1>1. FolderInv' /\ Quiet BY StoreParts, StillIsQuiet DEF storeVars
<1>2. StoreInv' BY DEF storeVars, StoreInv, StoreTypes, Tree, InCall
<1>. QED BY <1>1, <1>2 DEF storeVars

LEMMA NobodyYet ==
    ASSUME StoreInv, Requests, requests = 0
    PROVE  /\ promised = Nothing /\ ~gone /\ Top = Nothing
           /\ \A k \in Keys : Read(k) = Nothing
           /\ \A a \in Actors : at[a] = "idle" /\ pc[a] = "idle"
<1>1. /\ disk[Root] = {Empty} /\ promised = Nothing /\ ~gone
      /\ \A a \in Actors : at[a] = "idle"
      BY RequestParts DEF Unborn
<1>2. dir[Root] = Empty BY <1>1, StoreParts, Nowhere DEF FolderInv, Tree
<1>3. Top = Nothing BY <1>2, Emptiness, Naming DEF Top
<1>4. \A k \in Keys : Read(k) = Nothing BY <1>3, ReadsAre, Naming
<1>5. \A a \in Actors : pc[a] = "idle" BY <1>1, RequestParts DEF Actor, InRequest
<1>. QED BY <1>1, <1>3, <1>4, <1>5

LEMMA WhereTheyStand ==
    ASSUME Requests
    PROVE  /\ DOMAIN at = Actors /\ DOMAIN job = Actors
           /\ at \in [Actors -> Stations] /\ requests \in Nat
           /\ \A a \in Actors : at[a] \in {"idle", "loading", "saving", "deleting"} =>
                pc[a] = "idle" /\ hand[a].made = {}
BY RequestParts DEF RequestTypes, Actor, InRequest, Making

(* What is left to show of the requests after a step that is quiet.        *)
LEMMA RequestsKept ==
    ASSUME StoreInv, Requests, Quiet, NEW a \in Actors, Manners(a), Actor(a)', RequestTypes', Unborn'
    PROVE  Requests'
<1>1. \A b \in Actors \ {a} : Actor(b)' BY BystandersAtQuiet
<1>2. \A b \in Actors : Actor(b)' BY <1>1
<1>. QED BY <1>2 DEF Requests, Actor

LEMMA UnbornNoMore ==
    ASSUME StoreInv, Requests, NEW a \in Actors, requests' = requests, at[a] # "idle" \/ pc[a] # "idle"
    PROVE  Unborn'
BY NobodyYet DEF Unborn

LEMMA NewJobs ==
    ASSUME RequestTypes, NEW a \in Actors, NEW file \in Files \union {Nothing},
           NEW loaded \in Values \union {Nothing}, NEW wanted \in SUBSET Files,
           job' = [job EXCEPT ![a] = [file |-> file, loaded |-> loaded, wanted |-> wanted]]
    PROVE  job' \in [Actors -> [file : Files \union {Nothing}, loaded : Values \union {Nothing},
                                wanted : SUBSET Files]]
BY DEF RequestTypes

LEMMA CreateKeeps ==
    ASSUME StoreInv, Requests, NEW a \in Actors, Create(a)
    PROVE  StoreInv' /\ Quiet /\ Requests' /\ UNCHANGED <<promised, gone, cut>>
<1>1. StoreInv' /\ Quiet /\ UNCHANGED <<dir, disk, pc, call, hand>> BY StillKeeps DEF Create
<1>2. /\ requests = 0 /\ at[a] = "idle" /\ at' = [at EXCEPT ![a] = "saving"]
      /\ requests' = requests + 1 /\ UNCHANGED <<lock, promised, gone, cut, failures>>
      /\ job' = [job EXCEPT ![a] = NoJob]
      BY DEF Create, Asks, Goes
<1>3. /\ at'[a] = "saving" /\ job'[a] = NoJob
      /\ \A b \in Actors \ {a} : at'[b] = at[b] /\ job'[b] = job[b]
      BY <1>2, WhereTheyStand
<1>4. Manners(a) BY <1>1, <1>2, <1>3 DEF Manners, Untouched
<1>5. /\ promised = Nothing /\ ~gone /\ Top = Nothing
      /\ \A k \in Keys : Read(k) = Nothing
      /\ \A b \in Actors : at[b] = "idle" /\ pc[b] = "idle"
      BY <1>2, NobodyYet
<1>6. \A k \in Keys : Read(k)' = Read(k) BY <1>1 DEF Quiet, SameReads
<1>7. Top' = Nothing BY <1>1, <1>5 DEF Top
<1>8. hand'[a].made = {} BY <1>1, <1>5, WhereTheyStand
<1>9. Actor(a)'
  <2>1. InRequest(a)' BY <1>1, <1>3, <1>5 DEF InRequest
  <2>2. Creating(a)' BY <1>1, <1>2, <1>3, <1>5, <1>6, <1>7 DEF Creating
  <2>3. Saving(a)' BY <1>3 DEF Saving, NoJob
  <2>4. Making(a)' BY <1>1, <1>5, <1>8 DEF Making, Placings
  <2>5. Removing(a)' BY <1>3 DEF Removing
  <2>. QED BY <2>1, <2>2, <2>3, <2>4, <2>5 DEF Actor
<1>10. RequestTypes'
  <2>1. at' \in [Actors -> Stations] BY <1>2, RequestParts DEF RequestTypes, Stations
  <2>2. job' = [job EXCEPT ![a] = [file |-> Nothing, loaded |-> Nothing, wanted |-> {}]]
        BY <1>2 DEF NoJob
  <2>. QED BY <1>2, <2>1, <2>2, NewJobs, RequestParts DEF RequestTypes
<1>11. Unborn' BY <1>2 DEF Unborn
<1>. QED BY <1>1, <1>2, <1>4, <1>9, <1>10, <1>11, RequestsKept

LEMMA UploadKeeps ==
    ASSUME StoreInv, Requests, NEW a \in Actors, Upload(a)
    PROVE  StoreInv' /\ Quiet /\ Requests' /\ UNCHANGED <<promised, gone, cut>>
<1>1. PICK f \in Files :
          /\ job' = [job EXCEPT ![a] = [NoJob EXCEPT !.file = f]]
          /\ Begin(a, [op |-> "create", key |-> f, value |-> Bytes(f)])
      BY DEF Upload
<1>2. PICK c \in Calls : c = [op |-> "create", key |-> f, value |-> Bytes(f)]
      BY Naming, BytesAreValues DEF Calls
<1>3. StoreInv' /\ Quiet BY <1>1, <1>2, BeginKeeps
<1>4. /\ pc[a] = "idle" /\ pc' = [pc EXCEPT ![a] = "look"] /\ call' = [call EXCEPT ![a] = c]
      /\ UNCHANGED <<dir, disk, hand>>
      BY <1>1, <1>2 DEF Begin, Moves
<1>5. /\ Read(Readme) # Nothing
      /\ at[a] = "idle" /\ at' = [at EXCEPT ![a] = "placing"]
      /\ requests' = requests + 1 /\ UNCHANGED <<lock, promised, gone, cut, failures>>
      BY DEF Upload, Asks, Goes
<1>6. job' = [job EXCEPT ![a] = [file |-> f, loaded |-> Nothing, wanted |-> {}]]
  <2>1. [NoJob EXCEPT !.file = f] = [file |-> f, loaded |-> Nothing, wanted |-> {}] BY DEF NoJob
  <2>. QED BY <1>1, <2>1
<1>7. /\ at'[a] = "placing" /\ job'[a].file = f /\ pc'[a] = "look" /\ call'[a] = c
      /\ \A b \in Actors \ {a} : at'[b] = at[b] /\ job'[b] = job[b] /\ pc'[b] = pc[b] /\ call'[b] = call[b]
      BY <1>4, <1>5, <1>6, WhereTheyStand, StoreParts
<1>8. Manners(a) BY <1>4, <1>5, <1>7 DEF Manners, Untouched
<1>9. hand'[a].made = {} BY <1>4, <1>5, WhereTheyStand
<1>10. Actor(a)'
  <2>1. InRequest(a)' BY <1>2, <1>7 DEF InRequest, Placings, Bytes
  <2>2. Creating(a)' /\ Saving(a)' /\ Removing(a)' BY <1>7 DEF Creating, Saving, Removing
  <2>3. Making(a)' BY <1>9 DEF Making
  <2>. QED BY <2>1, <2>2, <2>3 DEF Actor
<1>11. RequestTypes'
  <2>1. at' \in [Actors -> Stations] BY <1>5, RequestParts DEF RequestTypes, Stations
  <2>. QED BY <1>5, <1>6, <2>1, NewJobs, RequestParts DEF RequestTypes
<1>12. Unborn' BY <1>5, WhereTheyStand DEF Unborn
<1>. QED BY <1>3, <1>5, <1>8, <1>10, <1>11, <1>12, RequestsKept

LEMMA DeleteKeeps ==
    ASSUME StoreInv, Requests, NEW a \in Actors, Delete(a)
    PROVE  StoreInv' /\ Quiet /\ Requests' /\ UNCHANGED <<promised, gone, cut>>
<1>1. StoreInv' /\ Quiet /\ UNCHANGED <<dir, disk, pc, call, hand>> BY StillKeeps DEF Delete
<1>2. /\ Read(Readme) # Nothing /\ at[a] = "idle" /\ at' = [at EXCEPT ![a] = "deleting"]
      /\ requests' = requests + 1 /\ UNCHANGED <<lock, promised, gone, cut, failures>>
      BY DEF Delete, Asks, Goes
<1>3. job' = [job EXCEPT ![a] = [file |-> Nothing, loaded |-> Read(Readme), wanted |-> {}]]
  <2>1. PICK v : v = Read(Readme) OBVIOUS
  <2>2. [NoJob EXCEPT !.loaded = v] = [file |-> Nothing, loaded |-> v, wanted |-> {}] BY DEF NoJob
  <2>. QED BY <2>1, <2>2 DEF Delete
<1>4. /\ at'[a] = "deleting"
      /\ \A b \in Actors \ {a} : at'[b] = at[b] /\ job'[b] = job[b]
      BY <1>2, <1>3, WhereTheyStand
<1>5. Manners(a) BY <1>1, <1>2, <1>4 DEF Manners, Untouched
<1>6. Actor(a)' BY <1>1, <1>2, <1>4, WhereTheyStand, Rests
<1>7. RequestTypes'
  <2>1. at' \in [Actors -> Stations] BY <1>2, RequestParts DEF RequestTypes, Stations
  <2>2. Read(Readme) \in Values \union {Nothing} BY StoreParts, ReadsAreValues, Naming
  <2>. QED BY <1>2, <1>3, <2>1, <2>2, NewJobs, RequestParts DEF RequestTypes
<1>8. Unborn' BY <1>2, WhereTheyStand DEF Unborn
<1>. QED BY <1>1, <1>2, <1>5, <1>6, <1>7, <1>8, RequestsKept

LEMMA FilePlacedKeeps ==
    ASSUME StoreInv, Requests, NEW a \in Actors, FilePlaced(a)
    PROVE  StoreInv' /\ Quiet /\ Requests' /\ UNCHANGED <<promised, gone, cut>>
<1>1. StoreInv' /\ Quiet /\ pc'[a] = "idle" /\ hand'[a].made = {} /\ call' = call
      BY TakesKeeps, TakesRests DEF FilePlaced
<1>2. /\ at[a] = "placing" /\ at' = [at EXCEPT ![a] = "loading"]
      /\ UNCHANGED <<lock, job, promised, gone, cut, requests, failures>>
      /\ pc' = [pc EXCEPT ![a] = "idle"] /\ hand' = [hand EXCEPT ![a] = NoHand]
      BY DEF FilePlaced, Goes, Takes
<1>3. /\ at'[a] = "loading"
      /\ \A b \in Actors \ {a} : at'[b] = at[b] /\ pc'[b] = pc[b] /\ hand'[b] = hand[b]
      BY <1>2, WhereTheyStand, StoreParts
<1>4. Manners(a) BY <1>1, <1>2, <1>3 DEF Manners, Untouched
<1>5. Actor(a)'
  <2>1. job'[a].file \in Files BY <1>2, RequestParts DEF Actor, InRequest
  <2>. QED BY <1>1, <1>3, <2>1, Rests
<1>6. RequestTypes'
  <2>1. at' \in [Actors -> Stations] BY <1>2, RequestParts DEF RequestTypes, Stations
  <2>. QED BY <1>2, <2>1, RequestParts DEF RequestTypes
<1>7. Unborn' BY <1>2, UnbornNoMore
<1>. QED BY <1>1, <1>2, <1>4, <1>5, <1>6, <1>7, RequestsKept

LEMMA LoadKeeps ==
    ASSUME StoreInv, Requests, NEW a \in Actors, Load(a)
    PROVE  StoreInv' /\ Quiet /\ Requests' /\ UNCHANGED <<promised, gone, cut>>
<1>1. StoreInv' /\ Quiet /\ UNCHANGED <<dir, disk, pc, call, hand>> BY StillKeeps DEF Load
<1>2. PICK v \in Values : v = Read(Readme)
      BY StoreParts, ReadsAreValues, Naming DEF Load
<1>3. /\ at[a] = "loading" /\ at' = [at EXCEPT ![a] = "saving"]
      /\ UNCHANGED <<lock, promised, gone, cut, requests, failures>>
      BY DEF Load, Goes
<1>4. PICK f \in Files : f = job[a].file
      BY <1>3, RequestParts DEF Actor, InRequest
<1>5. PICK wanted \in SUBSET Files : wanted = v \union {f} BY ArticleAssumption
<1>6. job' = [job EXCEPT ![a].loaded = v, ![a].wanted = wanted]
      BY <1>2, <1>4, <1>5 DEF Load
<1>7. job' = [job EXCEPT ![a] = [file |-> f, loaded |-> v, wanted |-> wanted]]
  <2>1. PICK j \in [file : Files \union {Nothing}, loaded : Values \union {Nothing}, wanted : SUBSET Files] :
            j = job[a]
        BY RequestParts DEF RequestTypes
  <2>2. PICK l, w : l = j.loaded /\ w = j.wanted OBVIOUS
  <2>3. j = [file |-> f, loaded |-> l, wanted |-> w] BY <1>4, <2>1, <2>2
  <2>4. job' = [job EXCEPT ![a] = [[j EXCEPT !.loaded = v] EXCEPT !.wanted = wanted]]
        BY <1>6, <2>1, WhereTheyStand
  <2>5. [[j EXCEPT !.loaded = v] EXCEPT !.wanted = wanted] = [file |-> f, loaded |-> v, wanted |-> wanted]
    <3>1. [j EXCEPT !.loaded = v] = [file |-> f, loaded |-> v, wanted |-> w] BY ONLY <2>3
    <3>2. [[file |-> f, loaded |-> v, wanted |-> w] EXCEPT !.wanted = wanted]
              = [file |-> f, loaded |-> v, wanted |-> wanted]
          OBVIOUS
    <3>. QED BY <3>1, <3>2
  <2>. QED BY <2>4, <2>5
<1>8. /\ at'[a] = "saving" /\ job'[a].loaded = v /\ job'[a].wanted = wanted
      /\ \A b \in Actors \ {a} : at'[b] = at[b] /\ job'[b] = job[b]
      BY <1>3, <1>7, WhereTheyStand
<1>9. Manners(a) BY <1>1, <1>3, <1>8 DEF Manners, Untouched
<1>10. pc'[a] = "idle" /\ hand'[a].made = {} BY <1>1, <1>3, WhereTheyStand
<1>11. Actor(a)'
  <2>1. InRequest(a)' BY <1>8, <1>10 DEF InRequest
  <2>2. Creating(a)' BY <1>8, Nowhere DEF Creating
  <2>3. Saving(a)' BY <1>5, <1>8 DEF Saving
  <2>4. Making(a)' BY <1>10 DEF Making
  <2>5. Removing(a)' BY <1>8 DEF Removing
  <2>. QED BY <2>1, <2>2, <2>3, <2>4, <2>5 DEF Actor
<1>12. RequestTypes'
  <2>1. at' \in [Actors -> Stations] BY <1>3, RequestParts DEF RequestTypes, Stations
  <2>. QED BY <1>3, <1>7, <2>1, NewJobs, RequestParts DEF RequestTypes
<1>13. Unborn' BY <1>3, UnbornNoMore
<1>. QED BY <1>1, <1>3, <1>9, <1>11, <1>12, <1>13, RequestsKept

LEMMA SaveKeeps ==
    ASSUME StoreInv, Requests, gone => Gone, NEW a \in Actors, Save(a)
    PROVE  StoreInv' /\ Quiet /\ Requests' /\ UNCHANGED <<promised, gone, cut>>
<1>1. /\ at[a] = "saving" /\ at' = [at EXCEPT ![a] = "writing"]
      /\ lock = NoActor /\ lock' = a
      /\ UNCHANGED <<job, promised, gone, cut, requests, failures>>
      BY DEF Save, Goes
<1>2. PICK wanted \in Values : wanted = job[a].wanted
      BY ArticleAssumption DEF Requests, RequestTypes
<1>3. PICK c \in Calls : c = [op |-> "replace", key |-> Readme, value |-> wanted]
      BY Naming DEF Calls
<1>4. Begin(a, c) BY <1>2, <1>3 DEF Save
<1>5. StoreInv' /\ Quiet BY <1>4, BeginKeeps
<1>6. /\ pc[a] = "idle" /\ pc' = [pc EXCEPT ![a] = "look"] /\ call' = [call EXCEPT ![a] = c]
      /\ UNCHANGED <<dir, disk, hand>>
      BY <1>3, <1>4 DEF Begin, Moves
<1>7. /\ at'[a] = "writing" /\ pc'[a] = "look" /\ call'[a] = c
      /\ \A b \in Actors \ {a} : at'[b] = at[b] /\ pc'[b] = pc[b] /\ call'[b] = call[b]
      BY <1>1, <1>6, WhereTheyStand, StoreParts
<1>8. Manners(a)
  <2>1. \A b \in Actors : b # NoActor BY ArticleAssumption
  <2>. QED BY <1>1, <1>6, <1>7, <2>1 DEF Manners, Untouched
<1>9. hand'[a].made = {} BY <1>1, <1>6, WhereTheyStand
<1>10. Actor(a) /\ FolderInv BY RequestParts, StoreParts
<1>11. \A k \in Keys : Read(k)' = Read(k) BY <1>5 DEF Quiet, SameReads
<1>12. Top' = Top BY <1>6 DEF Top
<1>13. Read(Readme) = job[a].loaded BY DEF Save
<1>14. Creating(a)'
  <2>1. SUFFICES ASSUME job[a].loaded = Nothing
                 PROVE  /\ promised = Nothing /\ ~gone
                        /\ \A k \in Keys : Read(k) = Nothing
                        /\ \A b \in Actors \ {a} : at[b] = "idle"
                        /\ Top = Nothing
        BY <1>1, <1>7, <1>11, <1>12 DEF Creating
  <2>. QED BY <1>1, <1>10, <2>1 DEF Actor, Creating
<1>15. ~gone
  <2>1. SUFFICES ASSUME gone PROVE FALSE OBVIOUS
  <2>2. NoReadme(dir[Root]) BY <1>10, <2>1, Nowhere DEF Gone, FolderInv, Tree
  <2>3. Read(Readme) = Nothing BY <1>10, <2>2, NoneWhenGone
  <2>. QED BY <1>1, <1>10, <1>13, <2>1, <2>3 DEF Actor, Creating
<1>16. Saving(a)'
  <2>1. job[a].loaded # Nothing => job[a].loaded \subseteq job[a].wanted
        BY <1>1, <1>10 DEF Actor, Saving
  <2>2. \A f \in wanted : Stored(f)'
    <3>1. \A f \in wanted : Stored(f) BY <1>2 DEF Save
    <3>2. \A f \in Files : Stored(f)' <=> Read(f)' = Bytes(f) BY DEF Stored, Bytes
    <3>3. wanted \subseteq Files BY ArticleAssumption
    <3>. QED BY <1>11, <3>1, <3>2, <3>3, Naming, StoredIsRead
  <2>3. Read(Readme)' = job[a].loaded BY <1>11, <1>13, Naming
  <2>. QED BY <1>1, <1>2, <1>7, <1>15, <2>1, <2>2, <2>3 DEF Saving
<1>17. Actor(a)'
  <2>1. InRequest(a)' BY <1>1, <1>2, <1>3, <1>7 DEF InRequest, Placings
  <2>2. Making(a)' BY <1>9 DEF Making
  <2>3. Removing(a)' BY <1>7 DEF Removing
  <2>. QED BY <1>14, <1>16, <2>1, <2>2, <2>3 DEF Actor
<1>18. RequestTypes'
  <2>1. at' \in [Actors -> Stations] BY <1>1, RequestParts DEF RequestTypes, Stations
  <2>. QED BY <1>1, <2>1, RequestParts DEF RequestTypes
<1>19. Unborn' BY <1>1, UnbornNoMore
<1>. QED BY <1>1, <1>5, <1>8, <1>17, <1>18, <1>19, RequestsKept

LEMMA SavedKeeps ==
    ASSUME StoreInv, Requests, NEW a \in Actors, Saved(a)
    PROVE  /\ StoreInv' /\ Quiet /\ Requests' /\ UNCHANGED <<gone, cut>>
           /\ \E files \in Values : promised' = files /\ Covered(files) /\ \A f \in files : Stored(f)
<1>1. StoreInv' /\ Quiet /\ pc'[a] = "idle" /\ hand'[a].made = {} /\ call' = call
      BY TakesKeeps, TakesRests DEF Saved
<1>2. /\ at[a] = "writing" /\ at' = [at EXCEPT ![a] = "idle"] /\ pc[a] = "ok"
      /\ lock' = NoActor /\ promised' = job[a].wanted
      /\ UNCHANGED <<job, gone, cut, requests, failures>>
      /\ pc' = [pc EXCEPT ![a] = "idle"] /\ hand' = [hand EXCEPT ![a] = NoHand]
      BY DEF Saved, Goes, Takes
<1>3. /\ at'[a] = "idle"
      /\ \A b \in Actors \ {a} : at'[b] = at[b] /\ pc'[b] = pc[b] /\ hand'[b] = hand[b]
      BY <1>2, WhereTheyStand, StoreParts
<1>4. PICK files \in Values : files = job[a].wanted
      BY ArticleAssumption DEF Requests, RequestTypes
<1>5. Actor(a) BY RequestParts
<1>6. Manners(a)
  <2>1. lock = a BY <1>2, <1>5 DEF Actor, InRequest
  <2>. QED BY <1>1, <1>2, <1>3, <2>1 DEF Manners, Untouched
<1>7. Actor(a)' BY <1>1, <1>3, Rests
<1>8. RequestTypes'
  <2>1. at' \in [Actors -> Stations] BY <1>2, RequestParts DEF RequestTypes, Stations
  <2>. QED BY <1>2, <1>4, <2>1, RequestParts DEF RequestTypes
<1>9. Unborn' BY <1>2, UnbornNoMore
<1>10. Covered(files) /\ \A f \in files : Stored(f) BY <1>2, <1>4, <1>5 DEF Actor, Saving
<1>. QED BY <1>1, <1>2, <1>4, <1>6, <1>7, <1>8, <1>9, <1>10, RequestsKept

LEMMA ConflictKeeps ==
    ASSUME StoreInv, Requests, NEW a \in Actors, Conflict(a)
    PROVE  StoreInv' /\ Quiet /\ Requests' /\ UNCHANGED <<promised, gone, cut>>
<1>1. StoreInv' /\ Quiet /\ UNCHANGED <<dir, disk, pc, call, hand>> BY StillKeeps DEF Conflict
<1>2. /\ at[a] = "saving"
      /\ at' = [at EXCEPT ![a] = IF job[a].file = Nothing THEN "idle" ELSE "loading"]
      /\ UNCHANGED <<lock, job, promised, gone, cut, requests, failures>>
      BY DEF Conflict, Goes
<1>3. /\ at'[a] = IF job[a].file = Nothing THEN "idle" ELSE "loading"
      /\ \A b \in Actors \ {a} : at'[b] = at[b]
      BY <1>2, WhereTheyStand
<1>4. Manners(a) BY <1>1, <1>2, <1>3 DEF Manners, Untouched
<1>5. Actor(a)'
  <2>1. at'[a] = "loading" => job'[a].file \in Files
        BY <1>2, <1>3, RequestParts DEF RequestTypes
  <2>. QED BY <1>1, <1>2, <1>3, <2>1, WhereTheyStand, Rests
<1>6. RequestTypes'
  <2>1. at' \in [Actors -> Stations] BY <1>2, RequestParts DEF RequestTypes, Stations
  <2>. QED BY <1>2, <2>1, RequestParts DEF RequestTypes
<1>7. Unborn' BY <1>2, UnbornNoMore
<1>. QED BY <1>1, <1>2, <1>4, <1>5, <1>6, <1>7, RequestsKept

LEMMA RemoveKeeps ==
    ASSUME StoreInv, Requests, NEW a \in Actors, Remove(a)
    PROVE  StoreInv' /\ Quiet /\ Requests' /\ promised' = Nothing /\ UNCHANGED <<gone, cut>>
<1>1. /\ at[a] = "deleting" /\ at' = [at EXCEPT ![a] = "removing"]
      /\ lock = NoActor /\ lock' = a /\ promised' = Nothing
      /\ UNCHANGED <<gone, cut, requests, failures>>
      /\ job' = [job EXCEPT ![a].loaded = Read(Readme)]
      BY DEF Remove, Goes
<1>2. PICK c \in Calls : c = [op |-> "delete"] BY DEF Calls
<1>3. Begin(a, c) BY <1>2 DEF Remove
<1>4. StoreInv' /\ Quiet BY <1>3, BeginKeeps
<1>5. /\ pc[a] = "idle" /\ pc' = [pc EXCEPT ![a] = "sweepOld"] /\ call' = [call EXCEPT ![a] = c]
      /\ UNCHANGED <<dir, disk, hand>>
      BY <1>2, <1>3 DEF Begin, Moves
<1>6. RequestTypes'
  <2>1. at' \in [Actors -> Stations] BY <1>1, RequestParts DEF RequestTypes, Stations
  <2>2. Read(Readme) \in Values \union {Nothing} BY StoreParts, ReadsAreValues, Naming
  <2>3. job' \in [Actors -> [file : Files \union {Nothing}, loaded : Values \union {Nothing},
                             wanted : SUBSET Files]]
        BY <1>1, <2>2, RequestParts DEF RequestTypes
  <2>. QED BY <1>1, <2>1, <2>3, RequestParts DEF RequestTypes
<1>7. /\ at'[a] = "removing" /\ pc'[a] = "sweepOld" /\ call'[a] = c /\ job'[a].loaded = Read(Readme)
      /\ \A b \in Actors \ {a} : at'[b] = at[b] /\ job'[b] = job[b] /\ pc'[b] = pc[b] /\ call'[b] = call[b]
  <2>1. job'[a].loaded = Read(Readme) BY <1>1, RequestParts DEF RequestTypes
  <2>. QED BY <1>1, <1>5, <2>1, WhereTheyStand, StoreParts
<1>8. Manners(a)
  <2>1. \A b \in Actors : b # NoActor BY ArticleAssumption
  <2>. QED BY <1>1, <1>5, <1>7, <2>1 DEF Manners, Untouched
<1>9. Read(Readme)' = Read(Readme) BY <1>4, Naming DEF Quiet, SameReads
<1>10. Actor(a)'
  <2>1. InRequest(a)' BY <1>1, <1>2, <1>7 DEF InRequest, Removals
  <2>2. Creating(a)' /\ Saving(a)' BY <1>7 DEF Creating, Saving
  <2>3. Making(a)' BY <1>7 DEF Making, Placings
  <2>4. Removing(a)' BY <1>1, <1>7, <1>9 DEF Removing
  <2>. QED BY <2>1, <2>2, <2>3, <2>4 DEF Actor
<1>11. Unborn' BY <1>1, UnbornNoMore
<1>. QED BY <1>1, <1>4, <1>6, <1>8, <1>10, <1>11, RequestsKept

LEMMA DeletedKeeps ==
    ASSUME StoreInv, Requests, NEW a \in Actors, Deleted(a)
    PROVE  /\ StoreInv' /\ Quiet /\ Requests' /\ UNCHANGED <<promised, cut>>
           /\ gone' => gone \/ Gone
<1>1. StoreInv' /\ Quiet /\ pc'[a] = "idle" /\ hand'[a].made = {} /\ call' = call
      BY TakesKeeps, TakesRests DEF Deleted
<1>2. /\ at[a] = "removing" /\ at' = [at EXCEPT ![a] = "idle"] /\ pc[a] = "ok"
      /\ lock' = NoActor /\ gone' = (gone \/ job[a].loaded # Nothing)
      /\ UNCHANGED <<job, promised, cut, requests, failures>>
      /\ pc' = [pc EXCEPT ![a] = "idle"] /\ hand' = [hand EXCEPT ![a] = NoHand]
      BY DEF Deleted, Goes, Takes
<1>3. /\ at'[a] = "idle"
      /\ \A b \in Actors \ {a} : at'[b] = at[b] /\ pc'[b] = pc[b] /\ hand'[b] = hand[b]
      BY <1>2, WhereTheyStand, StoreParts
<1>4. Actor(a) BY RequestParts
<1>5. Manners(a)
  <2>1. lock = a BY <1>2, <1>4 DEF Actor, InRequest
  <2>. QED BY <1>1, <1>2, <1>3, <2>1 DEF Manners, Untouched
<1>6. Actor(a)' BY <1>1, <1>3, Rests
<1>7. RequestTypes'
  <2>1. at' \in [Actors -> Stations] BY <1>2, RequestParts DEF RequestTypes, Stations
  <2>2. gone' \in BOOLEAN BY <1>2
  <2>. QED BY <1>2, <2>1, <2>2, RequestParts DEF RequestTypes
<1>8. Unborn' BY <1>2, UnbornNoMore
<1>9. gone' => gone \/ Gone BY <1>2, <1>4 DEF Actor, Removing
<1>. QED BY <1>1, <1>2, <1>5, <1>6, <1>7, <1>8, <1>9, RequestsKept

LEMMA GivesUpKeeps ==
    ASSUME StoreInv, Requests, NEW a \in Actors, GivesUp(a)
    PROVE  StoreInv' /\ Quiet /\ Requests' /\ UNCHANGED <<promised, gone, cut>>
<1>1. /\ at[a] # "idle" /\ at' = [at EXCEPT ![a] = "idle"]
      /\ lock' = IF lock = a THEN NoActor ELSE lock
      /\ UNCHANGED <<job, promised, gone, cut, requests, failures>>
      BY DEF GivesUp
<1>2. \/ Takes(a)
      \/ UNCHANGED storeVars /\ at[a] \in {"loading", "saving", "deleting"}
      BY DEF GivesUp
<1>3. StoreInv' /\ Quiet /\ pc'[a] = "idle" /\ hand'[a].made = {} /\ call' = call
      BY <1>2, TakesKeeps, TakesRests, StillKeeps, WhereTheyStand
<1>4. \A b \in Actors \ {a} : pc'[b] = pc[b] /\ hand'[b] = hand[b]
      BY <1>2, StoreParts DEF Takes, storeVars
<1>5. /\ at'[a] = "idle"
      /\ \A b \in Actors \ {a} : at'[b] = at[b]
      BY <1>1, WhereTheyStand
<1>6. Manners(a) BY <1>1, <1>3, <1>4, <1>5 DEF Manners, Untouched
<1>7. Actor(a)' BY <1>3, <1>5, Rests
<1>8. RequestTypes'
  <2>1. at' \in [Actors -> Stations] BY <1>1, RequestParts DEF RequestTypes, Stations
  <2>. QED BY <1>1, <2>1, RequestParts DEF RequestTypes
<1>9. Unborn' BY <1>1, UnbornNoMore
<1>. QED BY <1>1, <1>3, <1>6, <1>7, <1>8, <1>9, RequestsKept

LEMMA CallFailsKeeps ==
    ASSUME StoreInv, Requests, NEW a \in Actors, CallFails(a)
    PROVE  StoreInv' /\ Quiet /\ Requests' /\ UNCHANGED <<promised, gone>>
<1>1. /\ Raises(a) /\ StoreInv' /\ Quiet
      /\ pc[a] \in Placings \union Removals /\ pc' = [pc EXCEPT ![a] = "raised"]
      /\ UNCHANGED <<dir, disk, call, hand>>
      /\ cut' = cut \union Owes(a) /\ failures' = failures + 1
      /\ UNCHANGED <<lock, at, job, promised, gone, requests>>
      BY RaisesKeeps DEF CallFails, Raises, Fails
<1>2. pc'[a] = "raised" /\ pc[a] # "idle" /\ \A b \in Actors \ {a} : pc'[b] = pc[b]
      BY <1>1, StoreParts DEF Placings, Removals
<1>3. Actor(a) BY RequestParts
<1>4. at[a] # "idle" BY <1>2, WhereTheyStand
<1>5. Manners(a) BY <1>1, <1>2, <1>4 DEF Manners, Untouched
<1>6. \A k \in Keys : Read(k)' = Read(k) BY <1>1 DEF Quiet, SameReads
<1>7. Actor(a)'
  <2>1. InRequest(a)'
    <3>1. at[a] \notin {"idle", "loading", "saving", "deleting"} BY <1>2, <1>3 DEF Actor, InRequest
    <3>. QED BY <1>1, <1>2, <1>3, <3>1 DEF Actor, InRequest, Outcomes, Bytes
  <2>2. Creating(a)'
    <3>1. at[a] # "saving" BY <1>2, <1>3 DEF Actor, InRequest
    <3>. QED BY <1>1, <1>2, <1>3, <3>1 DEF Actor, Creating, Unplaced
  <2>3. Saving(a)'
    <3>1. /\ at[a] \in {"saving", "writing"} /\ job[a].loaded # Nothing => job[a].loaded \subseteq job[a].wanted
          /\ at[a] = "writing" => ~gone
          BY <1>3 DEF Actor, Saving
    <3>2. at[a] = "writing" => \A f \in job[a].wanted : Stored(f)'
      <4>1. at[a] = "writing" => \A f \in job[a].wanted : Stored(f) BY <1>3 DEF Actor, Saving
      <4>2. \A f \in Files : Stored(f)' <=> Read(f)' = Bytes(f) BY DEF Stored, Bytes
      <4>3. job[a].wanted \subseteq Files BY RequestParts DEF RequestTypes
      <4>. QED BY <1>6, <4>1, <4>2, <4>3, Naming, StoredIsRead
    <3>. QED BY <1>1, <1>2, <3>1, <3>2 DEF Saving, Unplaced
  <2>4. Making(a)' BY <1>2 DEF Making, Placings
  <2>5. Removing(a)' BY <1>1, <1>2, <1>3 DEF Actor, Removing
  <2>. QED BY <2>1, <2>2, <2>3, <2>4, <2>5 DEF Actor
<1>8. RequestTypes'
  <2>1. Owes(a) \subseteq Keys \union {Record}
    <3>1. pc[a] = "sync" => call[a].key \in Keys
          BY StoreParts, CallParts DEF InCall, Placings
    <3>. QED BY <3>1 DEF Owes
  <2>. QED BY <1>1, <2>1, RequestParts DEF RequestTypes, CallFails, Fails
<1>9. Unborn' BY <1>1, <1>4, UnbornNoMore
<1>. QED BY <1>1, <1>5, <1>7, <1>8, <1>9, RequestsKept

(***************************************************************************)
(* Every call of the operating system, and the ends of all                 *)
(***************************************************************************)
LEMMA StepsAreOfCalls ==
    ASSUME StoreInv, Requests, NEW a \in Actors, Steps(a)
    PROVE  at[a] \in {"placing", "writing", "removing"}
<1>1. pc[a] # "idle"
      BY DEF Steps, Look, MakeLeaf, MakeAbove, MakeAgain, Open, Place, Refuse, PlaceFails, Sync,
             SyncAbove, Placed, SweepOld, Rename, SyncRoot, SweepNew, Return, Moves
<1>2. at[a] \in Stations BY RequestParts DEF RequestTypes
<1>. QED BY <1>1, <1>2, WhereTheyStand DEF Stations

LEMMA StoreStepActs ==
    ASSUME StoreInv, Requests, NEW a \in Actors, StoreStep(a)
    PROVE  StoreInv' /\ Requests'
<1>1. Steps(a) /\ UNCHANGED articleVars BY DEF StoreStep
<1>2. StoreInv' /\ call' = call BY <1>1, StoreStepKeeps, CallKept
<1>3. /\ UNCHANGED <<lock, at, job, promised, gone, cut, requests, failures>>
      BY <1>1 DEF articleVars
<1>4. at[a] \in {"placing", "writing", "removing"} BY <1>1, StepsAreOfCalls
<1>5. Actor(a)' BY <1>1, <1>4, UploadGoesOn, SaveGoesOn, DeleteGoesOn
<1>6. RequestTypes' BY <1>3, RequestParts DEF RequestTypes
<1>7. Unborn' BY <1>3, <1>4, UnbornNoMore
<1>8. \A b \in Actors \ {a} : pc'[b] = pc[b] /\ hand'[b] = hand[b]
      BY <1>1, StoreParts
      DEF Steps, Look, MakeLeaf, MakeAbove, MakeAgain, Open, Place, Refuse, PlaceFails, Sync,
          SyncAbove, Placed, SweepOld, Rename, SyncRoot, SweepNew, Return, Moves
<1>9. CASE Quiet
  <2>1. Manners(a) BY <1>2, <1>3, <1>4, <1>8 DEF Manners, Untouched
  <2>. QED BY <1>2, <1>5, <1>6, <1>7, <1>9, <2>1, RequestsKept
<1>10. CASE Place(a)
  <2>1. \A b \in Actors \ {a} : Actor(b)' BY <1>1, <1>10, BystandersAtPlace
  <2>2. \A b \in Actors : Actor(b)' BY <1>5, <2>1
  <2>. QED BY <1>2, <1>6, <1>7, <2>2 DEF Requests, Actor
<1>11. CASE Rename(a)
  <2>1. pc[a] = "rename" /\ hand' = hand BY <1>11 DEF Rename, Moves
  <2>2. CASE Quiet BY <1>9, <2>2
  <2>3. CASE pc' = [pc EXCEPT ![a] = "syncRoot"] /\ \A k \in Keys : Read(k)' = Nothing
    <3>1. \A b \in Actors \ {a} : Actor(b)'
          BY <1>1, <1>2, <2>1, <2>3, StoreParts, BystandersAtRename
    <3>2. \A b \in Actors : Actor(b)' BY <1>5, <3>1
    <3>. QED BY <1>2, <1>6, <1>7, <3>2 DEF Requests, Actor
  <2>. QED BY <1>11, <2>2, <2>3, RenameTakes
<1>. QED BY <1>1, <1>9, <1>10, <1>11, QuietSteps DEF Steps, QuietStep

LEMMA OwedAreKeys ==
    ASSUME StoreInv
    PROVE  Owed \subseteq Keys \union {Record}
<1>1. ASSUME NEW a \in Actors PROVE Owes(a) \subseteq Keys \union {Record}
  <2>1. pc[a] = "sync" => call[a].key \in Keys
        BY StoreParts, CallParts DEF InCall, Placings
  <2>. QED BY <2>1 DEF Owes
<1>. QED BY <1>1 DEF Owed

LEMMA AllStopKeeps ==
    ASSUME StoreInv, Requests, AllStop, pc' = [a \in Actors |-> "idle"],
           hand' = [a \in Actors |-> NoHand], requests = 0 => disk'[Root] = {Empty}
    PROVE  Requests' /\ cut' = cut \union Owed /\ Owed' = {} /\ UNCHANGED <<promised, gone>>
<1>1. /\ at' = [a \in Actors |-> "idle"] /\ job' = [a \in Actors |-> NoJob]
      /\ lock' = NoActor /\ cut' = cut \union Owed
      /\ failures' = failures + 1 /\ UNCHANGED <<promised, gone, requests>>
      BY DEF AllStop, Fails, Owed
<1>2. \A a \in Actors : Actor(a)'
  <2>1. \A a \in Actors : at'[a] = "idle" /\ pc'[a] = "idle" /\ hand'[a].made = {}
        BY <1>1 DEF NoHand
  <2>. QED BY <2>1, Rests
<1>3. RequestTypes'
  <2>1. NoJob \in [file : Files \union {Nothing}, loaded : Values \union {Nothing}, wanted : SUBSET Files]
        BY DEF NoJob
  <2>. QED BY <1>1, <2>1, OwedAreKeys, RequestParts DEF RequestTypes, Stations
<1>4. Unborn' BY <1>1, RequestParts DEF Unborn
<1>5. Owed' = {} BY DEF Owed, Owes, Placings
<1>. QED BY <1>1, <1>2, <1>3, <1>4, <1>5 DEF Requests, Actor

-----------------------------------------------------------------------------
(***************************************************************************)
(* What is on disk                                                         *)
(***************************************************************************)
LEMMA DurableParts ==
    ASSUME IInv
    PROVE  StoreInv /\ FolderInv /\ Requests /\ FolderOnDisk /\ FilesOnDisk /\ Promised /\ (gone => Gone)
BY StoreParts DEF IInv, Durable

(* Once a save was told it stands, its folder is on disk.                  *)
LEMMA NobodyOwesTheFolder ==
    ASSUME IInv, promised # Nothing, Record \notin cut
    PROVE  Record \notin Owed
<1>1. SUFFICES ASSUME NEW a \in Actors, Record \in Owes(a) PROVE FALSE BY DEF Owed
<1>2. Read(Readme) # Nothing /\ StoreInv /\ Requests BY DurableParts DEF Promised, Covered
<1>3. pc[a] = "sync" => call[a].key \in Keys
      BY <1>2, StoreParts, CallParts DEF InCall, Placings
<1>4. pc[a] \in Placings /\ Record \in hand[a].made
      BY <1>1, <1>3, Naming DEF Owes
<1>. QED BY <1>2, <1>4, RequestParts DEF Actor, Making, Creating

LEMMA NextStored == \A f \in Files : Stored(f)' <=> Read(f)' = Bytes(f)
BY DEF Stored, Bytes

(* What was promised stays promised when nothing is read differently.      *)
LEMMA PromisedStays ==
    ASSUME IInv, Quiet, cut \subseteq cut', NEW files \in Values \union {Nothing}, promised' = files,
           files # Nothing /\ Record \notin cut =>
               Covered(files) /\ \A f \in files \ cut : Stored(f)
    PROVE  Promised'
<1>1. FolderInv BY DurableParts
<1>2. SUFFICES ASSUME files # Nothing, Record \notin cut'
               PROVE  Covered(files)' /\ \A f \in files \ cut' : Stored(f)'
  <2>1. Covered(files)' => Covered(promised)' BY DEF Covered
  <2>. QED BY <2>1 DEF Promised
<1>3. Covered(files) /\ \A f \in files \ cut : Stored(f) BY <1>2
<1>4. \A f \in files \ cut' : Stored(f)'
  <2>1. files \subseteq Files BY <1>2, ArticleAssumption
  <2>. QED BY <1>3, <2>1, NextStored, StoredIsRead, Naming DEF Quiet, SameReads
<1>. QED BY <1>1, <1>3, <1>4, CoveredStays

LEMMA NoOtherPromise ==
    ASSUME IInv, Quiet, cut \subseteq cut', promised' \in {promised, Nothing}
    PROVE  Promised'
<1>1. PICK files \in Values \union {Nothing} : promised' = files
      BY DurableParts, RequestParts DEF RequestTypes
<1>2. files # Nothing => files = promised BY <1>1
<1>3. promised # Nothing /\ Record \notin cut =>
          Covered(promised) /\ \A f \in promised \ cut : Stored(f)
      BY DurableParts DEF Promised
<1>4. files # Nothing /\ Record \notin cut => Covered(files) /\ \A f \in files \ cut : Stored(f)
      BY <1>2, <1>3
<1>. QED BY <1>1, <1>4, PromisedStays

(* What is on disk is there to stay, but for what a call pays off.         *)
LEMMA DurableAtQuiet ==
    ASSUME IInv, Quiet, cut \subseteq cut', Promised', gone' => gone \/ Gone,
           Read(Readme) # Nothing /\ Record \in cut \union Owed =>
               Record \in cut' \union Owed' \/ \A root \in disk'[Root] : root[Record] = Top,
           \A f \in Files : Stored(f) /\ f \in cut \union Owed =>
               f \in cut' \union Owed' \/ disk'[MediaFolder] = {dir[MediaFolder]}
    PROVE  Durable'
<1>1. FolderInv /\ FolderOnDisk /\ FilesOnDisk /\ (gone => Gone) BY DurableParts
<1>2. \A k \in Keys : Read(k)' = Read(k) BY DEF Quiet, SameReads
<1>3. Readme \in Keys /\ Files \subseteq Keys BY Naming
<1>4. FolderOnDisk'
  <2>1. SUFFICES ASSUME Read(Readme)' # Nothing, Record \notin cut' \union Owed', NEW root \in disk'[Root]
                 PROVE  root[Record] = Top'
        BY DEF FolderOnDisk
  <2>2. Read(Readme) # Nothing /\ Top # Nothing BY <1>2, <1>3, <2>1, ReadsAre
  <2>3. Top' = Top BY <2>2 DEF Quiet
  <2>4. CASE Record \in cut \union Owed BY <2>1, <2>2, <2>3, <2>4
  <2>5. CASE Record \notin cut \union Owed
    <3>1. PICK r \in disk[Root] : root[Record] = r[Record] BY <2>1, <2>2 DEF Quiet
    <3>. QED BY <1>1, <2>2, <2>3, <2>5, <3>1 DEF FolderOnDisk
  <2>. QED BY <2>4, <2>5
<1>5. FilesOnDisk'
  <2>1. SUFFICES ASSUME Read(Readme)' # Nothing, NEW f \in Files, f \notin cut' \union Owed', Read(f)' = Bytes(f),
                        NEW c \in disk'[MediaFolder']
                 PROVE  c[f] = Bytes(f)
        BY NextStored DEF FilesOnDisk, Bytes
  <2>2. Read(Readme) # Nothing /\ Stored(f) /\ Read(f) = Bytes(f) BY <1>2, <1>3, <2>1, StoredIsRead
  <2>3. Top # Nothing /\ MediaFolder # Nothing /\ dir[MediaFolder][f] = Bytes(f)
        BY <2>2, BytesAreValues, ReadsAre
  <2>4. MediaFolder' = MediaFolder BY <2>3 DEF Quiet
  <2>5. CASE f \in cut \union Owed
    <3>1. disk'[MediaFolder] = {dir[MediaFolder]} BY <2>1, <2>2, <2>5
    <3>. QED BY <2>1, <2>3, <2>4, <3>1
  <2>6. CASE f \notin cut \union Owed
    <3>1. PICK d \in disk[MediaFolder] : \A k \in Keys : c[k] = d[k] BY <2>1, <2>3, <2>4 DEF Quiet
    <3>2. d[f] = Bytes(f) BY <1>1, <2>2, <2>6 DEF FilesOnDisk
    <3>. QED BY <1>3, <3>1, <3>2
  <2>. QED BY <2>5, <2>6
<1>6. gone' => Gone' BY <1>1 DEF Quiet
<1>. QED BY <1>4, <1>5, <1>6 DEF Durable

LEMMA DurableStill ==
    ASSUME IInv, Quiet, cut \subseteq cut', Promised', gone' => gone \/ Gone,
           cut \union Owed \subseteq cut' \union Owed'
    PROVE  Durable'
BY DurableAtQuiet

LEMMA OthersOwe ==
    ASSUME NEW a \in Actors,
           \A b \in Actors \ {a} : pc'[b] = pc[b] /\ hand'[b] = hand[b] /\ call'[b] = call[b]
    PROVE  \A x \in Owed : x \in Owes(a) \/ x \in Owed'
<1>1. SUFFICES ASSUME NEW b \in Actors, NEW x \in Owes(b) PROVE b = a \/ x \in Owes(b)'
      BY DEF Owed
<1>. QED BY <1>1 DEF Owes

(* A call that has not begun, or is over, owes nothing.                    *)
LEMMA OwesNothing ==
    ASSUME NEW a \in Actors, pc[a] \notin Placings
    PROVE  Owes(a) = {}
BY DEF Owes, Placings

LEMMA DurableAtRequest ==
    ASSUME IInv, NEW a \in Actors,
           \/ Create(a) \/ Upload(a) \/ FilePlaced(a) \/ Load(a) \/ Save(a) \/ Saved(a) \/ Conflict(a)
           \/ Delete(a) \/ Remove(a) \/ Deleted(a) \/ GivesUp(a)
    PROVE  IInv'
<1>0. StoreInv /\ Requests /\ (gone => Gone) /\ Promised /\ RequestTypes
      BY DurableParts, RequestParts
<1>1. /\ StoreInv' /\ Quiet /\ Requests' /\ cut' = cut /\ (gone' => gone \/ Gone)
      /\ \/ promised' \in {promised, Nothing}
         \/ \E files \in Values : promised' = files /\ Covered(files) /\ \A f \in files : Stored(f)
      BY <1>0, CreateKeeps, UploadKeeps, FilePlacedKeeps, LoadKeeps, SaveKeeps, SavedKeeps, ConflictKeeps,
         DeleteKeeps, RemoveKeeps, DeletedKeeps, GivesUpKeeps
<1>2. Promised'
  <2>1. CASE promised' \in {promised, Nothing} BY <1>1, <2>1, NoOtherPromise
  <2>2. CASE \E files \in Values : promised' = files /\ Covered(files) /\ \A f \in files : Stored(f)
    <3>1. PICK files \in Values : promised' = files /\ Covered(files) /\ \A f \in files : Stored(f)
          BY <2>2
    <3>. QED BY <1>1, <3>1, PromisedStays
  <2>. QED BY <1>1, <2>1, <2>2
<1>3. Owed \subseteq Owed'
  <2>1. \A b \in Actors \ {a} : pc'[b] = pc[b] /\ hand'[b] = hand[b] /\ call'[b] = call[b]
        BY <1>0, StoreParts
        DEF Create, Upload, FilePlaced, Load, Save, Saved, Conflict, Delete, Remove, Deleted, GivesUp,
            Begin, Moves, Takes, storeVars
  <2>2. pc[a] \notin Placings
    <3>1. Create(a) \/ Load(a) \/ Conflict(a) \/ Delete(a) => pc[a] = "idle"
          BY <1>0, WhereTheyStand DEF Create, Load, Conflict, Delete, Asks, Goes
    <3>2. Upload(a) \/ Save(a) \/ Remove(a) => pc[a] = "idle"
          BY DEF Upload, Save, Remove, Begin, Moves
    <3>3. FilePlaced(a) \/ Saved(a) \/ Deleted(a) => pc[a] \in Outcomes
          BY DEF FilePlaced, Saved, Deleted, Takes
    <3>4. GivesUp(a) => pc[a] \in Outcomes \/ pc[a] = "idle"
          BY <1>0, WhereTheyStand DEF GivesUp, Takes
    <3>. QED BY <3>1, <3>2, <3>3, <3>4 DEF Outcomes, Placings
  <2>. QED BY <2>1, <2>2, OthersOwe, OwesNothing
<1>4. Durable' BY <1>1, <1>2, <1>3, DurableStill
<1>. QED BY <1>1, <1>4 DEF IInv

LEMMA DurableAtCallFails ==
    ASSUME IInv, NEW a \in Actors, CallFails(a)
    PROVE  IInv'
<1>0. StoreInv /\ Requests /\ Promised /\ RequestTypes BY DurableParts, RequestParts
<1>1. /\ StoreInv' /\ Quiet /\ Requests' /\ UNCHANGED <<promised, gone>>
      BY <1>0, CallFailsKeeps
<1>2. cut' = cut \union Owes(a) /\ pc' = [pc EXCEPT ![a] = "raised"] /\ UNCHANGED <<call, hand>>
      BY DEF CallFails, Raises
<1>3. Promised' BY <1>1, <1>2, NoOtherPromise
<1>4. cut \union Owed \subseteq cut' \union Owed'
      BY <1>0, <1>2, StoreParts, OthersOwe
<1>5. Durable' BY <1>1, <1>2, <1>3, <1>4, DurableStill
<1>. QED BY <1>1, <1>5 DEF IInv

LEMMA DurableAtAppDies ==
    ASSUME IInv, AppDies
    PROVE  IInv'
<1>0. StoreInv /\ Requests /\ Promised /\ RequestTypes BY DurableParts, RequestParts
<1>1. StoreInv' /\ Quiet BY <1>0, StopsKeeps DEF AppDies
<1>2. /\ pc' = [a \in Actors |-> "idle"] /\ hand' = [a \in Actors |-> NoHand]
      /\ UNCHANGED <<dir, disk>> /\ AllStop
      BY DEF AppDies, StoreStops
<1>3. Requests' /\ cut' = cut \union Owed /\ Owed' = {} /\ UNCHANGED <<promised, gone>>
  <2>1. requests = 0 => disk'[Root] = {Empty} BY <1>0, <1>2, RequestParts DEF Unborn
  <2>. QED BY <1>0, <1>2, <2>1, AllStopKeeps
<1>4. Promised' BY <1>1, <1>3, NoOtherPromise
<1>5. Durable' BY <1>1, <1>3, <1>4, DurableStill
<1>. QED BY <1>1, <1>3, <1>5 DEF IInv

(* What a power loss leaves of a folder is what it left before.            *)
LEMMA DurableAtPowerLoss ==
    ASSUME IInv, PowerLoss
    PROVE  IInv'
<1>0. /\ StoreInv /\ FolderInv /\ Requests /\ FolderOnDisk /\ FilesOnDisk /\ Promised /\ (gone => Gone)
      /\ RequestTypes
      BY DurableParts, RequestParts
<1>1. LosesPower /\ AllStop /\ StoreInv' BY <1>0, LossKeeps DEF PowerLoss
<1>2. /\ FolderInv' /\ (Gone => Gone')
      /\ \A f \in Folders : dir'[f] \in disk[f] /\ disk'[f] = {dir'[f]}
      BY <1>0, <1>1, PowerLeaves
<1>3. pc' = [a \in Actors |-> "idle"] /\ hand' = [a \in Actors |-> NoHand]
      BY <1>1 DEF LosesPower
<1>4. requests = 0 => disk'[Root] = {Empty}
      BY <1>0, <1>2, RequestParts, Nowhere DEF Unborn
<1>5. Requests' /\ cut' = cut \union Owed /\ Owed' = {} /\ UNCHANGED <<promised, gone>>
      BY <1>0, <1>1, <1>3, <1>4, AllStopKeeps
<1>6. Top' \in Inodes \union {Nothing} /\ (Top' # Nothing => MediaFolder' \in Inodes \union {Nothing})
      BY <1>2, Naming, Nowhere, ContentParts DEF FolderInv, FolderTypes, Top, MediaFolder
<1>7. FolderOnDisk' BY <1>2, Nowhere DEF FolderOnDisk, Top
<1>8. FilesOnDisk'
  <2>1. SUFFICES ASSUME Read(Readme)' # Nothing, NEW f \in Files, Read(f)' = Bytes(f),
                        NEW c \in disk'[MediaFolder']
                 PROVE  c[f] = Bytes(f)
        BY NextStored DEF FilesOnDisk, Bytes
  <2>2. /\ MediaFolder' # Nothing /\ Top' # Nothing /\ dir'[MediaFolder'][f] = Bytes(f)
        BY <2>1, BytesAreValues, ReadsNext
  <2>3. MediaFolder' \in Folders BY <1>6, <2>2, Nowhere
  <2>. QED BY <1>2, <2>1, <2>2, <2>3
<1>9. Promised'
  <2>1. PICK files \in Values \union {Nothing} : files = promised BY <1>0 DEF RequestTypes
  <2>2. SUFFICES ASSUME files # Nothing, Record \notin cut \union Owed
                 PROVE  Covered(files)' /\ \A f \in files \ (cut \union Owed) : Stored(f)'
    <3>1. Covered(files)' => Covered(promised)' BY <1>5, <2>1 DEF Covered
    <3>2. promised' = files /\ cut' = cut \union Owed BY <1>5, <2>1
    <3>. QED BY <3>1, <3>2 DEF Promised
  <2>3. Covered(promised) /\ \A f \in files \ cut : Stored(f) BY <1>0, <2>1, <2>2 DEF Promised
  <2>4. /\ Read(Readme) # Nothing
        /\ \A c \in disk[Top] :
            /\ c[Readme] # Nothing /\ files \subseteq c[Readme]
            /\ files # {} => c[Media] # Nothing /\ c[Media] = MediaFolder
        BY <2>1, <2>3 DEF Covered
  <2>5. Top # Nothing /\ Top \in Folders BY <1>0, <2>4, ReadsAre, Walks, Nowhere DEF FolderInv
  <2>6. Top' = Top
    <3>1. dir'[Root] \in disk[Root] BY <1>2, Nowhere
    <3>2. dir'[Root][Record] = Top BY <1>0, <2>2, <2>4, <3>1 DEF FolderOnDisk
    <3>. QED BY <3>2 DEF Top
  <2>7. PICK c \in disk[Top] : c = dir'[Top] /\ disk'[Top] = {c} BY <1>2, <2>5
  <2>8. Read(Readme)' = c[Readme] BY <2>5, <2>6, <2>7, ReadsNext
  <2>9. MediaFolder' = c[Media] BY <2>6, <2>7 DEF MediaFolder
  <2>10. Covered(files)' BY <2>4, <2>6, <2>7, <2>8, <2>9 DEF Covered
  <2>11. ASSUME NEW f \in files \ (cut \union Owed) PROVE Stored(f)'
    <3>1. f \in Files /\ Stored(f) BY <2>2, <2>3, ArticleAssumption
    <3>2. MediaFolder' = MediaFolder /\ MediaFolder # Nothing BY <2>4, <2>9
    <3>3. MediaFolder \in Folders BY <1>0, <2>5, <3>2, Walks, Nowhere DEF FolderInv
    <3>4. dir'[MediaFolder] \in disk[MediaFolder] BY <1>2, <3>3
    <3>5. dir'[MediaFolder][f] = Bytes(f) BY <1>0, <2>4, <2>11, <3>1, <3>4 DEF FilesOnDisk
    <3>6. Read(f)' = Bytes(f) BY <2>5, <2>6, <3>1, <3>2, <3>5, ReadsNext
    <3>. QED BY <3>1, <3>6, NextStored
  <2>. QED BY <2>10, <2>11
<1>10. Durable' BY <1>0, <1>2, <1>5, <1>7, <1>8, <1>9 DEF Durable
<1>. QED BY <1>1, <1>5, <1>10 DEF IInv

(* The calls that pay what is owed: the fsync of the folder of a file, and *)
(* of the one above a folder that was made.                                *)
LEMMA PaysForTheFolder ==
    ASSUME StoreInv, Requests, NEW a \in Actors, QuietStep(a), Read(Readme) # Nothing,
           Record \in Owes(a), Record \notin Owes(a)'
    PROVE  \A root \in disk'[Root] : root[Record] = Top
<1>0. /\ FolderInv /\ Actor(a) /\ InCall(a) /\ call[a] \in Calls /\ HandTypes
      /\ pc \in [Actors -> States]
      BY RequestParts, StoreParts DEF StoreInv, StoreTypes, HandTypes
<1>1. pc[a] = "sync" => call[a].key \in Keys BY <1>0, CallParts DEF InCall, Placings
<1>2. pc[a] \in Placings /\ Record \in hand[a].made BY <1>1, Naming DEF Owes
<1>3. at[a] = "writing" /\ job[a].loaded = Nothing BY <1>0, <1>2 DEF Actor, Making
<1>4. pc[a] \notin Unplaced BY <1>0, <1>3, Naming DEF Actor, Creating
<1>5. pc'[a] \notin Placings \/ Record \notin hand'[a].made BY DEF Owes
<1>6. Top # Nothing /\ Leaf(a) = Record
  <2>1. call[a].key = Readme BY <1>0, <1>3 DEF Actor, InRequest
  <2>. QED BY <2>1, ReadsAre, Homes DEF Leaf
<1>7. pc[a] \in {"sync", "syncAbove"} BY <1>2, <1>4 DEF Placings, Unplaced
<1>8. ~Sync(a)
  <2>1. Sync(a) => pc'[a] = "syncAbove" /\ hand' = hand
        BY <1>0, <1>6, PathsAre DEF Sync, Moves
  <2>. QED BY <1>2, <1>5, <2>1 DEF Placings
<1>9. ~Placed(a) BY <1>2 DEF Placed
<1>10. SyncAbove(a)
       BY <1>7, <1>8, <1>9 DEF QuietStep, Look, MakeLeaf, MakeAbove, MakeAgain, Open, Refuse, PlaceFails,
              SweepOld, SyncRoot, SweepNew, Return, Moves
<1>11. PICK name \in hand[a].made :
           /\ \/ /\ Moves(a, "syncAbove", "syncAbove") /\ Above(name) # Nothing
                 /\ Fsync(Above(name))
                 /\ hand' = [hand EXCEPT ![a].made = @ \ {name}]
              \/ /\ Moves(a, "syncAbove", "raised") /\ Above(name) = Nothing
                 /\ UNCHANGED <<dir, disk, hand>>
       BY <1>10 DEF SyncAbove
<1>12. Above(name) # Nothing
  <2>1. CASE name = Record BY <2>1, PathsAre, Nowhere
  <2>2. CASE name # Record BY <1>6, <2>2, PathsAre DEF Above
  <2>. QED BY <2>1, <2>2
<1>13. /\ pc'[a] = "syncAbove" /\ Fsync(Above(name)) /\ hand'[a].made = hand[a].made \ {name}
       BY <1>0, <1>11, <1>12 DEF Moves, HandTypes
<1>14. name = Record BY <1>2, <1>5, <1>13 DEF Placings
<1>15. disk'[Root] = {dir[Root]}
       BY <1>0, <1>13, <1>14, PathsAre, Nowhere DEF Fsync, FolderInv, FolderTypes
<1>. QED BY <1>15 DEF Top

LEMMA PaysForTheFile ==
    ASSUME StoreInv, NEW a \in Actors, QuietStep(a), NEW f \in Files, Stored(f), f \in Owes(a),
           f \notin Owes(a)'
    PROVE  disk'[MediaFolder] = {dir[MediaFolder]}
<1>0. FolderInv BY StoreParts
<1>1. f \in Keys /\ f # Record /\ f # Readme BY Naming
<1>2. pc[a] = "sync" /\ call[a].key = f BY <1>1 DEF Owes
<1>3. Leaf(a) = Media BY <1>2, Homes DEF Leaf
<1>4. Top # Nothing /\ MediaFolder # Nothing /\ MediaFolder \in Folders
  <2>1. Top # Nothing /\ MediaFolder # Nothing BY StoredIsRead, BytesAreValues, ReadsAre
  <2>. QED BY <1>0, <2>1, Walks, Nowhere DEF FolderInv
<1>5. Sync(a)
      BY <1>2 DEF QuietStep, Look, MakeLeaf, MakeAbove, MakeAgain, Open, Refuse, PlaceFails, SyncAbove, Placed,
             SweepOld, SyncRoot, SweepNew, Return, Moves
<1>6. Fsync(MediaFolder) BY <1>3, <1>4, <1>5, PathsAre DEF Sync
<1>. QED BY <1>0, <1>4, <1>6 DEF Fsync, FolderInv, FolderTypes

LEMMA DurableAtQuietStep ==
    ASSUME IInv, NEW a \in Actors, QuietStep(a), Steps(a), UNCHANGED articleVars
    PROVE  Durable'
<1>0. StoreInv /\ Requests /\ Promised /\ RequestTypes BY DurableParts, RequestParts
<1>1. Quiet BY <1>0, QuietSteps
<1>2. UNCHANGED <<promised, gone, cut>> BY DEF articleVars
<1>3. Promised' BY <1>1, <1>2, NoOtherPromise
<1>4. \A x \in Owed : x \in Owes(a) \/ x \in Owed'
  <2>1. \A b \in Actors \ {a} : pc'[b] = pc[b] /\ hand'[b] = hand[b] /\ call'[b] = call[b]
        BY <1>0, StoreParts
        DEF Steps, Look, MakeLeaf, MakeAbove, MakeAgain, Open, Place, Refuse, PlaceFails, Sync,
            SyncAbove, Placed, SweepOld, Rename, SyncRoot, SweepNew, Return, Moves
  <2>. QED BY <2>1, OthersOwe
<1>5. \A x \in Owes(a)' : x \in Owed' BY DEF Owed
<1>6. Read(Readme) # Nothing /\ Record \in cut \union Owed =>
          Record \in cut' \union Owed' \/ \A root \in disk'[Root] : root[Record] = Top
      BY <1>0, <1>2, <1>4, <1>5, PaysForTheFolder
<1>7. \A f \in Files : Stored(f) /\ f \in cut \union Owed =>
          f \in cut' \union Owed' \/ disk'[MediaFolder] = {dir[MediaFolder]}
      BY <1>0, <1>2, <1>4, <1>5, PaysForTheFile
<1>. QED BY <1>1, <1>2, <1>3, <1>6, <1>7, DurableAtQuiet

LEMMA DurableAtPlace ==
    ASSUME IInv, NEW a \in Actors, Place(a), UNCHANGED articleVars
    PROVE  Durable'
<1>0. /\ StoreInv /\ FolderInv /\ Requests /\ FolderOnDisk /\ FilesOnDisk /\ Promised /\ (gone => Gone)
      /\ RequestTypes /\ Actor(a)
      BY DurableParts, RequestParts
<1>1. UNCHANGED <<promised, gone, cut, job>> BY DEF articleVars
<1>2. PICK k \in Keys, v \in Values : k = call[a].key /\ v = call[a].value /\ Put(k, v)
      BY <1>0, PlacePuts
<1>3. /\ Read(k)' = v /\ \A j \in Keys : j # k => Read(j)' = Read(j)
      /\ Top # Nothing /\ Top' = Top /\ MediaFolder' = MediaFolder
      /\ disk'[Root] = disk[Root]
      BY <1>2 DEF Put
<1>4. Readme \in Keys /\ Files \subseteq Keys /\ Readme \notin Files BY Naming
<1>5. /\ pc[a] = "place" /\ pc'[a] = "sync" /\ call' = call /\ hand'[a].made = hand[a].made
      /\ \A b \in Actors \ {a} : pc'[b] = pc[b] /\ hand'[b] = hand[b] /\ call'[b] = call[b]
  <2>1. HandTypes BY <1>0 DEF StoreInv, StoreTypes, HandTypes
  <2>. QED BY <1>0, <2>1, PlacerIs, StoreParts DEF HandTypes
<1>6. /\ Owes(a)' = (hand[a].made \intersect {Record}) \union {k}
      /\ Owes(a) = hand[a].made \intersect {Record}
      BY <1>2, <1>5 DEF Owes, Placings
<1>7. Owed \subseteq Owed' /\ Owes(a)' \subseteq Owed'
  <2>1. Owes(a)' \subseteq Owed' BY DEF Owed
  <2>. QED BY <1>5, <1>6, <2>1, OthersOwe
<1>8. ASSUME Read(Readme) = Nothing, Read(Readme)' # Nothing
      PROVE  Record \in Owed' /\ \A j \in Files : Read(j)' = Nothing
  <2>1. k = Readme BY <1>3, <1>4, <1>8
  <2>2. at[a] = "writing" BY <1>0, <1>2, <1>4, <2>1, PlacerIs
  <2>3. job[a].loaded = Nothing BY <1>0, <1>5, <1>8, <2>2 DEF Actor, Saving, Unplaced
  <2>4. Record \in hand[a].made /\ \A j \in Keys : Read(j) = Nothing
        BY <1>0, <1>5, <2>2, <2>3 DEF Actor, Creating, Unplaced
  <2>. QED BY <1>3, <1>4, <1>6, <1>7, <2>1, <2>4
<1>9. FolderOnDisk'
  <2>1. SUFFICES ASSUME Read(Readme)' # Nothing, Record \notin cut' \union Owed', NEW root \in disk'[Root]
                 PROVE  root[Record] = Top'
        BY DEF FolderOnDisk
  <2>2. Read(Readme) # Nothing BY <1>8, <2>1
  <2>. QED BY <1>0, <1>1, <1>3, <1>7, <2>1, <2>2 DEF FolderOnDisk
<1>10. FilesOnDisk'
  <2>1. SUFFICES ASSUME Read(Readme)' # Nothing, NEW f \in Files, f \notin cut' \union Owed', Read(f)' = Bytes(f),
                        NEW c \in disk'[MediaFolder']
                 PROVE  c[f] = Bytes(f)
        BY NextStored DEF FilesOnDisk, Bytes
  <2>2. f # k /\ Read(f) = Bytes(f) BY <1>3, <1>4, <1>6, <1>7, <2>1
  <2>3. Read(Readme) # Nothing BY <1>8, <2>1, BytesAreValues
  <2>4. MediaFolder # Nothing BY <2>2, BytesAreValues, ReadsAre
  <2>5. PICK d \in disk[MediaFolder] : \A j \in Keys : j # k => c[j] = d[j]
        BY <1>2, <1>3, <2>1, <2>4 DEF Put
  <2>6. d[f] = Bytes(f) BY <1>0, <1>1, <1>7, <2>1, <2>2, <2>3, StoredIsRead DEF FilesOnDisk
  <2>. QED BY <1>4, <2>2, <2>5, <2>6
<1>11. Promised'
  <2>1. PICK files \in Values \union {Nothing} : files = promised BY <1>0 DEF RequestTypes
  <2>2. SUFFICES ASSUME files # Nothing, Record \notin cut
                 PROVE  Covered(files)' /\ \A f \in files \ cut : Stored(f)'
    <3>1. Covered(files)' => Covered(promised)' BY <1>1, <2>1 DEF Covered
    <3>2. promised' = files /\ cut' = cut BY <1>1, <2>1
    <3>. QED BY <3>1, <3>2 DEF Promised
  <2>3. Covered(files) /\ \A f \in files \ cut : Stored(f)
    <3>1. Covered(promised) /\ \A f \in promised \ cut : Stored(f) BY <1>0, <2>1, <2>2 DEF Promised
    <3>. QED BY <2>1, <3>1
  <2>4. k = Readme => files \subseteq v
    <3>1. SUFFICES ASSUME k = Readme PROVE files \subseteq v OBVIOUS
    <3>2. at[a] = "writing" /\ v = job[a].wanted BY <1>0, <1>2, <1>4, <3>1, PlacerIs
    <3>3. Read(Readme) = job[a].loaded BY <1>0, <1>5, <3>2 DEF Actor, Saving, Unplaced
    <3>4. dir[Top] \in disk[Top] BY <1>0, <1>3, Walks, Nowhere DEF FolderInv, Tree
    <3>5. Read(Readme) # Nothing /\ files \subseteq Read(Readme)
          BY <2>3, <3>4, ReadsAre DEF Covered
    <3>. QED BY <1>0, <3>2, <3>3, <3>5 DEF Actor, Saving
  <2>5. Covered(files)' BY <1>0, <1>2, <2>3, <2>4, CoveredPut
  <2>6. ASSUME NEW f \in files \ cut PROVE Stored(f)'
    <3>1. f \in Files /\ Stored(f) BY <2>2, <2>3, ArticleAssumption
    <3>2. Read(f) = Bytes(f) /\ Read(f) # Nothing BY <3>1, StoredIsRead, BytesAreValues
    <3>3. f # k BY <1>0, <1>2, <1>4, <3>1, <3>2, PlacerIs
    <3>. QED BY <1>3, <1>4, <3>1, <3>2, <3>3, NextStored
  <2>. QED BY <2>5, <2>6
<1>12. gone' => Gone'
  <2>1. SUFFICES ASSUME gone PROVE Gone' BY <1>1
  <2>2. k # Readme
    <3>1. k = Readme => at[a] = "writing" BY <1>0, <1>2, <1>4, PlacerIs
    <3>. QED BY <1>0, <2>1, <3>1 DEF Actor, Saving
  <2>. QED BY <1>0, <1>2, <2>1, <2>2 DEF Put
<1>. QED BY <1>9, <1>10, <1>11, <1>12 DEF Durable

LEMMA DurableAtRename ==
    ASSUME IInv, NEW a \in Actors, Rename(a), UNCHANGED articleVars
    PROVE  Durable'
<1>0. StoreInv /\ Requests /\ (gone => Gone) /\ Promised /\ RequestTypes
      BY DurableParts, RequestParts
<1>1. pc[a] = "rename" /\ UNCHANGED <<promised, gone, cut>> BY DEF Rename, Moves, articleVars
<1>2. promised = Nothing
  <2>1. at[a] = "removing" BY <1>0, <1>1, RenamerIs DEF Removals
  <2>. QED BY <1>0, <2>1, RequestParts DEF Actor, Removing
<1>3. Promised' BY <1>1, <1>2 DEF Promised
<1>4. CASE Quiet
  <2>1. \A b \in Actors \ {a} : pc'[b] = pc[b] /\ hand'[b] = hand[b] /\ call'[b] = call[b]
        BY <1>0, StoreParts DEF Rename, Moves
  <2>2. Owes(a) = {} BY <1>1, OwesNothing DEF Placings
  <2>3. Owed \subseteq Owed' BY <2>1, <2>2, OthersOwe
  <2>. QED BY <1>1, <1>3, <1>4, <2>3, DurableStill
<1>5. CASE (\A k \in Keys : Read(k)' = Nothing) /\ (Gone => Gone')
      BY <1>0, <1>1, <1>3, <1>5, Naming DEF Durable, FolderOnDisk, FilesOnDisk
<1>. QED BY <1>0, <1>4, <1>5, RenameTakes

-----------------------------------------------------------------------------
(***************************************************************************)
(* What holds of every behaviour                                           *)
(***************************************************************************)
LEMMA Starts ==
    ASSUME Init
    PROVE  IInv
<1>1. StoreInv /\ FolderInv BY StoreStarts, StoreParts DEF Init
<1>2. /\ dir = [i \in Folders |-> Empty] /\ disk = [i \in Folders |-> {Empty}]
      /\ pc = [a \in Actors |-> "idle"] /\ hand = [a \in Actors |-> NoHand]
      /\ lock = NoActor /\ at = [a \in Actors |-> "idle"] /\ job = [a \in Actors |-> NoJob]
      /\ promised = Nothing /\ gone = FALSE /\ cut = {} /\ requests = 0 /\ failures = 0
      BY DEF Init, StoreInit
<1>3. disk[Root] = {Empty} /\ dir[Root] = Empty BY <1>2, Nowhere
<1>4. \A a \in Actors : Actor(a)
      BY <1>2 DEF Actor, InRequest, Creating, Saving, Making, Removing, Placings, Removals, Unplaced,
                  Outcomes, NoHand
<1>5. RequestTypes
  <2>1. NoJob \in [file : Files \union {Nothing}, loaded : Values \union {Nothing}, wanted : SUBSET Files]
        BY DEF NoJob
  <2>. QED BY <1>2, <2>1 DEF RequestTypes, Stations
<1>6. Requests BY <1>2, <1>3, <1>4, <1>5 DEF Requests, Unborn, Actor
<1>7. Read(Readme) = Nothing
  <2>1. Top = Nothing BY <1>3, Emptiness, Naming DEF Top
  <2>. QED BY <2>1, ReadsAre
<1>8. Durable BY <1>2, <1>7 DEF Durable, FolderOnDisk, FilesOnDisk, Promised
<1>. QED BY <1>1, <1>6, <1>8 DEF IInv

LEMMA StepKeeps ==
    ASSUME IInv, [Next]_vars
    PROVE  IInv'
<1>0. StoreInv /\ Requests BY DurableParts
<1>1. ASSUME NEW a \in Actors, StoreStep(a) PROVE IInv'
  <2>1. StoreInv' /\ Requests' BY <1>0, <1>1, StoreStepActs
  <2>2. Steps(a) /\ UNCHANGED articleVars BY <1>1 DEF StoreStep
  <2>3. CASE QuietStep(a) BY <2>1, <2>2, <2>3, DurableAtQuietStep DEF IInv
  <2>4. CASE Place(a) BY <2>1, <2>2, <2>4, DurableAtPlace DEF IInv
  <2>5. CASE Rename(a) BY <2>1, <2>2, <2>5, DurableAtRename DEF IInv
  <2>. QED BY <2>2, <2>3, <2>4, <2>5 DEF Steps, QuietStep
<1>2. CASE UNCHANGED vars
  <2>1. StoreInv' /\ Quiet /\ UNCHANGED <<dir, disk, pc, call, hand>>
        BY <1>0, <1>2, StillKeeps DEF vars
  <2>2. UNCHANGED <<lock, at, job, promised, gone, cut, requests, failures>>
        BY <1>2 DEF vars, articleVars
  <2>3. \A k \in Keys : Read(k)' = Read(k) BY <2>1 DEF Quiet, SameReads
  <2>4. /\ Top' = Top /\ (Gone' <=> Gone) /\ (NoReadme(dir[Root])' <=> NoReadme(dir[Root]))
        /\ MediaFolder' = MediaFolder /\ Owed' = Owed
        BY <2>1 DEF Top, MediaFolder, Gone, NoReadme, Left, Owed, Owes
  <2>5. \A f \in Files : Stored(f)' <=> Stored(f) BY <2>3, NextStored, StoredIsRead, Naming
  <2>6. ASSUME NEW files \in SUBSET Files PROVE Covered(files)' <=> Covered(files)
        BY <2>1, <2>3, <2>4, Naming DEF Covered
  <2>7. ASSUME NEW a \in Actors PROVE Actor(a)'
    <3>1. Actor(a) /\ job[a].wanted \subseteq Files BY <1>0, RequestParts DEF RequestTypes
    <3>2. InRequest(a)' BY <2>1, <2>2, <3>1 DEF Actor, InRequest, Bytes
    <3>3. Creating(a)' BY <2>1, <2>2, <2>3, <2>4, <3>1 DEF Actor, Creating
    <3>4. Saving(a)'
      <4>1. PICK wanted \in SUBSET Files : wanted = job[a].wanted /\ job'[a].wanted = wanted
            BY <2>2, <3>1
      <4>2. Covered(wanted) => Covered(wanted)' BY <2>6
      <4>3. Covered(job[a].wanted) => Covered(job[a].wanted)' BY <4>1, <4>2 DEF Covered
      <4>4. (\A f \in wanted : Stored(f)) => \A f \in wanted : Stored(f)' BY <2>5
      <4>. QED BY <2>1, <2>2, <2>3, <3>1, <4>1, <4>3, <4>4, Naming DEF Actor, Saving
    <3>5. Making(a)' BY <2>1, <2>2, <2>3, <3>1, Naming DEF Actor, Making
    <3>6. Removing(a)' BY <2>1, <2>2, <2>3, <2>4, <3>1, Naming DEF Actor, Removing
    <3>. QED BY <3>2, <3>3, <3>4, <3>5, <3>6 DEF Actor
  <2>8. RequestTypes' /\ Unborn'
        BY <1>0, <2>1, <2>2, RequestParts DEF RequestTypes, Unborn
  <2>9. Requests' BY <2>7, <2>8 DEF Requests, Actor
  <2>10. Promised' BY <2>1, <2>2, NoOtherPromise
  <2>11. Durable' BY <2>1, <2>2, <2>4, <2>10, DurableStill
  <2>. QED BY <2>1, <2>9, <2>11 DEF IInv
<1>. QED BY <1>1, <1>2, DurableAtRequest, DurableAtCallFails, DurableAtAppDies, DurableAtPowerLoss DEF Next

(* Every read, request and call finds the folders, the requests and what   *)
(* is on disk as the parts of IInv say, whatever fails and whenever the    *)
(* machine stops (localfs.py, documents.py's commit and remove).           *)
THEOREM Invariant == Spec => []IInv
<1>1. Init => IInv BY Starts
<1>2. IInv /\ [Next]_vars => IInv' BY StepKeeps
<1>. QED BY <1>1, <1>2, PTL DEF Spec

LEMMA EveryStepIsThePorts ==
    ASSUME StoreInv, Requests, [Next]_vars
    PROVE  [Port!Next]_(Port!vars)
<1>1. ASSUME NEW a \in Actors, Create(a) \/ Load(a) \/ Conflict(a) \/ Delete(a)
      PROVE  [Port!Next]_(Port!vars)
      BY <1>1, PortStutters DEF Create, Load, Conflict, Delete
<1>2. ASSUME NEW a \in Actors, Upload(a) PROVE [Port!Next]_(Port!vars)
  <2>1. PICK f \in Files : Begin(a, [op |-> "create", key |-> f, value |-> Bytes(f)])
        BY <1>2 DEF Upload
  <2>2. PICK c \in Calls : c = [op |-> "create", key |-> f, value |-> Bytes(f)]
        BY Naming, BytesAreValues DEF Calls
  <2>. QED BY <2>1, <2>2, PortBegins
<1>3. ASSUME NEW a \in Actors, FilePlaced(a) \/ Saved(a) \/ Deleted(a) PROVE [Port!Next]_(Port!vars)
      BY <1>3, PortTakes DEF FilePlaced, Saved, Deleted
<1>4. ASSUME NEW a \in Actors, GivesUp(a) PROVE [Port!Next]_(Port!vars)
  <2>1. Takes(a) \/ UNCHANGED storeVars BY <1>4 DEF GivesUp
  <2>. QED BY <2>1, PortTakes, PortStutters
<1>5. ASSUME NEW a \in Actors, CallFails(a) PROVE [Port!Next]_(Port!vars)
      BY <1>5, PortRaises DEF CallFails
<1>6. ASSUME NEW a \in Actors, StoreStep(a) PROVE [Port!Next]_(Port!vars)
      BY <1>6, PortSteps DEF StoreStep
<1>7. CASE AppDies BY <1>7, PortStops DEF AppDies
<1>8. CASE PowerLoss BY <1>8, PortLosesPower DEF PowerLoss
<1>9. CASE UNCHANGED vars BY <1>9, PortStutters DEF vars
<1>10. ASSUME NEW a \in Actors, Save(a) PROVE [Port!Next]_(Port!vars)
  <2>1. PICK c \in Calls : c = [op |-> "replace", key |-> Readme, value |-> job[a].wanted]
        BY Naming, ArticleAssumption DEF Calls, Requests, RequestTypes
  <2>. QED BY <1>10, <2>1, PortBegins DEF Save
<1>11. ASSUME NEW a \in Actors, Remove(a) PROVE [Port!Next]_(Port!vars)
  <2>1. PICK c \in Calls : c = [op |-> "delete"] BY DEF Calls
  <2>. QED BY <1>11, <2>1, PortBegins DEF Remove
<1>. QED BY <1>1, <1>2, <1>3, <1>4, <1>5, <1>6, <1>7, <1>8, <1>9, <1>10, <1>11 DEF Next

(* The adapter keeps the port's promise: each call takes effect at one     *)
(* moment between its beginning and its answer, whatever else runs, fails, *)
(* dies or loses power meanwhile.                                          *)
THEOREM ImplementsPortHolds == Spec => ImplementsPort
<1>1. Init => Port!Init
  <2>1. Init => StoreInit /\ StoreInv BY Starts DEF Init, IInv
  <2>. QED BY <2>1, PortStarts
<1>2. IInv /\ [Next]_vars => [Port!Next]_(Port!vars)
      BY DurableParts, EveryStepIsThePorts
<1>. QED BY <1>1, <1>2, Invariant, PTL DEF Spec, ImplementsPort, Port!Spec

(* A delete that found the Article and was answered is final: nothing a    *)
(* power loss may leave holds a README (delete_prefix, documents.remove).  *)
THEOREM DeletedForGoodHolds == Spec => []DeletedForGood
<1>1. IInv => DeletedForGood
      BY DEF IInv, Durable, Gone, NoReadme, DeletedForGood
<1>. QED BY <1>1, Invariant, PTL

LEMMA WhatWasToldIsOnDisk ==
    ASSUME IInv
    PROVE  SavedSurvives
<1>1. SUFFICES ASSUME promised # Nothing, Record \notin cut, NEW root \in disk[Root],
                      NEW record \in Left(root, Record)
               PROVE  /\ record[Readme] # Nothing
                      /\ promised \ (cut \union Owed) \subseteq record[Readme]
                      /\ \A media \in Left(record, Media) :
                            \A f \in promised \ (cut \union Owed) : media[f] = Bytes(f)
      BY DEF SavedSurvives, OnDisk, Owed
<1>2. FolderInv /\ FolderOnDisk /\ FilesOnDisk /\ Promised /\ RequestTypes
      BY DurableParts, RequestParts
<1>3. Covered(promised) /\ \A f \in promised \ cut : Stored(f) BY <1>1, <1>2 DEF Promised
<1>4. Top # Nothing /\ Read(Readme) # Nothing BY <1>3, ReadsAre DEF Covered
<1>5. root[Record] = Top BY <1>1, <1>2, <1>4, NobodyOwesTheFolder DEF FolderOnDisk
<1>6. record \in disk[Top] BY <1>1, <1>4, <1>5 DEF Left
<1>7. /\ record[Readme] # Nothing /\ promised \subseteq record[Readme]
      /\ promised # {} => record[Media] # Nothing /\ record[Media] = MediaFolder
      BY <1>3, <1>6 DEF Covered
<1>8. ASSUME NEW media \in Left(record, Media), NEW f \in promised \ (cut \union Owed)
      PROVE  media[f] = Bytes(f)
  <2>1. f \in Files /\ Stored(f) BY <1>1, <1>2, <1>3, ArticleAssumption DEF RequestTypes
  <2>2. media \in disk[MediaFolder] BY <1>7, <1>8 DEF Left
  <2>. QED BY <1>2, <1>4, <1>8, <2>1, <2>2 DEF FilesOnDisk
<1>. QED BY <1>7, <1>8

(* A save whose caller was told it stands survives a power loss: its       *)
(* README or a later one is on disk with the files it names, but for the   *)
(* excuses SavedSurvives has (_commit's fsyncs, documents.commit).         *)
THEOREM SavedSurvivesHolds == Spec => []SavedSurvives
BY WhatWasToldIsOnDisk, Invariant, PTL
=============================================================================
