------------------------ MODULE UploadStaging_proofs ------------------------
(***************************************************************************)
(* Proofs about UploadStaging for every number of threads, uploads, bytes, *)
(* retries and requests.                                                   *)
(***************************************************************************)
EXTENDS UploadStaging, TLAPS

USE LengthAssumption, RetriesAssumption, SweeperAssumption, AbsentAssumption

(* What an actor relies on between its steps: it holds the lock of its     *)
(* upload from "held" on, and what it found under the lock still stands.   *)
ActorOK(a) ==
    /\ pc[a] = "idle" <=> job[a] = Absent
    /\ pc[a] \notin {"idle", "create", "open"} => lock[job[a].on] = a
    /\ pc[a] = "create" => folder[job[a].on] = "partial" /\ ~stale[job[a].on]
    /\ pc[a] \in {"place", "load", "commit", "mark", "truncate", "answer"} => Whole(job[a].on)
    /\ pc[a] \in {"place", "load", "commit", "mark"} =>
          size[job[a].on] = Length /\ ~Finished(job[a].on)
    /\ pc[a] \in {"place", "load", "commit", "mark", "truncate"} => job[a].op = "claim"
    /\ pc[a] \in {"mark", "truncate"} => job[a].on \in saved
    /\ pc[a] = "truncate" => Finished(job[a].on)
    /\ pc[a] = "answer" /\ job[a].op = "claim" => Finished(job[a].on)
    /\ pc[a] = "commit" => seen[a] \in Article /\ seen[a].listed <= 1
    /\ pc[a] = "remove" => job[a].on \in doomed
    /\ a = Sweeper => pc[a] \in {"idle", "open", "remove"}

OneCreator ==
    \A a, b \in Actors :
        pc[a] = "create" /\ pc[b] = "create" /\ job[a].on = job[b].on => a = b

(* What a folder holds, and what was said about it. *)
UploadOK(u) ==
    /\ folder[u] \in {"none", "partial"} =>
          files[u] = {} /\ size[u] = 0 /\ told[u] = 0 /\ u \notin answered /\ u \notin doomed
    /\ folder[u] = "gone" => files[u] = {}
    /\ folder[u] = "staged" /\ u \notin doomed =>
          /\ Whole(u) /\ told[u] <= Offset(u)
          /\ u \in answered => Finished(u)
    /\ Finished(u) => u \in saved

Inv ==
    /\ TypeOK
    /\ \A a \in Actors : ActorOK(a)
    /\ OneCreator
    /\ \A u \in Uploads : UploadOK(u)
    /\ placed \subseteq {Length}
    /\ article.listed <= 1

USE DEF Actors, Linked, Finished, Whole

LEMMA InitInv == Init => Inv
<1> SUFFICES ASSUME Init PROVE Inv
  OBVIOUS
<1>1. TypeOK BY DEF Init, TypeOK, Stages, Article
<1>2. \A a \in Actors : ActorOK(a) BY DEF Init, ActorOK
<1>3. OneCreator /\ placed \subseteq {Length} /\ article.listed <= 1 BY DEF Init, OneCreator
<1>4. \A u \in Uploads : UploadOK(u) BY DEF Init, UploadOK
<1> QED BY <1>1, <1>2, <1>3, <1>4 DEF Inv

LEMMA JobTyped ==
    ASSUME Inv, NEW a \in Actors, pc[a] # "idle"
    PROVE  /\ job[a] \in Jobs /\ job[a].on \in Uploads /\ job[a].offset \in 0 .. Length
           /\ job[a].size \in Nat /\ job[a].tries \in 0 .. Retries
<1>1. job[a] \in Jobs BY DEF Inv, TypeOK, ActorOK
<1> QED BY <1>1 DEF Jobs

LEMMA OffsetTyped ==
    ASSUME TypeOK, NEW u \in Uploads
    PROVE  Offset(u) \in 0 .. Length
BY DEF TypeOK, Offset

LEMMA CreateKeeps ==
    ASSUME Inv, NEW t \in Threads, NEW u \in Uploads, Create(t, u)
    PROVE  Inv'
<1> USE DEF Inv, disk, actors, history, Create, Goes, Touch
<1>1. TypeOK'
  BY DEF TypeOK, Stages, Jobs, Article, Offset
<1>2. ASSUME NEW b \in Actors PROVE ActorOK(b)'
  <2>1. CASE b = t
    BY <2>1 DEF TypeOK, Stages, Jobs, Article, ActorOK, UploadOK, Offset
  <2>2. CASE b # t
    BY <2>2 DEF TypeOK, Stages, Jobs, Article, ActorOK, OneCreator, UploadOK, Offset
  <2> QED BY <2>1, <2>2
<1>3. OneCreator'
  BY DEF TypeOK, Jobs, OneCreator, ActorOK
<1>4. ASSUME NEW w \in Uploads PROVE UploadOK(w)'
  BY DEF TypeOK, Jobs, ActorOK, UploadOK, Offset
<1>5. placed' \subseteq {Length} /\ article'.listed <= 1
  BY DEF TypeOK, Article, ActorOK
<1> QED BY <1>1, <1>2, <1>3, <1>4, <1>5

LEMMA RenameKeeps ==
    ASSUME Inv, NEW t \in Threads, Rename(t)
    PROVE  Inv'
<1> USE DEF Inv, disk, actors, history, Rename, Ends, Goes
<1>1. TypeOK'
  BY DEF TypeOK, Stages, Jobs, Article, Offset
<1>2. ASSUME NEW b \in Actors PROVE ActorOK(b)'
  <2>1. CASE b = t
    BY <2>1 DEF TypeOK, Stages, Jobs, Article, ActorOK, UploadOK, Offset
  <2>2. CASE b # t
    BY <2>2 DEF TypeOK, Stages, Jobs, Article, ActorOK, OneCreator, UploadOK, Offset
  <2> QED BY <2>1, <2>2
<1>3. OneCreator'
  BY DEF TypeOK, Jobs, OneCreator, ActorOK
<1>4. ASSUME NEW w \in Uploads PROVE UploadOK(w)'
  BY DEF TypeOK, Jobs, ActorOK, UploadOK, Offset
<1>5. placed' \subseteq {Length} /\ article'.listed <= 1
  BY DEF TypeOK, Article, ActorOK
<1> QED BY <1>1, <1>2, <1>3, <1>4, <1>5

LEMMA AskKeeps ==
    ASSUME Inv, NEW t \in Threads, NEW u \in Uploads, Ask(t, u)
    PROVE  Inv'
<1> USE DEF Inv, disk, actors, history, Ask, Opens, Goes
<1>1. TypeOK'
  <2>1. job' \in [Actors -> Jobs \union {Absent}]
    BY DEF TypeOK, Jobs
  <2>2. pc' \in [Actors -> Stages] /\ stale' \in [Uploads -> BOOLEAN]
    BY DEF TypeOK, Stages
  <2>3. /\ requests' \in Nat
        /\ UNCHANGED <<folder, files, size, stale, lock, seen, article, told, placed, saved,
                      answered, doomed, edits, failures>>
    BY DEF TypeOK
  <2> QED BY <2>1, <2>2, <2>3 DEF TypeOK
<1>2. ASSUME NEW b \in Actors PROVE ActorOK(b)'
  <2>1. CASE b = t
    BY <2>1 DEF TypeOK, Stages, Jobs, Article, ActorOK, UploadOK, Offset
  <2>2. CASE b # t
    BY <2>2 DEF TypeOK, Stages, Jobs, Article, ActorOK, OneCreator, UploadOK, Offset
  <2> QED BY <2>1, <2>2
<1>3. OneCreator'
  BY DEF TypeOK, Jobs, OneCreator, ActorOK
<1>4. ASSUME NEW w \in Uploads PROVE UploadOK(w)'
  BY DEF TypeOK, Jobs, ActorOK, UploadOK, Offset
<1>5. placed' \subseteq {Length} /\ article'.listed <= 1
  BY DEF TypeOK, Article, ActorOK
<1> QED BY <1>1, <1>2, <1>3, <1>4, <1>5

LEMMA LockKeeps ==
    ASSUME Inv, NEW t \in Threads, Lock(t)
    PROVE  Inv'
<1> USE DEF Inv, disk, actors, history, Lock, Goes
<1>1. TypeOK'
  BY DEF TypeOK, Stages, Jobs, Article, Offset
<1>2. ASSUME NEW b \in Actors PROVE ActorOK(b)'
  <2>1. CASE b = t
    BY <2>1 DEF TypeOK, Stages, Jobs, Article, ActorOK, UploadOK, Offset
  <2>2. CASE b # t
    BY <2>2 DEF TypeOK, Stages, Jobs, Article, ActorOK, OneCreator, UploadOK, Offset
  <2> QED BY <2>1, <2>2
<1>3. OneCreator'
  BY DEF TypeOK, Jobs, OneCreator, ActorOK
<1>4. ASSUME NEW w \in Uploads PROVE UploadOK(w)'
  BY DEF TypeOK, Jobs, ActorOK, UploadOK, Offset
<1>5. placed' \subseteq {Length} /\ article'.listed <= 1
  BY DEF TypeOK, Article, ActorOK
<1> QED BY <1>1, <1>2, <1>3, <1>4, <1>5

LEMMA FoundGoneKeeps ==
    ASSUME Inv, NEW t \in Threads, FoundGone(t)
    PROVE  Inv'
<1> USE DEF Inv, disk, actors, history, FoundGone, Ends, Goes
<1>1. TypeOK'
  BY DEF TypeOK, Stages, Jobs, Article, Offset
<1>2. ASSUME NEW b \in Actors PROVE ActorOK(b)'
  <2>1. CASE b = t
    BY <2>1 DEF TypeOK, Stages, Jobs, Article, ActorOK, UploadOK, Offset
  <2>2. CASE b # t
    BY <2>2 DEF TypeOK, Stages, Jobs, Article, ActorOK, OneCreator, UploadOK, Offset
  <2> QED BY <2>1, <2>2
<1>3. OneCreator'
  BY DEF TypeOK, Jobs, OneCreator, ActorOK
<1>4. ASSUME NEW w \in Uploads PROVE UploadOK(w)'
  BY DEF TypeOK, Jobs, ActorOK, UploadOK, Offset
<1>5. placed' \subseteq {Length} /\ article'.listed <= 1
  BY DEF TypeOK, Article, ActorOK
<1> QED BY <1>1, <1>2, <1>3, <1>4, <1>5

LEMMA StatusKeeps ==
    ASSUME Inv, NEW t \in Threads, Status(t)
    PROVE  Inv'
<1> USE DEF Inv, disk, actors, history, Status, Holds, Tells, Ends, Goes
<1>1. TypeOK'
  <2>0. /\ job[t].on \in Uploads /\ job[t].offset \in 0 .. Length /\ job[t].size \in Nat
        /\ Offset(job[t].on) \in 0 .. Length
    BY JobTyped, OffsetTyped
  <2>1. told' \in [Uploads -> 0 .. Length]
    BY <2>0 DEF TypeOK
  <2>2. job' \in [Actors -> Jobs \union {Absent}]
    BY <2>0 DEF TypeOK, Jobs
  <2>3. pc' \in [Actors -> Stages] /\ stale' \in [Uploads -> BOOLEAN]
    BY <2>0 DEF TypeOK, Stages
  <2> QED BY <2>1, <2>2, <2>3 DEF TypeOK
<1>2. ASSUME NEW b \in Actors PROVE ActorOK(b)'
  <2>1. CASE b = t
    BY <2>1 DEF TypeOK, Stages, Jobs, Article, ActorOK, UploadOK, Offset
  <2>2. CASE b # t
    BY <2>2 DEF TypeOK, Stages, Jobs, Article, ActorOK, OneCreator, UploadOK, Offset
  <2> QED BY <2>1, <2>2
<1>3. OneCreator'
  BY DEF TypeOK, Jobs, OneCreator, ActorOK
<1>4. ASSUME NEW w \in Uploads PROVE UploadOK(w)'
  BY DEF TypeOK, Jobs, ActorOK, UploadOK, Offset
<1>5. placed' \subseteq {Length} /\ article'.listed <= 1
  BY DEF TypeOK, Article, ActorOK
<1> QED BY <1>1, <1>2, <1>3, <1>4, <1>5

LEMMA AppendKeeps ==
    ASSUME Inv, NEW t \in Threads, Append(t)
    PROVE  Inv'
<1> USE DEF Inv, disk, actors, history, Append, Writes, Holds, Ends, Goes
<1>1. TypeOK'
  <2>0. /\ job[t].on \in Uploads /\ job[t].offset \in 0 .. Length /\ job[t].size \in Nat
        /\ Offset(job[t].on) \in 0 .. Length
    BY JobTyped, OffsetTyped
  <2>1. size' \in [Uploads -> 0 .. Length]
    BY <2>0 DEF TypeOK
  <2>2. job' \in [Actors -> Jobs \union {Absent}]
    BY <2>0 DEF TypeOK, Jobs
  <2>3. pc' \in [Actors -> Stages] /\ stale' \in [Uploads -> BOOLEAN]
    BY <2>0 DEF TypeOK, Stages
  <2> QED BY <2>1, <2>2, <2>3 DEF TypeOK
<1>2. ASSUME NEW b \in Actors PROVE ActorOK(b)'
  <2>1. CASE b = t
    BY <2>1 DEF TypeOK, Stages, Jobs, Article, ActorOK, UploadOK, Offset
  <2>2. CASE b # t
    BY <2>2 DEF TypeOK, Stages, Jobs, Article, ActorOK, OneCreator, UploadOK, Offset
  <2> QED BY <2>1, <2>2
<1>3. OneCreator'
  BY DEF TypeOK, Jobs, OneCreator, ActorOK
<1>4. ASSUME NEW w \in Uploads PROVE UploadOK(w)'
  BY DEF TypeOK, Jobs, ActorOK, UploadOK, Offset
<1>5. placed' \subseteq {Length} /\ article'.listed <= 1
  BY DEF TypeOK, Article, ActorOK
<1> QED BY <1>1, <1>2, <1>3, <1>4, <1>5

LEMMA DiscardKeeps ==
    ASSUME Inv, NEW t \in Threads, Discard(t)
    PROVE  Inv'
<1> USE DEF Inv, disk, actors, history, Discard, Dooms, Holds, Goes
<1>1. TypeOK'
  <2>0. /\ job[t].on \in Uploads /\ job[t].offset \in 0 .. Length /\ job[t].size \in Nat
        /\ Offset(job[t].on) \in 0 .. Length
    BY JobTyped, OffsetTyped
  <2>1. saved' \subseteq Uploads /\ answered' \subseteq Uploads /\ doomed' \subseteq Uploads
    BY <2>0 DEF TypeOK
  <2>2. pc' \in [Actors -> Stages] /\ stale' \in [Uploads -> BOOLEAN]
    BY <2>0 DEF TypeOK, Stages
  <2> QED BY <2>1, <2>2 DEF TypeOK
<1>2. ASSUME NEW b \in Actors PROVE ActorOK(b)'
  <2>1. CASE b = t
    BY <2>1 DEF TypeOK, Stages, Jobs, Article, ActorOK, UploadOK, Offset
  <2>2. CASE b # t
    BY <2>2 DEF TypeOK, Stages, Jobs, Article, ActorOK, OneCreator, UploadOK, Offset
  <2> QED BY <2>1, <2>2
<1>3. OneCreator'
  BY DEF TypeOK, Jobs, OneCreator, ActorOK
<1>4. ASSUME NEW w \in Uploads PROVE UploadOK(w)'
  BY DEF TypeOK, Jobs, ActorOK, UploadOK, Offset
<1>5. placed' \subseteq {Length} /\ article'.listed <= 1
  BY DEF TypeOK, Article, ActorOK
<1> QED BY <1>1, <1>2, <1>3, <1>4, <1>5

LEMMA ClaimKeeps ==
    ASSUME Inv, NEW t \in Threads, Claim(t)
    PROVE  Inv'
<1> USE DEF Inv, disk, actors, history, Claim, Holds, Ends, Goes
<1>1. TypeOK'
  <2>0. /\ job[t].on \in Uploads /\ job[t].offset \in 0 .. Length /\ job[t].size \in Nat
        /\ Offset(job[t].on) \in 0 .. Length
    BY JobTyped, OffsetTyped
  <2>1. saved' \subseteq Uploads /\ answered' \subseteq Uploads /\ doomed' \subseteq Uploads
    BY <2>0 DEF TypeOK
  <2>2. job' \in [Actors -> Jobs \union {Absent}]
    BY <2>0 DEF TypeOK, Jobs
  <2>3. pc' \in [Actors -> Stages] /\ stale' \in [Uploads -> BOOLEAN]
    BY <2>0 DEF TypeOK, Stages
  <2> QED BY <2>1, <2>2, <2>3 DEF TypeOK
<1>2. ASSUME NEW b \in Actors PROVE ActorOK(b)'
  <2>1. CASE b = t
    BY <2>1 DEF TypeOK, Stages, Jobs, Article, ActorOK, UploadOK, Offset
  <2>2. CASE b # t
    BY <2>2 DEF TypeOK, Stages, Jobs, Article, ActorOK, OneCreator, UploadOK, Offset
  <2> QED BY <2>1, <2>2
<1>3. OneCreator'
  BY DEF TypeOK, Jobs, OneCreator, ActorOK
<1>4. ASSUME NEW w \in Uploads PROVE UploadOK(w)'
  BY DEF TypeOK, Jobs, ActorOK, UploadOK, Offset
<1>5. placed' \subseteq {Length} /\ article'.listed <= 1
  BY DEF TypeOK, Article, ActorOK
<1> QED BY <1>1, <1>2, <1>3, <1>4, <1>5

LEMMA PlaceFileKeeps ==
    ASSUME Inv, NEW t \in Threads, PlaceFile(t)
    PROVE  Inv'
<1> USE DEF Inv, disk, actors, history, PlaceFile, Goes
<1>1. TypeOK'
  <2>0. /\ job[t].on \in Uploads /\ job[t].offset \in 0 .. Length /\ job[t].size \in Nat
        /\ Offset(job[t].on) \in 0 .. Length
    BY JobTyped, OffsetTyped
  <2>9. size[job[t].on] \in 0 .. Length
    BY <2>0 DEF TypeOK
  <2>1. placed' \subseteq 0 .. Length
    BY <2>0, <2>9 DEF TypeOK
  <2>2. pc' \in [Actors -> Stages] /\ stale' \in [Uploads -> BOOLEAN]
    BY <2>0, <2>9 DEF TypeOK, Stages
  <2> QED BY <2>1, <2>2 DEF TypeOK
<1>2. ASSUME NEW b \in Actors PROVE ActorOK(b)'
  <2>1. CASE b = t
    BY <2>1 DEF TypeOK, Stages, Jobs, Article, ActorOK, UploadOK, Offset
  <2>2. CASE b # t
    BY <2>2 DEF TypeOK, Stages, Jobs, Article, ActorOK, OneCreator, UploadOK, Offset
  <2> QED BY <2>1, <2>2
<1>3. OneCreator'
  BY DEF TypeOK, Jobs, OneCreator, ActorOK
<1>4. ASSUME NEW w \in Uploads PROVE UploadOK(w)'
  BY DEF TypeOK, Jobs, ActorOK, UploadOK, Offset
<1>5. placed' \subseteq {Length} /\ article'.listed <= 1
  BY DEF TypeOK, Article, ActorOK
<1> QED BY <1>1, <1>2, <1>3, <1>4, <1>5

LEMMA LoadKeeps ==
    ASSUME Inv, NEW t \in Threads, Load(t)
    PROVE  Inv'
<1> USE DEF Inv, disk, actors, history, Load, Ends, Goes
<1>1. TypeOK'
  BY DEF TypeOK, Stages, Jobs, Article, Offset
<1>2. ASSUME NEW b \in Actors PROVE ActorOK(b)'
  <2>1. CASE b = t
    BY <2>1 DEF TypeOK, Stages, Jobs, Article, ActorOK, UploadOK, Offset
  <2>2. CASE b # t
    BY <2>2 DEF TypeOK, Stages, Jobs, Article, ActorOK, OneCreator, UploadOK, Offset
  <2> QED BY <2>1, <2>2
<1>3. OneCreator'
  BY DEF TypeOK, Jobs, OneCreator, ActorOK
<1>4. ASSUME NEW w \in Uploads PROVE UploadOK(w)'
  BY DEF TypeOK, Jobs, ActorOK, UploadOK, Offset
<1>5. placed' \subseteq {Length} /\ article'.listed <= 1
  BY DEF TypeOK, Article, ActorOK
<1> QED BY <1>1, <1>2, <1>3, <1>4, <1>5

LEMMA CommitKeeps ==
    ASSUME Inv, NEW t \in Threads, Commit(t)
    PROVE  Inv'
<1> USE DEF Inv, disk, actors, history, Commit, With, Ends, Goes
<1>1. TypeOK'
  <2>0. /\ job[t].on \in Uploads /\ job[t].offset \in 0 .. Length /\ job[t].size \in Nat
        /\ Offset(job[t].on) \in 0 .. Length
    BY JobTyped, OffsetTyped
  <2>7. seen[t] \in Article /\ seen[t].listed \in Nat
    BY DEF TypeOK, ActorOK, Article
  <2>8. With(seen[t].listed) \in Nat
    BY <2>7
  <2>9. ASSUME job[t].tries < Retries
        PROVE  [job[t] EXCEPT !.tries = @ + 1] \in Jobs
    <3>1. job[t] \in Jobs /\ job[t].tries + 1 \in 0 .. Retries BY <2>9, JobTyped
    <3> QED BY <3>1 DEF Jobs
  <2>1. article' \in Article
    <3>1. article \in Article BY DEF TypeOK
    <3>2. CASE article.version = seen[t].version
      <4>1. article' = [version |-> article.version + 1, alive |-> article.alive,
                        listed |-> With(seen[t].listed)]
        BY <3>1, <3>2 DEF Article
      <4> QED BY <3>1, <4>1, <2>8 DEF Article
    <3>3. CASE article.version # seen[t].version
      BY <3>1, <3>3
    <3> QED BY <3>2, <3>3
  <2>2. job' \in [Actors -> Jobs \union {Absent}]
    <3>1. CASE article.version # seen[t].version /\ job[t].tries < Retries
      <4>1. job' = [job EXCEPT ![t] = [job[t] EXCEPT !.tries = @ + 1]]
        BY <3>1 DEF TypeOK
      <4> QED BY <4>1, <3>1, <2>9 DEF TypeOK
    <3>2. CASE ~(article.version # seen[t].version /\ job[t].tries < Retries)
      BY <3>2 DEF TypeOK
    <3> QED BY <3>1, <3>2
  <2>3. saved' \subseteq Uploads /\ answered' \subseteq Uploads /\ doomed' \subseteq Uploads
    BY <2>0, <2>7, <2>8, <2>9 DEF TypeOK
  <2>4. pc' \in [Actors -> Stages] /\ stale' \in [Uploads -> BOOLEAN]
    BY <2>0, <2>7, <2>8, <2>9 DEF TypeOK, Stages
  <2> QED BY <2>1, <2>2, <2>3, <2>4 DEF TypeOK
<1>2. ASSUME NEW b \in Actors PROVE ActorOK(b)'
  <2>1. CASE b = t
    BY <2>1 DEF TypeOK, Stages, Jobs, Article, ActorOK, UploadOK, Offset
  <2>2. CASE b # t
    BY <2>2 DEF TypeOK, Stages, Jobs, Article, ActorOK, OneCreator, UploadOK, Offset
  <2> QED BY <2>1, <2>2
<1>3. OneCreator'
  BY DEF TypeOK, Jobs, OneCreator, ActorOK
<1>4. ASSUME NEW w \in Uploads PROVE UploadOK(w)'
  BY DEF TypeOK, Jobs, ActorOK, UploadOK, Offset
<1>5. placed' \subseteq {Length} /\ article'.listed <= 1
  <2>1. seen[t].listed \in Nat /\ seen[t].listed <= 1
    BY DEF TypeOK, ActorOK, Article
  <2>2. With(seen[t].listed) <= 1
    BY <2>1
  <2> QED BY <2>2 DEF TypeOK, Article
<1> QED BY <1>1, <1>2, <1>3, <1>4, <1>5

LEMMA MarkKeeps ==
    ASSUME Inv, NEW t \in Threads, Mark(t)
    PROVE  Inv'
<1> USE DEF Inv, disk, actors, history, Mark, Goes
<1>1. TypeOK'
  BY DEF TypeOK, Stages, Jobs, Article, Offset
<1>2. ASSUME NEW b \in Actors PROVE ActorOK(b)'
  <2>1. CASE b = t
    BY <2>1 DEF TypeOK, Stages, Jobs, Article, ActorOK, UploadOK, Offset
  <2>2. CASE b # t
    BY <2>2 DEF TypeOK, Stages, Jobs, Article, ActorOK, OneCreator, UploadOK, Offset
  <2> QED BY <2>1, <2>2
<1>3. OneCreator'
  BY DEF TypeOK, Jobs, OneCreator, ActorOK
<1>4. ASSUME NEW w \in Uploads PROVE UploadOK(w)'
  BY DEF TypeOK, Jobs, ActorOK, UploadOK, Offset
<1>5. placed' \subseteq {Length} /\ article'.listed <= 1
  BY DEF TypeOK, Article, ActorOK
<1> QED BY <1>1, <1>2, <1>3, <1>4, <1>5

LEMMA TruncateKeeps ==
    ASSUME Inv, NEW t \in Threads, Truncate(t)
    PROVE  Inv'
<1> USE DEF Inv, disk, actors, history, Truncate, Touch, Goes
<1>1. TypeOK'
  <2>0. /\ job[t].on \in Uploads /\ job[t].offset \in 0 .. Length /\ job[t].size \in Nat
        /\ Offset(job[t].on) \in 0 .. Length
    BY JobTyped, OffsetTyped
  <2>1. size' \in [Uploads -> 0 .. Length]
    BY <2>0 DEF TypeOK
  <2>2. pc' \in [Actors -> Stages] /\ stale' \in [Uploads -> BOOLEAN]
    BY <2>0 DEF TypeOK, Stages
  <2> QED BY <2>1, <2>2 DEF TypeOK
<1>2. ASSUME NEW b \in Actors PROVE ActorOK(b)'
  <2>1. CASE b = t
    BY <2>1 DEF TypeOK, Stages, Jobs, Article, ActorOK, UploadOK, Offset
  <2>2. CASE b # t
    BY <2>2 DEF TypeOK, Stages, Jobs, Article, ActorOK, OneCreator, UploadOK, Offset
  <2> QED BY <2>1, <2>2
<1>3. OneCreator'
  BY DEF TypeOK, Jobs, OneCreator, ActorOK
<1>4. ASSUME NEW w \in Uploads PROVE UploadOK(w)'
  BY DEF TypeOK, Jobs, ActorOK, UploadOK, Offset
<1>5. placed' \subseteq {Length} /\ article'.listed <= 1
  BY DEF TypeOK, Article, ActorOK
<1> QED BY <1>1, <1>2, <1>3, <1>4, <1>5

LEMMA AnswerKeeps ==
    ASSUME Inv, NEW t \in Threads, Answer(t)
    PROVE  Inv'
<1> USE DEF Inv, disk, actors, history, Answer, Tells, Ends, Goes
<1>1. TypeOK'
  <2>0. /\ job[t].on \in Uploads /\ job[t].offset \in 0 .. Length /\ job[t].size \in Nat
        /\ Offset(job[t].on) \in 0 .. Length
    BY JobTyped, OffsetTyped
  <2>1. told' \in [Uploads -> 0 .. Length]
    BY <2>0 DEF TypeOK
  <2>2. saved' \subseteq Uploads /\ answered' \subseteq Uploads /\ doomed' \subseteq Uploads
    BY <2>0 DEF TypeOK
  <2>3. job' \in [Actors -> Jobs \union {Absent}]
    BY <2>0 DEF TypeOK, Jobs
  <2>4. pc' \in [Actors -> Stages] /\ stale' \in [Uploads -> BOOLEAN]
    BY <2>0 DEF TypeOK, Stages
  <2> QED BY <2>1, <2>2, <2>3, <2>4 DEF TypeOK
<1>2. ASSUME NEW b \in Actors PROVE ActorOK(b)'
  <2>1. CASE b = t
    BY <2>1 DEF TypeOK, Stages, Jobs, Article, ActorOK, UploadOK, Offset
  <2>2. CASE b # t
    BY <2>2 DEF TypeOK, Stages, Jobs, Article, ActorOK, OneCreator, UploadOK, Offset
  <2> QED BY <2>1, <2>2
<1>3. OneCreator'
  BY DEF TypeOK, Jobs, OneCreator, ActorOK
<1>4. ASSUME NEW w \in Uploads PROVE UploadOK(w)'
  BY DEF TypeOK, Jobs, ActorOK, UploadOK, Offset
<1>5. placed' \subseteq {Length} /\ article'.listed <= 1
  BY DEF TypeOK, Article, ActorOK
<1> QED BY <1>1, <1>2, <1>3, <1>4, <1>5

LEMMA UnlinkKeeps ==
    ASSUME Inv, NEW t \in Actors, Unlink(t)
    PROVE  Inv'
<1> USE DEF Inv, disk, actors, history, Unlink
<1>1. TypeOK'
  <2>0. /\ job[t].on \in Uploads /\ job[t].offset \in 0 .. Length /\ job[t].size \in Nat
        /\ Offset(job[t].on) \in 0 .. Length
    BY JobTyped, OffsetTyped
  <2>1. files' \in [Uploads -> SUBSET {"meta", "data", "finished"}]
    BY <2>0 DEF TypeOK
  <2> QED BY <2>1 DEF TypeOK
<1>2. ASSUME NEW b \in Actors PROVE ActorOK(b)'
  <2>1. CASE b = t
    BY <2>1 DEF TypeOK, Stages, Jobs, Article, ActorOK, UploadOK, Offset
  <2>2. CASE b # t
    BY <2>2 DEF TypeOK, Stages, Jobs, Article, ActorOK, OneCreator, UploadOK, Offset
  <2> QED BY <2>1, <2>2
<1>3. OneCreator'
  BY DEF TypeOK, Jobs, OneCreator, ActorOK
<1>4. ASSUME NEW w \in Uploads PROVE UploadOK(w)'
  BY DEF TypeOK, Jobs, ActorOK, UploadOK, Offset
<1>5. placed' \subseteq {Length} /\ article'.listed <= 1
  BY DEF TypeOK, Article, ActorOK
<1> QED BY <1>1, <1>2, <1>3, <1>4, <1>5

LEMMA RmdirKeeps ==
    ASSUME Inv, NEW t \in Actors, Rmdir(t)
    PROVE  Inv'
<1> USE DEF Inv, disk, actors, history, Rmdir, Ends, Goes
<1>1. TypeOK'
  BY DEF TypeOK, Stages, Jobs, Article, Offset
<1>2. ASSUME NEW b \in Actors PROVE ActorOK(b)'
  <2>1. CASE b = t
    BY <2>1 DEF TypeOK, Stages, Jobs, Article, ActorOK, UploadOK, Offset
  <2>2. CASE b # t
    BY <2>2 DEF TypeOK, Stages, Jobs, Article, ActorOK, OneCreator, UploadOK, Offset
  <2> QED BY <2>1, <2>2
<1>3. OneCreator'
  BY DEF TypeOK, Jobs, OneCreator, ActorOK
<1>4. ASSUME NEW w \in Uploads PROVE UploadOK(w)'
  BY DEF TypeOK, Jobs, ActorOK, UploadOK, Offset
<1>5. placed' \subseteq {Length} /\ article'.listed <= 1
  BY DEF TypeOK, Article, ActorOK
<1> QED BY <1>1, <1>2, <1>3, <1>4, <1>5

LEMMA RaisesKeeps ==
    ASSUME Inv, NEW t \in Threads, Raises(t)
    PROVE  Inv'
<1> USE DEF Inv, disk, actors, history, Raises, Fails, Ends, Goes
<1>1. TypeOK'
  BY DEF TypeOK, Stages, Jobs, Article, Offset
<1>2. ASSUME NEW b \in Actors PROVE ActorOK(b)'
  <2>1. CASE b = t
    BY <2>1 DEF TypeOK, Stages, Jobs, Article, ActorOK, UploadOK, Offset
  <2>2. CASE b # t
    BY <2>2 DEF TypeOK, Stages, Jobs, Article, ActorOK, OneCreator, UploadOK, Offset
  <2> QED BY <2>1, <2>2
<1>3. OneCreator'
  BY DEF TypeOK, Jobs, OneCreator, ActorOK
<1>4. ASSUME NEW w \in Uploads PROVE UploadOK(w)'
  BY DEF TypeOK, Jobs, ActorOK, UploadOK, Offset
<1>5. placed' \subseteq {Length} /\ article'.listed <= 1
  BY DEF TypeOK, Article, ActorOK
<1> QED BY <1>1, <1>2, <1>3, <1>4, <1>5

LEMMA SweepOpensKeeps ==
    ASSUME Inv, NEW u \in Uploads, SweepOpens(u)
    PROVE  Inv'
<1> USE DEF Inv, disk, actors, history, SweepOpens, Opens, Goes
<1>1. TypeOK'
  BY DEF TypeOK, Stages, Jobs, Article, Offset
<1>2. ASSUME NEW b \in Actors PROVE ActorOK(b)'
  <2>1. CASE b = Sweeper
    BY <2>1 DEF TypeOK, Stages, Jobs, Article, ActorOK, UploadOK, Offset
  <2>2. CASE b # Sweeper
    BY <2>2 DEF TypeOK, Stages, Jobs, Article, ActorOK, OneCreator, UploadOK, Offset
  <2> QED BY <2>1, <2>2
<1>3. OneCreator'
  BY DEF TypeOK, Jobs, OneCreator, ActorOK
<1>4. ASSUME NEW w \in Uploads PROVE UploadOK(w)'
  BY DEF TypeOK, Jobs, ActorOK, UploadOK, Offset
<1>5. placed' \subseteq {Length} /\ article'.listed <= 1
  BY DEF TypeOK, Article, ActorOK
<1> QED BY <1>1, <1>2, <1>3, <1>4, <1>5

LEMMA SweepTakesKeeps ==
    ASSUME Inv, SweepTakes
    PROVE  Inv'
<1> USE DEF Inv, disk, actors, history, SweepTakes, Dooms, Ends, Goes
<1>1. TypeOK'
  <2>1. job[Sweeper].on \in Uploads
    BY JobTyped
  <2>2. lock' \in [Uploads -> Actors \union {Absent}] /\ doomed' \subseteq Uploads
    BY <2>1 DEF TypeOK
  <2>3. pc' \in [Actors -> Stages] /\ job' \in [Actors -> Jobs \union {Absent}]
    BY DEF TypeOK, Stages
  <2>4. seen' \in [Actors -> Article \union {Absent}]
    BY DEF TypeOK
  <2> QED BY <2>2, <2>3, <2>4 DEF TypeOK
<1>2. ASSUME NEW b \in Actors PROVE ActorOK(b)'
  <2>1. CASE b = Sweeper
    BY <2>1 DEF TypeOK, Stages, Jobs, Article, ActorOK, UploadOK, Offset
  <2>2. CASE b # Sweeper
    BY <2>2 DEF TypeOK, Stages, Jobs, Article, ActorOK, OneCreator, UploadOK, Offset
  <2> QED BY <2>1, <2>2
<1>3. OneCreator'
  BY DEF TypeOK, Jobs, OneCreator, ActorOK
<1>4. ASSUME NEW w \in Uploads PROVE UploadOK(w)'
  BY DEF TypeOK, Jobs, ActorOK, UploadOK, Offset
<1>5. placed' \subseteq {Length} /\ article'.listed <= 1
  BY DEF TypeOK, Article, ActorOK
<1> QED BY <1>1, <1>2, <1>3, <1>4, <1>5

LEMMA SweepPartialKeeps ==
    ASSUME Inv, NEW u \in Uploads, SweepPartial(u)
    PROVE  Inv'
<1> USE DEF Inv, disk, actors, history, SweepPartial
<1>1. TypeOK'
  BY DEF TypeOK, Stages, Jobs, Article, Offset
<1>2. ASSUME NEW b \in Actors PROVE ActorOK(b)'
  BY DEF TypeOK, Stages, Jobs, Article, ActorOK, UploadOK, Offset
<1>3. OneCreator'
  BY DEF TypeOK, Jobs, OneCreator, ActorOK
<1>4. ASSUME NEW w \in Uploads PROVE UploadOK(w)'
  BY DEF TypeOK, Jobs, ActorOK, UploadOK, Offset
<1>5. placed' \subseteq {Length} /\ article'.listed <= 1
  BY DEF TypeOK, Article, ActorOK
<1> QED BY <1>1, <1>2, <1>3, <1>4, <1>5

LEMMA AgeKeeps ==
    ASSUME Inv, NEW u \in Uploads, Age(u)
    PROVE  Inv'
<1> USE DEF Inv, disk, actors, history, Age
<1>1. TypeOK'
  BY DEF TypeOK, Stages, Jobs, Article, Offset
<1>2. ASSUME NEW b \in Actors PROVE ActorOK(b)'
  BY DEF TypeOK, Stages, Jobs, Article, ActorOK, UploadOK, Offset
<1>3. OneCreator'
  BY DEF TypeOK, Jobs, OneCreator, ActorOK
<1>4. ASSUME NEW w \in Uploads PROVE UploadOK(w)'
  BY DEF TypeOK, Jobs, ActorOK, UploadOK, Offset
<1>5. placed' \subseteq {Length} /\ article'.listed <= 1
  BY DEF TypeOK, Article, ActorOK
<1> QED BY <1>1, <1>2, <1>3, <1>4, <1>5

LEMMA EditArticleKeeps ==
    ASSUME Inv, EditArticle
    PROVE  Inv'
<1> USE DEF Inv, disk, actors, history, EditArticle
<1>1. TypeOK'
  BY DEF TypeOK, Stages, Jobs, Article, Offset
<1>2. ASSUME NEW b \in Actors PROVE ActorOK(b)'
  BY DEF TypeOK, Stages, Jobs, Article, ActorOK, UploadOK, Offset
<1>3. OneCreator'
  BY DEF TypeOK, Jobs, OneCreator, ActorOK
<1>4. ASSUME NEW w \in Uploads PROVE UploadOK(w)'
  BY DEF TypeOK, Jobs, ActorOK, UploadOK, Offset
<1>5. placed' \subseteq {Length} /\ article'.listed <= 1
  BY DEF TypeOK, Article, ActorOK
<1> QED BY <1>1, <1>2, <1>3, <1>4, <1>5

LEMMA DiesKeeps ==
    ASSUME Inv, NEW dead \in SUBSET Actors, Dies(dead)
    PROVE  Inv'
<1> USE DEF Inv, disk, actors, history, Dies, Fails
<1>1. TypeOK'
  BY DEF TypeOK, Stages, Jobs, Article, Offset
<1>2. ASSUME NEW b \in Actors PROVE ActorOK(b)'
  BY DEF TypeOK, Stages, Jobs, Article, ActorOK, UploadOK, Offset
<1>3. OneCreator'
  BY DEF TypeOK, Jobs, OneCreator, ActorOK
<1>4. ASSUME NEW w \in Uploads PROVE UploadOK(w)'
  BY DEF TypeOK, Jobs, ActorOK, UploadOK, Offset
<1>5. placed' \subseteq {Length} /\ article'.listed <= 1
  BY DEF TypeOK, Article, ActorOK
<1> QED BY <1>1, <1>2, <1>3, <1>4, <1>5

LEMMA StutterKeeps ==
    ASSUME Inv, UNCHANGED vars
    PROVE  Inv'
<1> USE DEF Inv, disk, actors, history, vars
<1>1. TypeOK'
  BY DEF TypeOK, Stages, Jobs, Article, Offset
<1>2. ASSUME NEW b \in Actors PROVE ActorOK(b)'
  BY DEF TypeOK, Stages, Jobs, Article, ActorOK, UploadOK, Offset
<1>3. OneCreator'
  BY DEF TypeOK, Jobs, OneCreator, ActorOK
<1>4. ASSUME NEW w \in Uploads PROVE UploadOK(w)'
  BY DEF TypeOK, Jobs, ActorOK, UploadOK, Offset
<1>5. placed' \subseteq {Length} /\ article'.listed <= 1
  BY DEF TypeOK, Article, ActorOK
<1> QED BY <1>1, <1>2, <1>3, <1>4, <1>5

(* The invariant is inductive. *)
LEMMA NextKeeps == Inv /\ [Next]_vars => Inv'
<1> SUFFICES ASSUME Inv, [Next]_vars PROVE Inv'
  OBVIOUS
<1>1. ASSUME NEW t \in Threads, Request(t) PROVE Inv'
  BY <1>1, CreateKeeps, AskKeeps, LockKeeps, RenameKeeps, FoundGoneKeeps, StatusKeeps,
     AppendKeeps, DiscardKeeps, ClaimKeeps, PlaceFileKeeps, LoadKeeps, CommitKeeps, MarkKeeps,
     TruncateKeeps, AnswerKeeps, UnlinkKeeps, RmdirKeeps, RaisesKeeps
     DEF Request, Proceeds, Removes
<1>2. ASSUME Sweep PROVE Inv'
  BY <1>2, SweepOpensKeeps, SweepPartialKeeps, SweepTakesKeeps, UnlinkKeeps, RmdirKeeps
     DEF Sweep, Removes
<1>3. ASSUME NEW u \in Uploads, Age(u) PROVE Inv'
  BY <1>3, AgeKeeps
<1>4. CASE EditArticle
  BY <1>4, EditArticleKeeps
<1>5. CASE AppDies \/ WorkerDies
  BY <1>5, DiesKeeps DEF AppDies, WorkerDies
<1>6. CASE UNCHANGED vars
  BY <1>6, StutterKeeps
<1> QED BY <1>1, <1>2, <1>3, <1>4, <1>5, <1>6 DEF Next

THEOREM Invariance == Spec => []Inv
BY InitInv, NextKeeps, PTL DEF Spec

(* Every variable keeps its type. *)
THEOREM TypeCorrect == Spec => []TypeOK
<1>1. Inv => TypeOK BY DEF Inv
<1> QED BY <1>1, Invariance, PTL

(* Only whole files reach the archive, whatever became of the pieces.      *)
THEOREM PlacedIsWhole == Spec => []PlacedWhole
<1>1. Inv => PlacedWhole BY DEF Inv, PlacedWhole
<1> QED BY <1>1, Invariance, PTL

(* An offset a client was told holds until a removal of its upload begins. *)
THEOREM ToldIsHeld == Spec => []ToldOffsetsHold
<1>1. Inv => ToldOffsetsHold BY DEF Inv, UploadOK, ToldOffsetsHold
<1> QED BY <1>1, Invariance, PTL

(* _Held.finish frees the bytes of no upload that was not saved.           *)
THEOREM FreedIsSaved == Spec => []FreedOnlyWhenSaved
<1>1. Inv => FreedOnlyWhenSaved BY DEF Inv, UploadOK, FreedOnlyWhenSaved
<1> QED BY <1>1, Invariance, PTL

(* The Article lists the file once, whoever finishes it and how often.     *)
THEOREM ListedAtMostOnce == Spec => []ListedOnce
<1>1. Inv => ListedOnce BY DEF Inv, ListedOnce
<1> QED BY <1>1, Invariance, PTL

(* No removal takes away the bytes a request works on.                     *)
THEOREM InUseIsWhole == Spec => []InUseStands
<1>1. Inv => InUseStands BY DEF Inv, ActorOK, InUse, InUseStands
<1> QED BY <1>1, Invariance, PTL

(* What was answered as saved is not saved again by a repeat.              *)
THEOREM RepeatsDoNotSave == Spec => RepeatsSaveNothing
<1>1. ASSUME Inv, [Next]_vars, NEW t \in Threads, pc[t] = "commit", pc'[t] = "mark"
      PROVE  job[t].on \notin answered \ doomed
  <2>1. /\ Whole(job[t].on) /\ ~Finished(job[t].on) /\ job[t].on \in Uploads
    BY <1>1, JobTyped DEF Inv, ActorOK
  <2>2. folder[job[t].on] = "staged"
    BY <1>1, <2>1 DEF Inv, TypeOK, UploadOK
  <2> QED BY <1>1, <2>1, <2>2 DEF Inv, UploadOK
<1>2. Inv /\ [Next]_vars
        => [\A t \in Threads : pc[t] = "commit" /\ pc'[t] = "mark"
              => job[t].on \notin answered \ doomed]_vars
  BY <1>1
<1> QED BY <1>2, Invariance, PTL DEF Spec, RepeatsSaveNothing
=============================================================================
