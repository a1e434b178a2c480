---------------------------- MODULE Mirror_proofs ----------------------------
(***************************************************************************)
(* What Mirror keeps, for any set of records and names, any number of      *)
(* tries, saves and failures: the types; and, while no other hand takes    *)
(* files from the system of record, complete READMEs there and owed        *)
(* pushes; owed deletes in any case.                                       *)
(***************************************************************************)
EXTENDS Mirror, TLAPS

OnceIn(folder) == {f \in folder : f.kind # "readme"}
Behind(old, new) == old = new \/ old.of < new.of

(* Where the worker stands follows from the kind of its job. *)
Shape ==
    /\ job = Absent <=> stage = "idle"
    /\ stage \in {"list", "read", "keys", "send", "note"} <=>
          job # Absent /\ job.kind \in {"push", "reconcile"} /\ at \in Ulids
    /\ stage \in {"delete", "forget"} <=> job # Absent /\ job.kind = "delete"
    /\ job # Absent /\ job.kind # "reconcile" => at = job.of
    /\ stage \notin {"keys", "send", "note"} => current = Absent
    /\ stage \notin {"send", "note"} => left = {}
    /\ stage = "note" => hand # Absent
    /\ stage \in {"records", "remote", "next"} <=>
          job # Absent /\ job.kind = "reconcile" /\ at = Absent
    /\ \A file \in left : file.kind = "readme" => file = current
    /\ job = Absent \/ job.kind # "reconcile" => listed = [u \in Ulids |-> {}]

DeadGone ==
    /\ \A u \in dead : ~HasReadme(local[u])
    /\ \A d \in due : d.kind = "delete" => d.of \in dead
    /\ \A j \in queue : j.kind = "delete" => j.of \in dead
    /\ job # Absent /\ job.kind = "delete" => job.of \in dead

OneReadme == \A u \in Ulids : \A r, q \in ReadmesIn(local[u]) : r = q

LocalComplete == \A u \in Ulids : \A r \in ReadmesIn(local[u]) : Needs(r) \subseteq local[u]

Pushing(u) == at = u /\ current # Absent

CurrentComplete == current # Absent /\ at \notin dead => Needs(current) \subseteq local[at]

LeftComplete ==
    \A r \in ReadmesIn(left) : r = current /\ Needs(r) \subseteq left \union remote[at]

RecordHonest ==
    \A u \in Ulids : u \notin dead \/ Pushing(u) => OnceIn(record[u]) \subseteq remote[u]

ListedHonest ==
    /\ \A u \in Ulids : OnceIn(listed[u]) \subseteq remote[u]
    /\ stage = "note" => hand \in remote[at]

CompleteInv ==
    /\ LocalComplete /\ CurrentComplete /\ LeftComplete /\ RecordHonest /\ ListedHonest
    /\ RemoteReadmeComplete

DeleteInv ==
    \A u \in dead : HasReadme(remote[u]) \/ Pushing(u) => DeleteOwed(u)

(* READMEs in flight, in the record and on the system of record are never  *)
(* ahead of the local one, nor those there ahead of one in flight.         *)
InOrder ==
    \A u \in Ulids \ dead :
        /\ \A r \in ReadmesIn(local[u]) :
              /\ \A q \in ReadmesIn(remote[u]) \union ReadmesIn(record[u]) : Behind(q, r)
              /\ Pushing(u) => Behind(current, r)
        /\ Pushing(u) => \A q \in ReadmesIn(remote[u]) : Behind(q, current)
        /\ ~HasReadme(local[u]) =>
              ~HasReadme(remote[u]) /\ ~HasReadme(record[u]) /\ ~Pushing(u)

RecordReadme == \A u \in Ulids \ dead : ReadmesIn(record[u]) \intersect local[u] \subseteq remote[u]

PushInv == InOrder /\ RecordReadme /\ PushesOwed

-----------------------------------------------------------------------------
(* Files *)

LEMMA PutStays ==
    ASSUME NEW folder \in SUBSET Files, NEW file \in Files
    PROVE  Put(folder, file) \in SUBSET Files
BY DEF Put

LEMMA MadeFiles ==
    /\ \A n \in Names : Media(n) \in Files
    /\ \A v \in Nat : History(v) \in Files
    /\ \A v \in Nat, names \in SUBSET Names : Readme(v, names) \in Readmes
    /\ Readmes \subseteq Files
BY DEF Media, History, Readme, Files, WriteOnce, Readmes

LEMMA ReadmeForm ==
    ASSUME NEW f \in Files, f.kind = "readme"
    PROVE  f \in Readmes /\ f.of \in Nat
BY DEF Files, WriteOnce, Readmes

LEMMA VersionType ==
    ASSUME NEW u \in Ulids, local[u] \in SUBSET Files
    PROVE  Version(u) \in Nat
<1>1. CASE HasReadme(local[u])
  <2>1. PICK r \in local[u] : r.kind = "readme" BY <1>1 DEF HasReadme, ReadmesIn
  <2>2. (CHOOSE q \in local[u] : q.kind = "readme") \in {q \in local[u] : q.kind = "readme"} BY <2>1
  <2> QED BY <2>2, <1>1, ReadmeForm DEF Version
<1>2. CASE ~HasReadme(local[u]) BY <1>2 DEF Version
<1> QED BY <1>1, <1>2

-----------------------------------------------------------------------------
(* Types *)

LEMMA EndJobType ==
    ASSUME EndJob
    PROVE  /\ job' = Absent /\ stage' = "idle" /\ at' = Absent /\ current' = Absent
           /\ left' = {} /\ hand' = Absent /\ todo' = {} /\ listed' \in [Ulids -> SUBSET Files]
BY DEF EndJob

LEMMA EndFolderType ==
    ASSUME TypeOK, EndFolder
    PROVE  /\ job' \in {job, Absent} /\ stage' \in {"idle", "next"} /\ at' = Absent
           /\ current' = Absent /\ left' = {} /\ hand' = Absent /\ todo' \subseteq Ulids
           /\ listed' \in [Ulids -> SUBSET Files]
BY DEF EndFolder, EndJob, TypeOK

LEMMA LoseType ==
    ASSUME TypeOK, NEW jobs, Lose(jobs)
    PROVE  lost' \in [Ulids -> [pushes: Nat, delete: BOOLEAN]]
<1>1. \A u \in Ulids : Version(u) \in Nat BY VersionType DEF TypeOK
<1> QED BY <1>1 DEF TypeOK, Lose, Later

LEMMA RaisesType ==
    ASSUME TypeOK, Raises, job # Absent
    PROVE  /\ queue' \subseteq RecordJobs \union {Reconcile}
           /\ \A j \in queue' : j.try < MaxAttempts
           /\ lost' \in [Ulids -> [pushes: Nat, delete: BOOLEAN]]
           /\ job' \in {job, Absent} /\ stage' \in {"idle", "next"} /\ at' = Absent
           /\ current' = Absent /\ left' = {} /\ hand' = Absent /\ todo' \subseteq Ulids
           /\ listed' \in [Ulids -> SUBSET Files]
<1>1. CASE job.kind = "reconcile"
  <2>1. UNCHANGED <<queue, lost>> BY <1>1 DEF Raises
  <2>2. EndJob \/ EndFolder BY <1>1 DEF Raises
  <2> QED BY <2>1, <2>2, EndJobType, EndFolderType DEF TypeOK
<1>2. CASE job.kind # "reconcile"
  <2>1. job \in RecordJobs /\ EndJob /\ Retry BY <1>2 DEF Raises, TypeOK, Reconcile
  <2>2. [job EXCEPT !.try = @ + 1] \in RecordJobs BY <2>1 DEF RecordJobs
  <2>3. /\ queue' \subseteq RecordJobs \union {Reconcile}
        /\ \A j \in queue' : j.try < MaxAttempts
    BY <2>1, <2>2 DEF Retry, TypeOK
  <2>4. lost' \in [Ulids -> [pushes: Nat, delete: BOOLEAN]]
    BY <2>1, LoseType DEF Retry, TypeOK
  <2> QED BY <2>1, <2>3, <2>4, EndJobType DEF TypeOK
<1> QED BY <1>1, <1>2

LEMMA RequestsKeepTypes ==
    ASSUME TypeOK, NEW u \in Ulids, Request(u)
    PROVE  TypeOK'
<1>1. ASSUME NEW name \in Names, Place(u, name) PROVE TypeOK'
  BY <1>1, MadeFiles DEF Place, TypeOK, jobVars
<1>2. CASE Keep(u)
  <2>1. PICK readme \in ReadmesIn(local[u]) :
           local' = [local EXCEPT ![u] = @ \union {History(readme.of)}]
    BY <1>2 DEF Keep
  <2>2. History(readme.of) \in Files BY <2>1, ReadmeForm, MadeFiles DEF ReadmesIn, TypeOK
  <2> QED BY <1>2, <2>1, <2>2 DEF Keep, TypeOK, jobVars
<1>3. CASE Replace(u)
  <2>1. PICK version \in Nat :
           /\ Commits(u, version)
           /\ due' = due \union {[kind |-> "push", of |-> u, version |-> version]}
    <3>1. PICK readme \in ReadmesIn(local[u]) \union {Absent}, v \in 1 .. MaxSaves :
             /\ Commits(u, v)
             /\ due' = due \union {[kind |-> "push", of |-> u, version |-> v]}
      BY <1>3 DEF Replace
    <3> QED BY <3>1
  <2>2. PICK names \in SUBSET Names : local' = [local EXCEPT ![u] = Put(@, Readme(version, names))]
    BY <2>1 DEF Commits
  <2>3. Put(local[u], Readme(version, names)) \in SUBSET Files BY PutStays, MadeFiles DEF TypeOK
  <2>4. [kind |-> "push", of |-> u, version |-> version] \in Dues BY DEF Dues
  <2>5. saves' \in Nat BY <1>3 DEF Replace, TypeOK
  <2> QED BY <1>3, <2>1, <2>2, <2>3, <2>4, <2>5 DEF Replace, TypeOK, jobVars
<1>4. CASE HardDelete(u)
  BY <1>4 DEF HardDelete, TypeOK, jobVars, Dues
<1> QED BY <1>1, <1>2, <1>3, <1>4 DEF Request

LEMMA AfterWriteKeepsTypes ==
    ASSUME TypeOK, AfterWrite \/ Tick
    PROVE  TypeOK'
<1>1. ASSUME NEW d \in due, Enqueue(d) PROVE TypeOK'
  <2>1. [kind |-> d.kind, of |-> d.of, try |-> 0] \in RecordJobs BY DEF TypeOK, Dues, RecordJobs
  <2>2. 0 < MaxAttempts BY MaxAttemptsAssumption
  <2> QED BY <1>1, <2>1, <2>2 DEF Enqueue, TypeOK, jobVars
<1>2. ASSUME NEW d \in due, Forget(d) PROVE TypeOK'
  <2>1. d.of \in Ulids /\ d.version \in Nat BY DEF TypeOK, Dues
  <2>2. lost' \in [Ulids -> [pushes: Nat, delete: BOOLEAN]]
    <3>1. CASE d.kind = "push"
      <4>1. lost' = [lost EXCEPT ![d.of].pushes = Later(@, d.version)]
        BY <1>2, <3>1 DEF Forget, LosesPush
      <4>2. Later(lost[d.of].pushes, d.version) \in Nat BY <2>1 DEF TypeOK, Later
      <4> QED BY <4>1, <4>2, <2>1 DEF TypeOK
    <3>2. CASE d.kind # "push"
      <4>1. lost' = [lost EXCEPT ![d.of].delete = TRUE] BY <1>2, <3>2 DEF Forget, LosesDelete
      <4> QED BY <4>1, <2>1 DEF TypeOK
    <3> QED BY <3>1, <3>2
  <2>3. failures' \in Nat BY <1>2 DEF Forget, Fails, TypeOK
  <2> QED BY <1>2, <2>2, <2>3 DEF Forget, TypeOK, jobVars
<1>3. CASE Tick
  <2>1. Reconcile.try < MaxAttempts BY MaxAttemptsAssumption DEF Reconcile
  <2> QED BY <1>3, <2>1 DEF Tick, TypeOK, jobVars
<1> QED BY <1>1, <1>2, <1>3 DEF AfterWrite

LEMMA WorkKeepsTypes ==
    ASSUME TypeOK, Shape, Work
    PROVE  TypeOK'
<1>1. CASE TakeJob
  <2>1. PICK j \in queue :
           /\ job' = j /\ queue' = queue \ {j} /\ at' = j.of
           /\ stage' \in {"list", "delete", "records"}
    BY <1>1 DEF TakeJob
  <2>2. j.of \in Ulids \union {Absent} BY <2>1 DEF TypeOK, RecordJobs, Reconcile
  <2> QED BY <1>1, <2>1, <2>2 DEF TakeJob, TypeOK
<1>2. CASE ListRecords BY <1>2 DEF ListRecords, TypeOK
<1>3. CASE ListRemote BY <1>3 DEF ListRemote, TypeOK
<1>4. CASE NextRecord
  <2>1. CASE todo = {} BY <1>4, <2>1, EndJobType DEF NextRecord, TypeOK
  <2>2. CASE todo # {}
    <3>1. PICK u \in todo :
             /\ at' = u /\ todo' = todo \ {u} /\ stage' = "list"
             /\ UNCHANGED <<job, current, left, hand, listed>>
      BY <1>4, <2>2 DEF NextRecord
    <3> QED BY <1>4, <3>1 DEF NextRecord, TypeOK
  <2> QED BY <2>1, <2>2
<1>5. CASE ListFirst BY <1>5 DEF ListFirst, TypeOK
<1>6. CASE ReadReadme
  <2>1. at \in Ulids /\ job # Absent BY <1>6 DEF ReadReadme, Shape
  <2>2. CASE HasReadme(local[at])
    <3>1. PICK r \in ReadmesIn(local[at]) : current' = r BY <1>6, <2>2 DEF ReadReadme
    <3>2. r \in Readmes BY <2>1, <3>1, ReadmeForm DEF ReadmesIn, TypeOK
    <3>3. current' \in Readmes \union {Absent} BY <3>1, <3>2
    <3>4. stage' = "keys" /\ UNCHANGED <<queue, lost, job, at, left, hand, todo, listed>>
      BY <1>6, <2>2 DEF ReadReadme
    <3> QED BY <1>6, <3>3, <3>4 DEF ReadReadme, TypeOK
  <2>3. CASE ~HasReadme(local[at])
    <3>1. Raises BY <1>6, <2>3 DEF ReadReadme
    <3> QED BY <1>6, <2>1, <3>1, RaisesType DEF ReadReadme, TypeOK
  <2> QED BY <2>2, <2>3
<1>7. CASE ListKeys
  <2>1. at \in Ulids BY <1>7 DEF ListKeys, Shape
  <2>2. left' \subseteq Files BY <1>7, <2>1, MadeFiles DEF ListKeys, TypeOK
  <2> QED BY <1>7, <2>2 DEF ListKeys, TypeOK
<1>8. ASSUME NEW file \in left, Skip(file) PROVE TypeOK'
  BY <1>8 DEF Skip, TypeOK
<1>9. ASSUME NEW file \in left, Send(file) PROVE TypeOK'
  <2>1. at \in Ulids BY <1>9 DEF Send, Shape
  <2>2. file \in Files BY DEF TypeOK
  <2>3. Put(remote[at], file) \in SUBSET Files BY <2>1, <2>2, PutStays DEF TypeOK
  <2>4. remote' \in [Ulids -> SUBSET Files] BY <1>9, <2>3 DEF Send, Written, TypeOK
  <2> QED BY <1>9, <2>2, <2>4 DEF Send, TypeOK
<1>10. ASSUME NEW file \in left, FileGone(file) PROVE TypeOK'
  <2>1. job # Absent BY <1>10 DEF FileGone, Shape
  <2> QED BY <1>10, <2>1, RaisesType DEF FileGone, TypeOK
<1>11. CASE Note
  <2>1. at \in Ulids /\ hand \in Files BY <1>11 DEF Note, Shape, TypeOK
  <2>2. Put(record[at], hand) \in SUBSET Files BY <2>1, PutStays DEF TypeOK
  <2>3. record' \in [Ulids -> SUBSET Files] BY <1>11, <2>2 DEF Note, TypeOK
  <2> QED BY <1>11, <2>3 DEF Note, TypeOK
<1>12. CASE FolderDone BY <1>12, EndFolderType DEF FolderDone, TypeOK
<1>13. CASE DeleteRemote BY <1>13 DEF DeleteRemote, TypeOK
<1>14. CASE ForgetPrefix BY <1>14, EndJobType DEF ForgetPrefix, TypeOK
<1> QED
  BY <1>1, <1>2, <1>3, <1>4, <1>5, <1>6, <1>7, <1>8, <1>9, <1>10, <1>11, <1>12, <1>13, <1>14
  DEF Work

Failure == Refused \/ AnswerLost \/ WorkerDies \/ PostgresLost

LEMMA FailuresKeepTypes ==
    ASSUME TypeOK, Shape, Failure \/ \E u \in Ulids : RemoteLoss(u)
    PROVE  TypeOK'
<1>1. CASE Refused
  <2>1. job # Absent
    BY <1>1 DEF Refused, Shape
  <2>2. failures' \in Nat BY <1>1 DEF Refused, Fails, TypeOK
  <2> QED BY <1>1, <2>1, <2>2, RaisesType DEF Refused, TypeOK
<1>2. CASE AnswerLost
  <2>1. stage \in {"send", "delete"} BY <1>2 DEF AnswerLost
  <2>2. job # Absent BY <2>1 DEF Shape
  <2>3. failures' \in Nat BY <1>2 DEF AnswerLost, Fails, TypeOK
  <2>4. remote' \in [Ulids -> SUBSET Files]
    <3>1. ASSUME NEW file \in left, stage = "send", remote' = Written(file)
          PROVE  remote' \in [Ulids -> SUBSET Files]
      <4>1. at \in Ulids /\ file \in Files BY <3>1 DEF Shape, TypeOK
      <4>2. Put(remote[at], file) \in SUBSET Files BY <4>1, PutStays DEF TypeOK
      <4> QED BY <3>1, <4>2 DEF Written, TypeOK
    <3>2. CASE remote' = [remote EXCEPT ![at] = {}] BY <3>2 DEF TypeOK
    <3> QED BY <1>2, <3>1, <3>2 DEF AnswerLost
  <2> QED BY <1>2, <2>2, <2>3, <2>4, RaisesType DEF AnswerLost, TypeOK
<1>3. CASE WorkerDies
  <2>1. failures' \in Nat BY <1>3 DEF WorkerDies, Fails, TypeOK
  <2> QED BY <1>3, <2>1, LoseType, EndJobType DEF WorkerDies, TypeOK
<1>4. CASE PostgresLost
  <2>1. failures' \in Nat BY <1>4 DEF PostgresLost, Fails, TypeOK
  <2> QED BY <1>4, <2>1, LoseType, EndJobType DEF PostgresLost, TypeOK
<1>5. ASSUME NEW u \in Ulids, RemoteLoss(u) PROVE TypeOK'
  <2>1. failures' \in Nat BY <1>5 DEF RemoteLoss, Fails, TypeOK
  <2> QED BY <1>5, <2>1 DEF RemoteLoss, TypeOK, jobVars
<1> QED BY <1>1, <1>2, <1>3, <1>4, <1>5 DEF Failure


-----------------------------------------------------------------------------
(* The worker's place, the dead, and one README per folder *)

LEMMA EndJobShape == EndJob => Shape'
BY DEF EndJob, Shape

LEMMA EndFolderShape ==
    ASSUME Shape, EndFolder, job # Absent, job.kind \in {"push", "reconcile"}
    PROVE  Shape'
<1>1. CASE job.kind = "push" BY <1>1, EndJobShape DEF EndFolder
<1>2. CASE job.kind = "reconcile" BY <1>2, AbsentAssumption DEF EndFolder, Shape
<1> QED BY <1>1, <1>2

LEMMA RaisesShape ==
    ASSUME Shape, Raises, job # Absent
    PROVE  Shape'
<1>1. CASE job.kind = "reconcile"
  <2>1. EndJob \/ EndFolder BY <1>1 DEF Raises
  <2> QED BY <1>1, <2>1, EndJobShape, EndFolderShape
<1>2. CASE job.kind # "reconcile" BY <1>2, EndJobShape DEF Raises
<1> QED BY <1>1, <1>2

LEMMA StepKeepsShape ==
    ASSUME TypeOK, Shape, [Next]_vars
    PROVE  Shape'
<1>1. CASE UNCHANGED jobVars BY <1>1 DEF jobVars, Shape
<1>2. ASSUME NEW u \in Ulids, Request(u) \/ RemoteLoss(u) PROVE Shape'
  <2>1. UNCHANGED jobVars
    BY <1>2 DEF Request, Place, Keep, Replace, HardDelete, RemoteLoss
  <2> QED BY <1>1, <2>1
<1>3. CASE AfterWrite \/ Tick
  <2>1. UNCHANGED jobVars BY <1>3 DEF AfterWrite, Enqueue, Forget, Tick, jobVars
  <2> QED BY <1>1, <2>1
<1>4. CASE TakeJob
  <2>1. PICK j \in queue :
           /\ job' = j /\ at' = j.of
           /\ stage' = IF j.kind = "push" THEN "list"
                       ELSE IF j.kind = "delete" THEN "delete" ELSE "records"
    BY <1>4 DEF TakeJob
  <2>2. j # Absent BY <2>1, AbsentAssumption DEF TypeOK
  <2>3. j.kind \in {"push", "delete", "reconcile"} /\ (j.kind # "reconcile" => j.of \in Ulids)
    BY <2>1 DEF TypeOK, RecordJobs, Reconcile
  <2>4. current = Absent /\ left = {} BY <1>4 DEF TakeJob, Shape
  <2>5. UNCHANGED <<current, left, hand, listed>> BY <1>4 DEF TakeJob
  <2>6. listed = [u \in Ulids |-> {}] BY <1>4 DEF TakeJob, Shape
  <2> QED BY <2>1, <2>2, <2>3, <2>4, <2>5, <2>6, AbsentAssumption DEF Shape, Reconcile, TypeOK, RecordJobs
<1>5. CASE ListRecords BY <1>5 DEF ListRecords, Shape
<1>6. CASE ListRemote BY <1>6 DEF ListRemote, Shape
<1>7. CASE NextRecord
  <2>1. CASE todo = {} BY <1>7, <2>1, EndJobShape DEF NextRecord
  <2>2. CASE todo # {}
    <3>1. PICK u \in todo : at' = u BY <1>7, <2>2 DEF NextRecord
    <3>2. stage' = "list" /\ UNCHANGED <<job, current, left, hand, listed>>
      BY <1>7, <2>2 DEF NextRecord
    <3>3. u \in Ulids BY DEF TypeOK
    <3>4. stage = "next" /\ job # Absent /\ job.kind = "reconcile"
      BY <1>7 DEF NextRecord, Shape
    <3> QED BY <3>1, <3>2, <3>3, <3>4 DEF Shape
  <2> QED BY <2>1, <2>2
<1>8. CASE ListFirst BY <1>8 DEF ListFirst, Shape
<1>9. CASE ReadReadme
  <2>1. CASE HasReadme(local[at]) BY <1>9, <2>1 DEF ReadReadme, Shape
  <2>2. CASE ~HasReadme(local[at]) BY <1>9, <2>2, RaisesShape DEF ReadReadme, Shape
  <2> QED BY <2>1, <2>2
<1>10. CASE ListKeys BY <1>10 DEF ListKeys, Shape, ReadmesIn
<1>11. ASSUME NEW file \in left, Skip(file) PROVE Shape'
  BY <1>11 DEF Skip, Shape
<1>12. ASSUME NEW file \in left, Send(file) PROVE Shape'
  <2>1. file # Absent BY AbsentAssumption DEF TypeOK
  <2> QED BY <1>12, <2>1 DEF Send, Shape
<1>13. ASSUME NEW file \in left, FileGone(file) PROVE Shape'
  BY <1>13, RaisesShape DEF FileGone, Shape
<1>14. CASE Note BY <1>14 DEF Note, Shape
<1>15. CASE FolderDone BY <1>15, EndFolderShape DEF FolderDone, Shape
<1>16. CASE DeleteRemote BY <1>16 DEF DeleteRemote, Shape
<1>17. CASE ForgetPrefix BY <1>17, EndJobShape DEF ForgetPrefix
<1>18. CASE Refused BY <1>18, RaisesShape DEF Refused, Shape
<1>19. CASE AnswerLost BY <1>19, RaisesShape DEF AnswerLost, Shape
<1>20. CASE WorkerDies BY <1>20, EndJobShape DEF WorkerDies
<1>21. CASE PostgresLost BY <1>21, EndJobShape DEF PostgresLost
<1>22. CASE UNCHANGED vars
  <2>1. UNCHANGED jobVars BY <1>22 DEF vars
  <2> QED BY <1>1, <2>1
<1> QED
  BY <1>2, <1>3, <1>4, <1>5, <1>6, <1>7, <1>8, <1>9, <1>10, <1>11, <1>12, <1>13, <1>14, <1>15,
     <1>16, <1>17, <1>18, <1>19, <1>20, <1>21, <1>22
  DEF Next, Work

LEMMA StepKeepsTypes ==
    ASSUME TypeOK, Shape, [Next]_vars
    PROVE  TypeOK'
<1>1. CASE UNCHANGED vars BY <1>1 DEF vars, jobVars, TypeOK
<1> QED
  BY <1>1, RequestsKeepTypes, AfterWriteKeepsTypes, WorkKeepsTypes, FailuresKeepTypes
  DEF Next, Failure


(* What a request does to a folder, in terms of READMEs and the other      *)
(* files.                                                                  *)
LEMMA Kinds ==
    /\ \A n : Media(n).kind # "readme" /\ Media(n).kind = "media"
    /\ \A v : History(v).kind # "readme"
    /\ \A v, names : Readme(v, names).kind = "readme" /\ Readme(v, names).of = v
                     /\ Readme(v, names).names = names
BY DEF Media, History, Readme

LEMMA PutReadme ==
    ASSUME NEW folder, NEW file, file.kind = "readme"
    PROVE  /\ ReadmesIn(Put(folder, file)) = {file}
           /\ OnceIn(Put(folder, file)) = OnceIn(folder)
BY DEF Put, SameKey, ReadmesIn, OnceIn

LEMMA PutOnce ==
    ASSUME NEW folder, NEW file, file.kind # "readme"
    PROVE  /\ Put(folder, file) = folder \union {file}
           /\ ReadmesIn(Put(folder, file)) = ReadmesIn(folder)
           /\ OnceIn(Put(folder, file)) = OnceIn(folder) \union {file}
BY DEF Put, SameKey, ReadmesIn, OnceIn

LEMMA AddOnce ==
    ASSUME NEW folder, NEW file, file.kind # "readme"
    PROVE  ReadmesIn(folder \union {file}) = ReadmesIn(folder)
BY DEF ReadmesIn

LEMMA NeedsOnce ==
    ASSUME NEW readme
    PROVE  \A f \in Needs(readme) : f.kind # "readme"
BY Kinds DEF Needs

Adds(u, file) == local' = [local EXCEPT ![u] = @ \union {file}]

LEMMA RequestEffect ==
    ASSUME TypeOK, NEW u \in Ulids, Request(u)
    PROVE  \/ /\ \E file \in Files : file.kind # "readme" /\ Adds(u, file)
              /\ UNCHANGED <<dead, due>>
           \/ /\ \E names \in SUBSET {n \in Names : Media(n) \in local[u]}, version \in Nat :
                    /\ \/ version = 1 /\ ~HasReadme(local[u])
                       \/ \E r \in ReadmesIn(local[u]) :
                             version = r.of + 1 /\ History(r.of) \in local[u]
                    /\ local' = [local EXCEPT ![u] = Put(@, Readme(version, names))]
                    /\ due' = due \union {[kind |-> "push", of |-> u, version |-> version]}
              /\ u \notin dead /\ UNCHANGED dead
           \/ HardDelete(u)
<1>1. CASE \E name \in Names : Place(u, name)
  BY <1>1, Kinds, MadeFiles DEF Place, Adds
<1>2. CASE Keep(u)
  <2>1. PICK r \in ReadmesIn(local[u]) : Adds(u, History(r.of)) BY <1>2 DEF Keep, Adds
  <2>2. History(r.of) \in Files BY <2>1, ReadmeForm, MadeFiles DEF ReadmesIn, TypeOK
  <2> QED BY <1>2, <2>1, <2>2, Kinds DEF Keep
<1>3. CASE Replace(u)
  <2>1. \E version \in Nat :
           /\ \/ version = 1 /\ ~HasReadme(local[u])
              \/ \E r \in ReadmesIn(local[u]) :
                    version = r.of + 1 /\ History(r.of) \in local[u]
           /\ Commits(u, version)
           /\ due' = due \union {[kind |-> "push", of |-> u, version |-> version]}
    BY <1>3, \A v \in 1 .. MaxSaves : v \in Nat DEF Replace
  <2> QED BY <1>3, <2>1 DEF Replace, Commits
<1> QED BY <1>1, <1>2, <1>3 DEF Request

LEMMA OnlyRequestsChangeLocal ==
    [Next]_vars => UNCHANGED <<local, dead>> \/ \E u \in Ulids : Request(u)
BY DEF Next, vars, RemoteLoss, AfterWrite, Enqueue, Forget, Tick, Work, TakeJob, ListRecords,
       ListRemote, NextRecord, ListFirst, ReadReadme, ListKeys, Skip, Send, FileGone, Note,
       FolderDone, DeleteRemote, ForgetPrefix, Refused, AnswerLost, WorkerDies, PostgresLost

LEMMA RequestsLeaveTheRest ==
    ASSUME NEW u \in Ulids, Request(u)
    PROVE  UNCHANGED <<remote, record, queue, lost, jobVars>>
BY DEF Request, Place, Keep, Replace, HardDelete

LEMMA StepKeepsOneReadme ==
    ASSUME TypeOK, OneReadme, [Next]_vars
    PROVE  OneReadme'
<1>1. CASE UNCHANGED local BY <1>1 DEF OneReadme
<1>2. ASSUME NEW u \in Ulids, Request(u) PROVE OneReadme'
  <2>1. local' \in [Ulids -> SUBSET Files] BY <1>2, RequestsKeepTypes DEF TypeOK
  <2>2. \A v \in Ulids \ {u} : local'[v] = local[v]
    BY <1>2, RequestEffect DEF Adds, HardDelete, TypeOK
  <2>3. \A r, q \in ReadmesIn(local'[u]) : r = q
    <3>1. ASSUME NEW file \in Files, file.kind # "readme", Adds(u, file)
          PROVE  \A r, q \in ReadmesIn(local'[u]) : r = q
      BY <3>1, AddOnce DEF Adds, OneReadme, TypeOK
    <3>2. ASSUME NEW names, NEW version,
                 local' = [local EXCEPT ![u] = Put(@, Readme(version, names))]
          PROVE  \A r, q \in ReadmesIn(local'[u]) : r = q
      BY <3>2, Kinds, PutReadme DEF TypeOK
    <3>3. CASE HardDelete(u) BY <3>3 DEF HardDelete, ReadmesIn, TypeOK
    <3> QED BY <1>2, <3>1, <3>2, <3>3, RequestEffect
  <2> QED BY <2>2, <2>3 DEF OneReadme
<1> QED BY <1>1, <1>2, OnlyRequestsChangeLocal

LEMMA DeadGoneTransfers ==
    ASSUME DeadGone, UNCHANGED <<local, dead>>, due' \subseteq due,
           \A j \in queue' : j.kind = "delete" => j.of \in dead,
           job' \in {job, Absent}
    PROVE  DeadGone'
BY DEF DeadGone

LEMMA RaisesQueue ==
    ASSUME TypeOK, Raises, job # Absent
    PROVE  /\ job' \in {job, Absent}
           /\ queue' = queue \/ queue' = queue \union {[job EXCEPT !.try = @ + 1]}
           /\ queue' # queue => job.kind \in {"push", "delete"}
BY DEF Raises, Retry, EndJob, EndFolder, TypeOK, RecordJobs, Reconcile

LEMMA RaisesKeepsDead ==
    ASSUME TypeOK, DeadGone, Raises, job # Absent, UNCHANGED <<local, dead, due>>
    PROVE  DeadGone'
<1>1. \A j \in queue' : j.kind = "delete" => j.of \in dead
  <2>1. CASE queue' = queue BY <2>1 DEF DeadGone
  <2>2. CASE queue' # queue
    <3>1. job \in RecordJobs BY <2>2, RaisesQueue DEF TypeOK, Reconcile
    <3>2. [job EXCEPT !.try = @ + 1].kind = job.kind /\ [job EXCEPT !.try = @ + 1].of = job.of
      BY <3>1 DEF RecordJobs
    <3>3. job.kind = "delete" => job.of \in dead BY DEF DeadGone
    <3>4. \A j \in queue : j.kind = "delete" => j.of \in dead BY DEF DeadGone
    <3> QED BY <2>2, <3>2, <3>3, <3>4, RaisesQueue
  <2> QED BY <2>1, <2>2
<1> QED BY <1>1, RaisesQueue, DeadGoneTransfers

LEMMA StepKeepsDead ==
    ASSUME TypeOK, Shape, DeadGone, [Next]_vars
    PROVE  DeadGone'
<1>1. ASSUME NEW u \in Ulids, Request(u) PROVE DeadGone'
  <2>1. UNCHANGED <<queue, job>> BY <1>1, RequestsLeaveTheRest DEF jobVars
  <2>2. ASSUME NEW file \in Files, file.kind # "readme", Adds(u, file), UNCHANGED <<dead, due>>
        PROVE  DeadGone'
    <3>1. \A v \in Ulids : HasReadme(local'[v]) <=> HasReadme(local[v])
      BY <2>2, AddOnce DEF Adds, HasReadme, TypeOK
    <3> QED BY <2>1, <2>2, <3>1 DEF DeadGone, TypeOK
  <2>3. ASSUME NEW names, NEW version,
               local' = [local EXCEPT ![u] = Put(@, Readme(version, names))],
               due' = due \union {[kind |-> "push", of |-> u, version |-> version]},
               u \notin dead, UNCHANGED dead
        PROVE  DeadGone'
    <3>1. \A v \in dead : local'[v] = local[v] BY <2>3 DEF TypeOK
    <3> QED BY <2>1, <2>3, <3>1 DEF DeadGone
  <2>4. CASE HardDelete(u)
    <3>1. ~HasReadme(local'[u]) BY <2>4 DEF HardDelete, HasReadme, ReadmesIn, TypeOK
    <3>2. \A v \in Ulids \ {u} : local'[v] = local[v] BY <2>4 DEF HardDelete, TypeOK
    <3>3. /\ dead' = dead \union {u}
          /\ due' = due \union {[kind |-> "delete", of |-> u, version |-> 0]}
      BY <2>4 DEF HardDelete
    <3> QED BY <2>1, <3>1, <3>2, <3>3 DEF DeadGone, TypeOK
  <2> QED BY <1>1, <2>2, <2>3, <2>4, RequestEffect
<1>2. ASSUME NEW d \in due, Enqueue(d) PROVE DeadGone'
  <2>1. queue' \subseteq queue \union {[kind |-> d.kind, of |-> d.of, try |-> 0]}
    BY <1>2 DEF Enqueue
  <2>2. d.kind = "delete" => d.of \in dead BY DEF DeadGone
  <2>3. \A j \in queue' : j.kind = "delete" => j.of \in dead BY <2>1, <2>2 DEF DeadGone
  <2> QED BY <1>2, <2>3, DeadGoneTransfers DEF Enqueue, jobVars
<1>3. ASSUME NEW d \in due, Forget(d) PROVE DeadGone'
  BY <1>3, DeadGoneTransfers DEF Forget, jobVars, DeadGone
<1>4. CASE Tick
  <2>1. \A j \in queue' : j.kind = "delete" => j.of \in dead BY <1>4 DEF Tick, DeadGone, Reconcile
  <2> QED BY <1>4, <2>1, DeadGoneTransfers DEF Tick, jobVars
<1>5. CASE TakeJob BY <1>5 DEF TakeJob, DeadGone
<1>6. CASE Work /\ ~TakeJob /\ ~ReadReadme /\ ~\E file \in left : FileGone(file)
  <2>1. UNCHANGED <<local, dead, due, queue>> /\ job' \in {job, Absent}
    BY <1>6 DEF Work, ListRecords, ListRemote, NextRecord, ListFirst, ListKeys, Skip, Send, Note,
                FolderDone, DeleteRemote, ForgetPrefix, EndJob, EndFolder
  <2> QED BY <2>1, DeadGoneTransfers DEF DeadGone
<1>7. CASE ReadReadme
  <2>1. job # Absent /\ UNCHANGED <<local, dead, due>> BY <1>7 DEF ReadReadme, Shape
  <2>2. CASE HasReadme(local[at]) BY <1>7, <2>1, <2>2, DeadGoneTransfers DEF ReadReadme, DeadGone
  <2>3. CASE ~HasReadme(local[at]) BY <1>7, <2>1, <2>3, RaisesKeepsDead DEF ReadReadme
  <2> QED BY <2>2, <2>3
<1>8. CASE Refused \/ AnswerLost \/ \E file \in left : FileGone(file)
  <2>1. job # Absent /\ UNCHANGED <<local, dead, due>> /\ Raises
    BY <1>8 DEF Refused, AnswerLost, FileGone, Shape
  <2> QED BY <2>1, RaisesKeepsDead
<1>9. CASE WorkerDies \/ PostgresLost
  BY <1>9, DeadGoneTransfers DEF WorkerDies, PostgresLost, EndJob, DeadGone
<1>10. CASE UNCHANGED vars \/ \E u \in Ulids : RemoteLoss(u)
  BY <1>10, DeadGoneTransfers DEF vars, jobVars, RemoteLoss, DeadGone
<1> QED
  BY <1>1, <1>2, <1>3, <1>4, <1>5, <1>6, <1>7, <1>8, <1>9, <1>10 DEF Next, Work, AfterWrite


-----------------------------------------------------------------------------
(* Complete READMEs on the system of record *)

Base == TypeOK /\ Shape /\ DeadGone /\ OneReadme

LEMMA StepKeepsBase ==
    ASSUME Base, [Next]_vars
    PROVE  Base'
BY StepKeepsTypes, StepKeepsShape, StepKeepsDead, StepKeepsOneReadme DEF Base

(* A step after which the worker has no README and no file in hand keeps   *)
(* the invariant if no file it counts on goes.                             *)
LEMMA EmptyHanded ==
    ASSUME CompleteInv, UNCHANGED <<local, dead>>,
           left' = {}, current' = Absent, stage' # "note",
           \A u \in Ulids : record'[u] \subseteq record[u],
           \A u \in Ulids : OnceIn(remote[u]) \subseteq remote'[u]
                              \/ (u \in dead /\ listed'[u] = {}),
           \A u \in Ulids : OnceIn(listed'[u]) \subseteq remote[u],
           RemoteReadmeComplete'
    PROVE  CompleteInv'
<1>1. LocalComplete' BY DEF CompleteInv, LocalComplete
<1>2. CurrentComplete' /\ LeftComplete' BY DEF CurrentComplete, LeftComplete, ReadmesIn
<1>3. RecordHonest'
  <2> SUFFICES ASSUME NEW u \in Ulids, u \notin dead, NEW f \in OnceIn(record'[u])
               PROVE  f \in remote'[u]
    BY DEF RecordHonest, Pushing
  <2>1. f \in OnceIn(record[u]) BY DEF OnceIn
  <2>2. f \in OnceIn(remote[u]) BY <2>1 DEF CompleteInv, RecordHonest, OnceIn
  <2> QED BY <2>2
<1>4. ListedHonest'
  <2> SUFFICES ASSUME NEW u \in Ulids, NEW f \in OnceIn(listed'[u])
               PROVE  f \in remote'[u]
    BY DEF ListedHonest
  <2>1. f \in OnceIn(remote[u]) BY DEF OnceIn
  <2> QED BY <2>1 DEF OnceIn
<1> QED BY <1>1, <1>2, <1>3, <1>4 DEF CompleteInv

LEMMA RaisesEmptyHanded ==
    ASSUME Raises
    PROVE  /\ left' = {} /\ current' = Absent /\ at' = Absent /\ stage' \in {"idle", "next"}
           /\ \A u \in Ulids : listed'[u] \in {listed[u], {}}
BY DEF Raises, EndJob, EndFolder

(* Sent in turn, a README arrives after all it needs. *)
LEMMA SentInTurn ==
    ASSUME Base, CompleteInv, NEW file \in left, stage = "send", InTurn(file),
           remote' = Written(file)
    PROVE  /\ RemoteReadmeComplete'
           /\ \A u \in Ulids : OnceIn(remote[u]) \subseteq remote'[u]
           /\ file \in remote'[at]
<1>1. at \in Ulids /\ file \in Files BY DEF Base, Shape, TypeOK
<1>2. CASE file.kind # "readme"
  <2>1. \/ remote' = remote /\ file \in remote[at]
        \/ remote' = [remote EXCEPT ![at] = @ \union {file}]
    <3>1. file \in listed[at] => file \in remote[at]
      BY <1>1, <1>2 DEF CompleteInv, ListedHonest, OnceIn
    <3> QED BY <3>1, <1>1, <1>2, PutOnce DEF Written, Base, TypeOK
  <2>2. \A u \in Ulids : remote[u] \subseteq remote'[u] /\ ReadmesIn(remote'[u]) = ReadmesIn(remote[u])
    BY <1>1, <1>2, <2>1, AddOnce DEF Base, TypeOK
  <2> QED BY <1>1, <2>1, <2>2 DEF CompleteInv, RemoteReadmeComplete, OnceIn, Base, TypeOK
<1>3. CASE file.kind = "readme"
  <2>1. remote' = [remote EXCEPT ![at] = Put(@, file)] BY <1>3 DEF Written
  <2>2. ReadmesIn(remote'[at]) = {file} /\ OnceIn(remote'[at]) = OnceIn(remote[at])
    BY <1>1, <1>3, <2>1, PutReadme DEF Base, TypeOK
  <2>3. Needs(file) \subseteq left \union remote[at]
    BY <1>3 DEF CompleteInv, LeftComplete, ReadmesIn
  <2>4. \A f \in Needs(file) : f \in remote[at]
    <3> SUFFICES ASSUME NEW f \in Needs(file), f \in left PROVE FALSE BY <2>3
    <3>1. f.kind # "readme" BY NeedsOnce
    <3>2. f \in WriteOnce BY <3>1, <1>1 DEF Base, TypeOK, Files, Readmes
    <3>3. Rank(file) = 2 BY <1>3 DEF Rank
    <3>4. Rank(f) < 2 BY <3>2 DEF Rank, WriteOnce
    <3> QED BY <3>3, <3>4 DEF InTurn, Rank
  <2>5. Needs(file) \subseteq remote'[at] BY <2>2, <2>4, NeedsOnce DEF OnceIn
  <2>6. \A u \in Ulids \ {at} : remote'[u] = remote[u] BY <2>1 DEF Base, TypeOK
  <2>7. RemoteReadmeComplete'
    BY <1>1, <2>2, <2>5, <2>6 DEF CompleteInv, RemoteReadmeComplete, ReadmesIn
  <2>8. \A u \in Ulids : OnceIn(remote[u]) \subseteq remote'[u] BY <2>2, <2>6 DEF OnceIn
  <2> QED BY <2>2, <2>7, <2>8 DEF ReadmesIn
<1> QED BY <1>2, <1>3

LEMMA RequestKeepsComplete ==
    ASSUME Base, CompleteInv, NEW u \in Ulids, Request(u)
    PROVE  CompleteInv'
<1>1. UNCHANGED <<remote, record, stage, at, current, left, hand, listed>>
  BY RequestsLeaveTheRest DEF jobVars
<1>2. dead \subseteq dead' BY RequestEffect DEF Base, HardDelete
<1>3. \A v \in Ulids \ {u} : local'[v] = local[v]
  BY RequestEffect DEF Base, Adds, HardDelete, TypeOK
<1>4. u \in dead' \/ OnceIn(local[u]) \subseteq local'[u]
  <2>1. ASSUME NEW file \in Files, Adds(u, file) PROVE local[u] \subseteq local'[u]
    BY <2>1 DEF Adds, Base, TypeOK
  <2>2. ASSUME NEW names, NEW version,
               local' = [local EXCEPT ![u] = Put(@, Readme(version, names))]
        PROVE  OnceIn(local[u]) \subseteq local'[u]
    BY <2>2, Kinds, PutReadme DEF Base, TypeOK, OnceIn
  <2> QED BY <2>1, <2>2, RequestEffect DEF Base, HardDelete, OnceIn
<1>5. \A r \in ReadmesIn(local'[u]) : Needs(r) \subseteq local'[u]
  <2>1. ASSUME NEW file \in Files, file.kind # "readme", Adds(u, file)
        PROVE  \A r \in ReadmesIn(local'[u]) : Needs(r) \subseteq local'[u]
    BY <2>1, AddOnce DEF Adds, CompleteInv, LocalComplete, Base, TypeOK
  <2>2. ASSUME NEW names \in SUBSET {n \in Names : Media(n) \in local[u]}, NEW version \in Nat,
               \/ version = 1 /\ ~HasReadme(local[u])
               \/ \E r \in ReadmesIn(local[u]) :
                     version = r.of + 1 /\ History(r.of) \in local[u],
               local' = [local EXCEPT ![u] = Put(@, Readme(version, names))]
        PROVE  \A r \in ReadmesIn(local'[u]) : Needs(r) \subseteq local'[u]
    <3>1. ReadmesIn(local'[u]) = {Readme(version, names)}
          /\ OnceIn(local'[u]) = OnceIn(local[u])
      BY <2>2, Kinds, PutReadme DEF Base, TypeOK
    <3>2. \A n \in names : Media(n) \in local[u] BY <2>2
    <3>3. \A v \in 1 .. version - 1 : History(v) \in local[u]
      <4>1. CASE version = 1 BY <4>1
      <4>2. ASSUME NEW r \in ReadmesIn(local[u]), version = r.of + 1, History(r.of) \in local[u]
            PROVE  \A v \in 1 .. version - 1 : History(v) \in local[u]
        <5>1. r.of \in Nat BY ReadmeForm DEF ReadmesIn, Base, TypeOK
        <5>2. \A v \in 1 .. r.of - 1 : History(v) \in local[u]
          BY DEF CompleteInv, LocalComplete, Needs
        <5>3. \A v \in 1 .. version - 1 : v = r.of \/ v \in 1 .. r.of - 1 BY <4>2, <5>1
        <5> QED BY <4>2, <5>2, <5>3
      <4> QED BY <2>2, <4>1, <4>2
    <3>4. Needs(Readme(version, names)) \subseteq OnceIn(local[u])
      BY <3>2, <3>3, Kinds DEF Needs, OnceIn
    <3> QED BY <3>1, <3>4 DEF OnceIn
  <2>3. CASE HardDelete(u) BY <2>3 DEF HardDelete, ReadmesIn, Base, TypeOK
  <2> QED BY <2>1, <2>2, <2>3, RequestEffect DEF Base
<1>6. LocalComplete' BY <1>3, <1>5 DEF CompleteInv, LocalComplete
<1>7. CurrentComplete'
  <2> SUFFICES ASSUME current # Absent, at \notin dead', NEW f \in Needs(current)
               PROVE  f \in local'[at]
    BY <1>1 DEF CurrentComplete
  <2>1. f \in local[at] BY <1>2 DEF CompleteInv, CurrentComplete
  <2>2. at \in Ulids BY DEF Base, Shape, TypeOK
  <2> QED BY <1>3, <1>4, <2>1, <2>2, NeedsOnce DEF OnceIn
<1>8. (LeftComplete /\ RecordHonest /\ ListedHonest /\ RemoteReadmeComplete)'
  BY <1>1, <1>2 DEF CompleteInv, LeftComplete, RecordHonest, ListedHonest, RemoteReadmeComplete,
                    Pushing
<1> QED BY <1>6, <1>7, <1>8 DEF CompleteInv


LEMMA WorkKeepsComplete ==
    ASSUME Base, CompleteInv, Work
    PROVE  CompleteInv'
<1> USE DEF Base
<1>1. CASE TakeJob \/ ListRecords \/ ListRemote \/ NextRecord \/ ListFirst
  <2>1. left = {} /\ current = Absent
    BY <1>1 DEF TakeJob, ListRecords, ListRemote, NextRecord, ListFirst, Shape
  <2>2. left' = {} /\ current' = Absent /\ stage' # "note" /\ UNCHANGED <<local, dead, remote, record>>
    BY <1>1, <2>1 DEF TakeJob, ListRecords, ListRemote, NextRecord, ListFirst, EndJob
  <2>3. \A u \in Ulids : listed'[u] \in {listed[u], remote[u], {}}
    BY <1>1 DEF TakeJob, ListRecords, ListRemote, NextRecord, ListFirst, EndJob
  <2>4. \A u \in Ulids : OnceIn(listed'[u]) \subseteq remote[u]
    BY <2>3 DEF CompleteInv, ListedHonest, OnceIn
  <2>5. RemoteReadmeComplete' BY <2>2 DEF CompleteInv, RemoteReadmeComplete
  <2> QED BY <2>2, <2>4, <2>5, EmptyHanded DEF OnceIn
<1>2. CASE ReadReadme
  <2>1. CASE HasReadme(local[at])
    <3>1. at \in Ulids /\ at \notin dead BY <1>2, <2>1 DEF ReadReadme, Shape, DeadGone
    <3>2. current' \in ReadmesIn(local[at]) /\ stage' = "keys" BY <1>2, <2>1 DEF ReadReadme
    <3>3. UNCHANGED <<local, dead, remote, record, at, left, hand, listed>>
      BY <1>2, <2>1 DEF ReadReadme
    <3>4. left = {} BY <1>2 DEF ReadReadme, Shape
    <3>5. CurrentComplete' BY <3>1, <3>2, <3>3 DEF CompleteInv, LocalComplete, CurrentComplete
    <3>6. LeftComplete' BY <3>3, <3>4 DEF LeftComplete, ReadmesIn
    <3>7. RecordHonest' BY <3>1, <3>3 DEF CompleteInv, RecordHonest, Pushing
    <3> QED
      BY <3>2, <3>3, <3>5, <3>6, <3>7
      DEF CompleteInv, LocalComplete, ListedHonest, RemoteReadmeComplete
  <2>2. CASE ~HasReadme(local[at])
    <3>1. Raises /\ UNCHANGED <<local, dead, remote, record>> BY <1>2, <2>2 DEF ReadReadme
    <3>2. RemoteReadmeComplete' BY <3>1 DEF CompleteInv, RemoteReadmeComplete
    <3>3. \A u \in Ulids : OnceIn(listed'[u]) \subseteq remote[u]
      BY <3>1, RaisesEmptyHanded DEF CompleteInv, ListedHonest, OnceIn
    <3> QED BY <3>1, <3>2, <3>3, RaisesEmptyHanded, EmptyHanded DEF OnceIn
  <2> QED BY <2>1, <2>2
<1>3. CASE ListKeys
  <2>1. at \in Ulids BY <1>3 DEF ListKeys, Shape
  <2>2. UNCHANGED <<local, dead, remote, record, at, current, hand, listed>> /\ stage' = "send"
    BY <1>3 DEF ListKeys
  <2>3. \A r \in ReadmesIn(left') : r = current /\ r # Absent /\ HasReadme(local[at])
    BY <1>3 DEF ListKeys, ReadmesIn
  <2>4. LeftComplete'
    <3> SUFFICES ASSUME NEW r \in ReadmesIn(left'), NEW f \in Needs(r)
                 PROVE  f \in left'
      BY <2>2, <2>3 DEF LeftComplete
    <3>1. at \notin dead BY <2>3 DEF DeadGone
    <3>2. f \in local[at] BY <2>3, <3>1 DEF CompleteInv, CurrentComplete
    <3> QED BY <1>3, <3>2, NeedsOnce DEF ListKeys, ReadmesIn
  <2> QED
    BY <2>2, <2>4
    DEF CompleteInv, LocalComplete, CurrentComplete, RecordHonest, Pushing, ListedHonest,
        RemoteReadmeComplete
<1>4. ASSUME NEW file \in left, Skip(file) PROVE CompleteInv'
  <2>1. at \in Ulids /\ file \in Files BY <1>4 DEF Skip, Shape, TypeOK
  <2>2. UNCHANGED <<local, dead, remote, record, stage, at, current, hand, listed>>
        /\ left' = left \ {file} /\ file \in record[at]
    BY <1>4 DEF Skip, Trusted
  <2>3. LeftComplete'
    <3> SUFFICES ASSUME NEW r \in ReadmesIn(left'), NEW f \in Needs(r)
                 PROVE  f \in left' \union remote[at]
      BY <2>2 DEF CompleteInv, LeftComplete, ReadmesIn
    <3>1. r = current /\ r # Absent /\ f \in left \union remote[at]
      BY <2>2, AbsentAssumption DEF CompleteInv, LeftComplete, ReadmesIn, TypeOK
    <3>2. CASE f # file BY <2>2, <3>1, <3>2
    <3>3. CASE f = file
      <4>1. file \in OnceIn(record[at]) BY <2>2, <3>3, NeedsOnce DEF OnceIn
      <4> QED BY <2>1, <3>1, <3>3, <4>1 DEF CompleteInv, RecordHonest, Pushing
    <3> QED BY <3>2, <3>3
  <2> QED
    BY <2>2, <2>3
    DEF CompleteInv, LocalComplete, CurrentComplete, RecordHonest, Pushing, ListedHonest,
        RemoteReadmeComplete
<1>5. ASSUME NEW file \in left, Send(file) PROVE CompleteInv'
  <2>1. at \in Ulids /\ file \in Files BY <1>5 DEF Send, Shape, TypeOK
  <2>2. /\ UNCHANGED <<local, dead, record, at, current, listed>>
        /\ left' = left \ {file} /\ hand' = file
        /\ stage = "send" /\ InTurn(file) /\ remote' = Written(file)
    BY <1>5 DEF Send
  <2>3. /\ RemoteReadmeComplete'
        /\ \A u \in Ulids : OnceIn(remote[u]) \subseteq remote'[u]
        /\ file \in remote'[at]
    BY <2>2, SentInTurn
  <2>4. LeftComplete'
    <3>1. \A r \in ReadmesIn(left') : r = current /\ Needs(r) \subseteq left \union remote[at]
      BY <2>2 DEF CompleteInv, LeftComplete, ReadmesIn
    <3>2. ASSUME NEW r \in ReadmesIn(left'), NEW f \in Needs(r)
          PROVE  f \in left' \union remote'[at]
      BY <2>1, <2>2, <2>3, <3>1, NeedsOnce DEF OnceIn
    <3> QED BY <2>2, <3>1, <3>2 DEF LeftComplete
  <2>5. RecordHonest' BY <2>2, <2>3 DEF CompleteInv, RecordHonest, OnceIn, Pushing
  <2>6. ListedHonest' BY <2>2, <2>3 DEF CompleteInv, ListedHonest, OnceIn
  <2> QED BY <2>2, <2>3, <2>4, <2>5, <2>6 DEF CompleteInv, LocalComplete, CurrentComplete
<1>6. CASE Note
  <2>1. at \in Ulids /\ hand \in remote[at]
    BY <1>6 DEF Note, Shape, CompleteInv, ListedHonest
  <2>2. UNCHANGED <<local, dead, remote, at, current, left, listed>> /\ stage' = "send"
    BY <1>6 DEF Note
  <2>3. \A u \in Ulids : OnceIn(record'[u]) \subseteq OnceIn(record[u])
                           \/ (u = at /\ OnceIn(record'[u]) \subseteq record[u] \union {hand})
    BY <1>6, <2>1 DEF Note, Put, OnceIn, TypeOK
  <2>4. RecordHonest'
    <3> SUFFICES ASSUME NEW u \in Ulids, u \notin dead \/ Pushing(u), NEW f \in OnceIn(record'[u])
                 PROVE  f \in remote[u]
      BY <2>2 DEF RecordHonest, Pushing
    <3>1. f \in OnceIn(record[u]) \/ (u = at /\ f = hand) BY <2>3 DEF OnceIn
    <3> QED BY <2>1, <3>1 DEF CompleteInv, RecordHonest
  <2> QED
    BY <2>2, <2>4
    DEF CompleteInv, LocalComplete, CurrentComplete, LeftComplete, ListedHonest,
        RemoteReadmeComplete
<1>7. CASE FolderDone \/ \E file \in left : FileGone(file)
  <2>1. UNCHANGED <<local, dead, remote, record>>
    BY <1>7 DEF FolderDone, FileGone
  <2>2. /\ left' = {} /\ current' = Absent /\ stage' # "note"
        /\ \A u \in Ulids : listed'[u] \in {listed[u], {}}
    BY <1>7, RaisesEmptyHanded DEF FolderDone, FileGone, EndFolder, EndJob
  <2>3. \A u \in Ulids : OnceIn(listed'[u]) \subseteq remote[u]
    BY <2>2 DEF CompleteInv, ListedHonest, OnceIn
  <2>4. RemoteReadmeComplete' BY <2>1 DEF CompleteInv, RemoteReadmeComplete
  <2> QED BY <2>1, <2>2, <2>3, <2>4, EmptyHanded DEF OnceIn
<1>8. CASE DeleteRemote
  <2>1. at \in dead /\ left = {} /\ current = Absent /\ listed = [u \in Ulids |-> {}]
    BY <1>8 DEF DeleteRemote, Shape, DeadGone
  <2>2. /\ UNCHANGED <<local, dead, record, current, left, listed>> /\ stage' = "forget"
        /\ remote' = [remote EXCEPT ![at] = {}]
    BY <1>8 DEF DeleteRemote
  <2>3. \A u \in Ulids : u # at => remote'[u] = remote[u] BY <2>2 DEF TypeOK
  <2>4. RemoteReadmeComplete'
    BY <2>2 DEF CompleteInv, RemoteReadmeComplete, ReadmesIn, TypeOK
  <2>5. \A u \in Ulids : listed'[u] = {} BY <2>1, <2>2
  <2> QED BY <2>1, <2>2, <2>3, <2>4, <2>5, EmptyHanded DEF OnceIn
<1>9. CASE ForgetPrefix
  <2>1. /\ UNCHANGED <<local, dead, remote>> /\ EndJob
        /\ record' = [record EXCEPT ![at] = {}]
    BY <1>9 DEF ForgetPrefix
  <2>2. \A u \in Ulids : record'[u] \subseteq record[u] BY <2>1 DEF TypeOK
  <2>3. RemoteReadmeComplete' BY <2>1 DEF CompleteInv, RemoteReadmeComplete
  <2> QED BY <2>1, <2>2, <2>3, EmptyHanded DEF OnceIn, EndJob
<1> QED BY <1>1, <1>2, <1>3, <1>4, <1>5, <1>6, <1>7, <1>8, <1>9 DEF Work

LEMMA FailuresKeepComplete ==
    ASSUME Base, CompleteInv, Failure
    PROVE  CompleteInv'
<1> USE DEF Base
<1>1. \A u \in Ulids : OnceIn({}) \subseteq remote[u] /\ OnceIn(listed[u]) \subseteq remote[u]
  BY DEF CompleteInv, ListedHonest, OnceIn
<1>2. CASE Refused
  <2>1. Raises /\ UNCHANGED <<local, dead, remote, record>> BY <1>2 DEF Refused
  <2>2. RemoteReadmeComplete' BY <2>1 DEF CompleteInv, RemoteReadmeComplete
  <2>3. \A u \in Ulids : OnceIn(listed'[u]) \subseteq remote[u] BY <1>1, <2>1, RaisesEmptyHanded
  <2> QED BY <2>1, <2>2, <2>3, RaisesEmptyHanded, EmptyHanded DEF OnceIn
<1>3. CASE AnswerLost
  <2>1. Raises /\ UNCHANGED <<local, dead, record>> BY <1>3 DEF AnswerLost
  <2>2. \A u \in Ulids : OnceIn(listed'[u]) \subseteq remote[u] BY <1>1, <2>1, RaisesEmptyHanded
  <2>3. ASSUME NEW file \in left, stage = "send", InTurn(file), remote' = Written(file)
        PROVE  CompleteInv'
    <3>1. RemoteReadmeComplete' /\ \A u \in Ulids : OnceIn(remote[u]) \subseteq remote'[u]
      BY <2>3, SentInTurn
    <3> QED BY <2>1, <2>2, <3>1, RaisesEmptyHanded, EmptyHanded
  <2>4. CASE stage = "delete" /\ remote' = [remote EXCEPT ![at] = {}]
    <3>1. at \in dead /\ listed = [u \in Ulids |-> {}] BY <2>4 DEF Shape, DeadGone
    <3>2. \A u \in Ulids : u # at => remote'[u] = remote[u] BY <2>4 DEF TypeOK
    <3>3. RemoteReadmeComplete'
      BY <2>4 DEF CompleteInv, RemoteReadmeComplete, ReadmesIn, TypeOK
    <3>4. \A u \in Ulids : listed'[u] = {} BY <2>1, <3>1, RaisesEmptyHanded
    <3> QED BY <2>1, <2>2, <3>1, <3>2, <3>3, <3>4, RaisesEmptyHanded, EmptyHanded DEF OnceIn
  <2> QED BY <1>3, <2>3, <2>4 DEF AnswerLost
<1>4. CASE WorkerDies \/ PostgresLost
  <2>1. EndJob /\ UNCHANGED <<local, dead, remote>> BY <1>4 DEF WorkerDies, PostgresLost
  <2>2. \A u \in Ulids : record'[u] \subseteq record[u] BY <1>4 DEF WorkerDies, PostgresLost
  <2>3. RemoteReadmeComplete' BY <2>1 DEF CompleteInv, RemoteReadmeComplete
  <2>4. \A u \in Ulids : listed'[u] = {} BY <2>1 DEF EndJob
  <2> QED BY <1>1, <2>1, <2>2, <2>3, <2>4, EmptyHanded DEF OnceIn, EndJob
<1> QED BY <1>2, <1>3, <1>4 DEF Failure

LEMMA OthersKeepComplete ==
    ASSUME CompleteInv, AfterWrite \/ Tick \/ UNCHANGED vars
    PROVE  CompleteInv'
<1>1. UNCHANGED <<local, dead, remote, record, jobVars>>
  BY DEF AfterWrite, Enqueue, Forget, Tick, vars
<1> QED
  BY <1>1
  DEF jobVars, CompleteInv, LocalComplete, CurrentComplete, LeftComplete, RecordHonest, Pushing,
      ListedHonest, RemoteReadmeComplete

(* A system that starts has no job, no file and nothing due (Init).        *)
THEOREM InitBase == Init => Base
BY MaxAttemptsAssumption
   DEF Init, NoJob, Base, TypeOK, Shape, DeadGone, OneReadme, ReadmesIn, HasReadme

(* What every later proof starts from: the types, the shape of the         *)
(* worker's state, one README per folder, none for a hard-deleted Article. *)
THEOREM BaseAlways == Spec => []Base
BY InitBase, StepKeepsBase, PTL DEF Spec

(* The types of every state, and no job that has used up its tries (the    *)
(* bounded retry of tasks.py).                                             *)
THEOREM TypeCorrect == Spec => []TypeOK
BY BaseAlways, PTL DEF Base

LEMMA CompleteAlways ==
    ASSUME MayLose = FALSE
    PROVE  Spec => []CompleteInv
<1>1. Init => CompleteInv
  BY DEF Init, NoJob, CompleteInv, LocalComplete, CurrentComplete, LeftComplete, RecordHonest,
         ListedHonest, RemoteReadmeComplete, ReadmesIn, OnceIn, Pushing
<1>2. Base /\ CompleteInv /\ [Next]_vars => CompleteInv'
  BY RequestKeepsComplete, WorkKeepsComplete, FailuresKeepComplete, OthersKeepComplete
  DEF Next, Failure, RemoteLoss
<1> QED BY <1>1, <1>2, BaseAlways, PTL DEF Spec

(* No README on the system of record lacks a file it needs, as long as the *)
(* app is the only writer there: the order of _Push.folder is enough, with *)
(* any failures between its calls.                                         *)
THEOREM ReadmesComplete ==
    ASSUME MayLose = FALSE
    PROVE  Spec => []RemoteReadmeComplete
BY CompleteAlways, PTL DEF CompleteInv

-----------------------------------------------------------------------------
(* Owed deletes *)

(* An owed delete stays owed while nobody takes it from where it waits.    *)
LEMMA OwedStays ==
    ASSUME NEW u \in Ulids, DeleteOwed(u), due \subseteq due', queue \subseteq queue',
           lost[u].delete => lost'[u].delete,
           job # Absent /\ job.kind = "delete" /\ at = u /\ stage = "delete" =>
              \/ UNCHANGED <<job, at, stage>>
              \/ \E j \in queue' : j.kind = "delete" /\ j.of = u
              \/ lost'[u].delete
    PROVE  DeleteOwed(u)'
BY DEF DeleteOwed

LEMMA LoseKeepsDeletes ==
    ASSUME TypeOK, NEW jobs, Lose(jobs)
    PROVE  \A u \in Ulids :
              lost[u].delete \/ (\E j \in jobs : j.kind = "delete" /\ j.of = u) => lost'[u].delete
BY DEF Lose

LEMMA RaisesKeepsOwed ==
    ASSUME TypeOK, Shape, Raises, job # Absent, UNCHANGED due, NEW u \in Ulids, DeleteOwed(u)
    PROVE  DeleteOwed(u)'
<1>1. CASE job.kind = "reconcile"
  BY <1>1, OwedStays DEF Raises
<1>2. CASE job.kind # "reconcile"
  <2>1. Retry /\ job \in RecordJobs BY <1>2 DEF Raises, TypeOK, Reconcile
  <2>2. queue \subseteq queue' BY <2>1 DEF Retry
  <2>3. lost[u].delete => lost'[u].delete BY <2>1, LoseKeepsDeletes DEF Retry
  <2>4. ASSUME job.kind = "delete", at = u
        PROVE  (\E j \in queue' : j.kind = "delete" /\ j.of = u) \/ lost'[u].delete
    <3>1. job.of = u BY <2>4 DEF Shape
    <3>2. [job EXCEPT !.try = @ + 1].kind = "delete" /\ [job EXCEPT !.try = @ + 1].of = u
      BY <2>1, <2>4, <3>1 DEF RecordJobs
    <3>3. CASE [job EXCEPT !.try = @ + 1].try < MaxAttempts
      BY <2>1, <2>4, <3>2, <3>3 DEF Retry
    <3>4. CASE ~([job EXCEPT !.try = @ + 1].try < MaxAttempts)
      <4>1. Lose({job}) BY <2>1, <2>4, <3>4 DEF Retry
      <4> QED BY <2>4, <3>1, <4>1, LoseKeepsDeletes
    <3> QED BY <3>3, <3>4
  <2> QED BY <2>2, <2>3, <2>4, OwedStays
<1> QED BY <1>1, <1>2

(* What a call to the system of record leaves there for the dead. *)
LEMMA SentForTheDead ==
    ASSUME Base, NEW file \in left, stage = "send", remote' = Written(file),
           NEW u \in Ulids, HasReadme(remote'[u])
    PROVE  HasReadme(remote[u]) \/ Pushing(u)
<1> USE DEF Base
<1>1. at \in Ulids /\ file \in Files BY DEF Shape, TypeOK
<1>2. CASE remote' = remote BY <1>2
<1>3. CASE remote' = [remote EXCEPT ![at] = Put(@, file)]
  <2>1. CASE u # at BY <1>3, <2>1 DEF TypeOK
  <2>2. CASE u = at /\ file.kind # "readme"
    BY <1>1, <1>3, <2>2, PutOnce DEF TypeOK, HasReadme
  <2>3. CASE u = at /\ file.kind = "readme"
    BY <1>1, <2>3, AbsentAssumption DEF Shape, Pushing
  <2> QED BY <2>1, <2>2, <2>3
<1> QED BY <1>2, <1>3 DEF Written

LEMMA DeleteInvStays ==
    ASSUME DeleteInv, Base, UNCHANGED dead,
           \A u \in dead : (HasReadme(remote[u]) \/ Pushing(u)) /\ DeleteOwed(u) => DeleteOwed(u)',
           \A u \in dead : HasReadme(remote'[u]) \/ Pushing(u)' => HasReadme(remote[u]) \/ Pushing(u)
    PROVE  DeleteInv'
BY DEF DeleteInv

LEMMA StepKeepsDeletes ==
    ASSUME Base, DeleteInv, [Next]_vars
    PROVE  DeleteInv'
<1> USE DEF Base
<1>0. dead \subseteq Ulids BY DEF TypeOK
<1>1. ASSUME NEW u \in Ulids, Request(u) PROVE DeleteInv'
  <2>1. UNCHANGED <<remote, queue, lost, job, at, stage, current>>
    BY <1>1, RequestsLeaveTheRest DEF jobVars
  <2>2. due \subseteq due' BY <1>1, RequestEffect DEF HardDelete
  <2>3. \A v \in dead' : v \in dead \/ (v = u /\ \E d \in due' : d.kind = "delete" /\ d.of = u)
    <3>1. CASE UNCHANGED dead BY <3>1
    <3>2. CASE HardDelete(u)
      <4>1. [kind |-> "delete", of |-> u, version |-> 0] \in due' /\ dead' = dead \union {u}
        BY <3>2 DEF HardDelete
      <4> QED BY <4>1
    <3> QED BY <1>1, <3>1, <3>2, RequestEffect
  <2> QED BY <2>1, <2>2, <2>3 DEF DeleteInv, DeleteOwed, Pushing
<1>2. ASSUME NEW d \in due, Enqueue(d) PROVE DeleteInv'
  <2>1. UNCHANGED <<dead, remote, lost, job, at, stage, current>> /\ due' = due \ {d}
        /\ queue \subseteq queue'
    BY <1>2 DEF Enqueue, jobVars
  <2>2. d.kind = "delete" => \E j \in queue' : j.kind = "delete" /\ j.of = d.of
    <3>1. d.kind = "delete" => [kind |-> d.kind, of |-> d.of, try |-> 0] \in queue'
      BY <1>2 DEF Enqueue
    <3> QED BY <3>1
  <2> QED BY <2>1, <2>2 DEF DeleteInv, DeleteOwed, Pushing
<1>3. ASSUME NEW d \in due, Forget(d) PROVE DeleteInv'
  <2>1. UNCHANGED <<dead, remote, queue, job, at, stage, current>> /\ due' = due \ {d}
    BY <1>3 DEF Forget, jobVars
  <2>2. d.of \in Ulids /\ d.kind \in {"push", "delete"} BY DEF TypeOK, Dues
  <2>3. \A u \in Ulids : lost[u].delete \/ (d.kind = "delete" /\ d.of = u) => lost'[u].delete
    BY <1>3, <2>2 DEF Forget, LosesPush, LosesDelete, TypeOK
  <2> QED BY <1>0, <2>1, <2>3 DEF DeleteInv, DeleteOwed, Pushing
<1>4. CASE Tick \/ UNCHANGED vars \/ \E u \in Ulids : RemoteLoss(u)
  <2>1. UNCHANGED <<dead, due, lost, job, at, stage, current>> /\ queue \subseteq queue'
    BY <1>4 DEF Tick, vars, jobVars, RemoteLoss
  <2>2. \A u \in dead : remote'[u] \subseteq remote[u]
    BY <1>0, <1>4 DEF Tick, vars, RemoteLoss, TypeOK
  <2> QED BY <2>1, <2>2 DEF DeleteInv, DeleteOwed, Pushing, HasReadme, ReadmesIn
<1>5. CASE TakeJob
  <2>1. PICK j \in queue :
           /\ job' = j /\ queue' = queue \ {j} /\ at' = j.of
           /\ j.kind = "delete" => stage' = "delete"
    BY <1>5 DEF TakeJob
  <2>2. stage = "idle" /\ job = Absent /\ j # Absent /\ UNCHANGED <<dead, due, lost, remote, current>>
    BY <1>5, <2>1, AbsentAssumption DEF TakeJob, Shape, TypeOK
  <2>3. \A u \in dead : DeleteOwed(u) => DeleteOwed(u)' BY <2>1, <2>2 DEF DeleteOwed
  <2>4. current = Absent BY <2>2 DEF Shape
  <2> QED BY <2>2, <2>3, <2>4, DeleteInvStays DEF Pushing
<1>6. CASE ListRecords \/ ListRemote \/ NextRecord \/ ListFirst \/ ListKeys \/ FolderDone \/ Note
           \/ \E file \in left : Skip(file)
  <2>1. UNCHANGED <<dead, due, queue, lost, remote>>
    BY <1>6 DEF ListRecords, ListRemote, NextRecord, ListFirst, ListKeys, FolderDone, Note, Skip
  <2>2. stage # "delete"
    BY <1>6 DEF ListRecords, ListRemote, NextRecord, ListFirst, ListKeys, FolderDone, Note, Skip
  <2>3. UNCHANGED <<at, current>> \/ current' = Absent
    BY <1>6
    DEF ListRecords, ListRemote, NextRecord, ListFirst, ListKeys, FolderDone, Note, Skip, EndJob,
        EndFolder, Shape
  <2> QED BY <1>0, <2>1, <2>2, <2>3, DeleteInvStays, OwedStays DEF Pushing
<1>7. CASE ReadReadme
  <2>1. UNCHANGED <<dead, due, remote>> /\ job # Absent /\ at \in Ulids
    BY <1>7 DEF ReadReadme, Shape
  <2>2. CASE HasReadme(local[at])
    <3>1. UNCHANGED <<queue, lost, job, at>> /\ stage # "delete" /\ at \notin dead
      BY <1>7, <2>2 DEF ReadReadme, DeadGone
    <3>2. \A u \in dead : ~Pushing(u)' BY <3>1 DEF Pushing
    <3> QED BY <1>0, <2>1, <3>1, <3>2, DeleteInvStays, OwedStays
  <2>3. CASE ~HasReadme(local[at])
    <3>1. Raises BY <1>7, <2>3 DEF ReadReadme
    <3> QED BY <1>0, <2>1, <3>1, RaisesKeepsOwed, RaisesEmptyHanded, DeleteInvStays DEF Pushing
  <2> QED BY <2>2, <2>3
<1>8. ASSUME NEW file \in left, Send(file) PROVE DeleteInv'
  <2>1. UNCHANGED <<dead, due, queue, lost, at, current>> /\ stage = "send" /\ remote' = Written(file)
    BY <1>8 DEF Send
  <2>2. \A u \in dead : HasReadme(remote'[u]) => HasReadme(remote[u]) \/ Pushing(u)
    BY <1>0, <2>1, SentForTheDead
  <2> QED BY <1>0, <2>1, <2>2, DeleteInvStays, OwedStays DEF Pushing
<1>9. CASE Refused \/ \E file \in left : FileGone(file)
  <2>1. Raises /\ job # Absent /\ UNCHANGED <<dead, due, remote>>
    BY <1>9 DEF Refused, FileGone, Shape
  <2> QED BY <1>0, <2>1, RaisesKeepsOwed, RaisesEmptyHanded, DeleteInvStays DEF Pushing
<1>10. CASE AnswerLost
  <2>1. Raises /\ job # Absent /\ UNCHANGED <<dead, due>> BY <1>10 DEF AnswerLost, Shape
  <2>2. \A u \in dead : HasReadme(remote'[u]) => HasReadme(remote[u]) \/ Pushing(u)
    <3>1. CASE remote' = [remote EXCEPT ![at] = {}]
      BY <1>0, <3>1 DEF TypeOK, HasReadme, ReadmesIn
    <3> QED BY <1>0, <1>10, <3>1, SentForTheDead DEF AnswerLost
  <2> QED BY <1>0, <2>1, <2>2, RaisesKeepsOwed, RaisesEmptyHanded, DeleteInvStays DEF Pushing
<1>11. CASE DeleteRemote \/ ForgetPrefix
  <2>1. UNCHANGED <<dead, due, queue, lost>> /\ current = Absent /\ current' = Absent
    BY <1>11 DEF DeleteRemote, ForgetPrefix, Shape, EndJob
  <2>2. CASE DeleteRemote
    <3>1. \A u \in dead : HasReadme(remote'[u]) => u # at /\ HasReadme(remote[u])
      BY <1>0, <2>2 DEF DeleteRemote, TypeOK, HasReadme, ReadmesIn
    <3>2. \A u \in dead : u # at /\ DeleteOwed(u) => DeleteOwed(u)' BY <2>1 DEF DeleteOwed
    <3> QED BY <2>1, <3>1, <3>2 DEF DeleteInv, Pushing
  <2>3. CASE ForgetPrefix
    <3>1. stage # "delete" /\ UNCHANGED remote BY <2>3 DEF ForgetPrefix
    <3> QED BY <1>0, <2>1, <3>1, DeleteInvStays, OwedStays DEF Pushing
  <2> QED BY <1>11, <2>2, <2>3
<1>12. CASE WorkerDies
  <2>1. Lose({job}) /\ EndJob /\ UNCHANGED <<dead, due, queue, remote>> BY <1>12 DEF WorkerDies
  <2>2. \A u \in dead : DeleteOwed(u) => DeleteOwed(u)'
    <3> SUFFICES ASSUME NEW u \in dead, DeleteOwed(u) PROVE DeleteOwed(u)' OBVIOUS
    <3>1. u \in Ulids BY <1>0
    <3>2. lost[u].delete => lost'[u].delete BY <2>1, <3>1, LoseKeepsDeletes
    <3>3. job # Absent /\ job.kind = "delete" /\ at = u => lost'[u].delete
      BY <2>1, <3>1, LoseKeepsDeletes DEF Shape
    <3> QED BY <2>1, <3>1, <3>2, <3>3, OwedStays
  <2> QED BY <2>1, <2>2, DeleteInvStays DEF Pushing, EndJob
<1>13. CASE PostgresLost
  <2>1. Lose(queue \union ({job} \ {Absent})) /\ EndJob /\ UNCHANGED <<dead, due, remote>>
    BY <1>13 DEF PostgresLost
  <2>2. \A u \in dead : DeleteOwed(u) => DeleteOwed(u)'
    <3> SUFFICES ASSUME NEW u \in dead, DeleteOwed(u) PROVE DeleteOwed(u)' OBVIOUS
    <3>1. u \in Ulids BY <1>0
    <3>2. job # Absent /\ at = u /\ job.kind = "delete" => job.of = u BY DEF Shape
    <3>3. ~(\E d \in due : d.kind = "delete" /\ d.of = u) => lost'[u].delete
      BY <2>1, <3>1, <3>2, LoseKeepsDeletes DEF DeleteOwed
    <3> QED BY <2>1, <3>3 DEF DeleteOwed
  <2> QED BY <2>1, <2>2, DeleteInvStays DEF Pushing, EndJob
<1> QED
  BY <1>1, <1>2, <1>3, <1>4, <1>5, <1>6, <1>7, <1>8, <1>9, <1>10, <1>11, <1>12, <1>13
  DEF Next, Work, AfterWrite

(* A README of a hard-deleted Article on the system of record is owed its  *)
(* delete, unless the job was lost: no push or reconcile in flight brings  *)
(* an Article back behind its delete (delete_article, after_write.run).    *)
THEOREM DeletesStayOwed == Spec => []DeletesOwed
<1>1. Init => DeleteInv BY DEF Init, DeleteInv
<1>2. DeleteInv => DeletesOwed BY DEF DeleteInv, DeletesOwed
<1> QED BY <1>1, <1>2, BaseAlways, StepKeepsDeletes, PTL DEF Spec


-----------------------------------------------------------------------------
(* READMEs in their order *)

LEMMA BehindNext ==
    ASSUME NEW q \in Readmes, NEW r \in Readmes, NEW s, s.of = r.of + 1, Behind(q, r)
    PROVE  Behind(q, s) /\ q # s
BY DEF Behind, Readmes

LEMMA BehindEachOther ==
    ASSUME NEW q \in Readmes, NEW r \in Readmes, Behind(q, r), Behind(r, q)
    PROVE  q = r
BY DEF Behind, Readmes

LEMMA ReadmesOf ==
    ASSUME TypeOK, NEW u \in Ulids
    PROVE  /\ ReadmesIn(local[u]) \subseteq Readmes
           /\ ReadmesIn(remote[u]) \subseteq Readmes
           /\ ReadmesIn(record[u]) \subseteq Readmes
BY ReadmeForm DEF ReadmesIn, TypeOK

LEMMA RequestKeepsOrder ==
    ASSUME Base, InOrder, RecordReadme, NEW u \in Ulids, Request(u)
    PROVE  InOrder' /\ RecordReadme'
<1> USE DEF Base
<1>1. UNCHANGED <<remote, record, at, current>> BY RequestsLeaveTheRest DEF jobVars
<1>2. ASSUME NEW file \in Files, file.kind # "readme", Adds(u, file), UNCHANGED dead
      PROVE  InOrder' /\ RecordReadme'
  <2>1. \A v \in Ulids : ReadmesIn(local'[v]) = ReadmesIn(local[v])
    BY <1>2, AddOnce DEF Adds, TypeOK
  <2>2. \A v \in Ulids : ReadmesIn(record[v]) \intersect local'[v]
                           = ReadmesIn(record[v]) \intersect local[v]
    BY <2>1 DEF ReadmesIn
  <2> QED BY <1>1, <1>2, <2>1, <2>2 DEF InOrder, RecordReadme, HasReadme, Pushing
<1>3. ASSUME NEW names \in SUBSET Names, NEW version \in Nat,
             \/ version = 1 /\ ~HasReadme(local[u])
             \/ \E r \in ReadmesIn(local[u]) : version = r.of + 1,
             local' = [local EXCEPT ![u] = Put(@, Readme(version, names))],
             u \notin dead, UNCHANGED dead
      PROVE  InOrder' /\ RecordReadme'
  <2> DEFINE new == Readme(version, names)
  <2>1. ReadmesIn(local'[u]) = {new} /\ new.of = version
    BY <1>3, Kinds, PutReadme DEF TypeOK
  <2>2. \A v \in Ulids \ {u} : local'[v] = local[v] BY <1>3 DEF TypeOK
  <2>3. /\ \A q \in ReadmesIn(remote[u]) \union ReadmesIn(record[u]) : Behind(q, new) /\ q # new
        /\ Pushing(u) => Behind(current, new)
    <3>1. CASE ~HasReadme(local[u]) BY <1>3, <3>1 DEF InOrder, HasReadme
    <3>2. ASSUME NEW r \in ReadmesIn(local[u]), version = r.of + 1
          PROVE  /\ \A q \in ReadmesIn(remote[u]) \union ReadmesIn(record[u]) :
                       Behind(q, new) /\ q # new
                 /\ Pushing(u) => Behind(current, new)
      <4>1. /\ \A q \in ReadmesIn(remote[u]) \union ReadmesIn(record[u]) : Behind(q, r)
            /\ Pushing(u) => Behind(current, r)
        BY <1>3 DEF InOrder
      <4>2. r \in Readmes /\ (Pushing(u) => current \in Readmes) BY ReadmesOf DEF Pushing, TypeOK
      <4> HIDE DEF new
      <4> QED BY <2>1, <3>2, <4>1, <4>2, ReadmesOf, BehindNext
    <3> QED BY <1>3, <3>1, <3>2
  <2> HIDE DEF new
  <2>4. InOrder'
    <3> SUFFICES ASSUME NEW v \in Ulids \ dead PROVE InOrder!(v)' BY <1>3 DEF InOrder
    <3>1. CASE v = u
      BY <1>1, <1>3, <2>1, <2>3, <3>1 DEF InOrder, HasReadme, Pushing
    <3>2. CASE v # u
      BY <1>1, <1>3, <2>2, <3>2 DEF InOrder, HasReadme, Pushing
    <3> QED BY <3>1, <3>2
  <2>5. RecordReadme'
    BY <1>1, <1>3, <2>1, <2>2, <2>3 DEF RecordReadme, ReadmesIn
  <2> QED BY <2>4, <2>5
<1>4. CASE HardDelete(u)
  <2>1. dead' = dead \union {u} /\ \A v \in Ulids \ {u} : local'[v] = local[v]
    BY <1>4 DEF HardDelete, TypeOK
  <2> QED BY <1>1, <2>1 DEF InOrder, RecordReadme, HasReadme, Pushing
<1> QED BY <1>2, <1>3, <1>4, RequestEffect

LEMMA OrderStays ==
    ASSUME InOrder, UNCHANGED <<local, dead>>,
           \A u \in Ulids \ dead :
              /\ ReadmesIn(remote'[u]) \subseteq ReadmesIn(remote[u])
              /\ ReadmesIn(record'[u]) \subseteq ReadmesIn(record[u]) \union ReadmesIn(remote[u]),
           current' = Absent \/ UNCHANGED <<at, current>>
    PROVE  InOrder'
BY DEF InOrder, HasReadme, Pushing

(* A README put in its turn takes no current one away. *)
LEMMA SentInOrder ==
    ASSUME Base, InOrder, NEW file \in left, stage = "send", remote' = Written(file),
           UNCHANGED <<local, dead, record>>, current' = Absent \/ UNCHANGED <<at, current>>
    PROVE  /\ InOrder'
           /\ \A u \in Ulids : \A r \in ReadmesIn(local[u]) : r \in remote[u] => r \in remote'[u]
<1> USE DEF Base
<1>1. at \in Ulids /\ file \in Files BY DEF Shape, TypeOK
<1>2. CASE file.kind # "readme"
  <2>1. \A u \in Ulids : /\ ReadmesIn(remote'[u]) = ReadmesIn(remote[u])
                         /\ remote[u] \subseteq remote'[u]
    BY <1>1, <1>2, PutOnce DEF Written, TypeOK
  <2> QED BY <2>1, OrderStays
<1>3. CASE file.kind = "readme"
  <2>1. file = current /\ Pushing(at) /\ file \in Readmes
    BY <1>1, <1>3, ReadmeForm, AbsentAssumption DEF Shape, Pushing
  <2>2. ReadmesIn(remote'[at]) = {file} /\ \A u \in Ulids \ {at} : remote'[u] = remote[u]
    BY <1>1, <1>3, PutReadme DEF Written, TypeOK
  <2>3. InOrder'
    <3> SUFFICES ASSUME NEW u \in Ulids \ dead PROVE InOrder!(u)' BY DEF InOrder
    <3>1. CASE u = at
      BY <2>1, <2>2, <3>1 DEF InOrder, HasReadme, Pushing, Behind
    <3>2. CASE u # at
      BY <2>2, <3>2 DEF InOrder, HasReadme, Pushing
    <3> QED BY <3>1, <3>2
  <2>4. ASSUME NEW r \in ReadmesIn(local[at]), r \in remote[at] PROVE r \in remote'[at]
    <3>1. at \notin dead BY <1>1 DEF DeadGone, HasReadme
    <3>2. Behind(file, r) /\ Behind(r, file) BY <1>1, <2>1, <2>4, <3>1 DEF InOrder, ReadmesIn
    <3>3. r = file BY <1>1, <2>1, <3>2, ReadmesOf, BehindEachOther
    <3> QED BY <2>2, <3>3 DEF ReadmesIn
  <2> QED BY <2>2, <2>3, <2>4
<1> QED BY <1>2, <1>3

RemoteKeeps ==
    \A u \in Ulids : \A r \in ReadmesIn(local[u]) : r \in remote[u] => r \in remote'[u]

RecordFollows ==
    \A u \in Ulids \ dead :
        ReadmesIn(record'[u]) \subseteq ReadmesIn(record[u]) \union ReadmesIn(remote[u])

LEMMA RecordReadmeStays ==
    ASSUME RecordReadme, UNCHANGED <<local, dead>>, RemoteKeeps, RecordFollows
    PROVE  RecordReadme'
BY DEF RecordReadme, RemoteKeeps, RecordFollows, ReadmesIn

LEMMA DeleteInOrder ==
    ASSUME Base, InOrder, stage = "delete", remote' = [remote EXCEPT ![at] = {}],
           UNCHANGED <<local, dead, record>>, current' = Absent
    PROVE  InOrder' /\ RemoteKeeps
<1>1. at \in dead BY DEF Base, Shape, DeadGone
<1>2. \A u \in Ulids : u # at => remote'[u] = remote[u] BY DEF Base, TypeOK
<1>3. RemoteKeeps BY <1>1, <1>2 DEF RemoteKeeps, Base, DeadGone, HasReadme
<1>4. \A u \in Ulids \ dead : /\ remote'[u] = remote[u]
                              /\ record'[u] = record[u]
  BY <1>1, <1>2
<1> QED BY <1>3, <1>4, OrderStays

LEMMA OthersKeepOrder ==
    ASSUME Base, CompleteInv, MayLose = FALSE, InOrder, RecordReadme, [Next]_vars,
           ~\E u \in Ulids : Request(u)
    PROVE  InOrder' /\ RecordReadme' /\ RemoteKeeps
<1> USE DEF Base
<1>0. UNCHANGED <<local, dead>> BY OnlyRequestsChangeLocal
<1>1. ASSUME UNCHANGED remote, RecordFollows, current' = Absent \/ UNCHANGED <<at, current>>
      PROVE  InOrder' /\ RecordReadme' /\ RemoteKeeps
  <2>1. RemoteKeeps BY <1>1 DEF RemoteKeeps
  <2> QED BY <1>0, <1>1, <2>1, OrderStays, RecordReadmeStays DEF RecordFollows
<1>2. CASE AfterWrite \/ Tick \/ UNCHANGED vars
  <2>1. UNCHANGED <<remote, record, at, current>>
    BY <1>2 DEF AfterWrite, Enqueue, Forget, Tick, vars, jobVars
  <2> QED BY <1>1, <2>1 DEF RecordFollows
<1>3. CASE TakeJob \/ ListRecords \/ ListRemote \/ NextRecord \/ ListFirst \/ ListKeys
           \/ FolderDone \/ \E file \in left : Skip(file)
  <2>1. UNCHANGED <<remote, record>>
    BY <1>3
    DEF TakeJob, ListRecords, ListRemote, NextRecord, ListFirst, ListKeys, FolderDone, Skip
  <2>2. current' = Absent \/ UNCHANGED <<at, current>>
    BY <1>3
    DEF TakeJob, ListRecords, ListRemote, NextRecord, ListFirst, ListKeys, FolderDone, Skip,
        EndJob, EndFolder, Shape
  <2> QED BY <1>1, <2>1, <2>2 DEF RecordFollows
<1>4. CASE ReadReadme /\ HasReadme(local[at])
  <2>1. at \in Ulids /\ at \notin dead BY <1>4 DEF ReadReadme, Shape, DeadGone
  <2>2. current' \in ReadmesIn(local[at]) /\ UNCHANGED <<remote, record, at>>
    BY <1>4 DEF ReadReadme
  <2>3. \A r \in ReadmesIn(local[at]) : r = current' BY <2>1, <2>2 DEF OneReadme
  <2>4. InOrder'
    <3> SUFFICES ASSUME NEW u \in Ulids \ dead PROVE InOrder!(u)' BY <1>0 DEF InOrder
    <3>1. CASE u = at
      <4>1. \A q \in ReadmesIn(remote[u]) \union ReadmesIn(record[u]) : Behind(q, current')
        BY <2>2, <3>1 DEF InOrder
      <4>2. HasReadme(local[u]) BY <1>4, <3>1
      <4> QED BY <1>0, <2>2, <2>3, <3>1, <4>1, <4>2 DEF Behind, Pushing
    <3>2. CASE u # at BY <1>0, <2>2, <3>2 DEF InOrder, Pushing
    <3> QED BY <3>1, <3>2
  <2>5. RemoteKeeps /\ RecordFollows BY <2>2 DEF RemoteKeeps, RecordFollows
  <2> QED BY <1>0, <2>4, <2>5, RecordReadmeStays
<1>5. CASE \/ (ReadReadme /\ ~HasReadme(local[at])) \/ Refused \/ WorkerDies \/ PostgresLost
           \/ \E file \in left : FileGone(file)
  <2>1. UNCHANGED remote /\ (\A u \in Ulids : record'[u] \in {record[u], {}})
    BY <1>5 DEF ReadReadme, Refused, WorkerDies, PostgresLost, FileGone
  <2>2. current' = Absent
    BY <1>5, RaisesEmptyHanded DEF ReadReadme, Refused, WorkerDies, PostgresLost, FileGone, EndJob
  <2>3. RecordFollows BY <2>1 DEF RecordFollows, ReadmesIn
  <2> QED BY <1>1, <2>1, <2>2, <2>3
<1>6. CASE Note
  <2>1. at \in Ulids /\ hand \in remote[at]
    BY <1>6 DEF Note, Shape, CompleteInv, ListedHonest
  <2>2. record' = [record EXCEPT ![at] = Put(@, hand)] /\ UNCHANGED <<remote, at, current>>
    BY <1>6 DEF Note
  <2>3. RecordFollows BY <2>1, <2>2 DEF RecordFollows, Put, ReadmesIn, TypeOK
  <2> QED BY <1>1, <2>2, <2>3
<1>7. CASE ForgetPrefix
  <2>1. UNCHANGED remote /\ (\A u \in Ulids : record'[u] \in {record[u], {}})
    BY <1>7 DEF ForgetPrefix, TypeOK
  <2> QED BY <1>1, <1>7, <2>1 DEF ForgetPrefix, EndJob, RecordFollows, ReadmesIn
<1>8. ASSUME NEW file \in left, stage = "send", remote' = Written(file), UNCHANGED record,
             current' = Absent \/ UNCHANGED <<at, current>>
      PROVE  InOrder' /\ RecordReadme' /\ RemoteKeeps
  <2>1. InOrder' /\ RemoteKeeps BY <1>0, <1>8, SentInOrder DEF RemoteKeeps
  <2> QED BY <1>0, <1>8, <2>1, RecordReadmeStays DEF RecordFollows
<1>9. ASSUME NEW file \in left, Send(file) PROVE InOrder' /\ RecordReadme' /\ RemoteKeeps
  BY <1>8, <1>9 DEF Send
<1>10. ASSUME stage = "delete", remote' = [remote EXCEPT ![at] = {}], UNCHANGED record,
              current' = Absent
       PROVE  InOrder' /\ RecordReadme' /\ RemoteKeeps
  <2>1. InOrder' /\ RemoteKeeps BY <1>0, <1>10, DeleteInOrder
  <2> QED BY <1>0, <1>10, <2>1, RecordReadmeStays DEF RecordFollows
<1>11. CASE DeleteRemote BY <1>10, <1>11 DEF DeleteRemote, Shape
<1>12. CASE AnswerLost
  <2>1. current' = Absent /\ UNCHANGED record BY <1>12, RaisesEmptyHanded DEF AnswerLost
  <2> QED BY <1>8, <1>10, <1>12, <2>1 DEF AnswerLost
<1> QED
  BY <1>2, <1>3, <1>4, <1>5, <1>6, <1>7, <1>9, <1>11, <1>12 DEF Next, Work, RemoteLoss

-----------------------------------------------------------------------------
(* Owed pushes *)

LEMMA VersionIs ==
    ASSUME Base, NEW u \in Ulids, NEW r \in ReadmesIn(local[u])
    PROVE  Version(u) = r.of /\ r.of \in Nat
<1>1. HasReadme(local[u]) BY DEF HasReadme
<1>2. (CHOOSE q \in local[u] : q.kind = "readme") \in ReadmesIn(local[u]) BY DEF ReadmesIn
<1>3. (CHOOSE q \in local[u] : q.kind = "readme") = r BY <1>2 DEF Base, OneReadme
<1> QED BY <1>1, <1>3, ReadmesOf DEF Version, Base, Readmes

LEMMA LoseKeepsPushes ==
    ASSUME Base, NEW jobs, Lose(jobs), NEW u \in Ulids, NEW r \in ReadmesIn(local[u])
    PROVE  (lost[u].pushes >= r.of \/ \E j \in jobs : j.kind = "push" /\ j.of = u)
              => lost'[u].pushes >= r.of
<1>1. lost[u].pushes \in Nat BY DEF Base, TypeOK
<1> QED BY <1>1, VersionIs DEF Lose, Later


(* An owed push stays owed while nobody takes it from where it waits.      *)
LEMMA PushOwedStays ==
    ASSUME NEW u \in Ulids, NEW r, PushOwed(u, r), due \subseteq due', queue \subseteq queue',
           lost[u].pushes >= r.of => lost'[u].pushes >= r.of,
           WillSend(u, r) => WillSend(u, r)' \/ StandsIn(u)' \/ lost'[u].pushes >= r.of
    PROVE  PushOwed(u, r)'
BY DEF PushOwed, StandsIn

LEMMA RaisesKeepsPushes ==
    ASSUME Base, Raises, job # Absent, UNCHANGED due,
           NEW u \in Ulids, NEW r \in ReadmesIn(local[u]), PushOwed(u, r)
    PROVE  PushOwed(u, r)'
<1> USE DEF Base
<1>1. CASE job.kind = "reconcile"
  BY <1>1, PushOwedStays DEF Raises, WillSend
<1>2. CASE job.kind # "reconcile"
  <2>1. Retry /\ job \in RecordJobs BY <1>2 DEF Raises, TypeOK, Reconcile
  <2>2. queue \subseteq queue' BY <2>1 DEF Retry
  <2>3. lost[u].pushes >= r.of => lost'[u].pushes >= r.of BY <2>1, LoseKeepsPushes DEF Retry
  <2>4. ASSUME job.kind = "push", at = u
        PROVE  StandsIn(u)' \/ lost'[u].pushes >= r.of
    <3>1. job.of = u BY <2>4 DEF Shape
    <3>2. [job EXCEPT !.try = @ + 1].kind = "push" /\ [job EXCEPT !.try = @ + 1].of = u
      BY <2>1, <2>4, <3>1 DEF RecordJobs
    <3>3. CASE StandsIn(u) BY <2>2, <3>3 DEF StandsIn
    <3>4. CASE ~StandsIn(u) /\ [job EXCEPT !.try = @ + 1].try < MaxAttempts
      <4>1. [job EXCEPT !.try = @ + 1] \in queue' BY <2>1, <3>1, <3>4 DEF Retry
      <4> QED BY <3>2, <4>1 DEF StandsIn
    <3>5. CASE ~StandsIn(u) /\ ~([job EXCEPT !.try = @ + 1].try < MaxAttempts)
      <4>1. Lose({job}) BY <2>1, <3>1, <3>5 DEF Retry
      <4> QED BY <2>4, <3>1, <4>1, LoseKeepsPushes
    <3> QED BY <3>3, <3>4, <3>5
  <2>5. WillSend(u, r) => StandsIn(u)' \/ lost'[u].pushes >= r.of BY <2>4 DEF WillSend
  <2> QED BY <2>2, <2>3, <2>5, PushOwedStays
<1> QED BY <1>1, <1>2

LEMMA RequestKeepsPushes ==
    ASSUME Base, PushesOwed, NEW u \in Ulids, Request(u)
    PROVE  PushesOwed'
<1> USE DEF Base
<1>1. UNCHANGED <<remote, queue, lost, job, at, stage, current, left>>
  BY RequestsLeaveTheRest DEF jobVars
<1>2. due \subseteq due' BY RequestEffect DEF HardDelete
<1>3. \A v \in Ulids : \A r : PushOwed(v, r) => PushOwed(v, r)'
  BY <1>1, <1>2 DEF PushOwed, StandsIn, WillSend
<1>4. \A v \in Ulids : \A r \in ReadmesIn(local'[v]) : r \in local[v] \/ PushOwed(v, r)'
  <2>1. ASSUME NEW file \in Files, file.kind # "readme", Adds(u, file)
        PROVE  \A v \in Ulids : \A r \in ReadmesIn(local'[v]) : r \in local[v]
    BY <2>1 DEF Adds, TypeOK, ReadmesIn
  <2>2. ASSUME NEW names, NEW version \in Nat,
               local' = [local EXCEPT ![u] = Put(@, Readme(version, names))],
               due' = due \union {[kind |-> "push", of |-> u, version |-> version]}
        PROVE  \A v \in Ulids : \A r \in ReadmesIn(local'[v]) : r \in local[v] \/ PushOwed(v, r)'
    <3>1. \A v \in Ulids \ {u} : local'[v] = local[v] BY <2>2 DEF TypeOK
    <3>2. ReadmesIn(local'[u]) = {Readme(version, names)} /\ Readme(version, names).of = version
      BY <2>2, Kinds, PutReadme DEF TypeOK
    <3>3. [kind |-> "push", of |-> u, version |-> version] \in due' BY <2>2
    <3>4. \A r \in ReadmesIn(local'[u]) : \E d \in due' :
             d.kind = "push" /\ d.of = u /\ d.version >= r.of
      BY <3>2, <3>3
    <3> QED BY <3>1, <3>4 DEF PushOwed, ReadmesIn
  <2>3. CASE HardDelete(u) BY <2>3 DEF HardDelete, TypeOK, ReadmesIn
  <2> QED BY <2>1, <2>2, <2>3, RequestEffect
<1> QED BY <1>1, <1>3, <1>4 DEF PushesOwed, ReadmesIn

LEMMA OthersKeepPushes ==
    ASSUME Base, RecordReadme, PushesOwed, RemoteKeeps, [Next]_vars, MayLose = FALSE,
           ~\E u \in Ulids : Request(u)
    PROVE  PushesOwed'
<1> USE DEF Base
<1> SUFFICES ASSUME NEW u \in Ulids, NEW r \in ReadmesIn(local[u]), r \notin remote'[u],
                    PushOwed(u, r), r \notin remote[u]
             PROVE  PushOwed(u, r)'
  BY OnlyRequestsChangeLocal DEF PushesOwed, RemoteKeeps
<1>0. HasReadme(local[u]) /\ u \notin dead BY DEF HasReadme, DeadGone
<1>1. ASSUME NEW d \in due, Enqueue(d) PROVE PushOwed(u, r)'
  <2>1. due' = due \ {d} /\ queue \subseteq queue' /\ UNCHANGED <<lost, jobVars>>
    BY <1>1 DEF Enqueue
  <2>2. d.kind = "push" /\ d.of = u => StandsIn(u)'
    <3>1. CASE StandsIn(u) BY <2>1, <3>1 DEF StandsIn
    <3>2. CASE ~StandsIn(u) /\ d.kind = "push" /\ d.of = u
      <4>1. [kind |-> d.kind, of |-> d.of, try |-> 0] \in queue' BY <1>1, <3>2 DEF Enqueue
      <4> QED BY <3>2, <4>1 DEF StandsIn
    <3> QED BY <3>1, <3>2
  <2> QED BY <2>1, <2>2 DEF PushOwed, StandsIn, WillSend, jobVars
<1>2. ASSUME NEW d \in due, Forget(d) PROVE PushOwed(u, r)'
  <2>1. due' = due \ {d} /\ UNCHANGED <<queue, jobVars>> BY <1>2 DEF Forget
  <2>2. /\ d.of \in Ulids /\ d.version \in Nat /\ lost[u].pushes \in Nat
        /\ r.of \in Nat
    BY VersionIs DEF TypeOK, Dues
  <2>3. (lost[u].pushes >= r.of \/ (d.kind = "push" /\ d.of = u /\ d.version >= r.of))
           => lost'[u].pushes >= r.of
    <3>1. CASE d.kind = "push" /\ d.of = u
      <4>1. lost'[u].pushes = Later(lost[u].pushes, d.version)
        BY <1>2, <3>1 DEF Forget, LosesPush, TypeOK
      <4> QED BY <2>2, <4>1 DEF Later
    <3>2. CASE ~(d.kind = "push" /\ d.of = u)
      <4>1. lost'[u].pushes = lost[u].pushes
        BY <1>2, <2>2, <3>2 DEF Forget, LosesPush, LosesDelete, TypeOK
      <4> QED BY <3>2, <4>1
    <3> QED BY <3>1, <3>2
  <2> QED BY <2>1, <2>3 DEF PushOwed, StandsIn, WillSend, jobVars
<1>3. CASE Tick \/ UNCHANGED vars
  <2>1. queue \subseteq queue' /\ UNCHANGED <<due, lost, jobVars>> BY <1>3 DEF Tick, vars
  <2> QED BY <2>1, PushOwedStays DEF WillSend, jobVars
<1>4. CASE TakeJob
  <2>1. PICK j \in queue :
           /\ job' = j /\ queue' = queue \ {j} /\ at' = j.of
           /\ j.kind = "push" => stage' = "list"
    BY <1>4 DEF TakeJob
  <2>2. stage = "idle" /\ job = Absent /\ j # Absent /\ UNCHANGED <<due, lost>>
    BY <1>4, <2>1, AbsentAssumption DEF TakeJob, Shape, TypeOK
  <2>3. StandsIn(u) => StandsIn(u)' \/ WillSend(u, r)'
    BY <2>1, <2>2 DEF StandsIn, WillSend
  <2> QED BY <2>2, <2>3 DEF PushOwed, WillSend
<1>5. CASE ListRecords \/ ListRemote \/ NextRecord \/ DeleteRemote \/ ForgetPrefix
  <2>1. UNCHANGED <<due, queue, lost>>
    BY <1>5 DEF ListRecords, ListRemote, NextRecord, DeleteRemote, ForgetPrefix
  <2>2. ~WillSend(u, r)
    BY <1>5
    DEF ListRecords, ListRemote, NextRecord, DeleteRemote, ForgetPrefix, WillSend, Shape
  <2> QED BY <2>1, <2>2, PushOwedStays
<1>6. CASE ListFirst
  BY <1>0, <1>6, PushOwedStays DEF ListFirst, WillSend
<1>7. CASE ReadReadme
  <2>1. job # Absent /\ UNCHANGED due BY <1>7 DEF ReadReadme, Shape
  <2>2. CASE HasReadme(local[at])
    <3>1. /\ current' \in ReadmesIn(local[at]) /\ stage' = "keys"
          /\ UNCHANGED <<queue, lost, job, at>>
      BY <1>7, <2>2 DEF ReadReadme
    <3>2. at = u => current' = r BY <3>1 DEF OneReadme
    <3> QED BY <2>1, <3>1, <3>2, PushOwedStays DEF WillSend
  <2>3. CASE ~HasReadme(local[at]) BY <1>7, <2>1, <2>3, RaisesKeepsPushes DEF ReadReadme
  <2> QED BY <2>2, <2>3
<1>8. CASE ListKeys
  <2>1. r # Absent BY AbsentAssumption DEF ReadmesIn, TypeOK
  <2>2. WillSend(u, r) => WillSend(u, r)'
    BY <1>0, <1>8, <2>1 DEF ListKeys, WillSend
  <2> QED BY <1>8, <2>2, PushOwedStays DEF ListKeys
<1>9. ASSUME NEW file \in left, Skip(file) PROVE PushOwed(u, r)'
  <2>1. /\ UNCHANGED <<due, queue, lost, job, stage, at, current>>
        /\ left' = left \ {file} /\ stage = "send" /\ file \in record[at]
    BY <1>9 DEF Skip, Trusted
  <2>2. at = u => r # file BY <1>0, <2>1 DEF RecordReadme, ReadmesIn
  <2> QED BY <2>1, <2>2, PushOwedStays DEF WillSend
<1>10. ASSUME NEW file \in left, Send(file) PROVE PushOwed(u, r)'
  <2>1. /\ UNCHANGED <<due, queue, lost, job, at, current>>
        /\ left' = left \ {file} /\ stage = "send" /\ stage' = "note" /\ remote' = Written(file)
    BY <1>10 DEF Send
  <2>2. at = u => r # file
    <3>1. r.kind = "readme" BY DEF ReadmesIn
    <3> QED BY <2>1, <3>1 DEF Written, Put, TypeOK
  <2> QED BY <2>1, <2>2, PushOwedStays DEF WillSend
<1>11. CASE Note
  BY <1>11, PushOwedStays DEF Note, WillSend
<1>12. CASE FolderDone
  <2>1. ~WillSend(u, r) BY <1>12 DEF FolderDone, WillSend
  <2> QED BY <1>12, <2>1, PushOwedStays DEF FolderDone
<1>13. CASE Refused \/ AnswerLost \/ \E file \in left : FileGone(file)
  <2>1. Raises /\ job # Absent /\ UNCHANGED due
    BY <1>13 DEF Refused, AnswerLost, FileGone, Shape
  <2> QED BY <2>1, RaisesKeepsPushes
<1>14. CASE WorkerDies
  <2>1. Lose({job}) /\ UNCHANGED <<due, queue>> BY <1>14 DEF WorkerDies
  <2>2. WillSend(u, r) => job.kind = "push" /\ job.of = u BY DEF WillSend, Shape
  <2> QED BY <2>1, <2>2, LoseKeepsPushes, PushOwedStays
<1>15. CASE PostgresLost
  <2>1. Lose(queue \union ({job} \ {Absent})) /\ UNCHANGED due BY <1>15 DEF PostgresLost
  <2>2. WillSend(u, r) => job # Absent /\ job.kind = "push" /\ job.of = u BY DEF WillSend, Shape
  <2>3. StandsIn(u) \/ WillSend(u, r) \/ lost[u].pushes >= r.of => lost'[u].pushes >= r.of
    BY <2>1, <2>2, LoseKeepsPushes DEF StandsIn
  <2> QED BY <2>1, <2>3 DEF PushOwed
<1> QED
  BY <1>1, <1>2, <1>3, <1>4, <1>5, <1>6, <1>7, <1>8, <1>9, <1>10, <1>11, <1>12, <1>13, <1>14,
     <1>15
  DEF Next, Work, AfterWrite, RemoteLoss

(* A saved README the system of record lacks is being pushed or waits for  *)
(* it, unless its push was lost (after_write.run, enqueue_mirror_push, the *)
(* retry of tasks.py, _Push): neither the queueing lock nor a push that    *)
(* read an older README leaves one behind.                                 *)
THEOREM PushesStayOwed ==
    ASSUME MayLose = FALSE
    PROVE  Spec => []PushesOwed
<1>1. Init => PushInv
  BY DEF Init, NoJob, ReadmesIn, Pushing, PushInv, InOrder, HasReadme, RecordReadme, PushesOwed
<1>2. Base /\ CompleteInv /\ PushInv /\ [Next]_vars => PushInv'
  <2> SUFFICES ASSUME Base, CompleteInv, PushInv, [Next]_vars PROVE PushInv' OBVIOUS
  <2>1. CASE \E u \in Ulids : Request(u)
    BY <2>1, RequestKeepsOrder, RequestKeepsPushes DEF PushInv
  <2>2. CASE ~\E u \in Ulids : Request(u)
    BY <2>2, OthersKeepOrder, OthersKeepPushes DEF PushInv
  <2> QED BY <2>1, <2>2
<1>3. PushInv => PushesOwed BY DEF PushInv
<1> QED BY <1>1, <1>2, <1>3, BaseAlways, CompleteAlways, PTL DEF Spec
=============================================================================
