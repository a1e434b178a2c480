------------------------ MODULE ArticleSaves_proofs ------------------------
(***************************************************************************)
(* Proofs about ArticleSaves for every number of threads, files, requests  *)
(* and retries.                                                            *)
(***************************************************************************)
EXTENDS ArticleSaves, SequenceTheorems, TLAPS

USE RetriesAssumption, NoThreadAssumption, AbsentAssumption

LEMMA InitIInv == Init => IInv
<1> SUFFICES ASSUME Init PROVE IInv
  OBVIOUS
<1> USE DEF Init, NoFiles
<1>1. TypeOK
  BY DEF TypeOK, Steps
<1>2. MutualExclusion
  BY DEF MutualExclusion, Critical
<1>3. ReadStands /\ UnackedSavesSurvive /\ PostedIsExpected /\ FileInHand
  BY DEF ReadStands, UnackedSavesSurvive, PostedIsExpected, FileInHand
<1>4. HistoryComplete /\ NamedMediaStored /\ AckedSavesSurvive
  BY DEF HistoryComplete, NamedMediaStored, AckedSavesSurvive, Version
<1> QED BY <1>1, <1>2, <1>3, <1>4 DEF IInv

(* A request that begins has everything in hand that later steps rely on.  *)
LEMMA AsksBegin ==
    ASSUME IInv, NEW t \in Threads, Asks(t)
    PROVE  \E step \in {"place", "load", "lock"}, request \in Jobs :
               /\ Begin(t, step, request)
               /\ minted' \in BOOLEAN
               /\ request.op \notin Updates => request.posted = request.expected
               /\ step = "place" => request.op \in {"create", "attach"} /\ request.file \in Media
               /\ step = "load" => request.op \in Updates
               /\ request.op \in Updates => request.file \in Media
<1> USE DEF IInv, TypeOK, Request, Jobs, Ops, Updates, Articles, Readmes
<1>1. CASE Create(t)
  <2> DEFINE new(file, files) ==
          Request("create", file, 0, [text |-> t, media |-> files, deleted |-> FALSE])
  <2>1. new(Absent, {}) \in Jobs /\ \A f \in Media : new(f, {f}) \in Jobs
    OBVIOUS
  <2>2. \/ Begin(t, "lock", new(Absent, {}))
        \/ \E f \in Media : Begin(t, "place", new(f, {f}))
    BY <1>1 DEF Create
  <2>3. /\ new(Absent, {}).op = "create" /\ new(Absent, {}).posted = new(Absent, {}).expected
        /\ \A f \in Media : /\ new(f, {f}).op = "create" /\ new(f, {f}).file = f
                            /\ new(f, {f}).posted = new(f, {f}).expected
    OBVIOUS
  <2>4. minted' \in BOOLEAN
    BY <1>1 DEF Create
  <2> HIDE DEF new
  <2>5. CASE Begin(t, "lock", new(Absent, {}))
    BY <2>1, <2>3, <2>4, <2>5
  <2>6. ASSUME NEW f \in Media, Begin(t, "place", new(f, {f}))
        PROVE  /\ Begin(t, "place", new(f, {f})) /\ minted' \in BOOLEAN /\ new(f, {f}) \in Jobs
               /\ new(f, {f}).op = "create" /\ new(f, {f}).file = f
               /\ new(f, {f}).posted = new(f, {f}).expected
    BY <2>1, <2>3, <2>4, <2>6
  <2>7. ASSUME NEW f \in Media, Begin(t, "place", new(f, {f}))
        PROVE  \E step \in {"place", "load", "lock"}, request \in Jobs :
                   /\ Begin(t, step, request)
                   /\ minted' \in BOOLEAN
                   /\ request.op \notin Updates => request.posted = request.expected
                   /\ step = "place" => request.op \in {"create", "attach"} /\ request.file \in Media
                   /\ step = "load" => request.op \in Updates
                   /\ request.op \in Updates => request.file \in Media
    <3> WITNESS "place" \in {"place", "load", "lock"}
    <3>1. new(f, {f}) \in Jobs
      BY <2>1
    <3> WITNESS new(f, {f}) \in Jobs
    <3> QED BY <2>6, <2>7
  <2> QED BY <2>2, <2>5, <2>7
<1>2. CASE Edit(t)
  <2>1. PICK v \in Posted : Begin(t, "lock", Request("edit", Absent, v, [readme.article EXCEPT !.text = t]))
    BY <1>2 DEF Edit
  <2>2. v \in Nat
    BY DEF Posted, Version
  <2> QED BY <1>2, <2>1, <2>2 DEF Edit, Loads
<1>3. CASE Upload(t)
  BY <1>3 DEF Upload, Loads
<1>4. CASE Remove(t)
  BY <1>4 DEF Remove, Loads
<1>5. ASSUME NEW op \in {"mark", "restore", "purge"}, NEW marked, NEW deleted \in BOOLEAN,
             Confirmed(t, op, marked, deleted)
      PROVE  Begin(t, "lock", Request(op, Absent, Version, [readme.article EXCEPT !.deleted = deleted]))
             /\ Request(op, Absent, Version, [readme.article EXCEPT !.deleted = deleted]) \in Jobs
             /\ minted' \in BOOLEAN
  BY <1>5 DEF Confirmed, Loads, Version
<1>6. CASE Mark(t) \/ Restore(t) \/ Purge(t)
  BY <1>5, <1>6 DEF Mark, Restore, Purge
<1> QED BY <1>1, <1>2, <1>3, <1>4, <1>6 DEF Asks

(* Survival depends on the files only. *)
LEMMA BeginStep ==
    ASSUME IInv, NEW t \in Threads, Asks(t)
    PROVE  IInv'
<1>1. PICK step \in {"place", "load", "lock"}, request \in Jobs :
               /\ Begin(t, step, request)
               /\ minted' \in BOOLEAN
               /\ request.op \notin Updates => request.posted = request.expected
               /\ step = "place" => request.op \in {"create", "attach"} /\ request.file \in Media
               /\ step = "load" => request.op \in Updates
               /\ request.op \in Updates => request.file \in Media
  BY AsksBegin
<1> USE DEF IInv, Begin, fileVars, Critical
<1>2. TypeOK'
  BY <1>1 DEF TypeOK, Steps
<1>3. MutualExclusion'
  BY <1>1 DEF MutualExclusion, TypeOK
<1>4. ReadStands'
  BY <1>1 DEF ReadStands, TypeOK, Version
<1>5. HistoryComplete' /\ NamedMediaStored' /\ AckedSavesSurvive'
  BY <1>1 DEF HistoryComplete, NamedMediaStored, AckedSavesSurvive, Survives, Version
<1>6. UnackedSavesSurvive'
  BY <1>1 DEF UnackedSavesSurvive, Survives, Written, TypeOK
<1>7. PostedIsExpected' /\ FileInHand'
  BY <1>1 DEF PostedIsExpected, FileInHand, TypeOK
<1> QED BY <1>2, <1>3, <1>4, <1>5, <1>6, <1>7

LEMMA PlaceStep ==
    ASSUME IInv, NEW t \in Threads, Place(t)
    PROVE  IInv'
<1> USE DEF IInv, Place, Go, ghostVars, Critical
<1>2. TypeOK'
  BY DEF TypeOK, Steps, FileInHand
<1>3. MutualExclusion'
  BY DEF MutualExclusion, TypeOK
<1>4. ReadStands'
  BY DEF ReadStands, TypeOK, Version
<1>5. HistoryComplete' /\ NamedMediaStored' /\ AckedSavesSurvive'
  BY DEF HistoryComplete, NamedMediaStored, AckedSavesSurvive, Survives, Version
<1>6. UnackedSavesSurvive'
  BY DEF UnackedSavesSurvive, Survives, Written, TypeOK
<1>7. PostedIsExpected' /\ FileInHand'
  BY DEF PostedIsExpected, FileInHand, TypeOK, Updates
<1> QED BY <1>2, <1>3, <1>4, <1>5, <1>6, <1>7

LEMMA LoadStep ==
    ASSUME IInv, NEW t \in Threads, Load(t)
    PROVE  IInv'
<1> USE DEF IInv, Load, Go, End, fileVars, ghostVars, Critical
<1>1. Loads(FALSE) => job'[t] \in Jobs /\ job'[t].op = job[t].op /\ job'[t].file = job[t].file
  BY DEF TypeOK, Loads, Jobs, Readmes, Articles, Transformed, FileInHand
<1>2. TypeOK'
  BY <1>1 DEF TypeOK, Steps
<1>3. MutualExclusion'
  BY DEF MutualExclusion, TypeOK
<1>4. ReadStands'
  BY DEF ReadStands, TypeOK, Version
<1>5. HistoryComplete' /\ NamedMediaStored' /\ AckedSavesSurvive'
  BY DEF HistoryComplete, NamedMediaStored, AckedSavesSurvive, Survives, Version
<1>6. UnackedSavesSurvive'
  BY DEF UnackedSavesSurvive, Survives, Written, TypeOK
<1>7. PostedIsExpected' /\ FileInHand'
  BY <1>1 DEF PostedIsExpected, FileInHand, TypeOK
<1> QED BY <1>2, <1>3, <1>4, <1>5, <1>6, <1>7

LEMMA AcquireStep ==
    ASSUME IInv, NEW t \in Threads, Acquire(t)
    PROVE  IInv'
<1> USE DEF IInv, Acquire, Go, fileVars, ghostVars, Critical
<1>2. TypeOK'
  BY DEF TypeOK, Steps
<1>3. MutualExclusion'
  BY DEF MutualExclusion, TypeOK
<1>4. ReadStands'
  BY DEF ReadStands, TypeOK, Version
<1>5. HistoryComplete' /\ NamedMediaStored' /\ AckedSavesSurvive'
  BY DEF HistoryComplete, NamedMediaStored, AckedSavesSurvive, Survives, Version
<1>6. UnackedSavesSurvive'
  BY DEF UnackedSavesSurvive, Survives, Written, TypeOK
<1>7. PostedIsExpected' /\ FileInHand'
  BY DEF PostedIsExpected, FileInHand, TypeOK
<1> QED BY <1>2, <1>3, <1>4, <1>5, <1>6, <1>7

LEMMA ConflictStep ==
    ASSUME IInv, NEW t \in Threads, Conflict(t)
    PROVE  IInv'
<1> USE DEF IInv, Conflict, Go, End, Release, fileVars, ghostVars, Critical
<1>1. job[t].op \in Updates /\ job[t].tries < Retries =>
          job'[t] \in Jobs /\ job'[t].op = job[t].op /\ job'[t].file = job[t].file
  BY DEF TypeOK, Jobs
<1>2. TypeOK'
  BY <1>1 DEF TypeOK, Steps
<1>3. MutualExclusion'
  BY DEF MutualExclusion, TypeOK
<1>4. ReadStands'
  BY DEF ReadStands, TypeOK, Version
<1>5. HistoryComplete' /\ NamedMediaStored' /\ AckedSavesSurvive'
  BY DEF HistoryComplete, NamedMediaStored, AckedSavesSurvive, Survives, Version
<1>6. UnackedSavesSurvive'
  BY DEF UnackedSavesSurvive, Survives, Written, TypeOK
<1>7. PostedIsExpected' /\ FileInHand'
  BY <1>1 DEF PostedIsExpected, FileInHand, TypeOK
<1> QED BY <1>2, <1>3, <1>4, <1>5, <1>6, <1>7

LEMMA RefuseStep ==
    ASSUME IInv, NEW t \in Threads, Refuse(t)
    PROVE  IInv'
<1> USE DEF IInv, Refuse, AtExpected, Go, End, Release, fileVars, ghostVars, Critical
<1>2. TypeOK'
  BY DEF TypeOK, Steps
<1>3. MutualExclusion'
  BY DEF MutualExclusion, TypeOK
<1>4. ReadStands'
  BY DEF ReadStands, TypeOK, Version
<1>5. HistoryComplete' /\ NamedMediaStored' /\ AckedSavesSurvive'
  BY DEF HistoryComplete, NamedMediaStored, AckedSavesSurvive, Survives, Version
<1>6. UnackedSavesSurvive'
  BY DEF UnackedSavesSurvive, Survives, Written, TypeOK
<1>7. PostedIsExpected' /\ FileInHand'
  BY DEF PostedIsExpected, FileInHand, TypeOK
<1> QED BY <1>2, <1>3, <1>4, <1>5, <1>6, <1>7

LEMMA AdmitStep ==
    ASSUME IInv, NEW t \in Threads, Admit(t)
    PROVE  IInv'
<1> USE DEF IInv, Admit, AtExpected, Go, fileVars, ghostVars, Critical
<1>1. job'[t] \in Jobs /\ job'[t] = [job[t] EXCEPT !.current = readme]
  BY DEF TypeOK, Jobs
<1>2. TypeOK'
  BY <1>1 DEF TypeOK, Steps
<1>3. MutualExclusion'
  BY DEF MutualExclusion, TypeOK
<1>4. ReadStands'
  <2> SUFFICES ASSUME NEW u \in Threads, pc'[u] \in {"keep", "replace"}
               PROVE  /\ job[u].op # "purge" /\ job'[u].op # "purge" /\ job'[u].current = readme
                      /\ job'[u].expected = Version
                      /\ job'[u].article.media \subseteq stored
                      /\ pc'[u] = "keep" => readme # Absent
                      /\ pc'[u] = "replace" => readme = Absent \/ Version \in DOMAIN history
    BY DEF ReadStands, Version
  <2>1. CASE u = t
    BY <1>1, <2>1 DEF TypeOK, Jobs
  <2>2. CASE u # t
    BY <2>2 DEF ReadStands, TypeOK, MutualExclusion
  <2> QED BY <2>1, <2>2
<1>5. HistoryComplete' /\ NamedMediaStored' /\ AckedSavesSurvive'
  BY DEF HistoryComplete, NamedMediaStored, AckedSavesSurvive, Survives, Version
<1>6. UnackedSavesSurvive'
  BY DEF UnackedSavesSurvive, Survives, Written, TypeOK
<1>7. PostedIsExpected' /\ FileInHand'
  BY <1>1 DEF PostedIsExpected, FileInHand, TypeOK, Jobs
<1> QED BY <1>2, <1>3, <1>4, <1>5, <1>6, <1>7

(* The history file is new, or holds the same bytes already. *)
LEMMA KeepStep ==
    ASSUME IInv, NEW t \in Threads, Keep(t)
    PROVE  IInv'
<1> USE DEF IInv, Keep, Go, End, Release, ghostVars, Critical
<1>1. /\ readme \in Readmes /\ job[t].current = readme
      /\ Version = readme.version /\ Version \in Nat \ {0}
      /\ readme.version = job[t].current.version
  BY DEF ReadStands, TypeOK, Version, Readmes
<1>2. /\ readme' = readme /\ stored' = stored /\ Version' = Version
      /\ \A n \in DOMAIN history : n \in DOMAIN history' /\ history'[n] = history[n]
      /\ \A n \in DOMAIN history' : n \in DOMAIN history \/ (n = Version /\ history'[n] = readme)
  BY <1>1 DEF HistoryComplete, Version
<1>3. TypeOK'
  BY <1>1, <1>2 DEF TypeOK, Steps
<1>4. MutualExclusion'
  BY DEF MutualExclusion, TypeOK
<1>5. ReadStands'
  <2>1. Version \in DOMAIN history' \/ pc'[t] = "idle"
    BY <1>1 DEF TypeOK
  <2> QED BY <1>2, <2>1 DEF ReadStands, TypeOK, MutualExclusion
<1>6. HistoryComplete'
  BY <1>1, <1>2 DEF HistoryComplete
<1>7. NamedMediaStored' /\ AckedSavesSurvive'
  BY <1>1, <1>2 DEF NamedMediaStored, AckedSavesSurvive, Survives
<1>8. UnackedSavesSurvive'
  BY <1>2 DEF UnackedSavesSurvive, Survives, Written, TypeOK
<1>9. PostedIsExpected' /\ FileInHand'
  BY DEF PostedIsExpected, FileInHand, TypeOK
<1> QED BY <1>3, <1>4, <1>5, <1>6, <1>7, <1>8, <1>9

(* The commit: the README it replaces is in history, so whatever survived  *)
(* still does.                                                             *)
LEMMA ReplaceStep ==
    ASSUME IInv, NEW t \in Threads, Replace(t)
    PROVE  IInv'
<1> USE DEF IInv, Replace, Go, Release, ghostVars, Critical
<1>1. /\ job[t] \in Jobs /\ job[t].expected = Version /\ Version \in Nat
      /\ readme # Absent => Version \in DOMAIN history /\ history[Version] = readme
      /\ job[t].article.media \subseteq stored
  BY DEF TypeOK, ReadStands, Version, Readmes, HistoryComplete
<1>2. /\ readme' = Written(t) /\ Written(t) \in Readmes
      /\ readme' # Absent /\ Version' = Version + 1 /\ readme'.version = Version + 1
      /\ readme'.article = job[t].article
  BY <1>1 DEF Written, Readmes, Jobs, Version
<1>3. TypeOK'
  BY <1>2 DEF TypeOK, Steps
<1>4. MutualExclusion'
  BY DEF MutualExclusion, TypeOK
<1>5. ReadStands'
  BY DEF ReadStands, TypeOK, MutualExclusion
<1>6. HistoryComplete'
  <2>1. DOMAIN history \subseteq 1..Version
    BY <1>1 DEF HistoryComplete, TypeOK
  <2>2. \A n \in 1..(Version + 1) : n < Version + 1 => n \in DOMAIN history
    BY <1>1 DEF HistoryComplete, Version
  <2> QED BY <1>1, <1>2, <2>1, <2>2 DEF HistoryComplete
<1>7. NamedMediaStored'
  BY <1>1, <1>2 DEF NamedMediaStored
<1>8. \A saved \in Readmes : Survives(saved) => Survives(saved)'
  BY <1>1 DEF Survives, Version
<1>9. AckedSavesSurvive' /\ UnackedSavesSurvive'
  <2>1. \A u \in Threads : pc[u] = "reply" => Written(u) \in Readmes
    BY DEF TypeOK, Written, Readmes, Jobs
  <2>2. Written(t)' = Written(t) /\ Survives(Written(t))'
    BY <1>2 DEF Survives, Written
  <2> QED BY <1>8, <2>1, <2>2 DEF AckedSavesSurvive, UnackedSavesSurvive, TypeOK, Written
<1>10. PostedIsExpected' /\ FileInHand'
  BY DEF PostedIsExpected, FileInHand, TypeOK
<1> QED BY <1>3, <1>4, <1>5, <1>6, <1>7, <1>9, <1>10

LEMMA DeleteStep ==
    ASSUME IInv, NEW t \in Threads, Delete(t)
    PROVE  IInv'
<1> USE DEF IInv, Delete, Go, End, Release, Critical, NoFiles
<1>1. DOMAIN history' = {} /\ Version' = 0 /\ gone'
  BY DEF Version
<1>2. TypeOK'
  BY DEF TypeOK, Steps
<1>3. MutualExclusion'
  BY DEF MutualExclusion, TypeOK
<1>4. ReadStands'
  BY DEF ReadStands, TypeOK, MutualExclusion
<1>5. HistoryComplete' /\ NamedMediaStored'
  BY <1>1 DEF HistoryComplete, NamedMediaStored
<1>6. AckedSavesSurvive' /\ UnackedSavesSurvive'
  BY <1>1 DEF AckedSavesSurvive, UnackedSavesSurvive, Survives
<1>7. PostedIsExpected' /\ FileInHand'
  BY DEF PostedIsExpected, FileInHand, TypeOK
<1> QED BY <1>2, <1>3, <1>4, <1>5, <1>6, <1>7

LEMMA ReplyStep ==
    ASSUME IInv, NEW t \in Threads, Reply(t)
    PROVE  IInv'
<1> USE DEF IInv, Reply, Go, End, fileVars, Critical
<1>1. Written(t) \in Readmes /\ Survives(Written(t))
  BY DEF TypeOK, Written, Readmes, Jobs, UnackedSavesSurvive
<1>2. TypeOK'
  BY <1>1 DEF TypeOK, Steps
<1>3. MutualExclusion'
  BY DEF MutualExclusion, TypeOK
<1>4. ReadStands'
  BY DEF ReadStands, TypeOK, Version
<1>5. HistoryComplete' /\ NamedMediaStored'
  BY DEF HistoryComplete, NamedMediaStored, Version
<1>6. AckedSavesSurvive' /\ UnackedSavesSurvive'
  BY <1>1 DEF AckedSavesSurvive, UnackedSavesSurvive, Survives, Written, TypeOK
<1>7. PostedIsExpected' /\ FileInHand'
  BY DEF PostedIsExpected, FileInHand, TypeOK
<1> QED BY <1>2, <1>3, <1>4, <1>5, <1>6, <1>7

LEMMA FailStep ==
    ASSUME IInv, NEW t \in Threads, Fail(t)
    PROVE  IInv'
<1> USE DEF IInv, Fail, Go, End, fileVars, ghostVars, Critical
<1>2. TypeOK'
  BY DEF TypeOK, Steps
<1>3. MutualExclusion'
  BY DEF MutualExclusion, TypeOK
<1>4. ReadStands'
  BY DEF ReadStands, TypeOK, Version
<1>5. HistoryComplete' /\ NamedMediaStored' /\ AckedSavesSurvive'
  BY DEF HistoryComplete, NamedMediaStored, AckedSavesSurvive, Survives, Version
<1>6. UnackedSavesSurvive'
  BY DEF UnackedSavesSurvive, Survives, Written, TypeOK
<1>7. PostedIsExpected' /\ FileInHand'
  BY DEF PostedIsExpected, FileInHand, TypeOK
<1> QED BY <1>2, <1>3, <1>4, <1>5, <1>6, <1>7

LEMMA CrashStep ==
    ASSUME IInv, Crash
    PROVE  IInv'
<1> USE DEF IInv, Crash, fileVars, ghostVars, Critical
<1>2. TypeOK'
  BY DEF TypeOK, Steps
<1>3. MutualExclusion' /\ ReadStands' /\ UnackedSavesSurvive' /\ PostedIsExpected' /\ FileInHand'
  BY DEF MutualExclusion, ReadStands, UnackedSavesSurvive, PostedIsExpected, FileInHand
<1>4. HistoryComplete' /\ NamedMediaStored' /\ AckedSavesSurvive'
  BY DEF HistoryComplete, NamedMediaStored, AckedSavesSurvive, Survives, Version
<1> QED BY <1>2, <1>3, <1>4

LEMMA NextIInv == IInv /\ [Next]_vars => IInv'
<1> SUFFICES ASSUME IInv, [Next]_vars PROVE IInv'
  OBVIOUS
<1>1. CASE Crash
  BY <1>1, CrashStep
<1>2. ASSUME NEW t \in Threads, Asks(t) \/ Works(t) \/ Fail(t)
      PROVE  IInv'
  BY <1>2, BeginStep, PlaceStep, LoadStep, AcquireStep, ConflictStep, RefuseStep, AdmitStep,
     KeepStep, ReplaceStep, DeleteStep, ReplyStep, FailStep DEF Works
<1>3. CASE UNCHANGED vars
  BY <1>3 DEF vars, IInv, TypeOK, MutualExclusion, ReadStands, HistoryComplete, NamedMediaStored,
     AckedSavesSurvive, UnackedSavesSurvive, PostedIsExpected, FileInHand, Survives, Written,
     Version, Critical
<1> QED BY <1>1, <1>2, <1>3 DEF Next

(* The inductive invariant holds in every state the archive can reach.     *)
THEOREM Invariance == Spec => []IInv
BY InitIInv, NextIInv, PTL DEF Spec

(* Every variable keeps its type, for every number of threads and requests. *)
THEOREM TypeCorrect == Spec => []TypeOK
<1>1. IInv => TypeOK
  BY DEF IInv
<1> QED BY Invariance, <1>1, PTL

(* No version is ever missing from history, whatever crashes or fails.     *)
THEOREM HistoryIsComplete == Spec => []HistoryComplete
<1>1. IInv => HistoryComplete
  BY DEF IInv
<1> QED BY Invariance, <1>1, PTL

(* No version ever names a file the folder lacks, with forms that post no  *)
(* version included.                                                       *)
THEOREM MediaIsStored == Spec => []NamedMediaStored
<1>1. IInv => NamedMediaStored
  BY DEF IInv
<1> QED BY Invariance, <1>1, PTL

(* What a caller was told stands.                                          *)
THEOREM AckedSavesStand == Spec => []AckedSavesSurvive
<1>1. IInv => AckedSavesSurvive
  BY DEF IInv
<1> QED BY Invariance, <1>1, PTL

(* No form, confirmed delete or restore ever replaces a version its page   *)
(* did not show.                                                           *)
THEOREM NoUpdateIsLost == Spec => NoLostUpdate
<1> DEFINE Kept == \A t \in Threads :
          /\ readme' # readme
          /\ lock = t /\ job[t].op \notin Updates
          => Version = job[t].posted
<1>1. IInv /\ [Next]_vars => [Kept]_vars
  <2> SUFFICES ASSUME IInv, Next, NEW t \in Threads,
                      readme' # readme, lock = t, job[t].op \notin Updates
               PROVE  Version = job[t].posted
    OBVIOUS
  <2>1. pc[t] \in Critical
    BY DEF IInv, MutualExclusion
  <2>2. \E u \in Threads : Replace(u) \/ Delete(u)
    BY DEF Next, Crash, Asks, Create, Edit, Upload, Remove, Mark, Restore, Purge, Confirmed,
       Begin, Works, Place, Load, Acquire, Conflict, Refuse, Admit, Keep, Reply, Fail, fileVars
  <2>3. PICK u \in Threads : Replace(u) \/ Delete(u)
    BY <2>2
  <2>4. u = t
    BY <2>3 DEF IInv, MutualExclusion, Critical, Replace, Delete
  <2>5. job[t].expected = Version
    BY <2>3, <2>4 DEF IInv, ReadStands, Replace, Delete
  <2> QED BY <2>1, <2>5 DEF IInv, PostedIsExpected, Critical
<1> QED BY Invariance, <1>1, PTL DEF Spec, NoLostUpdate

-----------------------------------------------------------------------------
(***************************************************************************)
(* ArticleSaves implements ArticleLog: for every number of threads, files, *)
(* requests and retries, what the save protocol does to the folder is one  *)
(* whole operation at a time on the log of versions.                       *)
(***************************************************************************)
(* The folder read as a log, one version longer. *)
LEMMA OneLonger ==
    ASSUME NEW S, NEW m \in Nat, NEW F \in [1..m -> S], NEW e \in S
    PROVE  [n \in 1..(m + 1) |-> IF n = m + 1 THEN e ELSE F[n]] = Append(F, e)
<1> DEFINE G == [n \in 1..(m + 1) |-> IF n = m + 1 THEN e ELSE F[n]]
<1>1. F \in Seq(S) /\ Len(F) = m
  OBVIOUS
<1>2. G \in Seq(S) /\ Len(G) = m + 1
  <2>1. G \in [1..(m + 1) -> S]
    OBVIOUS
  <2> QED BY <2>1
<1>3. \A n \in 1..(m + 1) : Append(F, e)[n] = G[n]
  BY <1>1
<1>4. Append(F, e) \in Seq(S) /\ Len(Append(F, e)) = m + 1
  BY <1>1, AppendProperties
<1>5. \A s, r \in Seq(S) : Len(s) = Len(r) /\ (\A i \in 1..Len(s) : s[i] = r[i]) => s = r
  BY SeqEqual
<1> HIDE DEF G
<1>6. G = Append(F, e)
  BY <1>1, <1>2, <1>3, <1>4, <1>5
<1> QED BY <1>6 DEF G

(* What a request prepares before the lock. *)
LEMMA AsksRInv ==
    ASSUME RInv, ~GarbageForms, NEW t \in Threads, Asks(t)
    PROVE  CreatesAlone' /\ PreparedFollows'
<1> USE DEF RInv, IInv, TypeOK, Begin, fileVars, Critical, Steps
<1> DEFINE Right(u) ==
      /\ readme # Absent \/ gone
      /\ pc'[u] \in {"lock"} \union Critical =>
            /\ job'[u].expected > 0
            /\ readme # Absent => job'[u].expected <= Version
            /\ readme # Absent /\ job'[u].expected = Version =>
                  /\ job'[u].op = "purge" => readme.article.deleted
                  /\ job'[u].op # "purge" => Log!Follows(Entry(readme), Entry(Written(u)'))
<1>1. CASE Create(t)
  <2>1. /\ readme = Absent /\ ~gone /\ \A u \in Threads : pc[u] = "idle"
        /\ minted' = TRUE /\ readme' = readme /\ gone' = gone
    BY <1>1 DEF Create, CreatesAlone
  <2>2. \A u \in Threads \ {t} : pc'[u] = "idle"
    BY <1>1, <2>1 DEF Create
  <2>3. /\ job'[t].op = "create" /\ job'[t].expected = 0
        /\ job'[t].article.text = t /\ ~job'[t].article.deleted
    BY <1>1 DEF Create, Request
  <2>4. Log!Creates(Entry(Written(t)'))
    BY <2>3 DEF Log!Creates, Entry, Written
  <2>5. CreatesAlone'
    BY <2>1, <2>2, <2>3, <2>4 DEF CreatesAlone, Entry
  <2>6. PreparedFollows'
    BY <2>2, <2>3 DEF PreparedFollows
  <2> QED BY <2>5, <2>6
<1>2. ASSUME readme # Absent, readme' = readme, gone' = gone, minted' = minted,
             \A u \in Threads \ {t} : pc'[u] = pc[u] /\ job'[u] = job[u],
             job'[t].op # "create", Right(t)
      PROVE  CreatesAlone' /\ PreparedFollows'
  <2>1. minted /\ ~gone /\ \A u \in Threads : pc[u] \notin {"idle", "reply"} => job[u].op # "create"
    BY <1>2 DEF CreatesAlone
  <2>2. CreatesAlone'
    BY <1>2, <2>1 DEF CreatesAlone
  <2>3. PreparedFollows'
    <3> SUFFICES ASSUME NEW u \in Threads PROVE Right(u) \/ pc'[u] \in {"idle", "reply"}
      BY <1>2 DEF PreparedFollows, Version, Entry
    <3>1. CASE u = t
      BY <1>2, <3>1
    <3>2. CASE u # t
      BY <1>2, <2>1, <3>2 DEF PreparedFollows, Written
    <3> QED BY <3>1, <3>2
  <2> QED BY <2>2, <2>3
<1>3. CASE Edit(t)
  <2>1. PICK v \in Posted : Begin(t, "lock", Request("edit", Absent, v, [readme.article EXCEPT !.text = t]))
    BY <1>3 DEF Edit
  <2>2. v \in 1..Version
    BY DEF Posted
  <2>3. readme \in Readmes /\ ~readme.article.deleted /\ Version = readme.version
    BY <1>3 DEF Edit, Loads, Version
  <2>4. /\ job'[t].op = "edit" /\ job'[t].expected = v
        /\ job'[t].article = [readme.article EXCEPT !.text = t]
    BY <2>1 DEF Request
  <2>5. Log!Follows(Entry(readme), Entry(Written(t)'))
    BY <2>3, <2>4 DEF Log!Follows, Log!Rewrites, Entry, Written, Readmes, Articles
  <2>6. Right(t)
    <3>1. v \in Nat /\ v > 0 /\ v <= Version
      BY <2>2, <2>3 DEF Readmes
    <3>2. readme # Absent
      BY <2>3
    <3> QED BY <2>4, <2>5, <3>1, <3>2
  <2> HIDE DEF Right
  <2>7. /\ readme # Absent /\ minted' = minted /\ readme' = readme /\ gone' = gone
        /\ \A u \in Threads \ {t} : pc'[u] = pc[u] /\ job'[u] = job[u]
    BY <1>3, <2>1 DEF Edit, Loads
  <2> QED BY <1>2, <2>4, <2>6, <2>7
<1>4. CASE Upload(t) \/ Remove(t)
  <2>1. /\ readme # Absent /\ minted' = minted /\ readme' = readme /\ gone' = gone
        /\ job'[t].op \in Updates /\ pc'[t] \in {"place", "load"}
        /\ \A u \in Threads \ {t} : pc'[u] = pc[u] /\ job'[u] = job[u]
    BY <1>4 DEF Upload, Remove, Loads, Request, Updates
  <2>2. Right(t)
    BY <2>1
  <2>3. job'[t].op # "create"
    BY <2>1 DEF Updates
  <2> HIDE DEF Right
  <2> QED BY <1>2, <2>1, <2>2, <2>3
<1>5. ASSUME NEW op \in {"mark", "restore", "purge"}, NEW marked \in BOOLEAN, NEW deleted \in BOOLEAN,
             Confirmed(t, op, marked, deleted), op = "purge" => marked,
             op # "purge" => deleted = ~marked
      PROVE  CreatesAlone' /\ PreparedFollows'
  <2>1. readme \in Readmes /\ readme.article.deleted = marked /\ Version = readme.version
    BY <1>5 DEF Confirmed, Loads, Version
  <2>2. /\ job'[t].op = op /\ job'[t].expected = Version
        /\ job'[t].article = [readme.article EXCEPT !.deleted = deleted]
        /\ readme' = readme /\ gone' = gone /\ minted' = minted
        /\ \A u \in Threads \ {t} : pc'[u] = pc[u] /\ job'[u] = job[u]
    BY <1>5 DEF Confirmed, Request
  <2>3. op # "purge" => Log!Follows(Entry(readme), Entry(Written(t)'))
    BY <1>5, <2>1, <2>2 DEF Log!Follows, Log!Flips, Entry, Written, Readmes, Articles
  <2>4. Right(t)
    <3>1. Version \in Nat /\ Version > 0
      BY <2>1 DEF Readmes
    <3>2. readme # Absent
      BY <2>1
    <3> QED BY <1>5, <2>1, <2>2, <2>3, <3>1, <3>2
  <2> HIDE DEF Right
  <2>5. job'[t].op # "create" /\ readme # Absent
    BY <1>5, <2>2 DEF Confirmed, Loads
  <2> QED BY <1>2, <2>1, <2>2, <2>4, <2>5
<1>6. CASE Mark(t) \/ Restore(t) \/ Purge(t)
  BY <1>5, <1>6 DEF Mark, Restore, Purge
<1> QED BY <1>1, <1>3, <1>4, <1>6 DEF Asks

(* Before the lock: placing a file, loading. *)
LEMMA PlaceLoadRInv ==
    ASSUME RInv, NEW t \in Threads, Place(t) \/ Load(t)
    PROVE  CreatesAlone' /\ PreparedFollows'
<1> USE DEF RInv, IInv, TypeOK, Critical, Steps, Go
<1>1. CASE Place(t)
  <2>1. /\ readme' = readme /\ gone' = gone /\ minted' = minted /\ job' = job
        /\ \A u \in Threads \ {t} : pc'[u] = pc[u]
        /\ pc[t] = "place" /\ pc'[t] \in {"load", "lock"}
        /\ pc'[t] = "lock" => job[t].op = "create"
    BY <1>1 DEF Place, ghostVars
  <2>2. CreatesAlone'
    BY <2>1 DEF CreatesAlone, Written, Entry
  <2>3. PreparedFollows'
    BY <2>1 DEF PreparedFollows, Written, Entry, Version
  <2> QED BY <2>2, <2>3
<1>2. CASE Load(t)
  <2>1. /\ readme' = readme /\ gone' = gone /\ minted' = minted
        /\ pc[t] = "load" /\ job[t].op \in Updates /\ job[t] \in Jobs
        /\ \A u \in Threads \ {t} : pc'[u] = pc[u] /\ job'[u] = job[u]
    BY <1>2 DEF Load, fileVars, ghostVars, End, FileInHand
  <2>2. CASE Loads(FALSE)
    <3>1. /\ readme \in Readmes /\ ~readme.article.deleted /\ Version = readme.version
          /\ pc'[t] = "lock" /\ job'[t].op = job[t].op
          /\ job'[t].article = [readme.article EXCEPT !.media = Transformed(job[t], readme.article.media)]
          /\ job'[t].expected = Version
      BY <1>2, <2>1, <2>2 DEF Load, Loads, Version, Jobs
    <3>2. job[t].file \in Media /\ job[t].op \in {"attach", "detach"}
      BY <2>1 DEF FileInHand, Updates
    <3>3. /\ Entry(Written(t)').media = Transformed(job[t], readme.article.media)
          /\ ~Entry(Written(t)').deleted
          /\ Entry(Written(t)').text = Entry(readme).text
          /\ Entry(readme).media = readme.article.media
          /\ ~Entry(readme).deleted
      BY <3>1 DEF Entry, Written, Readmes, Articles
    <3>4. Log!Follows(Entry(readme), Entry(Written(t)'))
      BY <3>2, <3>3 DEF Log!Follows, Log!Attaches, Log!Detaches, Transformed
    <3>5. Version \in Nat /\ Version > 0
      BY <3>1 DEF Readmes
    <3>6. CreatesAlone'
      BY <2>1, <3>1, <3>2 DEF CreatesAlone
    <3>7. PreparedFollows'
      <4> SUFFICES ASSUME NEW u \in Threads, pc'[u] \notin {"idle", "reply"}, job'[u].op # "create"
                   PROVE  /\ readme # Absent \/ gone
                          /\ pc'[u] \in {"lock"} \union Critical =>
                                /\ job'[u].expected > 0
                                /\ readme # Absent => job'[u].expected <= Version
                                /\ readme # Absent /\ job'[u].expected = Version =>
                                      /\ job'[u].op = "purge" => readme.article.deleted
                                      /\ job'[u].op # "purge" =>
                                            Log!Follows(Entry(readme), Entry(Written(u)'))
        BY <2>1 DEF PreparedFollows, Version, Entry
      <4>1. CASE u = t
        BY <3>1, <3>2, <3>4, <3>5, <4>1
      <4>2. CASE u # t
        BY <2>1, <3>1, <4>2 DEF PreparedFollows, Written
      <4> QED BY <4>1, <4>2
    <3> QED BY <3>6, <3>7
  <2>3. CASE ~Loads(FALSE)
    <3>1. pc'[t] = "idle"
      BY <1>2, <2>3 DEF Load, End
    <3>2. CreatesAlone'
      BY <2>1, <3>1 DEF CreatesAlone, Written, Entry
    <3>3. PreparedFollows'
      BY <2>1, <3>1 DEF PreparedFollows, Written, Entry, Version
    <3> QED BY <3>2, <3>3
  <2> QED BY <2>2, <2>3
<1> QED BY <1>1, <1>2

(* Steps that write nothing under the lock, and the ends of requests. *)
LEMMA QuietRInv ==
    ASSUME RInv, NEW t \in Threads,
           Acquire(t) \/ Conflict(t) \/ Refuse(t) \/ Admit(t) \/ Keep(t) \/ Reply(t) \/ Fail(t)
    PROVE  CreatesAlone' /\ PreparedFollows'
<1> USE DEF RInv, IInv, TypeOK, Critical, Steps, Go, End
<1>1. /\ readme' = readme /\ gone' = gone /\ minted' = minted
      /\ \A u \in Threads \ {t} : pc'[u] = pc[u] /\ job'[u] = job[u]
      /\ pc[t] # "idle"
  BY DEF Acquire, Conflict, Refuse, Admit, Keep, Reply, Fail, AtExpected, fileVars, ghostVars
<1>2. \/ pc'[t] = "idle"
      \/ /\ pc'[t] = "load" /\ pc[t] = "check" /\ job[t].op \in Updates /\ job'[t].op = job[t].op
      \/ /\ pc'[t] \in Critical /\ pc[t] \in {"lock"} \union Critical
         /\ job'[t].op = job[t].op /\ job'[t].expected = job[t].expected
         /\ job'[t].article = job[t].article
  BY DEF Acquire, Conflict, Refuse, Admit, Keep, Reply, Fail, AtExpected, Jobs
<1>3. CreatesAlone'
  BY <1>1, <1>2 DEF CreatesAlone, Written, Entry, Updates
<1>4. PreparedFollows'
  <2> SUFFICES ASSUME NEW u \in Threads, pc'[u] \notin {"idle", "reply"}, job'[u].op # "create"
               PROVE  /\ readme # Absent \/ gone
                      /\ pc'[u] \in {"lock"} \union Critical =>
                            /\ job'[u].expected > 0
                            /\ readme # Absent => job'[u].expected <= Version
                            /\ readme # Absent /\ job'[u].expected = Version =>
                                  /\ job'[u].op = "purge" => readme.article.deleted
                                  /\ job'[u].op # "purge" =>
                                        Log!Follows(Entry(readme), Entry(Written(u)'))
    BY <1>1 DEF PreparedFollows, Version, Entry
  <2>1. CASE u = t /\ pc'[t] = "load"
    BY <1>1, <1>2, <2>1 DEF PreparedFollows
  <2>2. CASE u = t /\ pc'[t] \in Critical
    <3>1. Written(t)' = Written(t) /\ pc[t] \in {"lock"} \union Critical /\ job[t].op # "create"
      BY <1>2, <2>2 DEF Written
    <3> QED BY <1>1, <1>2, <2>2, <3>1 DEF PreparedFollows
  <2>3. CASE u # t
    BY <1>1, <2>3 DEF PreparedFollows, Written
  <2> QED BY <1>2, <2>1, <2>2, <2>3
<1> QED BY <1>3, <1>4

LEMMA CrashRInv ==
    ASSUME RInv, Crash
    PROVE  CreatesAlone' /\ PreparedFollows'
BY DEF RInv, Crash, fileVars, ghostVars, CreatesAlone, PreparedFollows

(* What the two steps that change the README find there. *)
LEMMA CommitFinds ==
    ASSUME RInv, NEW t \in Threads, Replace(t)
    PROVE  /\ job[t].expected = Version /\ job[t] \in Jobs /\ readme' = Written(t) /\ gone' = gone
           /\ \/ /\ job[t].op = "create" /\ readme = Absent /\ ~gone
                 /\ Log!Creates(Entry(Written(t)))
              \/ /\ job[t].op # "create" /\ readme \in Readmes /\ ~gone
                 /\ Log!Follows(Entry(readme), Entry(Written(t)))
<1> USE DEF RInv, IInv, TypeOK, Replace, ghostVars, Critical
<1>1. /\ job[t].expected = Version /\ job[t] \in Jobs /\ readme' = Written(t) /\ gone' = gone
      /\ job[t].op # "purge"
  BY DEF ReadStands
<1>2. CASE job[t].op = "create"
  BY <1>1, <1>2 DEF CreatesAlone
<1>3. CASE job[t].op # "create"
  <2>1. readme # Absent
    BY <1>1, <1>3 DEF PreparedFollows, Version
  <2> QED BY <1>1, <1>3, <2>1 DEF PreparedFollows, CreatesAlone
<1> QED BY <1>1, <1>2, <1>3

LEMMA ReplaceRInv ==
    ASSUME RInv, NEW t \in Threads, Replace(t)
    PROVE  CreatesAlone' /\ PreparedFollows'
<1> USE DEF RInv, IInv, TypeOK, Critical, Steps
<1>1. /\ pc'[t] = "reply" /\ minted' = minted /\ gone' = gone /\ ~gone /\ job' = job
      /\ pc[t] = "replace"
      /\ \A u \in Threads \ {t} : pc'[u] = pc[u]
  BY CommitFinds DEF Replace, Go, ghostVars
<1>2. /\ readme' # Absent /\ Version' = Version + 1 /\ Version \in Nat
  <2>1. /\ readme' = Written(t) /\ job[t] \in Jobs /\ job[t].expected = Version
    BY CommitFinds
  <2>2. readme' \in Readmes /\ readme'.version = Version + 1 /\ Version \in Nat
    BY <2>1 DEF Written, Readmes, Jobs
  <2>3. readme' # Absent
    BY <2>2
  <2> QED BY <2>2, <2>3 DEF Version
<1>3. \A u \in Threads \ {t} : pc[u] \notin {"idle", "reply"} =>
          /\ job[u].op # "create"
          /\ readme # Absent
  BY <1>1, CommitFinds DEF CreatesAlone
<1>4. CreatesAlone'
  BY <1>1, <1>2, <1>3 DEF CreatesAlone
<1>5. PreparedFollows'
  <2>1. ASSUME NEW u \in Threads \ {t}, pc[u] \in {"lock"} \union Critical
        PROVE  job[u].expected > 0 /\ job[u].expected < Version'
    <3>1. job[u].op # "create" /\ readme # Absent
      BY <1>3, <2>1
    <3>2. job[u] \in Jobs
      BY <2>1
    <3>3. job[u].expected > 0 /\ job[u].expected <= Version
      BY <2>1, <3>1 DEF PreparedFollows
    <3> QED BY <1>2, <3>2, <3>3 DEF Jobs
  <2>2. ASSUME NEW u \in Threads, pc'[u] \notin {"idle", "reply"}
        PROVE  u # t /\ pc'[u] = pc[u] /\ job'[u] = job[u]
    BY <1>1, <2>2
  <2>3. ASSUME NEW u \in Threads \ {t}, pc[u] \in {"lock"} \union Critical
        PROVE  job[u].expected \in Nat /\ job[u].expected < Version' /\ job[u].expected > 0
    BY <2>1, <2>3 DEF Jobs
  <2>4. Version' \in Nat
    BY <1>2
  <2> QED BY <1>2, <2>2, <2>3, <2>4 DEF PreparedFollows
<1> QED BY <1>4, <1>5

LEMMA DeleteRInv ==
    ASSUME RInv, NEW t \in Threads, Delete(t)
    PROVE  CreatesAlone' /\ PreparedFollows'
<1> USE DEF RInv, IInv, TypeOK, Critical, Steps
<1>1. /\ pc'[t] = "idle" /\ minted' = minted /\ gone' /\ readme' = Absent
      /\ job[t].op = "purge" /\ pc[t] = "check"
      /\ \A u \in Threads \ {t} : pc'[u] = pc[u] /\ job'[u] = job[u]
  BY DEF Delete, Go, End
<1>2. readme # Absent \/ gone
  BY <1>1 DEF PreparedFollows
<1>3. CreatesAlone'
  BY <1>1, <1>2 DEF CreatesAlone
<1>4. PreparedFollows'
  BY <1>1 DEF PreparedFollows
<1> QED BY <1>3, <1>4

LEMMA NextRInv == ~GarbageForms => (RInv /\ [Next]_vars => RInv')
<1> SUFFICES ASSUME ~GarbageForms, RInv, [Next]_vars PROVE RInv'
  OBVIOUS
<1>1. IInv'
  BY NextIInv DEF RInv
<1>2. ASSUME Crash PROVE CreatesAlone' /\ PreparedFollows'
  BY <1>2, CrashRInv
<1>3. ASSUME NEW t \in Threads, Asks(t) \/ Works(t) \/ Fail(t)
      PROVE  CreatesAlone' /\ PreparedFollows'
  BY <1>3, AsksRInv, PlaceLoadRInv, QuietRInv, ReplaceRInv, DeleteRInv DEF Works
<1>4. ASSUME UNCHANGED vars PROVE CreatesAlone' /\ PreparedFollows'
  <2>1. /\ readme' = readme /\ gone' = gone /\ minted' = minted
        /\ pc' = pc /\ job' = job
    BY <1>4 DEF vars
  <2>2. \A u \in Threads : Entry(Written(u))' = Entry(Written(u)) /\ Written(u)' = Written(u)
    BY <2>1 DEF Entry, Written
  <2>3. Version' = Version /\ Entry(readme)' = Entry(readme)
    BY <2>1 DEF Version, Entry
  <2>4. CreatesAlone'
    BY <2>1, <2>2 DEF CreatesAlone, RInv
  <2>5. PreparedFollows'
    BY <2>1, <2>2, <2>3 DEF PreparedFollows, RInv
  <2> QED BY <2>4, <2>5
<1> QED BY <1>1, <1>2, <1>3, <1>4 DEF Next, RInv

-----------------------------------------------------------------------------
(* Every step, read on the log *)

LEMMA InitLog == Init => Log!LogInit
<1> SUFFICES ASSUME Init PROVE LogOnDisk = <<>> /\ gone = FALSE
  BY DEF Log!LogInit
<1>1. Version = 0
  BY DEF Init, Version
<1> QED BY <1>1, EmptySeq DEF Init, LogOnDisk

LEMMA EntriesTyped == \A bytes \in Readmes : Entry(bytes) \in Log!Entries
BY DEF Readmes, Articles, Entry, Log!Entries

LEMMA LogTyped ==
    ASSUME IInv
    PROVE  /\ Version \in Nat
           /\ LogOnDisk \in [1..Version -> Log!Entries]
           /\ LogOnDisk \in Seq(Log!Entries) /\ Len(LogOnDisk) = Version
<1>1. Version \in Nat
  BY DEF IInv, TypeOK, Version, Readmes
<1>2. \A n \in 1..Version : (IF n = Version THEN readme ELSE history[n]) \in Readmes
  BY <1>1 DEF IInv, TypeOK, HistoryComplete, Version
<1>3. LogOnDisk \in [1..Version -> Log!Entries]
  BY <1>2, EntriesTyped DEF LogOnDisk
<1> QED BY <1>1, <1>3

(* The commit is a Create or a Save of the log. *)
LEMMA ReplaceImplements ==
    ASSUME RInv, RInv', NEW t \in Threads, Replace(t)
    PROVE  Log!Create \/ Log!Save
<1> DEFINE new == Entry(readme')
<1>1. /\ readme' = Written(t) /\ gone' = gone /\ ~gone
      /\ job[t] \in Jobs /\ job[t].expected = Version
  BY CommitFinds
<1>2. /\ readme' \in Readmes /\ readme'.version = Version + 1 /\ Version \in Nat
      /\ Version' = Version + 1
  <2>1. Version \in Nat
    BY LogTyped DEF RInv
  <2>2. readme' \in Readmes /\ readme'.version = Version + 1
    BY <1>1, <2>1 DEF Written, Readmes, Jobs
  <2> QED BY <2>1, <2>2 DEF Version
<1>3. new \in Log!Entries
  BY <1>2, EntriesTyped
<1>4. history' = history
  BY DEF Replace
<1>5. \A n \in 1..Version : n = Version => history'[n] = readme
  <2>1. Version > 0 => Version \in DOMAIN history /\ history[Version] = readme
    BY DEF Replace, RInv, IInv, ReadStands, HistoryComplete, Version
  <2> QED BY <1>2, <1>4, <2>1
<1>6. /\ LogOnDisk \in Seq(Log!Entries) /\ Len(LogOnDisk) = Version
      /\ LogOnDisk \in [1..Version -> Log!Entries]
  BY LogTyped DEF RInv
<1>7. LogOnDisk' = [n \in 1..(Version + 1) |-> IF n = Version + 1 THEN new ELSE LogOnDisk[n]]
  <2>1. \A n \in 1..Version : Entry(history'[n]) = LogOnDisk[n]
    BY <1>5, <1>4 DEF LogOnDisk
  <2>2. LogOnDisk' = [n \in 1..(Version + 1) |-> IF n = Version + 1 THEN new ELSE Entry(history'[n])]
    BY <1>2 DEF LogOnDisk, Entry
  <2>3. \A n \in 1..(Version + 1) : n # Version + 1 => n \in 1..Version
    BY <1>2
  <2> QED BY <2>1, <2>2, <2>3
<1> HIDE DEF new
<1>8. LogOnDisk' = Append(LogOnDisk, new)
  <2>1. \A S : \A m \in Nat : \A F \in [1..m -> S] : \A e \in S :
           [n \in 1..(m + 1) |-> IF n = m + 1 THEN e ELSE F[n]] = Append(F, e)
    BY OneLonger
  <2>2. [n \in 1..(Version + 1) |-> IF n = Version + 1 THEN new ELSE LogOnDisk[n]] = Append(LogOnDisk, new)
    BY <1>2, <1>3, <1>6, <2>1
  <2> QED BY <1>7, <2>2
<1>9. CASE job[t].op = "create"
  <2>1. readme = Absent /\ Log!Creates(new)
    BY <1>1, <1>9, CommitFinds DEF new
  <2>2. Version = 0
    BY <2>1 DEF Version
  <2>3. LogOnDisk = <<>>
    BY <1>6, <2>2, EmptySeq
  <2>4. LogOnDisk' = <<new>>
    BY <1>8, <2>3
  <2> QED BY <1>1, <1>3, <2>1, <2>3, <2>4 DEF Log!Create
<1>10. CASE job[t].op # "create"
  <2>1. readme \in Readmes /\ Log!Follows(Entry(readme), new)
    BY <1>1, <1>10, CommitFinds DEF new
  <2>2. Version > 0 /\ readme # Absent
    BY <2>1 DEF Version, Readmes
  <2>3. Version \in 1..Version
    BY <1>2, <2>2
  <2>4. LogOnDisk # <<>> /\ Log!Last = Entry(readme)
    BY <1>6, <2>2, <2>3 DEF Log!Last, LogOnDisk
  <2> QED BY <1>1, <1>3, <1>8, <2>1, <2>4 DEF Log!Save
<1> QED BY <1>9, <1>10

(* A hard delete ends the log, or finds it ended. *)
LEMMA DeleteImplements ==
    ASSUME RInv, RInv', NEW t \in Threads, Delete(t)
    PROVE  Log!DeleteForGood \/ UNCHANGED Log!logVars
<1>1. readme' = Absent /\ gone' = TRUE /\ job[t].op = "purge" /\ pc[t] = "check"
  BY DEF Delete
<1>2. Version' = 0
  BY <1>1 DEF Version
<1>3. LogOnDisk' = <<>>
  BY <1>2, EmptySeq, LogTyped DEF LogOnDisk
<1>4. CASE readme = Absent
  <2>1. gone = TRUE
    BY <1>1, <1>4 DEF RInv, IInv, TypeOK, PreparedFollows
  <2>2. Version = 0
    BY <1>4 DEF Version
  <2>3. LogOnDisk = <<>>
    BY <2>2 DEF LogOnDisk
  <2> QED BY <1>1, <1>3, <2>1, <2>3 DEF Log!logVars
<1>5. CASE readme # Absent
  <2>1. readme \in Readmes /\ readme.article.deleted
    BY <1>1, <1>5 DEF Delete, RInv, IInv, TypeOK, PreparedFollows, Critical
  <2>2. Version \in Nat /\ Version > 0
    BY <2>1 DEF Version, Readmes
  <2>3. Len(LogOnDisk) = Version
    BY LogTyped DEF RInv
  <2>4. Log!Last = Entry(readme)
    BY <2>2, <2>3 DEF Log!Last, LogOnDisk
  <2>5. LogOnDisk # <<>> /\ Log!Last.deleted
    BY <2>1, <2>2, <2>3, <2>4 DEF Entry
  <2> QED BY <1>1, <1>3, <2>5 DEF Log!DeleteForGood
<1> QED BY <1>4, <1>5

(* Writing the history file changes no version of the log: the current one *)
(* is still read from the README.                                          *)
LEMMA QuietImplements ==
    ASSUME RInv, readme' = readme, gone' = gone,
           \A n \in 1..Version : n < Version => history'[n] = history[n]
    PROVE  UNCHANGED Log!logVars
<1>1. Version' = Version
  BY DEF Version
<1>2. Version \in Nat
  BY LogTyped DEF RInv
<1>3. LogOnDisk' = [n \in 1..Version |-> Entry(IF n = Version THEN readme ELSE history'[n])]
  BY <1>1 DEF LogOnDisk, Entry
<1>4. \A n \in 1..Version : n # Version => n < Version
  BY <1>2
<1>5. LogOnDisk' = LogOnDisk
  BY <1>3, <1>4 DEF LogOnDisk
<1> QED BY <1>5 DEF Log!logVars

LEMMA KeepImplements ==
    ASSUME RInv, NEW t \in Threads, Keep(t)
    PROVE  UNCHANGED Log!logVars
<1>1. /\ readme' = readme /\ gone' = gone /\ job[t].current = readme /\ readme # Absent
  BY DEF Keep, ghostVars, RInv, IInv, ReadStands
<1>2. job[t].current.version = Version
  BY <1>1 DEF Version
<1>3. \A n \in 1..Version : n < Version => history'[n] = history[n]
  <2>1. \A n \in 1..Version : n < Version => n \in DOMAIN history /\ n # Version
    BY LogTyped DEF RInv, IInv, HistoryComplete
  <2> QED BY <1>2, <2>1 DEF Keep
<1> QED BY <1>1, <1>3, QuietImplements

LEMMA NextImplements ==
    ASSUME RInv, RInv', [Next]_vars
    PROVE  [Log!LogNext]_(Log!logVars)
<1>1. CASE UNCHANGED vars
  BY <1>1, QuietImplements DEF vars
<1>2. CASE Crash
  BY <1>2, QuietImplements DEF Crash, fileVars, ghostVars
<1>3. ASSUME NEW t \in Threads, Asks(t) \/ Works(t) \/ Fail(t)
      PROVE  [Log!LogNext]_(Log!logVars)
  <2>1. CASE Replace(t)
    BY <2>1, ReplaceImplements DEF Log!LogNext
  <2>2. CASE Delete(t)
    BY <2>2, DeleteImplements DEF Log!LogNext
  <2>3. CASE Keep(t)
    BY <2>3, KeepImplements
  <2>4. CASE Asks(t)
    <3>1. readme' = readme /\ history' = history /\ gone' = gone
      BY <2>4 DEF Asks, Create, Edit, Upload, Remove, Mark, Restore, Purge, Confirmed, Begin, fileVars
    <3> QED BY <3>1, QuietImplements
  <2>5. CASE \/ Place(t) \/ Load(t) \/ Acquire(t) \/ Conflict(t) \/ Refuse(t)
             \/ Admit(t) \/ Reply(t) \/ Fail(t)
    <3>1. readme' = readme /\ history' = history /\ gone' = gone
      BY <2>5 DEF Place, Load, Acquire, Conflict, Refuse, Admit, Reply, Fail, fileVars, ghostVars
    <3> QED BY <3>1, QuietImplements
  <2> QED BY <1>3, <2>1, <2>2, <2>3, <2>4, <2>5 DEF Works
<1> QED BY <1>1, <1>2, <1>3 DEF Next

LEMMA InitRInv == Init => RInv
<1> SUFFICES ASSUME Init PROVE CreatesAlone /\ PreparedFollows
  BY InitIInv DEF RInv
<1> QED BY DEF Init, CreatesAlone, PreparedFollows

(* While no form posts a version that is no number, the save protocol      *)
(* (_writer.commit and remove, the services over it and their gates)       *)
(* implements the log of whole operations, for any number of threads,      *)
(* files, requests and retries.                                            *)
THEOREM Implementation == ASSUME ~GarbageForms PROVE Spec => ImplementsLog
<1>1. Init => RInv /\ Log!LogInit
  BY InitRInv, InitLog
<1>2. RInv /\ [Next]_vars => RInv'
  BY NextRInv
<1>3. RInv /\ RInv' /\ [Next]_vars => [Log!LogNext]_(Log!logVars)
  BY NextImplements
<1> QED BY <1>1, <1>2, <1>3, PTL DEF Spec, ImplementsLog, Log!LogSpec
=============================================================================
