--------------------------- MODULE IndexSync_proofs ---------------------------
(***************************************************************************)
(* Proofs about IndexSync: its types, that rows only move forward, and     *)
(* that no row is stale by accident.                                       *)
(***************************************************************************)
EXTENDS IndexSync, TLAPS

(***************************************************************************)
(* What an Article's row depends on: the Collections on the way up from    *)
(* its own, and no other.                                                  *)
(***************************************************************************)
(* The way up starts at c and goes on to every parent; nothing that is     *)
(* closed under parents is smaller.                                        *)
LEMMA ChainStarts ==
    ASSUME NEW lookup, NEW c \in Collections
    PROVE  c \in ResolveChain(c, lookup)
BY DEF ResolveChain

LEMMA ChainGoesOn ==
    ASSUME NEW lookup, NEW c \in Collections,
           NEW e \in ResolveChain(c, lookup), lookup[e].parent \in Collections
    PROVE  lookup[e].parent \in ResolveChain(c, lookup)
<1> SUFFICES ASSUME NEW S \in SUBSET Collections, c \in S,
                    \A f \in S : lookup[f].parent \in S \union {Top}
             PROVE  lookup[e].parent \in S
    BY DEF ResolveChain
<1>1. e \in S
    BY DEF ResolveChain
<1> QED BY <1>1, TopAssumption

LEMMA ChainIsLeast ==
    ASSUME NEW lookup, NEW c \in Collections, NEW S \in SUBSET Collections,
           c \in S, \A e \in S : lookup[e].parent \in S \union {Top}
    PROVE  ResolveChain(c, lookup) \subseteq S
BY DEF ResolveChain

(* Two lookups that agree on the way up in the one lead the same way.      *)
LEMMA ChainIsLocal ==
    ASSUME NEW K, NEW L, NEW c \in Collections,
           \A d \in Collections : L[d].parent \in Collections \union {Top},
           \A d \in ResolveChain(c, L) : K[d].parent = L[d].parent
    PROVE  ResolveChain(c, K) = ResolveChain(c, L)
<1> DEFINE RK == ResolveChain(c, K)
           RL == ResolveChain(c, L)
<1>1. RL \subseteq Collections /\ RK \subseteq Collections
    BY DEF ResolveChain
<1>2. c \in RL /\ c \in RK
    BY ChainStarts
<1>3. \A e \in RL : L[e].parent \in RL \union {Top}
    BY <1>1, ChainGoesOn
<1>4. \A e \in RL : K[e].parent \in RL \union {Top}
    BY <1>3
<1>5. RK \subseteq RL
    <2> HIDE DEF RK, RL
    <2>1. ResolveChain(c, K) \subseteq RL
        BY <1>1, <1>2, <1>4, ChainIsLeast
    <2> QED BY <2>1 DEF RK
<1>6. \A e \in RK : L[e].parent \in RK \union {Top}
    <2> TAKE e \in RK
    <2>1. K[e].parent = L[e].parent
        BY <1>5
    <2>2. CASE L[e].parent = Top
        BY <2>2
    <2>3. CASE L[e].parent \in Collections
        BY <2>1, <2>3, ChainGoesOn
    <2> QED BY <1>1, <2>2, <2>3
<1>7. RL \subseteq RK
    <2> HIDE DEF RK, RL
    <2>1. ResolveChain(c, L) \subseteq RK
        BY <1>1, <1>2, <1>6, ChainIsLeast
    <2> QED BY <2>1 DEF RL
<1> QED BY <1>5, <1>7

(* The lookups agree on what visibility takes from the way up.             *)
Agree(K, L, c) ==
    \A d \in ResolveChain(c, L) : K[d].parent = L[d].parent /\ K[d].audience = L[d].audience

Rooted(L) == \A d \in Collections : L[d].parent \in Collections \union {Top}

LEMMA BrokenIsLocal ==
    ASSUME NEW K, NEW L, NEW c \in Collections, Rooted(L), Agree(K, L, c)
    PROVE  Broken(c, K) <=> Broken(c, L)
<1>1. ResolveChain(c, K) = ResolveChain(c, L)
    BY ChainIsLocal DEF Rooted, Agree
<1> QED BY <1>1 DEF Broken, Agree

(* Cutting a chain leaves nothing on it that was not there.                *)
LEMMA CutIsShorter ==
    ASSUME NEW L, NEW c \in Collections, Rooted(L)
    PROVE  ResolveChain(c, Cut(L)) \subseteq ResolveChain(c, L)
<1> DEFINE R == ResolveChain(c, L)
<1>1. R \subseteq Collections /\ c \in R
    BY ChainStarts DEF ResolveChain
<1>2. \A e \in R : L[e].parent \in R \union {Top}
    BY <1>1, ChainGoesOn DEF Rooted
<1>3. \A e \in R : Cut(L)[e].parent \in R \union {Top}
    <2> HIDE DEF R
    <2> QED BY <1>1, <1>2 DEF Cut
<1>4. ResolveChain(c, Cut(L)) \subseteq R
    <2> HIDE DEF R
    <2> QED BY <1>1, <1>3, ChainIsLeast
<1> QED BY <1>4

LEMMA DecidingIsLocal ==
    ASSUME NEW K, NEW L, NEW c \in Collections, Rooted(L), Agree(K, L, c)
    PROVE  Deciding(c, K) = Deciding(c, L)
<1> DEFINE CK == Cut(K)
           CL == Cut(L)
<1>1. \A d \in Collections : CL[d].parent \in Collections \union {Top}
    BY DEF Rooted, Cut
<1>2. \A d \in ResolveChain(c, CL) : CK[d].parent = CL[d].parent
    <2> TAKE d \in ResolveChain(c, CL)
    <2>1. d \in ResolveChain(c, L)
        BY CutIsShorter
    <2>2. d \in Collections
        BY <2>1 DEF ResolveChain
    <2> QED BY <2>1, <2>2 DEF Agree, Cut
<1>3. ResolveChain(c, CK) = ResolveChain(c, CL)
    <2> HIDE DEF CK, CL
    <2> QED BY <1>1, <1>2, ChainIsLocal
<1> QED BY <1>2, <1>3 DEF Deciding

(* A chain that resolves has one Collection that decides, and it says an   *)
(* audience or is the root of a silent chain.                              *)
LEMMA SomeoneDecides ==
    ASSUME NEW L, NEW c \in Collections, Rooted(L), ~Broken(c, L)
    PROVE  \E d \in Collections : d \in Deciding(c, L)
<1> DEFINE C == Cut(L)
           R == ResolveChain(c, C)
<1>1. R \subseteq Collections /\ c \in R
    BY ChainStarts DEF ResolveChain
<1>2. SUFFICES ASSUME \A d \in R : C[d].parent # Top
               PROVE  FALSE
    BY <1>1 DEF Deciding
<1>3. \A d \in R : C[d].parent = L[d].parent /\ L[d].parent \in Collections
    BY <1>1, <1>2 DEF Cut, Rooted
<1>4. \A d \in R : L[d].parent \in R \union {Top}
    <2> TAKE d \in R
    <2>1. C[d].parent \in Collections
        BY <1>3
    <2>2. C[d].parent \in R
        <3> HIDE DEF C
        <3> QED BY <2>1, ChainGoesOn
    <2> QED BY <2>2, <1>3
<1>5. ResolveChain(c, L) \subseteq R
    <2> HIDE DEF R, C
    <2> QED BY <1>1, <1>4, ChainIsLeast
<1>6. PICK d \in ResolveChain(c, L) : L[d].parent = Top
    BY DEF Broken
<1> QED BY <1>3, <1>5, <1>6, TopAssumption

(* The row of an Article depends on its chain alone.                       *)
THEOREM RowIsLocal ==
    ASSUME NEW K, NEW L, NEW p \in Placements, Rooted(L), Agree(K, L, p.collection)
    PROVE  /\ RowColumns(p, K) = RowColumns(p, L)
           /\ \A c : InSubtree(p, c, K) <=> InSubtree(p, c, L)
<1> DEFINE c == p.collection
<1>1. c \in Collections
    BY DEF Placements
<1>2. ResolveChain(c, K) = ResolveChain(c, L)
    BY <1>1, ChainIsLocal DEF Rooted, Agree
<1>3. Broken(c, K) <=> Broken(c, L)
    BY <1>1, BrokenIsLocal
<1>4. Deciding(c, K) = Deciding(c, L)
    BY <1>1, DecidingIsLocal
<1>5. \A e : InSubtree(p, e, K) <=> InSubtree(p, e, L)
    BY <1>2, <1>3 DEF InSubtree
<1>6. CASE Broken(c, L)
    BY <1>3, <1>5, <1>6 DEF RowColumns
<1>7. CASE ~Broken(c, L)
    <2> DEFINE decides == CHOOSE d \in Deciding(c, L) : TRUE
    <2>1. \E d \in Collections : d \in Deciding(c, L)
        BY <1>1, <1>7, SomeoneDecides
    <2>2. decides \in Deciding(c, L)
        BY <2>1
    <2>3. decides \in ResolveChain(c, L)
        BY <1>1, <2>2, CutIsShorter DEF Deciding
    <2>4. K[decides].audience = L[decides].audience
        BY <2>3 DEF Agree
    <2>5. EffectiveAudience(p, K) = EffectiveAudience(p, L)
        BY <1>4, <2>4 DEF EffectiveAudience
    <2> QED BY <1>2, <1>3, <1>5, <2>5 DEF RowColumns
<1> QED BY <1>6, <1>7

(* A row has one of the scopes the columns can say. *)
THEOREM RowHasAScope ==
    ASSUME NEW L, NEW p \in Placements, Rooted(L),
           \A d \in Collections : L[d].audience \in Audiences \union {Silent}
    PROVE  /\ RowColumns(p, L).scope \in Scopes
           /\ RowColumns(p, L).ancestors \in SUBSET Collections
<1> DEFINE c == p.collection
<1>1. c \in Collections /\ p.audience \in Audiences \union {Silent, Hidden}
    BY DEF Placements
<1>2. CASE Broken(c, L)
    BY <1>2 DEF RowColumns, Scopes
<1>3. CASE ~Broken(c, L)
    <2> DEFINE decides == CHOOSE d \in Deciding(c, L) : TRUE
    <2>1. \E d \in Collections : d \in Deciding(c, L)
        BY <1>1, <1>3, SomeoneDecides
    <2>2. decides \in Deciding(c, L)
        BY <2>1
    <2>3. decides \in Collections
        BY <2>2 DEF Deciding, ResolveChain
    <2>4. L[decides].audience \in Audiences \union {Silent}
        BY <2>3
    <2>5. EffectiveAudience(p, L) \in Scopes
        BY <1>1, <2>4, ScopesAssumption DEF EffectiveAudience, Scopes
    <2>6. ResolveChain(c, L) \in SUBSET Collections
        BY DEF ResolveChain
    <2> QED BY <1>3, <2>5, <2>6 DEF RowColumns
<1> QED BY <1>2, <1>3

-----------------------------------------------------------------------------
(***************************************************************************)
(* The rows of the index                                                   *)
(***************************************************************************)
LEMMA Kinds ==
    \A r \in Refreshes \union {Rebuild} :
        \/ r.kind = "article" /\ r.of \in Articles /\ r # Rebuild
        \/ r.kind = "subtree" /\ r.of \in Collections /\ r # Rebuild
        \/ r.kind = "rebuild" /\ r = Rebuild
BY DEF Refreshes, Rebuild

LEMMA RowType ==
    ASSUME NEW read \in ArticleReadmes, NEW lookup,
           read.article # Absent => lookup \in [Collections -> CollectionReadmes]
    PROVE  RowFor(read, lookup) \in IndexRows /\ RowFor(read, lookup).version = read.version
<1>1. read.version \in Nat /\ read.article \in Placements \union {Absent}
    BY DEF ArticleReadmes
<1>2. CASE read.article = Absent
    <2>1. NoRow \in Scopes
        BY DEF Scopes
    <2> QED BY <1>1, <1>2, <2>1 DEF RowFor, IndexRows
<1>3. CASE read.article # Absent
    <2>1. lookup \in [Collections -> CollectionReadmes]
        BY <1>3
    <2>2. \A d \in Collections : /\ lookup[d].parent \in Collections \union {Top}
                                 /\ lookup[d].audience \in Audiences \union {Silent}
        BY <2>1 DEF CollectionReadmes
    <2>3. read.article \in Placements
        BY <1>1, <1>3
    <2>4. /\ RowColumns(read.article, lookup).scope \in Scopes
          /\ RowColumns(read.article, lookup).ancestors \in SUBSET Collections
        BY <2>2, <2>3, RowHasAScope DEF Rooted
    <2> QED BY <1>1, <1>3, <2>4 DEF RowFor, IndexRows
<1> QED BY <1>2, <1>3

(* A complete transaction has read what it computes a row from. *)
LEMMA CompleteHasRead ==
    ASSUME TypeOK, NEW h \in Holders, tx[h] # Absent, Complete(h), NEW a \in Articles,
           OfArticle(h) => a = tx[h].todo.of
    PROVE  /\ tx[h].arts[a] # Absent /\ tx[h].arts[a] \in ArticleReadmes
           /\ tx[h].arts[a].article # Absent =>
                  /\ CollectionsRead(h)
                  /\ tx[h].colls \in [Collections -> CollectionReadmes]
<1>1. tx[h] \in Transactions
    BY DEF TypeOK
<1>2. /\ tx[h].arts \in [Articles -> ArticleReadmes \union {Absent}]
      /\ tx[h].colls \in [Collections -> CollectionReadmes \union {Absent}]
    BY <1>1 DEF Transactions
<1>3. tx[h].arts[a] # Absent
    BY DEF Complete, ToRead
<1>4. ASSUME tx[h].arts[a].article # Absent
      PROVE  CollectionsRead(h)
    <2>1. ReadsCollections(h)
        BY <1>3, <1>4 DEF ReadsCollections
    <2> QED BY <2>1 DEF Complete
<1>5. CollectionsRead(h) => tx[h].colls \in [Collections -> CollectionReadmes]
    BY <1>2 DEF CollectionsRead
<1> QED BY <1>2, <1>3, <1>4, <1>5

LEMMA RecomputedHasRead ==
    ASSUME TypeOK, NEW h \in Holders, tx[h] # Absent, Complete(h), NEW a \in Recomputed(h)
    PROVE  a \in Articles /\ (OfArticle(h) => a = tx[h].todo.of)
BY DEF Recomputed, OfArticle

LEMMA WrittenRow ==
    ASSUME TypeOK, NEW h \in Holders, tx[h] # Absent, Complete(h), NEW a \in Recomputed(h)
    PROVE  /\ tx[h].arts[a] # Absent
           /\ RowFor(tx[h].arts[a], tx[h].colls) \in IndexRows
           /\ RowFor(tx[h].arts[a], tx[h].colls).version = tx[h].arts[a].version
<1>1. a \in Articles /\ (OfArticle(h) => a = tx[h].todo.of)
    BY RecomputedHasRead
<1>2. /\ tx[h].arts[a] # Absent /\ tx[h].arts[a] \in ArticleReadmes
      /\ tx[h].arts[a].article # Absent => tx[h].colls \in [Collections -> CollectionReadmes]
    BY <1>1, CompleteHasRead
<1> QED BY <1>2, RowType

-----------------------------------------------------------------------------
(* The types *)

LEMMA InitType == Init => TypeOK
<1> SUFFICES ASSUME Init PROVE TypeOK
    OBVIOUS
<1>1. coll \in [Collections -> CollectionReadmes]
    BY DEF Init, CollectionReadmes
<1>2. art \in [Articles -> ArticleReadmes]
    BY DEF Init, ArticleReadmes
<1>3. \A a \in Articles : RowFor(art[a], coll) \in IndexRows
    BY <1>1, <1>2, RowType
<1>4. rows \in [Articles -> IndexRows]
    BY <1>3 DEF Init
<1> QED BY <1>1, <1>2, <1>4 DEF Init, TypeOK

(* A thread that is given a refresh, or none. *)
LEMMA OwesType ==
    ASSUME TypeOK, NEW t \in Threads, NEW r \in Refreshes, Owes(t, r)
    PROVE  /\ pc' \in [Threads -> {"idle", "commit", "sync", "hold", "retry"}]
           /\ due' \in [Threads -> Refreshes \union {Absent}]
           /\ pc'[t] = "sync" /\ due'[t] = r
           /\ \A u \in Threads \ {t} : pc'[u] = pc[u] /\ due'[u] = due[u]
BY DEF TypeOK, Owes

LEMMA EndsType ==
    ASSUME TypeOK, NEW t \in Threads, Ends(t)
    PROVE  /\ pc' \in [Threads -> {"idle", "commit", "sync", "hold", "retry"}]
           /\ due' \in [Threads -> Refreshes \union {Absent}]
           /\ pc'[t] = "idle" /\ due'[t] = Absent
           /\ \A u \in Threads \ {t} : pc'[u] = pc[u] /\ due'[u] = due[u]
BY DEF TypeOK, Ends

LEMMA SaveArticleType ==
    ASSUME TypeOK, NEW t \in Threads, SaveArticle(t)
    PROVE  TypeOK'
<1>1. PICK a \in Articles, placement \in Placements :
          /\ art' = [art EXCEPT ![a] = [version |-> @.version + 1, article |-> placement]]
          /\ Owes(t, [kind |-> "article", of |-> a])
    BY DEF SaveArticle
<1>2. [kind |-> "article", of |-> a] \in Refreshes
    BY DEF Refreshes
<1>3. art' \in [Articles -> ArticleReadmes]
    BY <1>1 DEF TypeOK, ArticleReadmes
<1>4. saves' \in Nat
    BY DEF SaveArticle, AskedToSave, TypeOK
<1> QED BY <1>1, <1>2, <1>3, <1>4, OwesType DEF SaveArticle, TypeOK

LEMMA HardDeleteType ==
    ASSUME TypeOK, NEW t \in Threads, HardDelete(t)
    PROVE  TypeOK'
<1>1. PICK a \in Articles :
          /\ art' = [art EXCEPT ![a] = [version |-> @.version + 1, article |-> Absent]]
          /\ Owes(t, [kind |-> "article", of |-> a])
    BY DEF HardDelete
<1>2. [kind |-> "article", of |-> a] \in Refreshes
    BY DEF Refreshes
<1>3. art' \in [Articles -> ArticleReadmes]
    BY <1>1 DEF TypeOK, ArticleReadmes
<1>4. saves' \in Nat
    BY DEF HardDelete, AskedToSave, TypeOK
<1> QED BY <1>1, <1>2, <1>3, <1>4, OwesType DEF HardDelete, TypeOK

LEMMA DecideType ==
    ASSUME TypeOK, NEW t \in Threads, Decide(t)
    PROVE  TypeOK'
<1>1. PICK c \in Collections, parent \in Collections \union {Top},
           audience \in Audiences \union {Silent} : \E expected \in 1..(coll[c].version + 1) :
          saving' = [saving EXCEPT ![t] =
              [of |-> c, parent |-> parent, audience |-> audience, expected |-> expected,
               moves |-> MovesVisibility(coll[c], parent, audience, expected)]]
    BY DEF Decide
<1> PICK expected \in 1..(coll[c].version + 1) :
          saving' = [saving EXCEPT ![t] =
              [of |-> c, parent |-> parent, audience |-> audience, expected |-> expected,
               moves |-> MovesVisibility(coll[c], parent, audience, expected)]]
    BY <1>1
<1>2. expected \in Nat
    BY DEF TypeOK, CollectionReadmes
<1>3. MovesVisibility(coll[c], parent, audience, expected) \in BOOLEAN
    BY DEF MovesVisibility
<1>4. saving'[t] \in Savings /\ saving' \in [Threads -> Savings \union {Absent}]
    BY <1>2, <1>3 DEF TypeOK, Savings
<1>5. saves' \in Nat /\ pc[t] = "idle"
    BY DEF Decide, AskedToSave, TypeOK
<1>6. /\ pc' \in [Threads -> {"idle", "commit", "sync", "hold", "retry"}] /\ pc'[t] = "commit"
      /\ \A u \in Threads \ {t} : pc'[u] = pc[u]
    BY DEF Decide, TypeOK
<1>7. \A u \in Threads \ {t} : saving'[u] = saving[u]
    BY DEF TypeOK
<1> QED BY <1>4, <1>5, <1>6, <1>7 DEF Decide, TypeOK

(* What a save of a Collection leaves. *)
LEMMA Committed ==
    ASSUME TypeOK, NEW t \in Threads, CommitCollection(t)
    PROVE  /\ pc[t] = "commit" /\ saving[t] \in Savings
           /\ \/ Ends(t) /\ UNCHANGED coll
              \/ /\ coll[saving[t].of].version = saving[t].expected
                 /\ coll' = [coll EXCEPT ![saving[t].of] =
                                [parent |-> saving[t].parent, audience |-> saving[t].audience,
                                 version |-> @.version + 1]]
                 /\ MayBreak \/ Tree(coll')
                 /\ \/ saving[t].moves /\ Owes(t, [kind |-> "subtree", of |-> saving[t].of])
                    \/ ~saving[t].moves /\ Ends(t)
BY DEF CommitCollection, TypeOK

LEMMA CommitType ==
    ASSUME TypeOK, NEW t \in Threads, CommitCollection(t)
    PROVE  TypeOK'
<1> DEFINE save == saving[t]
<1>1. save \in Savings
    BY Committed
<1>2. [kind |-> "subtree", of |-> save.of] \in Refreshes
    BY <1>1 DEF Savings, Refreshes
<1>3. coll' \in [Collections -> CollectionReadmes]
    <2>1. CASE UNCHANGED coll
        BY <2>1 DEF TypeOK
    <2>2. CASE coll' = [coll EXCEPT ![save.of] =
                           [parent |-> save.parent, audience |-> save.audience,
                            version |-> @.version + 1]]
        BY <1>1, <2>2 DEF TypeOK, CollectionReadmes, Savings
    <2> QED BY <2>1, <2>2, Committed
<1>4. Ends(t) \/ Owes(t, [kind |-> "subtree", of |-> save.of])
    BY Committed
<1>5. /\ pc' \in [Threads -> {"idle", "commit", "sync", "hold", "retry"}]
      /\ due' \in [Threads -> Refreshes \union {Absent}]
      /\ pc'[t] = "idle" \/ (pc'[t] = "sync" /\ due'[t] \in Refreshes)
      /\ \A u \in Threads \ {t} : pc'[u] = pc[u] /\ due'[u] = due[u]
    <2>1. CASE Ends(t)
        BY <2>1, EndsType
    <2>2. CASE Owes(t, [kind |-> "subtree", of |-> save.of])
        BY <1>2, <2>2, OwesType
    <2> QED BY <1>4, <2>1, <2>2
<1>6. saving' \in [Threads -> Savings \union {Absent}]
      /\ \A u \in Threads \ {t} : saving'[u] = saving[u]
    BY DEF CommitCollection, TypeOK
<1> QED BY <1>3, <1>5, <1>6 DEF CommitCollection, TypeOK

LEMMA LocksType ==
    ASSUME TypeOK, NEW h \in Holders, NEW todo \in Refreshes \union {Rebuild}, Locks(h, todo)
    PROVE  /\ NothingRead(todo) \in Transactions
           /\ tx' \in [Holders -> Transactions \union {Absent}]
           /\ tx'[h] = NothingRead(todo)
           /\ \A i \in Holders : tx[i] = Absent /\ (i # h => tx'[i] = Absent)
<1>1. lost \in SUBSET (Refreshes \X Nat)
    BY DEF TypeOK
<1>2. NothingRead(todo) \in Transactions
    BY <1>1 DEF NothingRead, Transactions
<1> QED BY <1>2 DEF Locks, TypeOK

LEMMA StartType ==
    ASSUME TypeOK,
           \/ \E t \in Threads : StartSync(t)
           \/ StartJob
    PROVE  TypeOK'
<1>1. ASSUME NEW t \in Threads, StartSync(t)
      PROVE  TypeOK'
    <2>1. due[t] \in Refreshes /\ t \in Holders
        BY <1>1 DEF StartSync, TypeOK, Holders
    <2>2. tx' \in [Holders -> Transactions \union {Absent}]
        BY <1>1, <2>1, LocksType DEF StartSync
    <2> QED BY <1>1, <2>1, <2>2 DEF StartSync, TypeOK, fileVars
<1>2. CASE StartJob
    <2>1. working \in Refreshes \union {Rebuild} /\ Worker \in Holders
        BY <1>2 DEF StartJob, TypeOK, Holders
    <2>2. tx' \in [Holders -> Transactions \union {Absent}]
        BY <1>2, <2>1, LocksType DEF StartJob
    <2> QED BY <1>2, <2>2 DEF StartJob, TypeOK, fileVars, threadVars
<1> QED BY <1>1, <1>2

(* A step of a transaction that reads: it still has the same to do. *)
Reads(h) ==
    /\ tx[h] # Absent
    /\ tx' = [tx EXCEPT ![h] = tx'[h]]
    /\ tx'[h] \in Transactions
    /\ tx'[h].todo = tx[h].todo /\ tx'[h].heals = tx[h].heals
    /\ \A c \in Collections : tx'[h].colls[c] \in {tx[h].colls[c], coll[c]}
    /\ \A a \in Articles :
          \/ tx'[h].arts[a] = tx[h].arts[a]
          \/ tx'[h].arts[a] = art[a]
          \/ tx'[h].arts[a] = Absent
    /\ UNCHANGED <<fileVars, rows, threadVars, queue, working, lost, saves, failures>>

LEMMA ReadingReads ==
    ASSUME TypeOK, NEW h \in Holders,
           ReadCollection(h) \/ ListArticles(h) \/ ReadArticle(h)
    PROVE  Reads(h)
<1>0. tx[h] # Absent /\ tx[h] \in Transactions /\ tx \in [Holders -> Transactions \union {Absent}]
    BY DEF TypeOK, ReadCollection, ListArticles, ReadArticle
<1>1. CASE ReadCollection(h)
    <2>1. PICK c \in Collections : tx' = [tx EXCEPT ![h].colls[c] = coll[c]]
        BY <1>1 DEF ReadCollection
    <2>2. coll[c] \in CollectionReadmes
        BY DEF TypeOK
    <2>3. tx'[h] = [tx[h] EXCEPT !.colls = [tx[h].colls EXCEPT ![c] = coll[c]]]
        BY <1>0, <2>1
    <2>4. tx'[h] \in Transactions
        BY <1>0, <2>2, <2>3 DEF Transactions
    <2>5. tx' = [tx EXCEPT ![h] = tx'[h]]
        BY <1>0, <2>1
    <2>6. /\ tx'[h].todo = tx[h].todo /\ tx'[h].heals = tx[h].heals
          /\ tx'[h].arts = tx[h].arts
          /\ \A d \in Collections : tx'[h].colls[d] \in {tx[h].colls[d], coll[d]}
        BY <1>0, <2>3 DEF Transactions
    <2> QED BY <1>0, <1>1, <2>4, <2>5, <2>6 DEF Reads, ReadCollection
<1>2. CASE ListArticles(h)
    <2> DEFINE found == [a \in Articles |-> IF art[a].article = Absent THEN art[a] ELSE Absent]
    <2>1. tx' = [tx EXCEPT ![h].listed = TRUE, ![h].arts = found]
        BY <1>2 DEF ListArticles
    <2>2. found \in [Articles -> ArticleReadmes \union {Absent}]
        BY DEF TypeOK
    <2>3. tx'[h] = [tx[h] EXCEPT !.listed = TRUE, !.arts = found]
        BY <1>0, <2>1
    <2>4. tx'[h] \in Transactions
        BY <1>0, <2>2, <2>3 DEF Transactions
    <2>5. tx' = [tx EXCEPT ![h] = tx'[h]]
        BY <1>0, <2>1
    <2>6. /\ tx'[h].todo = tx[h].todo /\ tx'[h].heals = tx[h].heals
          /\ tx'[h].colls = tx[h].colls
          /\ \A a \in Articles : tx'[h].arts[a] = art[a] \/ tx'[h].arts[a] = Absent
        BY <1>0, <2>3 DEF Transactions
    <2> QED BY <1>0, <1>2, <2>4, <2>5, <2>6 DEF Reads, ListArticles
<1>3. CASE ReadArticle(h)
    <2>1. PICK a \in Articles : tx' = [tx EXCEPT ![h].arts[a] = art[a]]
        BY <1>3 DEF ReadArticle, ToRead
    <2>2. art[a] \in ArticleReadmes
        BY DEF TypeOK
    <2>3. tx'[h] = [tx[h] EXCEPT !.arts = [tx[h].arts EXCEPT ![a] = art[a]]]
        BY <1>0, <2>1
    <2>4. tx'[h] \in Transactions
        BY <1>0, <2>2, <2>3 DEF Transactions
    <2>5. tx' = [tx EXCEPT ![h] = tx'[h]]
        BY <1>0, <2>1
    <2>6. /\ tx'[h].todo = tx[h].todo /\ tx'[h].heals = tx[h].heals
          /\ tx'[h].colls = tx[h].colls
          /\ \A b \in Articles : tx'[h].arts[b] = tx[h].arts[b] \/ tx'[h].arts[b] = art[b]
        BY <1>0, <2>3 DEF Transactions
    <2> QED BY <1>0, <1>3, <2>4, <2>5, <2>6 DEF Reads, ReadArticle
<1> QED BY <1>1, <1>2, <1>3

LEMMA ReadsType ==
    ASSUME TypeOK, NEW h \in Holders, Reads(h)
    PROVE  TypeOK'
BY DEF TypeOK, Reads, fileVars, threadVars

LEMMA FinishType ==
    ASSUME TypeOK, NEW h \in Holders, Finish(h)
    PROVE  TypeOK'
<1>1. rows' \in [Articles -> IndexRows]
    <2>1. \A a \in Recomputed(h) : RowFor(tx[h].arts[a], tx[h].colls) \in IndexRows
        BY WrittenRow DEF Finish
    <2>2. rows' = [a \in Articles |->
                      IF a \in Recomputed(h) THEN RowFor(tx[h].arts[a], tx[h].colls) ELSE rows[a]]
        BY DEF Finish
    <2> QED BY <2>1, <2>2 DEF TypeOK
<1>2. tx' \in [Holders -> Transactions \union {Absent}] /\ lost' \subseteq Refreshes \X Nat
    BY DEF Finish, TypeOK
<1>3. CASE h = Worker
    BY <1>1, <1>2, <1>3 DEF Finish, TypeOK, fileVars, threadVars
<1>4. CASE h # Worker
    <2>1. h \in Threads /\ Ends(h)
        BY <1>4 DEF Finish, Holders
    <2> QED BY <1>1, <1>2, <1>4, <2>1, EndsType DEF Finish, TypeOK, fileVars
<1> QED BY <1>3, <1>4

LEMMA RolledBackType ==
    ASSUME TypeOK, NEW who \in SUBSET Holders, RolledBack(who)
    PROVE  /\ tx' \in [Holders -> Transactions \union {Absent}]
           /\ \A h \in Holders : tx'[h] = IF h \in who THEN Absent ELSE tx[h]
BY DEF RolledBack, TypeOK

LEMMA LoseType ==
    ASSUME TypeOK, NEW refreshes \in SUBSET (Refreshes \union {Rebuild, Absent}), Lose(refreshes)
    PROVE  /\ lost' \subseteq Refreshes \X Nat
           /\ \A l \in lost : l \in lost'
           /\ \A l \in lost' : l \in lost \/ l[2] = failures
           /\ \A r \in refreshes \ {Absent, Rebuild} : <<r, failures>> \in lost'
BY DEF Lose, TypeOK

LEMMA FailureType ==
    ASSUME TypeOK,
           \/ \E t \in Threads : SyncFails(t) \/ Retry(t) \/ Forget(t)
           \/ Tick \/ TakeJob \/ JobFails \/ AppCrash
    PROVE  TypeOK'
<1>1. ASSUME NEW t \in Threads, SyncFails(t)
      PROVE  TypeOK'
    <2>1. tx' \in [Holders -> Transactions \union {Absent}]
        BY <1>1, RolledBackType DEF SyncFails, Holders
    <2>2. failures' \in Nat
        BY <1>1 DEF SyncFails, FailsOnce, TypeOK
    <2>3. due[t] \in Refreshes
        BY <1>1 DEF SyncFails, TypeOK
    <2> QED BY <1>1, <2>1, <2>2, <2>3 DEF SyncFails, TypeOK, fileVars
<1>2. ASSUME NEW t \in Threads, Retry(t)
      PROVE  TypeOK'
    <2>1. queue' \in Seq(Refreshes \union {Rebuild})
        BY <1>2 DEF Retry, TypeOK
    <2> QED BY <1>2, <2>1, EndsType DEF Retry, TypeOK, fileVars
<1>3. ASSUME NEW t \in Threads, Forget(t)
      PROVE  TypeOK'
    <2>1. lost' \subseteq Refreshes \X Nat
        BY <1>3, LoseType DEF Forget, TypeOK
    <2>2. failures' \in Nat
        BY <1>3 DEF Forget, FailsOnce, TypeOK
    <2> QED BY <1>3, <2>1, <2>2, EndsType DEF Forget, TypeOK, fileVars
<1>4. CASE Tick
    <2>1. queue' \in Seq(Refreshes \union {Rebuild})
        BY <1>4 DEF Tick, TypeOK
    <2> QED BY <1>4, <2>1 DEF Tick, TypeOK, fileVars, threadVars
<1>5. CASE TakeJob
    <2>1. queue' \in Seq(Refreshes \union {Rebuild}) /\ working' \in Refreshes \union {Rebuild}
        BY <1>5 DEF TakeJob, TypeOK
    <2> QED BY <1>5, <2>1 DEF TakeJob, TypeOK, fileVars, threadVars
<1>6. CASE JobFails
    <2>1. tx' \in [Holders -> Transactions \union {Absent}]
        BY <1>6, RolledBackType DEF JobFails, Holders
    <2>2. failures' \in Nat
        BY <1>6 DEF JobFails, FailsOnce, TypeOK
    <2>3. lost' \subseteq Refreshes \X Nat
        BY <1>6, LoseType DEF JobFails, TypeOK
    <2> QED BY <1>6, <2>1, <2>2, <2>3 DEF JobFails, TypeOK, fileVars, threadVars
<1>7. CASE AppCrash
    <2>1. tx' \in [Holders -> Transactions \union {Absent}]
        BY <1>7, RolledBackType DEF AppCrash, Holders
    <2>2. failures' \in Nat
        BY <1>7 DEF AppCrash, FailsOnce, TypeOK
    <2>3. Range(due) \in SUBSET (Refreshes \union {Rebuild, Absent})
        BY DEF TypeOK, Range
    <2>4. lost' \subseteq Refreshes \X Nat
        BY <1>7, <2>3, LoseType DEF AppCrash
    <2> QED BY <1>7, <2>1, <2>2, <2>4 DEF AppCrash, TypeOK, fileVars
<1> QED BY <1>1, <1>2, <1>3, <1>4, <1>5, <1>6, <1>7

LEMMA TypeStep == TypeOK /\ [Next]_vars => TypeOK'
<1> SUFFICES ASSUME TypeOK, [Next]_vars PROVE TypeOK'
    OBVIOUS
<1>1. ASSUME NEW h \in Holders, Runs(h)
      PROVE  TypeOK'
    BY <1>1, ReadingReads, ReadsType, FinishType DEF Runs
<1>2. ASSUME NEW t \in Threads,
             SaveArticle(t) \/ HardDelete(t) \/ Decide(t) \/ CommitCollection(t)
      PROVE  TypeOK'
    BY <1>2, SaveArticleType, HardDeleteType, DecideType, CommitType
<1>3. CASE StartJob \/ \E t \in Threads : StartSync(t)
    BY <1>3, StartType
<1>4. CASE \/ \E t \in Threads : SyncFails(t) \/ Retry(t) \/ Forget(t)
           \/ Tick \/ TakeJob \/ JobFails \/ AppCrash
    BY <1>4, FailureType
<1>5. CASE UNCHANGED vars
    BY <1>5 DEF vars, TypeOK
<1> QED BY <1>1, <1>2, <1>3, <1>4, <1>5 DEF Next

(* Every value of every variable is one the types allow. *)
THEOREM TypeCorrect == Spec => []TypeOK
BY InitType, TypeStep, PTL DEF Spec

-----------------------------------------------------------------------------
(* One writer at a time, whose reads lie between the rows and the files    *)

LEMMA InitIInv == Init => IInv
<1> SUFFICES ASSUME Init PROVE IInv
    OBVIOUS
<1>1. TypeOK
    BY InitType
<1>2. OneWriter /\ InHand
    BY DEF Init, OneWriter, InHand, Holders
<1>3. ReadsBetween
    <2>1. \A a \in Articles : RowFor(art[a], coll).version = art[a].version
        BY <1>1, RowType DEF TypeOK
    <2>2. \A a \in Articles : art[a].version \in Nat
        BY <1>1 DEF TypeOK, ArticleReadmes
    <2> QED BY <2>1, <2>2 DEF Init, ReadsBetween
<1> QED BY <1>1, <1>2, <1>3 DEF IInv

(* A save gives a thread that had nothing in hand something to do. *)
Saves(t) == SaveArticle(t) \/ HardDelete(t) \/ Decide(t) \/ CommitCollection(t)

LEMMA SavesInHand ==
    ASSUME IInv, NEW t \in Threads, Saves(t)
    PROVE  /\ due[t] = Absent /\ tx[t] = Absent
           /\ \A u \in Threads \ {t} : pc'[u] = pc[u] /\ due'[u] = due[u]
           /\ due' \in [Threads -> Refreshes \union {Absent}]
           /\ pc'[t] \in {"idle", "commit"} => due'[t] = Absent
           /\ UNCHANGED <<rows, tx, queue, working, lost, failures>>
<1>1. TypeOK /\ InHand /\ t \in Holders
    BY DEF IInv, Holders
<1>2. pc[t] \in {"idle", "commit"}
    BY DEF Saves, SaveArticle, HardDelete, Decide, CommitCollection, AskedToSave
<1>3. due[t] = Absent /\ tx[t] = Absent
    BY <1>1, <1>2 DEF InHand
<1>4. ASSUME NEW r \in Refreshes, Owes(t, r)
      PROVE  /\ \A u \in Threads \ {t} : pc'[u] = pc[u] /\ due'[u] = due[u]
             /\ due' \in [Threads -> Refreshes \union {Absent}]
             /\ pc'[t] = "sync"
    BY <1>1, <1>4, OwesType
<1>5. ASSUME Ends(t)
      PROVE  /\ \A u \in Threads \ {t} : pc'[u] = pc[u] /\ due'[u] = due[u]
             /\ due' \in [Threads -> Refreshes \union {Absent}]
             /\ due'[t] = Absent
    BY <1>1, <1>5, EndsType
<1>6. CASE SaveArticle(t) \/ HardDelete(t)
    <2>1. PICK a \in Articles : Owes(t, [kind |-> "article", of |-> a])
        BY <1>6 DEF SaveArticle, HardDelete
    <2>2. [kind |-> "article", of |-> a] \in Refreshes
        BY DEF Refreshes
    <2> QED BY <1>3, <1>4, <1>6, <2>1, <2>2 DEF SaveArticle, HardDelete
<1>7. CASE Decide(t)
    BY <1>1, <1>3, <1>7 DEF Decide, TypeOK
<1>8. CASE CommitCollection(t)
    <2>1. saving[t] \in Savings /\ (Ends(t) \/ Owes(t, [kind |-> "subtree", of |-> saving[t].of]))
        BY <1>1, <1>8, Committed
    <2>2. [kind |-> "subtree", of |-> saving[t].of] \in Refreshes
        BY <2>1 DEF Savings, Refreshes
    <2>3. UNCHANGED <<rows, tx, queue, working, lost, failures>>
        BY <1>8 DEF CommitCollection
    <2> QED BY <1>3, <1>4, <1>5, <2>1, <2>2, <2>3
<1> QED BY <1>6, <1>7, <1>8 DEF Saves

LEMMA SavesVersions ==
    ASSUME TypeOK, NEW t \in Threads, Saves(t), NEW a \in Articles
    PROVE  art'[a] = art[a] \/ art'[a].version = art[a].version + 1
<1>1. CASE SaveArticle(t) \/ HardDelete(t)
    <2>1. PICK b \in Articles, placement \in Placements \union {Absent} :
              art' = [art EXCEPT ![b] = [version |-> @.version + 1, article |-> placement]]
        BY <1>1 DEF SaveArticle, HardDelete
    <2> QED BY <2>1 DEF TypeOK
<1>2. CASE Decide(t) \/ CommitCollection(t)
    BY <1>2 DEF Decide, CommitCollection
<1> QED BY <1>1, <1>2 DEF Saves

LEMMA SavesIInv ==
    ASSUME IInv, TypeOK', NEW t \in Threads, Saves(t)
    PROVE  IInv'
<1>1. TypeOK
    BY DEF IInv
<1>2. OneWriter' /\ InHand'
    BY SavesInHand DEF IInv, OneWriter, InHand
<1>3. ReadsBetween'
    <2>1. \A a \in Articles : art[a].version \in Nat
                           /\ (art'[a] = art[a] \/ art'[a].version = art[a].version + 1)
        BY <1>1, SavesVersions DEF TypeOK, ArticleReadmes
    <2>2. \A a \in Articles : rows[a].version \in Nat
        BY <1>1 DEF TypeOK, IndexRows
    <2>3. \A h \in Holders : tx[h] # Absent => \A a \in Articles :
              tx[h].arts[a] # Absent => tx[h].arts[a].version \in Nat
        BY <1>1 DEF TypeOK, Transactions, ArticleReadmes
    <2>4. rows' = rows /\ tx' = tx
        BY SavesInHand
    <2>5. \A a \in Articles : rows[a].version <= art'[a].version
        BY <2>1, <2>2 DEF IInv, ReadsBetween
    <2>6. ASSUME NEW h \in Holders, tx[h] # Absent, NEW a \in Articles, tx[h].arts[a] # Absent
          PROVE  /\ rows[a].version <= tx[h].arts[a].version
                 /\ tx[h].arts[a].version <= art'[a].version
        <3>1. /\ rows[a].version <= tx[h].arts[a].version
              /\ tx[h].arts[a].version <= art[a].version
            BY <2>6 DEF IInv, ReadsBetween
        <3> QED BY <2>1, <2>3, <2>6, <3>1
    <2> QED BY <2>4, <2>5, <2>6 DEF ReadsBetween
<1> QED BY <1>2, <1>3 DEF IInv

(* A transaction that begins has read nothing. *)
LEMMA StartsEmpty ==
    ASSUME IInv, (\E t \in Threads : StartSync(t)) \/ StartJob
    PROVE  \E h \in Holders, todo \in Refreshes \union {Rebuild} :
              /\ Locks(h, todo)
              /\ IF h = Worker THEN working = todo /\ pc' = pc
                 ELSE due[h] = todo /\ pc' = [pc EXCEPT ![h] = "hold"]
              /\ pc'[h] = "hold" \/ h = Worker
              /\ UNCHANGED <<fileVars, rows, saving, due, queue, working, lost, saves, failures>>
<1>1. TypeOK
    BY DEF IInv
<1>2. ASSUME NEW t \in Threads, StartSync(t)
      PROVE  /\ due[t] \in Refreshes /\ t # Worker /\ t \in Holders /\ Locks(t, due[t])
             /\ pc' = [pc EXCEPT ![t] = "hold"] /\ pc'[t] = "hold"
             /\ UNCHANGED <<fileVars, rows, saving, due, queue, working, lost, saves, failures>>
    BY <1>1, <1>2, WorkerAssumption DEF StartSync, TypeOK, Holders
<1>3. ASSUME StartJob
      PROVE  /\ working \in Refreshes \union {Rebuild} /\ Worker \in Holders
             /\ Locks(Worker, working) /\ pc' = pc
             /\ UNCHANGED <<fileVars, rows, saving, due, queue, working, lost, saves, failures>>
    BY <1>1, <1>3 DEF StartJob, TypeOK, Holders, threadVars
<1> QED BY <1>2, <1>3

LEMMA StartIInv ==
    ASSUME IInv, TypeOK', (\E t \in Threads : StartSync(t)) \/ StartJob
    PROVE  IInv'
<1>1. TypeOK /\ pc \in [Threads -> {"idle", "commit", "sync", "hold", "retry"}]
    BY DEF IInv, TypeOK
<1>2. PICK h \in Holders, todo \in Refreshes \union {Rebuild} :
              /\ Locks(h, todo)
              /\ IF h = Worker THEN working = todo /\ pc' = pc
                 ELSE due[h] = todo /\ pc' = [pc EXCEPT ![h] = "hold"]
              /\ pc'[h] = "hold" \/ h = Worker
              /\ UNCHANGED <<fileVars, rows, saving, due, queue, working, lost, saves, failures>>
    BY StartsEmpty
<1>3. /\ tx'[h] = NothingRead(todo)
      /\ \A i \in Holders : i # h => tx'[i] = Absent
    BY <1>1, <1>2, LocksType
<1>4. tx'[h].todo = todo /\ \A a \in Articles : tx'[h].arts[a] = Absent
    BY <1>3 DEF NothingRead
<1>5. OneWriter'
    BY <1>3 DEF OneWriter
<1>6. InHand'
    <2>1. ASSUME NEW t \in Threads, tx'[t] # Absent
          PROVE  pc'[t] = "hold" /\ tx'[t].todo = due'[t]
        <3>1. t \in Holders /\ t # Worker
            BY WorkerAssumption DEF Holders
        <3>2. t = h
            BY <1>3, <2>1, <3>1
        <3> QED BY <1>2, <1>4, <3>1, <3>2
    <2>2. ASSUME NEW t \in Threads, pc'[t] \in {"idle", "commit"}
          PROVE  due'[t] = Absent
        <3>1. pc[t] = pc'[t]
            BY <1>1, <1>2, <2>2
        <3> QED BY <1>2, <2>2, <3>1 DEF IInv, InHand
    <2>3. ASSUME tx'[Worker] # Absent
          PROVE  working' # Absent /\ tx'[Worker].todo = working'
        <3>1. h = Worker
            BY <1>3, <2>3 DEF Holders
        <3>2. working # Absent
            <4>1. StartJob
                <5>1. SUFFICES ASSUME NEW t \in Threads, StartSync(t) PROVE FALSE
                    OBVIOUS
                <5>2. t # Worker /\ t \in Holders
                    BY WorkerAssumption DEF Holders
                <5>3. tx' = [tx EXCEPT ![t] = NothingRead(due[t])] /\ tx[Worker] = Absent
                    BY <5>1 DEF StartSync, Locks, Holders
                <5> QED BY <1>1, <2>3, <5>2, <5>3 DEF TypeOK, Holders
            <4> QED BY <4>1 DEF StartJob
        <3> QED BY <1>2, <1>4, <3>1, <3>2
    <2> QED BY <2>1, <2>2, <2>3 DEF InHand
<1>7. ReadsBetween'
    <2>1. \A a \in Articles : rows'[a].version <= art'[a].version
        BY <1>2 DEF IInv, ReadsBetween, fileVars
    <2> QED BY <1>3, <1>4, <2>1 DEF ReadsBetween
<1> QED BY <1>5, <1>6, <1>7 DEF IInv

LEMMA ReadsIInv ==
    ASSUME IInv, TypeOK', NEW h \in Holders, Reads(h)
    PROVE  IInv'
<1>1. TypeOK /\ tx \in [Holders -> Transactions \union {Absent}]
    BY DEF IInv, TypeOK
<1>2. \A i \in Holders : i # h => tx'[i] = tx[i]
    BY <1>1 DEF Reads
<1>3. \A i \in Holders : tx'[i] # Absent => tx[i] # Absent /\ tx'[i].todo = tx[i].todo
    BY <1>2 DEF Reads
<1>4. OneWriter'
    BY <1>3 DEF IInv, OneWriter
<1>5. InHand'
    <2>1. \A t \in Threads : t \in Holders
        BY DEF Holders
    <2>2. Worker \in Holders
        BY DEF Holders
    <2> QED BY <1>3, <2>1, <2>2 DEF IInv, InHand, Reads, threadVars
<1>6. ReadsBetween'
    <2>1. \A a \in Articles : art[a].version \in Nat /\ rows[a].version <= art[a].version
        BY <1>1 DEF IInv, ReadsBetween, TypeOK, ArticleReadmes
    <2>2. rows' = rows /\ art' = art
        BY DEF Reads, fileVars
    <2>3. \A i \in Holders : tx'[i] # Absent => \A a \in Articles :
              tx'[i].arts[a] # Absent => tx'[i].arts[a] \in {tx[i].arts[a], art[a]}
        BY <1>2 DEF Reads
    <2>4. ASSUME NEW i \in Holders, tx'[i] # Absent, NEW a \in Articles, tx'[i].arts[a] # Absent
          PROVE  /\ rows[a].version <= tx'[i].arts[a].version
                 /\ tx'[i].arts[a].version <= art[a].version
        <3>1. CASE tx'[i].arts[a] = art[a]
            BY <2>1, <3>1
        <3>2. CASE tx'[i].arts[a] = tx[i].arts[a]
            BY <1>3, <2>4, <3>2 DEF IInv, ReadsBetween
        <3> QED BY <2>3, <2>4, <3>1, <3>2
    <2> QED BY <2>1, <2>2, <2>4 DEF ReadsBetween
<1> QED BY <1>4, <1>5, <1>6 DEF IInv

LEMMA FinishIInv ==
    ASSUME IInv, TypeOK', NEW h \in Holders, Finish(h)
    PROVE  IInv' /\ \A a \in Articles : rows'[a].version >= rows[a].version
<1>1. TypeOK /\ tx \in [Holders -> Transactions \union {Absent}]
    BY DEF IInv, TypeOK
<1>2. \A i \in Holders : tx'[i] = Absent
    BY <1>1 DEF Finish, IInv, OneWriter
<1>3. OneWriter'
    BY <1>2 DEF OneWriter
<1>4. InHand'
    <2>1. \A t \in Threads : t \in Holders /\ t # Worker
        BY WorkerAssumption DEF Holders
    <2>2. \A t \in Threads : pc'[t] \in {"idle", "commit"} => due'[t] = Absent
        <3>1. CASE h = Worker
            BY <3>1 DEF Finish, IInv, InHand, threadVars
        <3>2. CASE h # Worker
            <4>1. h \in Threads /\ Ends(h)
                BY <3>2 DEF Finish, Holders
            <4> QED BY <1>1, <4>1, EndsType DEF IInv, InHand
        <3> QED BY <3>1, <3>2
    <2> QED BY <1>2, <2>1, <2>2 DEF InHand, Holders
<1>5. \A a \in Articles : /\ rows'[a].version >= rows[a].version
                          /\ rows'[a].version <= art[a].version
    <2> TAKE a \in Articles
    <2>1. rows[a].version \in Nat /\ rows[a].version <= art[a].version
        BY <1>1 DEF IInv, ReadsBetween, TypeOK, IndexRows
    <2>2. CASE a \in Recomputed(h)
        <3>1. rows'[a] = RowFor(tx[h].arts[a], tx[h].colls)
            BY <2>2 DEF Finish
        <3>2. tx[h] # Absent /\ tx[h].arts[a] # Absent
              /\ rows'[a].version = tx[h].arts[a].version
            BY <1>1, <2>2, <3>1, WrittenRow DEF Finish
        <3>3. /\ rows[a].version <= tx[h].arts[a].version
              /\ tx[h].arts[a].version <= art[a].version
            BY <3>2 DEF IInv, ReadsBetween
        <3>4. tx[h].arts[a].version \in Nat
            BY <1>1, <3>2 DEF Transactions, ArticleReadmes
        <3> QED BY <2>1, <3>2, <3>3, <3>4
    <2>3. CASE a \notin Recomputed(h)
        <3>1. rows'[a] = rows[a]
            BY <2>3 DEF Finish
        <3> QED BY <2>1, <3>1
    <2> QED BY <2>2, <2>3
<1>6. ReadsBetween'
    BY <1>2, <1>5 DEF ReadsBetween, Finish, fileVars
<1> QED BY <1>3, <1>4, <1>5, <1>6 DEF IInv

(* A failure step rolls transactions back and touches no file and no row. *)
Fails ==
    \/ \E t \in Threads : SyncFails(t) \/ Retry(t) \/ Forget(t)
    \/ Tick \/ TakeJob \/ JobFails \/ AppCrash

LEMMA FailsLeaves ==
    ASSUME IInv, Fails
    PROVE  /\ UNCHANGED <<coll, art, rows>>
           /\ \A h \in Holders : tx'[h] \in {tx[h], Absent}
           /\ tx'[Worker] # Absent => working' = working
           /\ \A t \in Threads :
                 /\ tx'[t] # Absent => pc'[t] = pc[t] /\ due'[t] = due[t]
                 /\ pc'[t] \in {"idle", "commit"} =>
                       due'[t] = Absent \/ (pc'[t] = pc[t] /\ due'[t] = due[t])
<1>1. TypeOK /\ Worker \in Holders /\ \A t \in Threads : t \in Holders /\ t # Worker
    BY WorkerAssumption DEF IInv, Holders
<1>2. \A t \in Threads : tx[t] # Absent => pc[t] = "hold"
    BY DEF IInv, InHand
<1>3. ASSUME NEW u \in Threads, SyncFails(u)
      PROVE  /\ UNCHANGED <<coll, art, rows, due, working>>
             /\ \A h \in Holders : tx'[h] \in {tx[h], Absent}
             /\ tx'[u] = Absent /\ pc'[u] = "retry"
             /\ \A t \in Threads \ {u} : pc'[t] = pc[t]
    BY <1>1, <1>3, RolledBackType DEF SyncFails, fileVars, TypeOK
<1>4. ASSUME NEW u \in Threads, Retry(u) \/ Forget(u)
      PROVE  /\ UNCHANGED <<coll, art, rows, tx, working>>
             /\ tx[u] = Absent /\ due'[u] = Absent
             /\ \A t \in Threads \ {u} : pc'[t] = pc[t] /\ due'[t] = due[t]
    BY <1>1, <1>2, <1>4, EndsType DEF Retry, Forget, fileVars
<1>5. ASSUME Tick \/ TakeJob
      PROVE  UNCHANGED <<coll, art, rows, tx, pc, due>> /\ (tx[Worker] # Absent => working' = working)
    BY <1>5 DEF Tick, TakeJob, fileVars, threadVars, IInv, InHand
<1>6. ASSUME JobFails
      PROVE  /\ UNCHANGED <<coll, art, rows, pc, due>>
             /\ \A h \in Holders : tx'[h] \in {tx[h], Absent}
             /\ tx'[Worker] = Absent
    BY <1>1, <1>6, RolledBackType DEF JobFails, fileVars, threadVars
<1>7. ASSUME AppCrash
      PROVE  /\ UNCHANGED <<coll, art, rows, working>>
             /\ \A h \in Holders : tx'[h] \in {tx[h], Absent}
             /\ \A t \in Threads : tx'[t] = Absent /\ due'[t] = Absent
    BY <1>1, <1>7, RolledBackType DEF AppCrash, fileVars, Holders
<1>8. CASE \E u \in Threads : SyncFails(u)
    BY <1>3, <1>8
<1>9. CASE \E u \in Threads : Retry(u) \/ Forget(u)
    BY <1>4, <1>9
<1> QED BY <1>5, <1>6, <1>7, <1>8, <1>9 DEF Fails

LEMMA FailsIInv ==
    ASSUME IInv, TypeOK', Fails
    PROVE  IInv'
<1>1. \A t \in Threads : t \in Holders
    BY DEF Holders
<1>2. OneWriter'
    BY FailsLeaves DEF IInv, OneWriter
<1>3. InHand'
    BY <1>1, FailsLeaves DEF IInv, InHand, Holders
<1>4. ReadsBetween'
    BY FailsLeaves DEF IInv, ReadsBetween
<1> QED BY <1>2, <1>3, <1>4 DEF IInv

LEMMA IInvStep == IInv /\ [Next]_vars => IInv'
<1> SUFFICES ASSUME IInv, [Next]_vars PROVE IInv'
    OBVIOUS
<1>1. TypeOK'
    BY TypeStep DEF IInv
<1>2. ASSUME NEW h \in Holders, Runs(h)
      PROVE  IInv'
    BY <1>1, <1>2, ReadingReads, ReadsIInv, FinishIInv DEF Runs, IInv
<1>3. ASSUME NEW t \in Threads, Saves(t)
      PROVE  IInv'
    BY <1>1, <1>3, SavesIInv
<1>4. CASE StartJob \/ \E t \in Threads : StartSync(t)
    BY <1>1, <1>4, StartIInv
<1>5. CASE Fails
    BY <1>1, <1>5, FailsIInv
<1>6. CASE UNCHANGED vars
    BY <1>6 DEF vars, IInv, TypeOK, OneWriter, InHand, ReadsBetween
<1> QED BY <1>2, <1>3, <1>4, <1>5, <1>6 DEF Next, Saves, Fails

THEOREM OneWriterReads == Spec => []IInv
BY InitIInv, IInvStep, PTL DEF Spec

LEMMA RowsStep ==
    IInv /\ [Next]_vars => [\A a \in Articles : rows'[a].version >= rows[a].version]_vars
<1> SUFFICES ASSUME IInv, Next
             PROVE  \A a \in Articles : rows'[a].version >= rows[a].version
    OBVIOUS
<1>1. TypeOK /\ TypeOK'
    BY TypeStep DEF IInv
<1>2. \A a \in Articles : rows[a].version \in Nat
    BY <1>1 DEF TypeOK, IndexRows
<1>3. CASE rows' = rows
    BY <1>2, <1>3
<1>4. ASSUME NEW h \in Holders, Finish(h)
      PROVE  \A a \in Articles : rows'[a].version >= rows[a].version
    BY <1>1, <1>4, FinishIInv
<1>5. ASSUME NEW h \in Holders, ReadCollection(h) \/ ListArticles(h) \/ ReadArticle(h)
      PROVE  rows' = rows
    BY <1>1, <1>5, ReadingReads DEF Reads
<1>6. ASSUME NEW t \in Threads, Saves(t)
      PROVE  rows' = rows
    BY <1>6, SavesInHand
<1>7. ASSUME StartJob \/ \E t \in Threads : StartSync(t)
      PROVE  rows' = rows
    BY <1>7 DEF StartJob, StartSync
<1>8. ASSUME Fails
      PROVE  rows' = rows
    BY <1>8, FailsLeaves
<1> QED BY <1>3, <1>4, <1>5, <1>6, <1>7, <1>8 DEF Next, Runs, Saves, Fails

(* The writer lock is taken before the first read and held until the rows  *)
(* are written: no refresh writes a row over one from a newer Article, and *)
(* no row of an Article deleted for good comes back (ADR 0014).            *)
THEOREM RowsOnlyMoveForward == Spec => RowsMoveForward
BY OneWriterReads, RowsStep, PTL DEF Spec, RowsMoveForward

-----------------------------------------------------------------------------
(* No row is stale by accident.  A row computed from READMEs of several    *)
(* moments can be one the archive never called for; what keeps it honest   *)
(* is that every save after a README was read owes a refresh of its own,   *)
(* and that the row depends on nothing but the READMEs on its chain.       *)

LEMMA NothingSaidTwice ==
    ASSUME NEW r \in Refreshes
    PROVE  r # Absent /\ r # Rebuild
BY AbsentAssumption DEF Refreshes, Rebuild

LEMMA OwedBy ==
    ASSUME NEW r \in Refreshes
    PROVE  r \in Owed <=> \/ \E t \in DOMAIN due : due[t] = r
                          \/ r \in Range(queue)
                          \/ working = r
                          \/ \E l \in lost : l[1] = r
BY NothingSaidTwice DEF Owed, Range

LEMMA OwedIsRefresh ==
    ASSUME TypeOK
    PROVE  Owed \subseteq Refreshes
<1>1. \A t \in DOMAIN due : due[t] \in Refreshes \union {Absent}
    BY DEF TypeOK
<1>2. Range(queue) \subseteq Refreshes \union {Rebuild}
    BY DEF TypeOK, Range
<1>3. \A l \in lost : l[1] \in Refreshes
    BY DEF TypeOK
<1>4. working \in Refreshes \union {Rebuild, Absent}
    BY DEF TypeOK
<1> QED BY <1>1, <1>2, <1>3, <1>4 DEF Owed, Range

LEMMA TreeRooted ==
    ASSUME TypeOK
    PROVE  Rooted(coll)
BY DEF TypeOK, Rooted, CollectionReadmes

(* The Collections an Article's row is computed from, as a transaction     *)
(* read them, are those of now, or somebody owes the row a refresh.        *)
LEMMA NewsCovers ==
    ASSUME OInv, NEW h \in Holders, tx[h] # Absent, NEW a \in Articles,
           tx[h].arts[a] # Absent,
           tx[h].arts[a].article # Absent => CollectionsRead(h)
    PROVE  \/ \E r \in Refreshes : OwedElse(h, r) /\ Covers(r, a)
           \/ /\ tx[h].arts[a] = art[a]
              /\ art[a].article # Absent =>
                     /\ art[a].article \in Placements
                     /\ Agree(tx[h].colls, coll, art[a].article.collection)
<1>1. TypeOK /\ Tree(coll) /\ NewsOwed
    BY DEF OInv, IInv
<1>2. art[a].article \in Placements \union {Absent}
    BY <1>1 DEF TypeOK, ArticleReadmes
<1>3. CASE tx[h].arts[a] # art[a]
    <2> DEFINE r == [kind |-> "article", of |-> a]
    <2>1. OwedElse(h, r)
        BY <1>1, <1>3 DEF NewsOwed
    <2>2. r \in Refreshes /\ Covers(r, a)
        BY DEF Refreshes, Covers
    <2> QED BY <2>1, <2>2
<1>4. CASE tx[h].arts[a] = art[a] /\ art[a].article # Absent
    <2> DEFINE c == art[a].article.collection
    <2>1. art[a].article \in Placements /\ c \in Collections
        BY <1>2, <1>4 DEF Placements
    <2>2. ASSUME NEW d \in ResolveChain(c, coll),
                 tx[h].colls[d].parent # coll[d].parent \/ tx[h].colls[d].audience # coll[d].audience
          PROVE  \E r \in Refreshes : OwedElse(h, r) /\ Covers(r, a)
        <3> DEFINE r == [kind |-> "subtree", of |-> d]
        <3>1. d \in Collections
            BY DEF ResolveChain
        <3>2. tx[h].colls[d] # Absent
            BY <1>4, <3>1 DEF CollectionsRead
        <3>3. OwedElse(h, r)
            BY <1>1, <2>2, <3>1, <3>2 DEF NewsOwed
        <3>4. ~Broken(c, coll)
            BY <1>1, <2>1 DEF Tree
        <3>5. r \in Refreshes /\ Covers(r, a)
            BY <1>4, <3>1, <3>4 DEF Refreshes, Covers, InSubtree
        <3> QED BY <3>3, <3>5
    <2> QED BY <1>4, <2>1, <2>2 DEF Agree
<1> QED BY <1>3, <1>4

LEMMA FinishOwed ==
    ASSUME OInv, NEW h \in Holders, Finish(h), NEW r \in Refreshes, OwedElse(h, r)
    PROVE  r \in Owed'
<1>1. TypeOK /\ due \in [Threads -> Refreshes \union {Absent}]
    BY DEF OInv, IInv, TypeOK
<1>2. queue' = queue /\ lost' = lost \ tx[h].heals
    BY DEF Finish
<1>3. h # Worker => working' = working
    BY DEF Finish
<1>4. \A t \in Threads \ {h} : t \in DOMAIN due' /\ due'[t] = due[t]
    <2>1. CASE h = Worker
        BY <1>1, <2>1 DEF Finish, threadVars
    <2>2. CASE h # Worker
        <3>1. h \in Threads /\ Ends(h)
            BY <2>2 DEF Finish, Holders
        <3> QED BY <1>1, <3>1, EndsType
    <2> QED BY <2>1, <2>2
<1>5. r \in Owed' <=> \/ \E t \in DOMAIN due' : due'[t] = r
                      \/ r \in Range(queue')
                      \/ working' = r
                      \/ \E l \in lost' : l[1] = r
    BY NothingSaidTwice DEF Owed, Range
<1> QED BY <1>2, <1>3, <1>4, <1>5 DEF OwedElse

(* What is owed and not by this transaction alone is owed elsewhere. *)
LEMMA OwedHereOrElse ==
    ASSUME OInv, NEW h \in Holders, tx[h] # Absent, NEW r \in Owed,
           tx[h].todo # Rebuild
    PROVE  r = tx[h].todo \/ OwedElse(h, r)
<1>1. TypeOK /\ InHand
    BY DEF OInv, IInv
<1>2. r \in Refreshes /\ DOMAIN due = Threads
    BY <1>1, OwedIsRefresh DEF TypeOK
<1>3. \/ \E t \in Threads : due[t] = r
      \/ r \in Range(queue)
      \/ working = r
      \/ \E l \in lost : l[1] = r
    BY <1>2, OwedBy
<1>4. tx[h].heals = {}
    BY DEF OInv, HealsWhatWasLost
<1>5. h = Worker => working = tx[h].todo
    BY <1>1 DEF InHand
<1>6. h # Worker => due[h] = tx[h].todo
    BY <1>1 DEF InHand, Holders
<1>7. Worker \notin Threads
    BY WorkerAssumption
<1> QED BY <1>3, <1>4, <1>5, <1>6, <1>7 DEF OwedElse

LEMMA FinishStale ==
    ASSUME OInv, NEW h \in Holders, Finish(h)
    PROVE  StaleRowsOwed'
<1>1. TypeOK /\ Tree(coll) /\ tx[h] # Absent /\ Complete(h) /\ Rooted(coll)
    BY TreeRooted DEF OInv, IInv, Finish
<1>2. coll' = coll /\ art' = art
    BY DEF Finish, fileVars
<1>3. SUFFICES ASSUME NEW a \in Articles, rows'[a] # Fresh(a)
               PROVE  \E r \in Owed' : Covers(r, a)
    BY <1>2 DEF StaleRowsOwed, Fresh, Covers
<1>4. SUFFICES \E r \in Refreshes : OwedElse(h, r) /\ Covers(r, a)
    BY FinishOwed
<1>5. ASSUME OfArticle(h) => a = tx[h].todo.of
      PROVE  \/ \E r \in Refreshes : OwedElse(h, r) /\ Covers(r, a)
             \/ /\ tx[h].arts[a] = art[a] /\ tx[h].arts[a] # Absent
                /\ RowFor(art[a], tx[h].colls) = Fresh(a)
                /\ art[a].article # Absent => \A c :
                       InSubtree(art[a].article, c, tx[h].colls)
                           <=> InSubtree(art[a].article, c, coll)
    <2>1. /\ tx[h].arts[a] # Absent
          /\ tx[h].arts[a].article # Absent => CollectionsRead(h)
        BY <1>1, <1>5, CompleteHasRead
    <2>2. CASE \E r \in Refreshes : OwedElse(h, r) /\ Covers(r, a)
        BY <2>2
    <2>3. CASE /\ tx[h].arts[a] = art[a]
               /\ art[a].article # Absent =>
                      /\ art[a].article \in Placements
                      /\ Agree(tx[h].colls, coll, art[a].article.collection)
        <3>1. CASE art[a].article = Absent
            BY <2>1, <2>3, <3>1 DEF Fresh, RowFor
        <3>2. CASE art[a].article # Absent
            <4>1. /\ RowColumns(art[a].article, tx[h].colls) = RowColumns(art[a].article, coll)
                  /\ \A c : InSubtree(art[a].article, c, tx[h].colls)
                                <=> InSubtree(art[a].article, c, coll)
                BY <1>1, <2>3, <3>2, RowIsLocal
            <4> QED BY <2>1, <2>3, <3>2, <4>1 DEF Fresh, RowFor
        <3> QED BY <3>1, <3>2
    <2> QED BY <1>1, <2>1, <2>2, <2>3, NewsCovers
<1>6. CASE a \in Recomputed(h)
    <2>1. rows'[a] = RowFor(tx[h].arts[a], tx[h].colls)
        BY <1>6 DEF Finish
    <2>2. OfArticle(h) => a = tx[h].todo.of
        BY <1>1, <1>6, RecomputedHasRead
    <2> QED BY <1>3, <1>5, <2>1, <2>2
<1>7. CASE a \notin Recomputed(h)
    <2>1. rows'[a] = rows[a]
        BY <1>7 DEF Finish
    <2>2. PICK r \in Owed : Covers(r, a)
        BY <1>3, <2>1 DEF OInv, StaleRowsOwed
    <2>3. tx[h].todo \in Refreshes \union {Rebuild} /\ r \in Refreshes
        BY <1>1, OwedIsRefresh DEF TypeOK, Transactions
    <2>4. tx[h].todo # Rebuild
        <3>1. SUFFICES ASSUME tx[h].todo.kind = "rebuild" PROVE FALSE
            BY DEF Rebuild
        <3> QED BY <1>7, <3>1 DEF Recomputed
    <2>5. CASE OwedElse(h, r)
        BY <2>2, <2>3, <2>5
    <2>6. CASE r = tx[h].todo
        <3>1. ~OfArticle(h)
            BY <1>7, <2>2, <2>6 DEF OfArticle, Covers, Recomputed
        <3>2. /\ tx[h].todo.kind = "subtree" /\ art[a].article # Absent
              /\ InSubtree(art[a].article, tx[h].todo.of, coll)
            BY <2>2, <2>6, <3>1 DEF OfArticle, Covers
        <3>3. ASSUME tx[h].arts[a] = art[a],
                     InSubtree(art[a].article, tx[h].todo.of, tx[h].colls)
              PROVE  FALSE
            BY <1>7, <3>2, <3>3 DEF Recomputed
        <3> QED BY <1>5, <3>1, <3>2, <3>3
    <2> QED BY <1>1, <2>2, <2>4, <2>5, <2>6, OwedHereOrElse
<1> QED BY <1>6, <1>7

(* A save takes nothing from what is owed and adds what its thread owes. *)
LEMMA SavesOwed ==
    ASSUME OInv, NEW t \in Threads, Saves(t)
    PROVE  /\ Owed \subseteq Owed'
           /\ due'[t] \in Refreshes => due'[t] \in Owed'
           /\ \A h \in Holders : tx[h] # Absent => \A r \in Refreshes :
                 OwedElse(h, r) \/ due'[t] = r => OwedElse(h, r)'
<1>1. TypeOK /\ IInv /\ due \in [Threads -> Refreshes \union {Absent}]
    BY DEF OInv, IInv, TypeOK
<1>2. /\ due[t] = Absent /\ tx[t] = Absent
      /\ \A u \in Threads \ {t} : due'[u] = due[u]
      /\ due' \in [Threads -> Refreshes \union {Absent}]
      /\ tx' = tx /\ queue' = queue /\ working' = working /\ lost' = lost
    BY <1>1, SavesInHand
<1>3. \A r \in Refreshes :
          r \in Owed' <=> \/ \E u \in Threads : due'[u] = r
                          \/ r \in Range(queue)
                          \/ working = r
                          \/ \E l \in lost : l[1] = r
    BY <1>2, NothingSaidTwice DEF Owed, Range
<1>4. \A r \in Refreshes :
          r \in Owed <=> \/ \E u \in Threads : due[u] = r
                         \/ r \in Range(queue)
                         \/ working = r
                         \/ \E l \in lost : l[1] = r
    BY <1>1, OwedBy
<1>5. \A r \in Refreshes : r # Absent
    BY NothingSaidTwice
<1>6. Owed \subseteq Owed'
    BY <1>1, <1>2, <1>3, <1>4, <1>5, OwedIsRefresh
<1>7. due'[t] \in Refreshes => due'[t] \in Owed'
    BY <1>3
<1>8. ASSUME NEW h \in Holders, tx[h] # Absent, NEW r \in Refreshes,
             OwedElse(h, r) \/ due'[t] = r
      PROVE  OwedElse(h, r)'
    <2>1. h # t
        BY <1>2, <1>8
    <2>2. CASE due'[t] = r
        BY <2>1, <2>2 DEF OwedElse
    <2>3. CASE OwedElse(h, r)
        BY <1>2, <1>5, <2>3 DEF OwedElse
    <2> QED BY <1>8, <2>2, <2>3
<1> QED BY <1>6, <1>7, <1>8

LEMMA ArticleSavesOInv ==
    ASSUME OInv, IInv', NEW t \in Threads, SaveArticle(t) \/ HardDelete(t)
    PROVE  OInv'
<1>1. TypeOK /\ IInv
    BY DEF OInv, IInv
<1>2. PICK a \in Articles : /\ \A b \in Articles \ {a} : art'[b] = art[b]
                            /\ Owes(t, [kind |-> "article", of |-> a])
    BY <1>1 DEF SaveArticle, HardDelete, TypeOK
<1> DEFINE r == [kind |-> "article", of |-> a]
<1>3. r \in Refreshes
    BY DEF Refreshes
<1>4. pc'[t] = "sync" /\ due'[t] = r /\ \A u \in Threads \ {t} : pc'[u] = pc[u]
    BY <1>1, <1>2, <1>3, OwesType
<1>5. /\ UNCHANGED <<coll, rows, tx, saving, lost, failures>>
    BY DEF SaveArticle, HardDelete
<1>6. /\ Owed \subseteq Owed' /\ r \in Owed'
      /\ \A h \in Holders : tx[h] # Absent => \A s \in Refreshes :
            OwedElse(h, s) \/ r = s => OwedElse(h, s)'
    BY <1>3, <1>4, SavesOwed DEF Saves
<1>7. Tree(coll') /\ HealsWhatWasLost'
    BY <1>5 DEF OInv, HealsWhatWasLost
<1>8. StillUnmoved'
    BY <1>4, <1>5 DEF OInv, StillUnmoved
<1>9. NewsOwed'
    <2>1. ASSUME NEW h \in Holders, tx[h] # Absent, NEW c \in Collections,
                 tx[h].colls[c] # Absent,
                 tx[h].colls[c].parent # coll[c].parent \/ tx[h].colls[c].audience # coll[c].audience
          PROVE  OwedElse(h, [kind |-> "subtree", of |-> c])'
        <3>1. [kind |-> "subtree", of |-> c] \in Refreshes
            BY DEF Refreshes
        <3> QED BY <1>6, <2>1, <3>1 DEF OInv, NewsOwed
    <2>2. ASSUME NEW h \in Holders, tx[h] # Absent, NEW b \in Articles,
                 tx[h].arts[b] # Absent, tx[h].arts[b] # art'[b]
          PROVE  OwedElse(h, [kind |-> "article", of |-> b])'
        <3>1. [kind |-> "article", of |-> b] \in Refreshes
            BY DEF Refreshes
        <3> QED BY <1>2, <1>6, <2>2, <3>1 DEF OInv, NewsOwed
    <2> QED BY <1>5, <2>1, <2>2 DEF NewsOwed
<1>10. StaleRowsOwed'
    <2> SUFFICES ASSUME NEW b \in Articles, rows'[b] # Fresh(b)'
                 PROVE  \E s \in Owed' : Covers(s, b)'
        BY DEF StaleRowsOwed
    <2>1. CASE b = a
        <3>1. Covers(r, b)'
            BY <2>1 DEF Covers
        <3> QED BY <1>6, <3>1
    <2>2. CASE b # a
        <3>1. rows[b] # Fresh(b)
            BY <1>2, <1>5, <2>2 DEF Fresh
        <3>2. PICK s \in Owed : Covers(s, b)
            BY <3>1 DEF OInv, StaleRowsOwed
        <3>3. Covers(s, b)'
            BY <1>2, <1>5, <2>2, <3>2 DEF Covers
        <3> QED BY <1>6, <3>2, <3>3
    <2> QED BY <2>1, <2>2
<1> QED BY <1>7, <1>8, <1>9, <1>10 DEF OInv

LEMMA DecideOInv ==
    ASSUME OInv, IInv', NEW t \in Threads, Decide(t)
    PROVE  OInv'
<1>1. TypeOK /\ IInv
    BY DEF OInv, IInv
<1>2. UNCHANGED <<coll, art, rows, tx, due, queue, working, lost, failures>>
    BY DEF Decide
<1>3. PICK c \in Collections : /\ saving'[t].of = c
                               /\ ~saving'[t].moves =>
                                     /\ saving'[t].expected = coll[c].version
                                     /\ coll[c].parent = saving'[t].parent
                                     /\ coll[c].audience = saving'[t].audience
    <2>1. PICK c \in Collections, parent \in Collections \union {Top},
               audience \in Audiences \union {Silent} : \E expected \in 1..(coll[c].version + 1) :
              saving' = [saving EXCEPT ![t] =
                  [of |-> c, parent |-> parent, audience |-> audience, expected |-> expected,
                   moves |-> MovesVisibility(coll[c], parent, audience, expected)]]
        BY DEF Decide
    <2>2. PICK expected \in 1..(coll[c].version + 1) :
              saving'[t] =
                  [of |-> c, parent |-> parent, audience |-> audience, expected |-> expected,
                   moves |-> MovesVisibility(coll[c], parent, audience, expected)]
        BY <1>1, <2>1 DEF TypeOK
    <2>3. /\ saving'[t].of = c /\ saving'[t].expected = expected
          /\ saving'[t].parent = parent /\ saving'[t].audience = audience
        BY <2>2
    <2>4. saving'[t].moves = MovesVisibility(coll[c], parent, audience, expected)
        BY <2>2
    <2>5. ~MovesVisibility(coll[c], parent, audience, expected) =>
              /\ coll[c].version = expected
              /\ coll[c].parent = parent /\ coll[c].audience = audience
        BY DEF MovesVisibility
    <2> QED BY <2>3, <2>4, <2>5
<1>4. \A u \in Threads \ {t} : saving'[u] = saving[u] /\ pc'[u] = pc[u]
    BY <1>1 DEF Decide, TypeOK
<1>5. coll[c].version \in Nat
    BY <1>1 DEF TypeOK, CollectionReadmes
<1>6. StillUnmoved'
    BY <1>2, <1>3, <1>4, <1>5 DEF OInv, StillUnmoved
<1>7. Owed' = Owed
    BY <1>2 DEF Owed
<1>8. StaleRowsOwed'
    BY <1>2, <1>7 DEF OInv, StaleRowsOwed, Fresh, Covers
<1>9. NewsOwed'
    BY <1>2 DEF OInv, NewsOwed, OwedElse
<1>10. Tree(coll') /\ HealsWhatWasLost'
    BY <1>2 DEF OInv, HealsWhatWasLost
<1> QED BY <1>6, <1>8, <1>9, <1>10 DEF OInv

(* The rows of Articles whose chain leaves c out stand, whatever a save    *)
(* makes of c.                                                             *)
LEMMA SaveIsLocal ==
    ASSUME OInv, Rooted(coll'), art' = art, NEW c \in Collections,
           \A d \in Collections \ {c} : coll'[d] = coll[d],
           NEW a \in Articles, art[a].article # Absent,
           \/ c \notin ResolveChain(art[a].article.collection, coll')
           \/ coll'[c].parent = coll[c].parent /\ coll'[c].audience = coll[c].audience
    PROVE  Fresh(a)' = Fresh(a) /\ \A r : Covers(r, a)' <=> Covers(r, a)
<1> DEFINE p == art[a].article
<1>1. p \in Placements
    BY DEF OInv, IInv, TypeOK, ArticleReadmes
<1>2. Agree(coll, coll', p.collection)
    BY DEF Agree, ResolveChain
<1>3. /\ RowColumns(p, coll) = RowColumns(p, coll')
      /\ \A d : InSubtree(p, d, coll) <=> InSubtree(p, d, coll')
    BY <1>1, <1>2, RowIsLocal
<1> QED BY <1>3 DEF Fresh, RowFor, Covers

LEMMA CommitOInv ==
    ASSUME ~MayBreak, OInv, IInv', NEW t \in Threads, CommitCollection(t)
    PROVE  OInv'
<1>1. TypeOK /\ IInv /\ TypeOK'
    BY DEF OInv, IInv
<1> PICK save \in Savings : save = saving[t]
    BY <1>1, Committed
<1> DEFINE c == save.of
           r == [kind |-> "subtree", of |-> c]
<1>2. /\ pc[t] = "commit" /\ save \in Savings
      /\ UNCHANGED <<art, rows, tx, queue, working, lost, failures>>
      /\ \A u \in Threads \ {t} : saving'[u] = saving[u]
    BY <1>1, Committed DEF CommitCollection, TypeOK
<1>3. c \in Collections /\ r \in Refreshes
    BY <1>2 DEF Savings, Refreshes
<1>4. /\ \A u \in Threads \ {t} : pc'[u] = pc[u]
      /\ Owed \subseteq Owed' /\ (due'[t] \in Refreshes => due'[t] \in Owed')
      /\ \A h \in Holders : tx[h] # Absent => \A s \in Refreshes :
            OwedElse(h, s) \/ due'[t] = s => OwedElse(h, s)'
    BY <1>1, SavesInHand, SavesOwed DEF Saves
<1>5. CASE Ends(t) /\ UNCHANGED coll
    <2>1. pc'[t] = "idle"
        BY <1>1, <1>5, EndsType
    <2>2. StillUnmoved'
        BY <1>2, <1>4, <1>5, <2>1 DEF OInv, StillUnmoved
    <2>3. NewsOwed'
        <3>1. /\ \A d \in Collections : [kind |-> "subtree", of |-> d] \in Refreshes
              /\ \A a \in Articles : [kind |-> "article", of |-> a] \in Refreshes
            BY DEF Refreshes
        <3> QED BY <1>2, <1>4, <1>5, <3>1 DEF OInv, NewsOwed
    <2>4. StaleRowsOwed'
        BY <1>2, <1>4, <1>5 DEF OInv, StaleRowsOwed, Fresh, Covers
    <2>5. Tree(coll') /\ HealsWhatWasLost'
        BY <1>2, <1>5 DEF OInv, HealsWhatWasLost
    <2> QED BY <2>2, <2>3, <2>4, <2>5 DEF OInv
<1>6. CASE /\ coll[c].version = save.expected
           /\ coll' = [coll EXCEPT ![c] = [parent |-> save.parent, audience |-> save.audience,
                                           version |-> @.version + 1]]
           /\ MayBreak \/ Tree(coll')
           /\ \/ save.moves /\ Owes(t, r)
              \/ ~save.moves /\ Ends(t)
    <2>1. /\ coll'[c].parent = save.parent /\ coll'[c].audience = save.audience
          /\ coll'[c].version = coll[c].version + 1
          /\ \A d \in Collections \ {c} : coll'[d] = coll[d]
        BY <1>1, <1>3, <1>6 DEF TypeOK
    <2>2. pc'[t] # "commit" /\ (save.moves => due'[t] = r)
        BY <1>1, <1>3, <1>6, OwesType, EndsType
    <2>3. ~save.moves => coll'[c].parent = coll[c].parent /\ coll'[c].audience = coll[c].audience
        BY <1>2, <1>6, <2>1 DEF OInv, StillUnmoved
    <2>4. Tree(coll') /\ HealsWhatWasLost' /\ Rooted(coll')
        BY <1>1, <1>2, <1>6 DEF OInv, HealsWhatWasLost, Rooted, TypeOK, CollectionReadmes
    <2>5. StillUnmoved'
        <3> SUFFICES ASSUME NEW u \in Threads, pc'[u] = "commit", ~saving'[u].moves
                     PROVE  /\ saving'[u].expected <= coll'[saving'[u].of].version
                            /\ saving'[u].expected = coll'[saving'[u].of].version =>
                                  /\ coll'[saving'[u].of].parent = saving'[u].parent
                                  /\ coll'[saving'[u].of].audience = saving'[u].audience
            BY DEF StillUnmoved
        <3>1. u # t /\ pc[u] = "commit" /\ saving'[u] = saving[u] /\ saving[u] \in Savings
            BY <1>1, <1>2, <1>4, <2>2 DEF TypeOK
        <3>2. /\ saving[u].expected <= coll[saving[u].of].version
              /\ saving[u].expected = coll[saving[u].of].version =>
                    /\ coll[saving[u].of].parent = saving[u].parent
                    /\ coll[saving[u].of].audience = saving[u].audience
            BY <3>1 DEF OInv, StillUnmoved
        <3>3. saving[u].of \in Collections /\ saving[u].expected \in Nat
              /\ coll[c].version \in Nat
            BY <1>1, <1>3, <3>1 DEF Savings, TypeOK, CollectionReadmes
        <3>4. CASE saving[u].of = c
            BY <2>1, <3>1, <3>2, <3>3, <3>4
        <3>5. CASE saving[u].of # c
            BY <2>1, <3>1, <3>2, <3>3, <3>5
        <3> QED BY <3>4, <3>5
    <2>6. NewsOwed'
        <3>1. ASSUME NEW h \in Holders, tx[h] # Absent, NEW d \in Collections,
                     tx[h].colls[d] # Absent,
                     \/ tx[h].colls[d].parent # coll'[d].parent
                     \/ tx[h].colls[d].audience # coll'[d].audience
              PROVE  OwedElse(h, [kind |-> "subtree", of |-> d])'
            <4>1. [kind |-> "subtree", of |-> d] \in Refreshes
                BY DEF Refreshes
            <4>2. CASE d = c /\ save.moves
                BY <1>4, <2>2, <3>1, <4>1, <4>2
            <4>3. CASE ~(d = c /\ save.moves)
                <5>1. coll'[d].parent = coll[d].parent /\ coll'[d].audience = coll[d].audience
                    BY <2>1, <2>3, <4>3
                <5>2. OwedElse(h, [kind |-> "subtree", of |-> d])
                    BY <3>1, <5>1 DEF OInv, NewsOwed
                <5> QED BY <1>4, <3>1, <4>1, <5>2
            <4> QED BY <4>2, <4>3
        <3>2. ASSUME NEW h \in Holders, tx[h] # Absent, NEW a \in Articles,
                     tx[h].arts[a] # Absent, tx[h].arts[a] # art[a]
              PROVE  OwedElse(h, [kind |-> "article", of |-> a])'
            <4>1. [kind |-> "article", of |-> a] \in Refreshes
                BY DEF Refreshes
            <4> QED BY <1>4, <3>2, <4>1 DEF OInv, NewsOwed
        <3> QED BY <1>2, <3>1, <3>2 DEF NewsOwed
    <2>7. StaleRowsOwed'
        <3> SUFFICES ASSUME NEW a \in Articles, rows'[a] # Fresh(a)'
                     PROVE  \E s \in Owed' : Covers(s, a)'
            BY DEF StaleRowsOwed
        <3> DEFINE p == art[a].article
        <3>1. CASE Fresh(a)' = Fresh(a) /\ \A s : Covers(s, a)' <=> Covers(s, a)
            BY <1>2, <1>4, <3>1 DEF OInv, StaleRowsOwed
        <3>2. CASE p = Absent
            BY <1>2, <3>1, <3>2 DEF Fresh, RowFor, Covers
        <3>3. CASE p # Absent /\ ~(save.moves /\ c \in ResolveChain(p.collection, coll'))
            BY <1>2, <1>3, <2>1, <2>3, <2>4, <3>1, <3>3, SaveIsLocal
        <3>4. CASE p # Absent /\ save.moves /\ c \in ResolveChain(p.collection, coll')
            <4>1. p.collection \in Collections
                BY <1>1, <3>4 DEF TypeOK, ArticleReadmes, Placements
            <4>2. ~Broken(p.collection, coll')
                BY <2>4, <4>1 DEF Tree
            <4>3. Covers(r, a)'
                BY <1>2, <3>4, <4>2 DEF Covers, InSubtree
            <4> QED BY <1>3, <1>4, <2>2, <3>4, <4>3
        <3> QED BY <3>2, <3>3, <3>4
    <2> QED BY <2>4, <2>5, <2>6, <2>7 DEF OInv
<1> QED BY <1>1, <1>5, <1>6, Committed

LEMMA StartOInv ==
    ASSUME OInv, IInv', (\E t \in Threads : StartSync(t)) \/ StartJob
    PROVE  OInv'
<1>1. TypeOK /\ IInv /\ pc \in [Threads -> {"idle", "commit", "sync", "hold", "retry"}]
    BY DEF OInv, IInv, TypeOK
<1>2. PICK h \in Holders, todo \in Refreshes \union {Rebuild} :
              /\ Locks(h, todo)
              /\ IF h = Worker THEN working = todo /\ pc' = pc
                 ELSE due[h] = todo /\ pc' = [pc EXCEPT ![h] = "hold"]
              /\ pc'[h] = "hold" \/ h = Worker
              /\ UNCHANGED <<fileVars, rows, saving, due, queue, working, lost, saves, failures>>
    BY <1>1, StartsEmpty
<1>3. /\ tx'[h] = NothingRead(todo)
      /\ \A i \in Holders : i # h => tx'[i] = Absent
    BY <1>1, <1>2, LocksType
<1>4. UNCHANGED <<coll, art, rows, saving, due, queue, working, lost, failures>>
    BY <1>2 DEF fileVars
<1>5. StaleRowsOwed'
    BY <1>4 DEF OInv, StaleRowsOwed, Fresh, Covers, Owed
<1>6. NewsOwed'
    <2>1. /\ \A c \in Collections : tx'[h].colls[c] = Absent
          /\ \A a \in Articles : tx'[h].arts[a] = Absent
        BY <1>3 DEF NothingRead
    <2> QED BY <1>3, <2>1 DEF NewsOwed
<1>7. HealsWhatWasLost'
    <2>1. tx'[h].todo = todo /\ tx'[h].heals = IF todo = Rebuild THEN lost ELSE {}
        BY <1>3 DEF NothingRead
    <2> QED BY <1>3, <1>4, <2>1 DEF OInv, HealsWhatWasLost
<1>8. StillUnmoved'
    <2>1. \A t \in Threads : pc'[t] = "commit" => pc[t] = "commit"
        BY <1>1, <1>2
    <2> QED BY <1>4, <2>1 DEF OInv, StillUnmoved
<1> QED BY <1>4, <1>5, <1>6, <1>7, <1>8 DEF OInv

LEMMA ReadsOInv ==
    ASSUME OInv, IInv', NEW h \in Holders, Reads(h)
    PROVE  OInv'
<1>1. TypeOK /\ tx \in [Holders -> Transactions \union {Absent}]
    BY DEF OInv, IInv, TypeOK
<1>2. UNCHANGED <<coll, art, rows, pc, saving, due, queue, working, lost, failures>>
    BY DEF Reads, fileVars, threadVars
<1>3. StaleRowsOwed'
    BY <1>2 DEF OInv, StaleRowsOwed, Fresh, Covers, Owed
<1>4. StillUnmoved' /\ Tree(coll')
    BY <1>2 DEF OInv, StillUnmoved
<1>5. \A i \in Holders : i # h => tx'[i] = tx[i]
    BY <1>1 DEF Reads
<1>6. HealsWhatWasLost'
    BY <1>2, <1>5 DEF OInv, HealsWhatWasLost, Reads
<1>7. ASSUME NEW i \in Holders, NEW r
      PROVE  OwedElse(i, r) => OwedElse(i, r)'
    <2>1. tx'[i].heals = tx[i].heals
        BY <1>5 DEF Reads
    <2> QED BY <1>2, <2>1 DEF OwedElse
<1>8. NewsOwed'
    <2>1. ASSUME NEW i \in Holders, tx'[i] # Absent, NEW c \in Collections,
                 tx'[i].colls[c] # Absent,
                 tx'[i].colls[c].parent # coll[c].parent \/ tx'[i].colls[c].audience # coll[c].audience
          PROVE  OwedElse(i, [kind |-> "subtree", of |-> c])'
        <3>1. tx[i] # Absent /\ tx'[i].colls[c] = tx[i].colls[c]
            BY <1>5, <2>1 DEF Reads
        <3> QED BY <1>7, <2>1, <3>1 DEF OInv, NewsOwed
    <2>2. ASSUME NEW i \in Holders, tx'[i] # Absent, NEW a \in Articles,
                 tx'[i].arts[a] # Absent, tx'[i].arts[a] # art[a]
          PROVE  OwedElse(i, [kind |-> "article", of |-> a])'
        <3>1. tx[i] # Absent /\ tx'[i].arts[a] = tx[i].arts[a]
            BY <1>5, <2>2 DEF Reads
        <3> QED BY <1>7, <2>2, <3>1 DEF OInv, NewsOwed
    <2> QED BY <1>2, <2>1, <2>2 DEF NewsOwed
<1> QED BY <1>3, <1>4, <1>6, <1>8 DEF OInv

LEMMA FinishOInv ==
    ASSUME OInv, IInv', NEW h \in Holders, Finish(h)
    PROVE  OInv'
<1>1. TypeOK /\ tx \in [Holders -> Transactions \union {Absent}]
    BY DEF OInv, IInv, TypeOK
<1>2. \A i \in Holders : tx'[i] = Absent
    BY <1>1 DEF Finish, OInv, IInv, OneWriter
<1>3. UNCHANGED <<coll, art, saving, failures>> /\ lost' \subseteq lost
    BY DEF Finish, fileVars, threadVars
<1>4. NewsOwed' /\ HealsWhatWasLost' /\ Tree(coll')
    BY <1>2, <1>3 DEF NewsOwed, OInv, HealsWhatWasLost
<1>5. \A t \in Threads : pc'[t] = "commit" => pc[t] = "commit"
    <2>1. CASE h = Worker
        BY <2>1 DEF Finish, threadVars
    <2>2. CASE h # Worker
        <3>1. h \in Threads /\ Ends(h)
            BY <2>2 DEF Finish, Holders
        <3> QED BY <1>1, <3>1, EndsType
    <2> QED BY <2>1, <2>2
<1>6. StillUnmoved'
    BY <1>3, <1>5 DEF OInv, StillUnmoved
<1> QED BY <1>4, <1>6, FinishStale DEF OInv

(* What a queue holds, by Append, Head and Tail. *)
LEMMA QueueRange ==
    ASSUME NEW S, NEW q \in Seq(S)
    PROVE  /\ \A e \in S : Range(Append(q, e)) = Range(q) \union {e}
           /\ q # <<>> => Range(q) = {Head(q)} \union Range(Tail(q))
<1>1. ASSUME NEW e \in S
      PROVE  Range(Append(q, e)) = Range(q) \union {e}
    <2>1. /\ DOMAIN Append(q, e) = 1..(Len(q) + 1) /\ DOMAIN q = 1..Len(q) /\ Len(q) \in Nat
          /\ \A i \in 1..Len(q) : Append(q, e)[i] = q[i]
          /\ Append(q, e)[Len(q) + 1] = e
        OBVIOUS
    <2>2. \A i \in 1..(Len(q) + 1) : i \in 1..Len(q) \/ i = Len(q) + 1
        BY <2>1
    <2>3. \A i \in 1..Len(q) : i \in 1..(Len(q) + 1)
        BY <2>1
    <2>4. Len(q) + 1 \in 1..(Len(q) + 1)
        BY <2>1
    <2> DEFINE p == Append(q, e)
    <2>5. Range(q) \subseteq Range(p) /\ e \in Range(p)
        BY <2>1, <2>3, <2>4 DEF Range
    <2>6. ASSUME NEW x \in Range(p)
          PROVE  x \in Range(q) \union {e}
        <3> HIDE DEF p
        <3>1. PICK i \in DOMAIN p : p[i] = x
            BY DEF Range
        <3>2. CASE i = Len(q) + 1
            BY <2>1, <3>1, <3>2 DEF p
        <3>3. CASE i \in 1..Len(q)
            <4>1. x = q[i] /\ i \in DOMAIN q
                BY <2>1, <3>1, <3>3 DEF p
            <4> QED BY <4>1 DEF Range
        <3> QED BY <2>1, <2>2, <3>1, <3>2, <3>3 DEF p
    <2> QED BY <2>5, <2>6
<1>2. ASSUME q # <<>>
      PROVE  Range(q) = {Head(q)} \union Range(Tail(q))
    <2>1. /\ DOMAIN q = 1..Len(q) /\ Len(q) \in Nat /\ Len(q) >= 1
          /\ DOMAIN Tail(q) = 1..(Len(q) - 1)
          /\ \A i \in 1..(Len(q) - 1) : Tail(q)[i] = q[i + 1]
          /\ Head(q) = q[1]
        BY <1>2
    <2>2. \A i \in 1..Len(q) : i = 1 \/ (i - 1 \in 1..(Len(q) - 1) /\ (i - 1) + 1 = i)
        BY <2>1
    <2>3. \A i \in 1..(Len(q) - 1) : i + 1 \in 1..Len(q)
        BY <2>1
    <2>4. 1 \in 1..Len(q)
        BY <2>1
    <2> DEFINE p == Tail(q)
    <2>5. Range(p) \subseteq Range(q) /\ Head(q) \in Range(q)
        BY <2>1, <2>3, <2>4 DEF Range
    <2>6. ASSUME NEW x \in Range(q)
          PROVE  x \in {Head(q)} \union Range(p)
        <3>1. PICK i \in DOMAIN q : q[i] = x
            BY DEF Range
        <3>2. CASE i = 1
            BY <2>1, <3>1, <3>2
        <3>3. CASE i - 1 \in 1..(Len(q) - 1) /\ (i - 1) + 1 = i
            <4>1. x = p[i - 1] /\ i - 1 \in DOMAIN p
                BY <2>1, <3>1, <3>3
            <4> HIDE DEF p
            <4> QED BY <4>1 DEF Range
        <3> QED BY <2>1, <2>2, <3>1, <3>2, <3>3
    <2> QED BY <2>5, <2>6
<1> QED BY <1>1, <1>2

(* Nothing owed is forgotten when something fails: it waits, is queued or  *)
(* is known to be lost.                                                    *)
Keeps ==
    /\ \A r \in Refreshes : r \in Owed => r \in Owed'
    /\ \A h \in Holders : tx'[h] # Absent =>
          /\ tx'[h] = tx[h]
          /\ \A r \in Refreshes : OwedElse(h, r) => OwedElse(h, r)'
    /\ failures' >= failures
    /\ \A l \in lost' : l \in lost \/ (l[2] = failures /\ failures' > failures)
    /\ \A t \in Threads : pc'[t] = "commit" => pc[t] = "commit" /\ saving'[t] = saving[t]

LEMMA SyncFailsKeeps ==
    ASSUME OInv, NEW t \in Threads, SyncFails(t)
    PROVE  Keeps
<1>1. TypeOK /\ failures \in Nat /\ pc \in [Threads -> {"idle", "commit", "sync", "hold", "retry"}]
    BY DEF OInv, IInv, TypeOK
<1>2. \A h \in Holders : tx'[h] = IF h = t THEN Absent ELSE tx[h]
    BY <1>1, RolledBackType DEF SyncFails, Holders
<1>3. UNCHANGED <<saving, due, queue, working, lost>> /\ failures' = failures + 1
    BY DEF SyncFails, FailsOnce
<1>4. Owed' = Owed
    BY <1>3 DEF Owed
<1>5. \A u \in Threads : pc'[u] = "commit" => pc[u] = "commit"
    BY <1>1 DEF SyncFails
<1>6. ASSUME NEW h \in Holders, tx'[h] # Absent
      PROVE  tx'[h] = tx[h] /\ \A r \in Refreshes : OwedElse(h, r) => OwedElse(h, r)'
    BY <1>2, <1>3, <1>6 DEF OwedElse
<1> QED BY <1>1, <1>3, <1>4, <1>5, <1>6 DEF Keeps

LEMMA RetryKeeps ==
    ASSUME OInv, NEW t \in Threads, Retry(t)
    PROVE  Keeps
<1>1. /\ TypeOK /\ InHand /\ due \in [Threads -> Refreshes \union {Absent}]
      /\ pc \in [Threads -> {"idle", "commit", "sync", "hold", "retry"}] /\ failures \in Nat
    BY DEF OInv, IInv, TypeOK
<1>2. due[t] \in Refreshes /\ tx[t] = Absent
    BY <1>1 DEF Retry, TypeOK, InHand
<1>3. Range(queue') = Range(queue) \union {due[t]}
    BY <1>1, <1>2, QueueRange DEF Retry, TypeOK
<1>4. /\ UNCHANGED <<tx, saving, working, lost, failures>>
      /\ due' \in [Threads -> Refreshes \union {Absent}]
      /\ \A u \in Threads \ {t} : due'[u] = due[u] /\ pc'[u] = pc[u]
      /\ pc'[t] = "idle"
    BY <1>1, EndsType DEF Retry
<1>5. ASSUME NEW r \in Refreshes, r \in Owed
      PROVE  r \in Owed'
    <2>1. \/ \E u \in Threads : due[u] = r
          \/ r \in Range(queue) \/ working = r
          \/ \E l \in lost : l[1] = r
        BY <1>1, <1>5, OwedBy
    <2>2. r # Absent /\ r # Rebuild
        BY NothingSaidTwice
    <2> QED BY <1>3, <1>4, <2>1, <2>2 DEF Owed, Range
<1>6. ASSUME NEW h \in Holders, tx'[h] # Absent, NEW r \in Refreshes, OwedElse(h, r)
      PROVE  OwedElse(h, r)'
    BY <1>3, <1>4, <1>6 DEF OwedElse
<1> QED BY <1>1, <1>4, <1>5, <1>6 DEF Keeps

LEMMA ForgetKeeps ==
    ASSUME OInv, NEW t \in Threads, Forget(t)
    PROVE  Keeps
<1>1. /\ TypeOK /\ InHand /\ due \in [Threads -> Refreshes \union {Absent}]
      /\ pc \in [Threads -> {"idle", "commit", "sync", "hold", "retry"}] /\ failures \in Nat
    BY DEF OInv, IInv, TypeOK
<1>2. due[t] \in Refreshes /\ tx[t] = Absent
    BY <1>1 DEF Forget, TypeOK, InHand
<1>3. /\ \A l \in lost : l \in lost'
      /\ \A l \in lost' : l \in lost \/ l[2] = failures
      /\ <<due[t], failures>> \in lost'
    BY <1>1, <1>2, LoseType, NothingSaidTwice DEF Forget
<1>4. /\ UNCHANGED <<tx, saving, queue, working>> /\ failures' = failures + 1
      /\ due' \in [Threads -> Refreshes \union {Absent}]
      /\ \A u \in Threads \ {t} : due'[u] = due[u] /\ pc'[u] = pc[u]
      /\ pc'[t] = "idle"
    BY <1>1, EndsType DEF Forget, FailsOnce
<1>5. ASSUME NEW r \in Refreshes, r \in Owed
      PROVE  r \in Owed'
    <2>1. \/ \E u \in Threads : due[u] = r
          \/ r \in Range(queue) \/ working = r
          \/ \E l \in lost : l[1] = r
        BY <1>1, <1>5, OwedBy
    <2>2. r # Absent /\ r # Rebuild
        BY NothingSaidTwice
    <2>3. <<due[t], failures>>[1] = due[t]
        OBVIOUS
    <2> QED BY <1>3, <1>4, <2>1, <2>2, <2>3 DEF Owed, Range
<1>6. ASSUME NEW h \in Holders, tx'[h] # Absent, NEW r \in Refreshes, OwedElse(h, r)
      PROVE  OwedElse(h, r)'
    <2>1. <<due[t], failures>> \notin tx[h].heals
        BY <1>1, <1>4, <1>6 DEF OInv, HealsWhatWasLost
    <2>2. <<due[t], failures>>[1] = due[t]
        OBVIOUS
    <2> QED BY <1>3, <1>4, <1>6, <2>1, <2>2 DEF OwedElse
<1> QED BY <1>1, <1>3, <1>4, <1>5, <1>6 DEF Keeps

LEMMA JobsKeep ==
    ASSUME OInv, Tick \/ TakeJob
    PROVE  Keeps
<1>1. /\ TypeOK /\ InHand /\ failures \in Nat
      /\ queue \in Seq(Refreshes \union {Rebuild})
    BY DEF OInv, IInv, TypeOK
<1>2. UNCHANGED <<tx, pc, saving, due, lost, failures>>
    BY DEF Tick, TakeJob, threadVars
<1>3. \A r \in Refreshes : r \in Range(queue) \/ (working = r /\ Tick)
                               => r \in Range(queue') \/ working' = r
    <2>1. CASE Tick
        BY <1>1, <2>1, QueueRange DEF Tick
    <2>2. CASE TakeJob
        <3>1. Range(queue) = {Head(queue)} \union Range(Tail(queue))
            BY <1>1, <2>2, QueueRange DEF TakeJob
        <3> QED BY <2>2, <3>1, NothingSaidTwice DEF TakeJob, Tick
    <2> QED BY <2>1, <2>2
<1>4. \A r \in Refreshes : working = r => r \in Range(queue') \/ working' = r
    BY <1>3, NothingSaidTwice DEF Tick, TakeJob
<1>5. ASSUME NEW r \in Refreshes, r \in Owed
      PROVE  r \in Owed'
    <2>1. \/ \E u \in DOMAIN due : due[u] = r
          \/ r \in Range(queue) \/ working = r
          \/ \E l \in lost : l[1] = r
        BY <1>5, OwedBy
    <2>2. r # Absent /\ r # Rebuild
        BY NothingSaidTwice
    <2> QED BY <1>2, <1>3, <1>4, <2>1, <2>2 DEF Owed, Range
<1>6. ASSUME NEW h \in Holders, tx[h] # Absent, NEW r \in Refreshes, OwedElse(h, r)
      PROVE  OwedElse(h, r)'
    <2>1. h = Worker => working # Absent /\ working' = working
        BY <1>1, <1>6 DEF InHand, Tick, TakeJob
    <2>2. CASE h # Worker
        BY <1>2, <1>3, <1>4, <1>6, <2>2 DEF OwedElse
    <2>3. CASE h = Worker
        <3>1. Tick
            BY <2>1, <2>3 DEF TakeJob
        <3>2. Range(queue) \subseteq Range(queue')
            BY <1>1, <3>1, QueueRange DEF Tick
        <3> QED BY <1>2, <1>6, <2>3, <3>2 DEF OwedElse
    <2> QED BY <2>2, <2>3
<1> QED BY <1>1, <1>2, <1>5, <1>6 DEF Keeps

LEMMA JobFailsKeeps ==
    ASSUME OInv, JobFails
    PROVE  Keeps
<1>1. /\ TypeOK /\ failures \in Nat
      /\ working \in Refreshes \union {Rebuild, Absent}
    BY DEF OInv, IInv, TypeOK
<1>2. \A h \in Holders : tx'[h] = IF h = Worker THEN Absent ELSE tx[h]
    BY <1>1, RolledBackType DEF JobFails, Holders
<1>3. UNCHANGED <<pc, saving, due, queue>> /\ failures' = failures + 1
    BY DEF JobFails, FailsOnce, threadVars
<1>4. /\ \A l \in lost : l \in lost'
      /\ \A l \in lost' : l \in lost \/ l[2] = failures
      /\ working \in Refreshes => <<working, failures>> \in lost'
    <2>1. {working} \in SUBSET (Refreshes \union {Rebuild, Absent})
        BY <1>1
    <2> QED BY <1>1, <2>1, LoseType, NothingSaidTwice DEF JobFails
<1>5. <<working, failures>>[1] = working /\ <<working, failures>>[2] = failures
    OBVIOUS
<1>6. ASSUME NEW r \in Refreshes, r \in Owed
      PROVE  r \in Owed'
    <2>1. \/ \E u \in DOMAIN due : due[u] = r
          \/ r \in Range(queue) \/ working = r
          \/ \E l \in lost : l[1] = r
        BY <1>6, OwedBy
    <2>2. r # Absent /\ r # Rebuild
        BY NothingSaidTwice
    <2> QED BY <1>3, <1>4, <1>5, <2>1, <2>2 DEF Owed, Range
<1>7. ASSUME NEW h \in Holders, tx'[h] # Absent, NEW r \in Refreshes, OwedElse(h, r)
      PROVE  tx'[h] = tx[h] /\ OwedElse(h, r)'
    <2>1. h # Worker /\ tx'[h] = tx[h]
        BY <1>2, <1>7
    <2>2. <<working, failures>> \notin tx[h].heals
        BY <1>1, <1>5, <1>7, <2>1 DEF OInv, HealsWhatWasLost
    <2> QED BY <1>3, <1>4, <1>5, <1>7, <2>1, <2>2 DEF OwedElse
<1>8. \A h \in Holders : tx'[h] # Absent => tx'[h] = tx[h]
    BY <1>2
<1> QED BY <1>1, <1>3, <1>4, <1>6, <1>7, <1>8 DEF Keeps

LEMMA AppCrashKeeps ==
    ASSUME OInv, AppCrash
    PROVE  Keeps
<1>1. /\ TypeOK /\ failures \in Nat /\ due \in [Threads -> Refreshes \union {Absent}]
    BY DEF OInv, IInv, TypeOK
<1>2. \A h \in Holders : tx'[h] = IF h \in Threads THEN Absent ELSE tx[h]
    BY <1>1, RolledBackType DEF AppCrash, Holders
<1>3. /\ UNCHANGED <<queue, working>> /\ failures' = failures + 1
      /\ \A t \in Threads : pc'[t] = "idle"
    BY DEF AppCrash, FailsOnce
<1>4. /\ \A l \in lost : l \in lost'
      /\ \A l \in lost' : l \in lost \/ l[2] = failures
      /\ \A t \in Threads : due[t] \in Refreshes => <<due[t], failures>> \in lost'
    <2>1. Range(due) \in SUBSET (Refreshes \union {Rebuild, Absent})
        BY <1>1 DEF Range
    <2>2. \A t \in Threads : due[t] \in Range(due)
        BY <1>1 DEF Range
    <2> QED BY <1>1, <2>1, <2>2, LoseType, NothingSaidTwice DEF AppCrash
<1>5. \A r : <<r, failures>>[1] = r /\ <<r, failures>>[2] = failures
    OBVIOUS
<1>6. ASSUME NEW r \in Refreshes, r \in Owed
      PROVE  r \in Owed'
    <2>1. \/ \E u \in Threads : due[u] = r
          \/ r \in Range(queue) \/ working = r
          \/ \E l \in lost : l[1] = r
        BY <1>1, <1>6, OwedBy
    <2>2. r # Absent /\ r # Rebuild
        BY NothingSaidTwice
    <2> QED BY <1>3, <1>4, <1>5, <2>1, <2>2 DEF Owed, Range
<1>7. ASSUME NEW h \in Holders, tx'[h] # Absent, NEW r \in Refreshes, OwedElse(h, r)
      PROVE  tx'[h] = tx[h] /\ OwedElse(h, r)'
    <2>1. h = Worker /\ tx'[h] = tx[h]
        BY <1>2, <1>7 DEF Holders
    <2>2. \A s : <<s, failures>> \notin tx[h].heals
        BY <1>1, <1>5, <1>7, <2>1 DEF OInv, HealsWhatWasLost
    <2>3. CASE \E t \in Threads : due[t] = r
        <3>1. <<r, failures>> \in lost' \ tx'[h].heals
            BY <1>4, <1>7, <2>1, <2>2, <2>3
        <3>2. PICK l \in lost' \ tx'[h].heals : l[1] = r
            BY <1>5, <3>1
        <3>3. OwedElse(h, r)'
            BY <3>2 DEF OwedElse
        <3> QED BY <2>1, <3>3
    <2>4. CASE ~\E t \in Threads : due[t] = r
        BY <1>3, <1>4, <1>7, <2>1, <2>4 DEF OwedElse
    <2> QED BY <2>1, <2>3, <2>4
<1>8. \A h \in Holders : tx'[h] # Absent => tx'[h] = tx[h]
    BY <1>2
<1> QED BY <1>1, <1>3, <1>4, <1>6, <1>7, <1>8 DEF Keeps

LEMMA FailsOInv ==
    ASSUME OInv, IInv', Fails
    PROVE  OInv'
<1>1. TypeOK /\ IInv /\ failures \in Nat /\ failures' \in Nat
    BY DEF OInv, IInv, TypeOK
<1>2. Keeps
    BY SyncFailsKeeps, RetryKeeps, ForgetKeeps, JobsKeep, JobFailsKeeps, AppCrashKeeps DEF Fails
<1>3. UNCHANGED <<coll, art, rows>>
    BY <1>1, FailsLeaves
<1>4. StaleRowsOwed'
    BY <1>1, <1>2, <1>3, OwedIsRefresh DEF OInv, StaleRowsOwed, Fresh, Covers, Keeps
<1>5. StillUnmoved' /\ Tree(coll')
    BY <1>2, <1>3 DEF OInv, StillUnmoved, Keeps
<1>6. HealsWhatWasLost'
    <2>1. \A l \in lost : l[2] \in Nat
        BY <1>1 DEF TypeOK
    <2>2. \A h \in Holders : tx[h] # Absent => \A l \in tx[h].heals : l[2] \in Nat
        BY <1>1 DEF TypeOK, Transactions
    <2> QED BY <1>1, <1>2, <2>1, <2>2 DEF OInv, HealsWhatWasLost, Keeps
<1>7. NewsOwed'
    <2>1. /\ \A c \in Collections : [kind |-> "subtree", of |-> c] \in Refreshes
          /\ \A a \in Articles : [kind |-> "article", of |-> a] \in Refreshes
        BY DEF Refreshes
    <2> QED BY <1>2, <1>3, <2>1 DEF OInv, NewsOwed, Keeps
<1> QED BY <1>4, <1>5, <1>6, <1>7 DEF OInv

LEMMA InitOInv == Init => OInv
<1> SUFFICES ASSUME Init PROVE OInv
    OBVIOUS
<1>1. IInv /\ Tree(coll)
    BY InitIInv DEF Init
<1>2. HealsWhatWasLost /\ StillUnmoved /\ NewsOwed
    BY DEF Init, HealsWhatWasLost, StillUnmoved, NewsOwed
<1>3. StaleRowsOwed
    BY DEF Init, StaleRowsOwed, Fresh
<1> QED BY <1>1, <1>2, <1>3 DEF OInv

LEMMA OInvStep == ~MayBreak /\ OInv /\ [Next]_vars => OInv'
<1> SUFFICES ASSUME ~MayBreak, OInv, [Next]_vars PROVE OInv'
    OBVIOUS
<1>1. IInv /\ IInv' /\ TypeOK
    BY IInvStep DEF OInv, IInv
<1>2. ASSUME NEW h \in Holders, Runs(h)
      PROVE  OInv'
    BY <1>1, <1>2, ReadingReads, ReadsOInv, FinishOInv DEF Runs
<1>3. ASSUME NEW t \in Threads, Saves(t)
      PROVE  OInv'
    BY <1>1, <1>3, ArticleSavesOInv, DecideOInv, CommitOInv DEF Saves
<1>4. CASE StartJob \/ \E t \in Threads : StartSync(t)
    BY <1>1, <1>4, StartOInv
<1>5. CASE Fails
    BY <1>1, <1>5, FailsOInv
<1>6. CASE UNCHANGED vars
    <2>1. Owed' = Owed
        BY <1>6 DEF vars, Owed
    <2> QED BY <1>1, <1>6, <2>1 DEF vars, OInv, HealsWhatWasLost, StillUnmoved, NewsOwed,
                                     OwedElse, StaleRowsOwed, Fresh, Covers
<1> QED BY <1>2, <1>3, <1>4, <1>5, <1>6 DEF Next, Saves, Fails

(* While nobody closes a circle of Collections, a row that differs from    *)
(* what the files give is one some refresh will still recompute, however   *)
(* many Articles, Collections, requests and failures there are.            *)
THEOREM NoRowStaleByAccident ==
    ASSUME ~MayBreak
    PROVE  Spec => []StaleRowsOwed
<1>1. Init => OInv
    BY InitOInv
<1>2. OInv /\ [Next]_vars => OInv'
    BY OInvStep
<1>3. OInv => StaleRowsOwed
    BY DEF OInv
<1> QED BY <1>1, <1>2, <1>3, PTL DEF Spec
=============================================================================
