---------------------------- MODULE MCIndexSync ----------------------------
(* Model values and symmetry for the runs of IndexSync. *)
EXTENDS IndexSync, TLC

CONSTANTS t1, t2, c1, c2, c3, a1, a2, Public

OneThread == {t1}
TwoThreads == {t1, t2}
OneCollection == {c1}
TwoCollections == {c1, c2}
ThreeCollections == {c1, c2, c3}
OneArticle == {a1}
TwoArticles == {a1, a2}
PublicAlone == {Public}

Interchangeable ==
    Permutations(Threads) \union Permutations(Collections) \union Permutations(Articles)
=============================================================================
