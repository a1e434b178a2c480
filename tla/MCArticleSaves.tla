--------------------------- MODULE MCArticleSaves ---------------------------
(* Model values and symmetry for the runs of ArticleSaves. *)
EXTENDS ArticleSaves

CONSTANTS t1, t2, t3, f1, f2

TwoThreads == {t1, t2}
ThreeThreads == {t1, t2, t3}
OneFile == {f1}
TwoFiles == {f1, f2}

Interchangeable == Permutations(Threads)
=============================================================================
