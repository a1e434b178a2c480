--------------------------- MODULE MCStoredArticle ---------------------------
(* Model values for the runs of StoredArticle: one folder for media below *)
(* the Article's, and inodes for a folder that is made, removed and made.  *)
EXTENDS StoredArticle, TLC

CONSTANTS a1, a2, a3, f1, f2, i1, i2, i3, i4

TwoActors == {a1, a2}
ThreeActors == {a1, a2, a3}
OneFile == {f1}
TwoFiles == {f1, f2}
FourInodes == {i1, i2, i3, i4}
OneSub == {Media}
FileKeys == Files \union {Readme}
FileValues == {files \union {} : files \in SUBSET Files}
FileHome == [k \in FileKeys |-> IF k = Readme THEN Record ELSE Media]

Interchangeable == Permutations(Actors) \union Permutations(Files)
=============================================================================
