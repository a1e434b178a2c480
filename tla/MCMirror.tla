------------------------------ MODULE MCMirror ------------------------------
(* Model values and symmetry for the runs of Mirror. *)
EXTENDS Mirror, TLC

CONSTANTS u1, u2, n1, n2

OneUlid == {u1}
TwoUlids == {u1, u2}
NoNames == {}
OneName == {n1}
TwoNames == {n1, n2}

Interchangeable == Permutations(Ulids) \union Permutations(Names)
=============================================================================
