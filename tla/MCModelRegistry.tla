-------------------------- MODULE MCModelRegistry --------------------------
(* Two clients suffice for every hazard of the registry: one whose marks   *)
(* or copies must not be charged to the other.  The provider and none make *)
(* the two a client changes between.                                       *)
EXTENDS ModelRegistry, TLC

CONSTANTS c1, c2, m1, m2, p1
TwoClients == {c1, c2}
TwoModels == {m1, m2}
OneModel == {m1}
OneProvider == {p1}

ClientSymmetry == Permutations(TwoClients)
=============================================================================
