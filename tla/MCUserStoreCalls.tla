--------------------------- MODULE MCUserStoreCalls ---------------------------
(* The fields of a legal length are interchangeable: nothing orders them. *)
EXTENDS UserStoreCalls, TLC

Symmetry == Permutations(Valid)
=============================================================================
