------------------------------ MODULE MCSecret ------------------------------
(***************************************************************************)
(* Secret for TLC.                                                         *)
(***************************************************************************)
EXTENDS Secret, TLC

Symmetric == Permutations(Resources) \cup Permutations(Versions)

SymmetricResources == Permutations(Resources)
=============================================================================
