---------------------------- MODULE MCLifecycle ----------------------------
(***************************************************************************)
(* The hosts of MCEngine under Terraform.                                  *)
(***************************************************************************)
EXTENDS Lifecycle, MCEngine

\* A native unit that is enabled and started, and a file that belongs to no unit.
LifecyclePayloads == {OnlyNative, Conf}

LifecycleSymmetric ==
  Permutations(Owners) \cup Permutations(Resources) \cup Permutations(Names)
=============================================================================
