---------------------------- MODULE EngineClaims ----------------------------
(***************************************************************************)
(* Engine implements Claims: the records of the host are the claims, the   *)
(* files with a payload's content and the enablement links are what the    *)
(* deployments wrote.                                                      *)
(***************************************************************************)
EXTENDS Engine

ClashesOf == [f \in Files |-> {g \in Files : Overlaps(f, g)}]

ClaimOf(n) ==
  [id |-> record[n].id, files |-> record[n].files, units |-> record[n].units,
   open |-> Interrupted(n)]

Ledger == INSTANCE Claims WITH
  Clashes <- ClashesOf,
  claim   <- [n \in Names |-> ClaimOf(n)],
  written <- {f \in Files : disk[f] \in Contents \ {Foreign}},
  linked  <- KeptLinks

\* Every behaviour of Apply and Delete, interrupted at any point, on a host where
\* files drift, is one of the claims ledger: reserve before writing, write only
\* inside the reservation, give up only what is gone ("Conflicts are rejected
\* before claiming or mutating", ownership_test.go:58).
ImplementsClaims == Ledger!ClaimsSpec
=============================================================================
