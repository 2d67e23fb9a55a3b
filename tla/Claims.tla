------------------------------- MODULE Claims -------------------------------
(***************************************************************************)
(* What the ownership records of a host promise, without saying how Apply  *)
(* and Delete work: a deployment reserves before it writes, writes only    *)
(* inside its own open reservation, keeps everything it wrote reserved,    *)
(* and shrinks a reservation only to what is still there.  Engine          *)
(* implements this specification (EngineClaims).                           *)
(***************************************************************************)
CONSTANTS
  Names, Owners, NoOwner,
  Files, Units,
  Clashes       \* Clashes[f]: the paths that nobody else may own once f is owned

\* What the instances of this module provide: the free ID is nobody's, and clashing
\* is reflexive and symmetric.
ClaimsAssumption ==
  /\ NoOwner \notin Owners
  /\ Clashes \in [Files -> SUBSET Files]
  /\ \A f \in Files : f \in Clashes[f]
  /\ \A f, g \in Files : g \in Clashes[f] => f \in Clashes[g]

VARIABLES
  claim,        \* claim[n]: who holds a name, for which files and units, and whether
                \* an operation on it is unfinished
  written,      \* files with a content that a deployment wrote
  linked        \* units with links that a deployment made

claimsVars == <<claim, written, linked>>

ClaimType ==
  [id : Owners \cup {NoOwner}, files : SUBSET Files, units : SUBSET Units, open : BOOLEAN]

Free == [id |-> NoOwner, files |-> {}, units |-> {}, open |-> FALSE]

Compatible(files, units, other) ==
  /\ \A f \in files : Clashes[f] \cap other.files = {}
  /\ units \cap other.units = {}

ClaimsInit ==
  /\ claim = [n \in Names |-> Free]
  /\ written = {}
  /\ linked = {}

\* A reservation only grows and never meets another one.
OpenClaim(n, new) ==
  /\ new \in ClaimType
  /\ new.open
  /\ new.id # NoOwner
  /\ claim[n].id \in {NoOwner, new.id}
  /\ claim[n].files \subseteq new.files
  /\ claim[n].units \subseteq new.units
  /\ \A m \in Names \ {n} : Compatible(new.files, new.units, claim[m])
  /\ claim' = [claim EXCEPT ![n] = new]
  /\ UNCHANGED <<written, linked>>

\* The holder of an open claim writes and removes files and links inside it.
Work(n) ==
  /\ claim[n].open
  /\ written' \ claim[n].files = written \ claim[n].files
  /\ linked' \ claim[n].units = linked \ claim[n].units
  /\ UNCHANGED claim

\* What is given up is not written and not linked any more.
CloseClaim(n, new) ==
  /\ claim[n].open
  /\ new.id = claim[n].id
  /\ ~new.open
  /\ new.files \subseteq claim[n].files
  /\ new.units \subseteq claim[n].units
  /\ written \cap claim[n].files \subseteq new.files
  /\ linked \cap claim[n].units \subseteq new.units
  /\ claim' = [claim EXCEPT ![n] = new]
  /\ UNCHANGED <<written, linked>>

DropClaim(n) ==
  /\ claim[n].open
  /\ written \cap claim[n].files = {}
  /\ linked \cap claim[n].units = {}
  /\ claim' = [claim EXCEPT ![n] = Free]
  /\ UNCHANGED <<written, linked>>

\* Somebody replaces or removes what a deployment wrote or linked.
Overwrite ==
  /\ written' \subseteq written
  /\ linked' \subseteq linked
  /\ UNCHANGED claim

\* A claim that changes is the one that the step writes.
ClaimsNext ==
  \/ \E n \in Names :
       OpenClaim(n, claim'[n]) \/ CloseClaim(n, claim'[n]) \/ Work(n) \/ DropClaim(n)
  \/ Overwrite

ClaimsSpec == ClaimsInit /\ [][ClaimsNext]_claimsVars

-----------------------------------------------------------------------------

ClaimsTypeOK ==
  /\ claim \in [Names -> ClaimType]
  /\ written \subseteq Files
  /\ linked \subseteq Units

\* No two names hold the same unit or clashing paths.
ClaimsDisjoint ==
  \A n, m \in Names : n # m => Compatible(claim[n].files, claim[n].units, claim[m])

\* Everything written or linked is held by some name.
ClaimsCover ==
  /\ written \subseteq UNION {claim[n].files : n \in Names}
  /\ linked \subseteq UNION {claim[n].units : n \in Names}
=============================================================================
