------------------------------- MODULE Lease --------------------------------
(***************************************************************************)
(* What host.Session promises about its lock: an operation that holds it   *)
(* has the managed tree for itself, and the lock changes hands only when   *)
(* every call made under it is over.  LocalSession implements this.        *)
(***************************************************************************)
CONSTANTS Sessions, Nobody, Elsewhere

VARIABLES
  holder,       \* who holds config.lock: a session, another process, or nobody
  busy          \* sessions with a call under way that they made under the lock

leaseVars == <<holder, busy>>

LeaseInit == holder = Nobody /\ busy = {}

Take(s) == holder = Nobody /\ holder' = s /\ UNCHANGED busy

Start(s) == holder = s /\ busy' = busy \cup {s} /\ UNCHANGED holder

Finish(s) == busy' = busy \ {s} /\ UNCHANGED holder

\* Nothing of the session is left running: its calls are over, or they die with its
\* process in the same step.
Release(s) == holder = s /\ holder' = Nobody /\ busy' = busy \ {s}

\* Another process with the same lock file.
Foreign == /\ \/ holder = Nobody /\ holder' = Elsewhere
              \/ holder = Elsewhere /\ holder' = Nobody
           /\ UNCHANGED busy

LeaseNext ==
  \/ \E s \in Sessions : Take(s) \/ Start(s) \/ Finish(s) \/ Release(s)
  \/ Foreign

LeaseSpec == LeaseInit /\ [][LeaseNext]_leaseVars
=============================================================================
