------------------------------- MODULE Secret -------------------------------
(***************************************************************************)
(* quadlet_podman_secret: Terraform resources that install, rotate and     *)
(* remove one Podman secret name.  Secrets take no lock, so the calls of   *)
(* different resources and of other Podman clients interleave freely; a    *)
(* call may be lost, or its answer, or the request may be executed after   *)
(* the provider gave up waiting.  Names are independent: one is modelled.  *)
(***************************************************************************)
EXTENDS Naturals

\* Operators that no other definition uses (NamedOwner, Unclaimed, KnownObject,
\* RemovedAnything, RefreshedRevision, Present) are slips of the code: each
\* replaces the definition after it (README, Mutants).

CONSTANTS
  Resources,    \* Terraform resources configured with the name
  Versions,     \* values of the version attribute
  Nothing,      \* no secret, no state, no operation
  MaxObjects,   \* bound on secrets ever created, by anybody
  MaxOwners,    \* bound on owner tokens ever drawn
  MaxLost,      \* bound on lost calls and answers
  MaxLate       \* bound on requests executed after the provider gave up

ASSUME SecretAssumption ==
  /\ MaxObjects \in Nat
  /\ MaxOwners \in Nat
  /\ MaxLost \in Nat
  /\ MaxLate \in Nat
  /\ Nothing \notin Versions

VARIABLES
  slot,         \* the secret at the name
  state,        \* state[r]: what Terraform's state holds for r
  job,          \* job[r]: the provider call under way for r
  late,         \* requests still to be executed that nobody waits for
  tardy,        \* history: owners of requests that nobody waited for
  objects,      \* secrets created so far; a secret's ID is never used again
  owners,       \* owner tokens drawn so far
  lost          \* lost calls and answers so far

vars == <<slot, state, job, late, tardy, objects, owners, lost>>

Unlabelled == 0
NoRevision == 0

Object(id, owner, version) == [id |-> id, owner |-> owner, version |-> version]

Idle(r) == job[r] = Nothing

NamedOwner == 1

\* rand.Text never repeats a token.
FreshOwner == owners + 1

Init ==
  /\ slot = Nothing
  /\ state = [r \in Resources |-> Nothing]
  /\ job = [r \in Resources |-> Nothing]
  /\ late = {}
  /\ tardy = {}
  /\ objects = 0
  /\ owners = 0
  /\ lost = 0

-----------------------------------------------------------------------------
(* The operations Terraform starts *)

Start(r, kind, owner, version) ==
  /\ Idle(r)
  /\ job' = [job EXCEPT ![r] =
               [kind |-> kind, step |-> "inspect", owner |-> owner, version |-> version,
                id |-> NoRevision]]
  /\ UNCHANGED <<slot, state, late, tardy, objects, lost>>

Create(r, version) ==
  /\ state[r] = Nothing
  /\ owners < MaxOwners
  /\ owners' = FreshOwner
  /\ Start(r, "create", FreshOwner, version)

\* Only a changed version makes a plan with an update; a tainted resource is replaced.
Update(r, version) ==
  /\ state[r] # Nothing
  /\ ~state[r].tainted
  /\ state[r].version # version
  /\ Start(r, "update", state[r].owner, version)
  /\ UNCHANGED owners

\* Destroy, and the first half of replacing a tainted resource.
Delete(r) ==
  /\ state[r] # Nothing
  /\ Start(r, "delete", state[r].owner, state[r].version)
  /\ UNCHANGED owners

-----------------------------------------------------------------------------
(* The calls of one operation *)

Goto(r, step) == job' = [job EXCEPT ![r].step = step]

Return(r, result) ==
  /\ job' = [job EXCEPT ![r] = Nothing]
  /\ state' = [state EXCEPT ![r] = result]

Unclaimed(r) == state[r]

\* A create that failed after the claim leaves a tainted resource with its owner;
\* every other failure leaves the state as it was.
AfterFailure(r) ==
  IF job[r].kind = "create" /\ job[r].step = "create"
  THEN [owner |-> job[r].owner, version |-> job[r].version, revision |-> NoRevision,
        tainted |-> TRUE]
  ELSE state[r]

Error(r) == Return(r, AfterFailure(r))

Installed(r, id) ==
  [owner |-> job[r].owner, version |-> job[r].version, revision |-> id, tainted |-> FALSE]

KnownObject(r) ==
  slot # Nothing /\ state[r] # Nothing /\ slot.id = state[r].revision

\* The label decides, not the ID that the state knows.
Owned(r) == slot # Nothing /\ slot.owner = job[r].owner

Inspect(r) ==
  /\ job[r] # Nothing
  /\ job[r].step = "inspect"
  /\ IF Owned(r)
     THEN /\ job' = [job EXCEPT ![r].step = "remove", ![r].id = slot.id]
          /\ UNCHANGED state
     ELSE IF job[r].kind = "delete" THEN Return(r, Nothing)
     ELSE IF slot = Nothing THEN Goto(r, "create") /\ UNCHANGED state
     ELSE Error(r)
  /\ UNCHANGED <<slot, late, tardy, objects, owners, lost>>

RemovedAnything(id) == Nothing

\* Client.Remove addresses the object by its ID; 404 is success.
Removed(id) == IF slot # Nothing /\ slot.id = id THEN Nothing ELSE slot

Remove(r) ==
  /\ job[r] # Nothing
  /\ job[r].step = "remove"
  /\ slot' = Removed(job[r].id)
  /\ IF job[r].kind = "delete"
     THEN Return(r, Nothing)
     ELSE Goto(r, "create") /\ UNCHANGED state
  /\ UNCHANGED <<late, tardy, objects, owners, lost>>

\* Podman refuses to create a name that exists.
Install(r) ==
  /\ job[r] # Nothing
  /\ job[r].step = "create"
  /\ IF slot = Nothing
     THEN /\ objects < MaxObjects
          /\ objects' = objects + 1
          /\ slot' = Object(objects', job[r].owner, job[r].version)
          /\ Return(r, Installed(r, objects'))
     ELSE Error(r) /\ UNCHANGED <<slot, objects>>
  /\ UNCHANGED <<late, tardy, owners, lost>>

-----------------------------------------------------------------------------
(* Lost calls *)

\* The request never reaches Podman.
LoseRequest(r) ==
  /\ job[r] # Nothing
  /\ lost < MaxLost
  /\ lost' = lost + 1
  /\ Error(r)
  /\ UNCHANGED <<slot, late, tardy, objects, owners>>

\* Podman executes the request, the provider sees an error.
LoseAnswer(r) ==
  /\ job[r] # Nothing
  /\ lost < MaxLost
  /\ lost' = lost + 1
  /\ \/ /\ job[r].step = "remove"
        /\ slot' = Removed(job[r].id)
        /\ UNCHANGED objects
     \/ /\ job[r].step = "create"
        /\ slot = Nothing
        /\ objects < MaxObjects
        /\ objects' = objects + 1
        /\ slot' = Object(objects', job[r].owner, job[r].version)
  /\ Error(r)
  /\ UNCHANGED <<late, tardy, owners>>

\* The provider gives up and Podman executes the request some time later.
Delay(r) ==
  /\ job[r] # Nothing
  /\ lost < MaxLate
  /\ job[r].step \in {"remove", "create"}
  /\ lost' = lost + 1
  /\ late' = late \cup {job[r]}
  /\ tardy' = tardy \cup {job[r].owner}
  /\ Error(r)
  /\ UNCHANGED <<slot, objects, owners>>

ExecuteLate ==
  /\ \E request \in late :
       /\ late' = late \ {request}
       /\ IF request.step = "remove"
          THEN slot' = Removed(request.id) /\ UNCHANGED objects
          ELSE IF slot = Nothing /\ objects < MaxObjects
          THEN /\ objects' = objects + 1
               /\ slot' = Object(objects', request.owner, request.version)
          ELSE UNCHANGED <<slot, objects>>
  /\ UNCHANGED <<state, job, tardy, owners, lost>>

-----------------------------------------------------------------------------
(* Refresh and import *)

RefreshedRevision(r) ==
  IF slot # Nothing /\ slot.owner = state[r].owner
  THEN [state[r] EXCEPT !.revision = slot.id]
  ELSE Nothing

\* Read: a secret of another owner, or none, drops the resource from the state.
Refreshed(r) ==
  IF slot # Nothing /\ slot.owner = state[r].owner
  THEN [state[r] EXCEPT !.revision = slot.id, !.version = slot.version]
  ELSE Nothing

Refresh(r) ==
  /\ Idle(r)
  /\ state[r] # Nothing
  /\ state' = [state EXCEPT ![r] = Refreshed(r)]
  /\ UNCHANGED <<slot, job, late, tardy, objects, owners, lost>>

Present == slot # Nothing

\* ImportState accepts only a secret with an owner label.
Importable == slot # Nothing /\ slot.owner # Unlabelled

\* One secret is imported into one resource, as Terraform's documentation demands.
Import(r) ==
  /\ Idle(r)
  /\ state[r] = Nothing
  /\ Importable
  /\ \A q \in Resources :
       /\ state[q] # Nothing => state[q].owner # slot.owner
       /\ ~Idle(q) => job[q].owner # slot.owner
  /\ state' = [state EXCEPT ![r] =
                 [owner |-> slot.owner, version |-> slot.version, revision |-> slot.id,
                  tainted |-> FALSE]]
  /\ UNCHANGED <<slot, job, late, tardy, objects, owners, lost>>

-----------------------------------------------------------------------------
(* Other Podman clients *)

\* podman secret create; a secret of the same name made by somebody else.
ForeignCreate ==
  /\ slot = Nothing
  /\ objects < MaxObjects
  /\ objects' = objects + 1
  /\ \E version \in Versions : slot' = Object(objects', Unlabelled, version)
  /\ UNCHANGED <<state, job, late, tardy, owners, lost>>

\* podman secret rm.
ForeignRemove ==
  /\ slot # Nothing
  /\ slot' = Nothing
  /\ UNCHANGED <<state, job, late, tardy, objects, owners, lost>>

-----------------------------------------------------------------------------

Call(r) == Inspect(r) \/ Remove(r) \/ Install(r)

Operate(r) ==
  \/ \E version \in Versions : Create(r, version) \/ Update(r, version)
  \/ Delete(r) \/ Refresh(r) \/ Import(r)

Provider == \E r \in Resources : Call(r) \/ LoseRequest(r) \/ LoseAnswer(r) \/ Delay(r)

Others == ForeignCreate \/ ForeignRemove

Next == (\E r \in Resources : Operate(r)) \/ Provider \/ ExecuteLate \/ Others

Spec == Init /\ [][Next]_vars

\* Terraform is run again and again with one configuration: refresh, then create,
\* replace what is tainted, or update to the wanted version. It starts without the
\* secret or with another version of it, and nobody else touches the name.
Wanted == CHOOSE version \in Versions : TRUE

ApplyInit ==
  \/ Init
  \/ \E version \in Versions :
       /\ slot = Object(1, 1, version)
       /\ state = [r \in Resources |-> [owner |-> 1, version |-> version, revision |-> 1,
                                        tainted |-> FALSE]]
       /\ job = [r \in Resources |-> Nothing]
       /\ late = {}
       /\ tardy = {}
       /\ objects = 1
       /\ owners = 1
       /\ lost = 0

Apply(r) ==
  \/ Create(r, Wanted)
  \/ Update(r, Wanted)
  \/ state[r] # Nothing /\ state[r].tainted /\ Delete(r)

\* The provider finishes what it started, Podman executes late requests, and runs
\* of Terraform do not cease; lost calls do (MaxLost).
ApplySpec ==
  /\ ApplyInit
  /\ [][(\E r \in Resources : Apply(r) \/ Refresh(r)) \/ Provider \/ ExecuteLate]_vars
  /\ WF_vars(ExecuteLate)
  /\ \A r \in Resources : WF_vars(Call(r)) /\ SF_vars(Apply(r)) /\ SF_vars(Refresh(r))

-----------------------------------------------------------------------------
(* Properties *)

Objects == [id : 1..MaxObjects, owner : 0..MaxOwners, version : Versions]

Jobs ==
  [kind : {"create", "update", "delete"}, step : {"inspect", "remove", "create"},
   owner : 1..MaxOwners, version : Versions, id : 0..MaxObjects]

States ==
  [owner : 1..MaxOwners, version : Versions, revision : 0..MaxObjects, tainted : BOOLEAN]

ASSUME NothingAssumption == Nothing \notin Objects \cup Jobs \cup States

\* Every variable holds a value of its type, and IDs and tokens in use were drawn.
TypeOK ==
  /\ slot = Nothing \/ slot \in Objects
  /\ state \in [Resources -> States \cup {Nothing}]
  /\ job \in [Resources -> Jobs \cup {Nothing}]
  /\ late \subseteq Jobs
  /\ tardy \subseteq 1..MaxOwners
  /\ objects \in 0..MaxObjects
  /\ owners \in 0..MaxOwners
  /\ lost \in Nat
  /\ slot # Nothing => slot.id <= objects /\ slot.owner <= owners

\* The secret of somebody else is never removed or replaced, whoever creates it
\* between an inspection and the call that follows: a secret leaves the name only
\* through the operation of its owner, a late request of it, or another client
\* ("Existing secrets belonging to another owner are never replaced",
\* docs/resources/podman_secret.md:11; install, secret_resource.go:192).
ForeignUntouched ==
  [][slot # Nothing /\ slot' # slot =>
       \/ ForeignRemove
       \/ \E r \in Resources : ~Idle(r) /\ job[r].owner = slot.owner
       \/ \E request \in late : request.owner = slot.owner]_vars

\* Two resources never believe they own the same secret.
OwnersDistinct ==
  \A q, r \in Resources :
    q # r /\ state[q] # Nothing /\ state[r] # Nothing => state[q].owner # state[r].owner

\* The revision in the state identifies the secret with the state's owner and
\* version: a deployment triggered by it never keeps running with another value
\* ("Podman ID of the installed secret. Changes on rotation or recreation",
\* secret_resource.go:77).
RevisionTrue ==
  \A r \in Resources :
    state[r] # Nothing /\ slot # Nothing /\ state[r].revision = slot.id
      => slot.owner = state[r].owner /\ slot.version = state[r].version

\* No secret of the provider is lost from sight, unless Podman executes a request
\* after the provider gave up waiting: its owner is in some state or an operation of
\* its owner is under way, so that a later destroy removes it ("Keep the owner so a
\* subsequent destroy can remove only our object", secret_resource.go:129).
SecretsAccounted ==
  slot # Nothing /\ slot.owner # Unlabelled =>
    \/ slot.owner \in tardy
    \/ \E r \in Resources :
         \/ state[r] # Nothing /\ state[r].owner = slot.owner
         \/ ~Idle(r) /\ job[r].owner = slot.owner

\* An interrupted install or rotation is made good: Terraform run again and again
\* ends with the wanted version installed and known ("an interrupted rotation can
\* leave the name absent until the next apply", docs/resources/podman_secret.md:11).
InstallCompletes ==
  <>[](\A r \in Resources :
         /\ state[r] # Nothing /\ slot # Nothing
         /\ ~state[r].tainted
         /\ state[r].revision = slot.id
         /\ slot.version = Wanted)
=============================================================================
