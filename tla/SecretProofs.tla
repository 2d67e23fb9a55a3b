---------------------------- MODULE SecretProofs ----------------------------
(***************************************************************************)
(* Proofs about the secrets, for every number of resources, secrets, owner *)
(* tokens, lost calls and late requests.                                   *)
(***************************************************************************)
EXTENDS Secret, TLAPS

\* o is the owner in the state of r, or of the call under way for r.
Holds(r, o) ==
  \/ state[r] # Nothing /\ state[r].owner = o
  \/ ~Idle(r) /\ job[r].owner = o

\* Owners and IDs that anybody remembers were drawn before.
Drawn ==
  /\ \A r \in Resources :
       /\ state[r] # Nothing => state[r].owner <= owners /\ state[r].revision <= objects
       /\ ~Idle(r) => job[r].owner <= owners /\ job[r].id <= objects
  /\ \A request \in late : request.owner <= owners /\ request.id <= objects

\* A create has no state yet, the other calls work for the owner in the state.
CallsMatch ==
  \A r \in Resources : ~Idle(r) =>
    /\ job[r].kind = "create" => state[r] = Nothing
    /\ job[r].kind # "create" => state[r] # Nothing /\ state[r].owner = job[r].owner
    /\ job[r].kind = "delete" => job[r].step # "create"

HoldersDistinct ==
  \A q, r \in Resources : q # r => \A o \in 1..MaxOwners : ~(Holds(q, o) /\ Holds(r, o))

\* A create that has not claimed the name is unknown to Podman.
FreshUnknown ==
  \A r \in Resources : ~Idle(r) /\ job[r].kind = "create" /\ job[r].step # "create" =>
    /\ slot # Nothing => slot.owner # job[r].owner
    /\ \A request \in late : request.owner # job[r].owner

\* What is to be removed is the owner's; if it is not there any more, only a late
\* request of the owner can have put another secret of his in its place.
RemovesOwn ==
  /\ \A r \in Resources : ~Idle(r) /\ job[r].step = "remove" /\ slot # Nothing =>
       /\ slot.id = job[r].id => slot.owner = job[r].owner
       /\ slot.owner = job[r].owner => slot.id = job[r].id \/ slot.owner \in tardy
  /\ \A request \in late : request.step = "remove" /\ slot # Nothing =>
       (slot.id = request.id => slot.owner = request.owner)

LateTardy == \A request \in late : request.owner \in tardy

SecretInv ==
  /\ TypeOK
  /\ Drawn
  /\ CallsMatch
  /\ HoldersDistinct
  /\ FreshUnknown
  /\ RemovesOwn
  /\ LateTardy
  /\ RevisionTrue
  /\ SecretsAccounted

-----------------------------------------------------------------------------
(* Steps *)

LEMMA ObjectFacts ==
  ASSUME NEW o \in Objects
  PROVE  /\ o # Nothing
         /\ o.id \in 1..MaxObjects /\ o.owner \in 0..MaxOwners /\ o.version \in Versions
BY NothingAssumption DEF Objects

LEMMA CallFacts ==
  ASSUME NEW j \in Jobs
  PROVE  /\ j # Nothing
         /\ j.kind \in {"create", "update", "delete"}
         /\ j.step \in {"inspect", "remove", "create"}
         /\ j.owner \in 1..MaxOwners /\ j.version \in Versions /\ j.id \in 0..MaxObjects
BY NothingAssumption DEF Jobs

LEMMA StateFacts ==
  ASSUME NEW m \in States
  PROVE  /\ m # Nothing
         /\ m.owner \in 1..MaxOwners /\ m.version \in Versions /\ m.revision \in 0..MaxObjects
         /\ m.tainted \in BOOLEAN
BY NothingAssumption DEF States

\* The states that a call of r may return.
LEMMA Outcomes ==
  ASSUME TypeOK, NEW r \in Resources, ~Idle(r)
  PROVE  /\ job[r] \in Jobs
         /\ AfterFailure(r) \in States \cup {Nothing}
         /\ \A id \in 1..MaxObjects : Installed(r, id) \in States
<1>1. job[r] \in Jobs
  BY DEF TypeOK, Idle
<1>2. job[r].owner \in 1..MaxOwners /\ job[r].version \in Versions
  BY <1>1, CallFacts
<1>3. \A id \in 1..MaxObjects : Installed(r, id) \in States
  BY <1>2, SecretAssumption DEF Installed, States
<1>4. AfterFailure(r) \in States \cup {Nothing}
  BY <1>2, SecretAssumption DEF TypeOK, AfterFailure, States, NoRevision
<1> QED
  BY <1>1, <1>3, <1>4

\* An object that is created.
LEMMA NewObject ==
  ASSUME TypeOK, objects < MaxObjects, NEW owner \in 0..MaxOwners, NEW version \in Versions
  PROVE  /\ Object(objects + 1, owner, version) \in Objects
         /\ objects + 1 \in 1..MaxObjects
BY SecretAssumption DEF TypeOK, Object, Objects


\* A call that returns hands its result to Terraform.
LEMMA ReturnTypes ==
  ASSUME TypeOK, NEW r \in Resources, NEW result \in States \cup {Nothing}, Return(r, result)
  PROVE  /\ state' \in [Resources -> States \cup {Nothing}]
         /\ job' \in [Resources -> Jobs \cup {Nothing}]
BY DEF TypeOK, Return

LEMMA CallTypes ==
  ASSUME TypeOK, NEW r \in Resources, job' = [job EXCEPT ![r] = job'[r]], job'[r] \in Jobs
  PROVE  job' \in [Resources -> Jobs \cup {Nothing}]
BY DEF TypeOK

\* What a step does to the name: nothing, it frees it, or puts a secret there.
Frees == slot # Nothing /\ slot' = Nothing /\ UNCHANGED objects

Puts(owner, version) ==
  /\ slot = Nothing
  /\ objects < MaxObjects
  /\ objects' = objects + 1
  /\ slot' = Object(objects', owner, version)

Keeps == UNCHANGED <<slot, objects>>

LEMMA RemovedEffect ==
  ASSUME TypeOK, NEW id, slot' = Removed(id), UNCHANGED objects
  PROVE  Keeps \/ (Frees /\ slot.id = id)
BY DEF Removed, Keeps, Frees

\* Who changes the name.
LEMMA SlotStep ==
  ASSUME TypeOK, Next
  PROVE  \/ Keeps
         \/ Frees /\ \/ ForeignRemove
                     \/ \E r \in Resources :
                          ~Idle(r) /\ job[r].step = "remove" /\ slot.id = job[r].id
                     \/ \E request \in late : request.step = "remove" /\ slot.id = request.id
         \/ \E owner, version :
              /\ Puts(owner, version)
              /\ \/ owner = Unlabelled /\ version \in Versions
                 \/ \E r \in Resources :
                      /\ ~Idle(r) /\ job[r].step = "create"
                      /\ owner = job[r].owner /\ version = job[r].version
                      /\ state'[r] \in {Installed(r, objects'), AfterFailure(r)}
                 \/ \E request \in late : owner = request.owner /\ version = request.version
<1>1. ASSUME NEW r \in Resources, Remove(r)
      PROVE  Keeps \/ (Frees /\ ~Idle(r) /\ job[r].step = "remove" /\ slot.id = job[r].id)
  BY <1>1, RemovedEffect DEF Remove, Idle
<1>2. ASSUME NEW r \in Resources, Install(r)
      PROVE  Keeps \/ (Puts(job[r].owner, job[r].version) /\ ~Idle(r) /\ job[r].step = "create")
  BY <1>2 DEF Install, Keeps, Puts, Idle
<1>3. ASSUME NEW r \in Resources, LoseAnswer(r)
      PROVE  \/ Keeps \/ (Frees /\ ~Idle(r) /\ job[r].step = "remove" /\ slot.id = job[r].id)
             \/ (Puts(job[r].owner, job[r].version) /\ ~Idle(r) /\ job[r].step = "create")
  BY <1>3, RemovedEffect DEF LoseAnswer, Keeps, Puts, Idle
<1>4. ASSUME NEW r \in Resources, Install(r) \/ LoseAnswer(r), ~Keeps
      PROVE  state'[r] \in {Installed(r, objects'), AfterFailure(r)}
  BY <1>4 DEF Install, LoseAnswer, Error, Return, TypeOK, Keeps
<1>5. ASSUME ExecuteLate
      PROVE  \/ Keeps
             \/ \E request \in late :
                  \/ Frees /\ request.step = "remove" /\ slot.id = request.id
                  \/ Puts(request.owner, request.version)
  <2>1. PICK request \in late :
          IF request.step = "remove"
          THEN slot' = Removed(request.id) /\ UNCHANGED objects
          ELSE IF slot = Nothing /\ objects < MaxObjects
          THEN /\ objects' = objects + 1
               /\ slot' = Object(objects', request.owner, request.version)
          ELSE UNCHANGED <<slot, objects>>
    BY <1>5 DEF ExecuteLate
  <2> QED
    BY <2>1, RemovedEffect DEF Keeps, Puts
<1>6. ASSUME ForeignCreate
      PROVE  \E version \in Versions : Puts(Unlabelled, version)
  BY <1>6 DEF ForeignCreate, Puts
<1>7. ASSUME ForeignRemove
      PROVE  Frees
  BY <1>7 DEF ForeignRemove, Frees
<1>8. Keeps \/ ExecuteLate \/ Others
      \/ \E r \in Resources : Remove(r) \/ Install(r) \/ LoseAnswer(r)
  BY DEF Keeps, Next, Operate, Provider, Call, Create, Update, Delete, Start, Refresh, Import,
     Inspect, LoseRequest, Delay
<1> QED
  BY <1>1, <1>2, <1>3, <1>4, <1>5, <1>6, <1>7, <1>8 DEF Others

-----------------------------------------------------------------------------
(* What a step does to one resource and its call *)

Alone(r) == \A q \in Resources \ {r} : state'[q] = state[q] /\ job'[q] = job[q]

\* The same call goes on.
GoesOn(r) ==
  /\ ~Idle(r) /\ job'[r] \in Jobs
  /\ job'[r].kind = job[r].kind /\ job'[r].owner = job[r].owner
  /\ state'[r] = state[r]
  /\ UNCHANGED <<late, tardy, owners, lost>>

Begins(r) ==
  /\ Idle(r) /\ job'[r] \in Jobs
  /\ job'[r].step = "inspect" /\ job'[r].id = 0
  /\ \/ /\ job'[r].kind = "create" /\ state[r] = Nothing
        /\ job'[r].owner = owners + 1 /\ owners' = owners + 1 /\ owners < MaxOwners
     \/ /\ job'[r].kind # "create" /\ state[r] # Nothing
        /\ job'[r].owner = state[r].owner /\ owners' = owners
  /\ state'[r] = state[r]
  /\ Keeps /\ UNCHANGED <<late, tardy, lost>>

Finds(r) ==
  /\ GoesOn(r) /\ Keeps
  /\ job[r].step = "inspect" /\ Owned(r)
  /\ job'[r].step = "remove" /\ job'[r].id = slot.id

Proceeds(r) ==
  /\ GoesOn(r)
  /\ job[r].kind # "delete" /\ job'[r].step = "create" /\ job'[r].id = job[r].id
  /\ job[r].step = "inspect" => Keeps /\ slot = Nothing

Deleted(r) ==
  /\ ~Idle(r) /\ job[r].kind = "delete" /\ job'[r] = Nothing /\ state'[r] = Nothing
  /\ \/ job[r].step = "inspect" /\ ~Owned(r) /\ Keeps
     \/ job[r].step = "remove" /\ slot' = Removed(job[r].id) /\ UNCHANGED objects
  /\ UNCHANGED <<late, tardy, owners, lost>>

Succeeds(r) ==
  /\ ~Idle(r) /\ job[r].step = "create" /\ job'[r] = Nothing
  /\ Puts(job[r].owner, job[r].version)
  /\ state'[r] = Installed(r, objects')
  /\ UNCHANGED <<late, tardy, owners, lost>>

Gives(r) ==
  /\ ~Idle(r) /\ job'[r] = Nothing /\ state'[r] = AfterFailure(r)
  /\ lost' \in {lost, lost + 1} /\ UNCHANGED owners
  /\ \/ UNCHANGED <<late, tardy>>
     \/ late' = late \cup {job[r]} /\ tardy' = tardy \cup {job[r].owner}

Learns(r) ==
  /\ Idle(r) /\ job'[r] = job[r] /\ Keeps /\ UNCHANGED <<late, tardy, owners, lost>>
  /\ \/ state[r] # Nothing /\ state'[r] = Refreshed(r)
     \/ Import(r)

\* Nobody's call moves.
Apart == UNCHANGED <<state, job, tardy, owners, lost>> /\ late' \subseteq late

LEMMA CallStep ==
  ASSUME TypeOK, Next
  PROVE  \/ Apart
         \/ \E r \in Resources :
              /\ Alone(r)
              /\ state' \in [Resources -> States \cup {Nothing}]
              /\ job' \in [Resources -> Jobs \cup {Nothing}]
              /\ \/ Begins(r) \/ Finds(r) \/ Proceeds(r) \/ Deleted(r) \/ Succeeds(r)
                 \/ Gives(r) \/ Learns(r)
<1> DEFINE Typed == /\ state' \in [Resources -> States \cup {Nothing}]
                    /\ job' \in [Resources -> Jobs \cup {Nothing}]
<1>1. ASSUME NEW r \in Resources, NEW version \in Versions, Create(r, version)
      PROVE  Alone(r) /\ Begins(r) /\ Typed
  <2> DEFINE j == [kind |-> "create", step |-> "inspect", owner |-> owners + 1,
                   version |-> version, id |-> 0]
  <2>1. j \in Jobs
    BY <1>1, SecretAssumption DEF Create, TypeOK, Jobs
  <2>2. job' = [job EXCEPT ![r] = j] /\ state' = state
    BY <1>1 DEF Create, Start, FreshOwner, NoRevision
  <2>3. job'[r] = j
    BY <2>2 DEF TypeOK
  <2> QED
    BY <1>1, <2>1, <2>2, <2>3 DEF Create, Start, FreshOwner, Begins, Alone, Keeps, TypeOK
<1>2. ASSUME NEW r \in Resources, NEW version \in Versions, NEW kind \in {"update", "delete"},
             state[r] # Nothing, Start(r, kind, state[r].owner, version), UNCHANGED owners
      PROVE  Alone(r) /\ Begins(r) /\ Typed
  <2> DEFINE j == [kind |-> kind, step |-> "inspect", owner |-> state[r].owner,
                   version |-> version, id |-> 0]
  <2>1. j \in Jobs
    BY <1>2, SecretAssumption, StateFacts DEF TypeOK, Jobs
  <2>2. job' = [job EXCEPT ![r] = j] /\ state' = state
    BY <1>2 DEF Start, NoRevision
  <2>3. job'[r] = j
    BY <2>2 DEF TypeOK
  <2> QED
    BY <1>2, <2>1, <2>2, <2>3 DEF Start, Begins, Alone, Keeps, TypeOK
<1>3. ASSUME NEW r \in Resources, NEW version \in Versions, Update(r, version)
      PROVE  Alone(r) /\ Begins(r) /\ Typed
  BY <1>2, <1>3 DEF Update
<1>4. ASSUME NEW r \in Resources, Delete(r)
      PROVE  Alone(r) /\ Begins(r) /\ Typed
  BY <1>2, <1>4, StateFacts DEF Delete, TypeOK
<1>5. ASSUME NEW r \in Resources, NEW result \in States \cup {Nothing}, Return(r, result)
      PROVE  Alone(r) /\ job'[r] = Nothing /\ state'[r] = result /\ Typed
  BY <1>5, ReturnTypes DEF Return, Alone, TypeOK
<1>6. ASSUME NEW r \in Resources, NEW j \in Jobs, job' = [job EXCEPT ![r] = j], state' = state
      PROVE  Alone(r) /\ Typed /\ job'[r] = j /\ state'[r] = state[r]
  BY <1>6 DEF Alone, TypeOK
<1>7. ASSUME NEW r \in Resources, Refresh(r)
      PROVE  Alone(r) /\ Learns(r) /\ Typed
  <2>1. Refreshed(r) \in States \cup {Nothing}
    <3>1. state[r] \in States /\ (slot # Nothing => slot.id \in 0..MaxObjects /\ slot.version \in Versions)
      BY <1>7, SecretAssumption, ObjectFacts DEF Refresh, TypeOK
    <3> QED
      BY <3>1 DEF Refreshed, States
  <2> QED
    BY <1>7, <2>1 DEF Refresh, Alone, Learns, Keeps, TypeOK
<1>8. ASSUME NEW r \in Resources, Import(r)
      PROVE  Alone(r) /\ Learns(r) /\ Typed
  <2>1. [owner |-> slot.owner, version |-> slot.version, revision |-> slot.id,
         tainted |-> FALSE] \in States
    <3>1. slot.owner \in 1..MaxOwners /\ slot.id \in 0..MaxObjects /\ slot.version \in Versions
      BY <1>8, SecretAssumption, ObjectFacts DEF Import, Importable, Unlabelled, TypeOK
    <3> QED
      BY <3>1 DEF States
  <2> QED
    BY <1>8, <2>1 DEF Import, Alone, Learns, Keeps, TypeOK
<1>9. ASSUME NEW r \in Resources, Inspect(r)
      PROVE  Alone(r) /\ Typed /\ (Finds(r) \/ Proceeds(r) \/ Deleted(r) \/ Gives(r))
  <2>1. ~Idle(r) /\ job[r].step = "inspect" /\ Keeps /\ UNCHANGED <<late, tardy, owners, lost>>
    BY <1>9 DEF Inspect, Idle, Keeps
  <2>2. CASE Owned(r)
    <3>1. PICK j : j = [job[r] EXCEPT !.step = "remove", !.id = slot.id]
      OBVIOUS
    <3>2. job' = [job EXCEPT ![r] = j] /\ state' = state
      BY <1>9, <2>2, <3>1 DEF Inspect
    <3>3. job[r] \in Jobs /\ slot.id \in 0..MaxObjects
      BY <2>1, <2>2, Outcomes, SecretAssumption, ObjectFacts DEF Owned, TypeOK
    <3>4. /\ j \in Jobs /\ j.kind = job[r].kind /\ j.owner = job[r].owner
          /\ j.step = "remove" /\ j.id = slot.id
      BY <3>1, <3>3 DEF Jobs
    <3> QED
      BY <1>6, <2>1, <2>2, <3>2, <3>4 DEF Finds, GoesOn
  <2>3. CASE ~Owned(r) /\ job[r].kind = "delete"
    BY <1>5, <1>9, <2>1, <2>3 DEF Inspect, Deleted
  <2>4. CASE ~Owned(r) /\ job[r].kind # "delete" /\ slot = Nothing
    <3>1. PICK j : j = [job[r] EXCEPT !.step = "create"]
      OBVIOUS
    <3>2. job' = [job EXCEPT ![r] = j] /\ state' = state
      BY <1>9, <2>4, <3>1 DEF Inspect, Goto
    <3>3. job[r] \in Jobs
      BY <2>1, Outcomes
    <3>4. /\ j \in Jobs /\ j.kind = job[r].kind /\ j.owner = job[r].owner
          /\ j.step = "create" /\ j.id = job[r].id
      BY <3>1, <3>3 DEF Jobs
    <3> QED
      BY <1>6, <2>1, <2>4, <3>2, <3>4 DEF Proceeds, GoesOn
  <2>5. CASE ~Owned(r) /\ job[r].kind # "delete" /\ slot # Nothing
    BY <1>5, <1>9, <2>1, <2>5, Outcomes DEF Inspect, Error, Gives
  <2> QED
    BY <2>2, <2>3, <2>4, <2>5
<1>10. ASSUME NEW r \in Resources, Remove(r)
       PROVE  Alone(r) /\ Typed /\ (Proceeds(r) \/ Deleted(r))
  <2>1. ~Idle(r) /\ job[r].step = "remove" /\ slot' = Removed(job[r].id)
        /\ UNCHANGED <<late, tardy, objects, owners, lost>>
    BY <1>10 DEF Remove, Idle
  <2>2. CASE job[r].kind = "delete"
    BY <1>5, <1>10, <2>1, <2>2 DEF Remove, Deleted
  <2>3. CASE job[r].kind # "delete"
    <3>1. PICK j : j = [job[r] EXCEPT !.step = "create"]
      OBVIOUS
    <3>2. job' = [job EXCEPT ![r] = j] /\ state' = state
      BY <1>10, <2>3, <3>1 DEF Remove, Goto
    <3>3. job[r] \in Jobs
      BY <2>1, Outcomes
    <3>4. /\ j \in Jobs /\ j.kind = job[r].kind /\ j.owner = job[r].owner
          /\ j.step = "create" /\ j.id = job[r].id
      BY <3>1, <3>3 DEF Jobs
    <3> QED
      BY <1>6, <2>1, <2>3, <3>2, <3>4 DEF Proceeds, GoesOn
  <2> QED
    BY <2>2, <2>3
<1>11. ASSUME NEW r \in Resources, Install(r)
       PROVE  Alone(r) /\ Typed /\ (Succeeds(r) \/ Gives(r))
  <2>1. ~Idle(r) /\ job[r].step = "create" /\ UNCHANGED <<late, tardy, owners, lost>>
    BY <1>11 DEF Install, Idle
  <2>2. CASE slot = Nothing
    <3>1. objects' \in 1..MaxObjects /\ Return(r, Installed(r, objects'))
          /\ Puts(job[r].owner, job[r].version)
      BY <1>11, <2>2, SecretAssumption DEF Install, Puts, TypeOK
    <3>2. PICK id \in 1..MaxObjects : id = objects'
      BY <3>1
    <3>3. Installed(r, id) \in States
      BY <2>1, Outcomes
    <3> QED
      BY <1>5, <2>1, <3>1, <3>2, <3>3 DEF Succeeds
  <2>3. CASE slot # Nothing
    BY <1>5, <1>11, <2>1, <2>3, Outcomes DEF Install, Error, Gives
  <2> QED
    BY <2>2, <2>3
<1>12. ASSUME NEW r \in Resources, LoseRequest(r) \/ LoseAnswer(r) \/ Delay(r)
       PROVE  Alone(r) /\ Typed /\ Gives(r)
  BY <1>5, <1>12, Outcomes DEF LoseRequest, LoseAnswer, Delay, Error, Gives, Idle
<1>13. CASE ExecuteLate \/ Others
  BY <1>13 DEF ExecuteLate, Others, ForeignCreate, ForeignRemove, Apart
<1> QED
  BY <1>1, <1>3, <1>4, <1>7, <1>8, <1>9, <1>10, <1>11, <1>12, <1>13
     DEF Next, Operate, Provider, Call

\* What was drawn, created or requested is not taken back, and a request nobody waits
\* for was the call of some resource.
LEMMA Monotone ==
  ASSUME TypeOK, Next
  PROVE  /\ owners' \in 0..MaxOwners /\ owners <= owners'
         /\ objects' \in 0..MaxObjects /\ objects <= objects'
         /\ lost' \in Nat
         /\ tardy \subseteq tardy'
         /\ \A request \in late' \ late :
              /\ request.owner \in tardy'
              /\ \E r \in Resources : ~Idle(r) /\ request = job[r] /\ job'[r] = Nothing
         /\ \A owner \in tardy' \ tardy : \E r \in Resources : ~Idle(r) /\ owner = job[r].owner
<1>1. objects' \in 0..MaxObjects /\ objects <= objects'
  <2>1. objects' \in {objects, objects + 1} /\ (objects' # objects => objects < MaxObjects)
    BY SlotStep DEF Keeps, Frees, Puts
  <2> QED
    BY <2>1, SecretAssumption DEF TypeOK
<1>2. CASE Apart
  BY <1>1, <1>2, SecretAssumption DEF Apart, TypeOK
<1>3. ASSUME NEW r \in Resources,
             \/ Begins(r) \/ Finds(r) \/ Proceeds(r) \/ Deleted(r) \/ Succeeds(r)
             \/ Gives(r) \/ Learns(r)
      PROVE  /\ owners' \in 0..MaxOwners /\ owners <= owners' /\ lost' \in Nat
             /\ \/ UNCHANGED <<late, tardy>>
                \/ /\ ~Idle(r) /\ late' = late \cup {job[r]} /\ tardy' = tardy \cup {job[r].owner}
                   /\ job'[r] = Nothing
  BY <1>3, SecretAssumption
     DEF Begins, Finds, Proceeds, GoesOn, Deleted, Succeeds, Gives, Learns, TypeOK
<1> QED
  BY <1>1, <1>2, <1>3, CallStep

LEMMA StepTypes ==
  ASSUME TypeOK, Drawn, Next
  PROVE  TypeOK'
<1>1. /\ state' \in [Resources -> States \cup {Nothing}]
      /\ job' \in [Resources -> Jobs \cup {Nothing}]
  BY CallStep DEF Apart, TypeOK
<1>2. \A r \in Resources : ~Idle(r) => job[r] \in Jobs
  BY DEF TypeOK, Idle
<1>3. late' \subseteq Jobs
  BY <1>2, Monotone DEF TypeOK
<1>4. tardy' \subseteq 1..MaxOwners
  <2>1. ASSUME NEW owner \in tardy' \ tardy
        PROVE  owner \in 1..MaxOwners
    <3>1. PICK r \in Resources : ~Idle(r) /\ owner = job[r].owner
      BY Monotone
    <3>2. job[r].owner \in 1..MaxOwners
      BY <1>2, <3>1, CallFacts
    <3> QED
      BY <3>1, <3>2
  <2> QED
    BY <2>1 DEF TypeOK
<1>5. ASSUME NEW owner, NEW version, Puts(owner, version),
             \/ owner = Unlabelled /\ version \in Versions
             \/ \E r \in Resources : ~Idle(r) /\ owner = job[r].owner /\ version = job[r].version
             \/ \E request \in late : owner = request.owner /\ version = request.version
      PROVE  slot' \in Objects /\ slot'.id <= objects' /\ slot'.owner <= owners'
  <2>1. owner \in 0..MaxOwners /\ version \in Versions /\ owner <= owners
    <3>1. ASSUME NEW j \in Jobs, owner = j.owner, version = j.version, j.owner <= owners
          PROVE  owner \in 0..MaxOwners /\ version \in Versions /\ owner <= owners
      BY <3>1, CallFacts
    <3>2. ASSUME NEW r \in Resources, ~Idle(r)
          PROVE  job[r] \in Jobs /\ job[r].owner <= owners
      BY <1>2, <3>2 DEF Drawn
    <3>3. ASSUME NEW request \in late
          PROVE  request \in Jobs /\ request.owner <= owners
      BY <3>3 DEF Drawn, TypeOK
    <3>4. CASE owner = Unlabelled /\ version \in Versions
      BY <3>4, SecretAssumption DEF Unlabelled, TypeOK
    <3> QED
      BY <1>5, <3>1, <3>2, <3>3, <3>4
  <2>2. slot' = Object(objects + 1, owner, version) /\ objects' = objects + 1
    BY <1>5 DEF Puts
  <2>3. slot' \in Objects
    BY <1>5, <2>1, <2>2, NewObject DEF Puts
  <2> QED
    BY <2>1, <2>2, <2>3, Monotone, SecretAssumption DEF Object, TypeOK
<1>6. slot' = Nothing \/ (slot' \in Objects /\ slot'.id <= objects' /\ slot'.owner <= owners')
  <2>1. CASE Keeps
    BY <2>1, Monotone, ObjectFacts, SecretAssumption DEF Keeps, TypeOK
  <2>2. CASE Frees
    BY <2>2 DEF Frees
  <2> QED
    BY <1>5, <2>1, <2>2, SlotStep
<1> QED
  BY <1>1, <1>3, <1>4, <1>6, Monotone DEF TypeOK

-----------------------------------------------------------------------------
(* Who holds an owner *)

\* A step gives r no owner but a new one, or, by an import, that of the secret.
LEMMA HoldsStep ==
  ASSUME TypeOK, Drawn, CallsMatch, Next, NEW q \in Resources, NEW o, Holds(q, o)'
  PROVE  \/ Holds(q, o)
         \/ o = owners + 1 /\ owners' = owners + 1 /\ Alone(q)
         \/ Import(q) /\ o = slot.owner /\ Alone(q)
<1>1. CASE Apart
  BY <1>1 DEF Apart, Holds, Idle
<1>2. ASSUME NEW r \in Resources, Alone(r), r # q
      PROVE  Holds(q, o)
  BY <1>2 DEF Alone, Holds, Idle
<1>3. CASE Alone(q) /\ Begins(q)
  BY <1>3 DEF Alone, Begins, Holds, Idle
<1>4. CASE Finds(q) \/ Proceeds(q)
  BY <1>4 DEF Finds, Proceeds, GoesOn, Holds, Idle
<1>5. CASE Deleted(q)
  BY <1>5 DEF Deleted, Holds, Idle
<1>6. CASE Succeeds(q)
  BY <1>6 DEF Succeeds, Installed, Holds, Idle
<1>7. CASE Gives(q)
  BY <1>7 DEF Gives, AfterFailure, Holds, Idle
<1>8. CASE Alone(q) /\ Learns(q)
  <2>1. CASE state[q] # Nothing /\ state'[q] = Refreshed(q)
    <3>1. state[q] \in States
      BY <2>1 DEF TypeOK
    <3>2. Refreshed(q) # Nothing => Refreshed(q).owner = state[q].owner
      BY <3>1 DEF Refreshed, States
    <3> QED
      BY <1>8, <2>1, <3>2 DEF Learns, Holds, Idle
  <2>2. CASE Import(q)
    BY <1>8, <2>2 DEF Learns, Import, Alone, Holds, Idle, TypeOK
  <2> QED
    BY <1>8, <2>1, <2>2 DEF Learns
<1> QED
  BY <1>1, <1>2, <1>3, <1>4, <1>5, <1>6, <1>7, <1>8, CallStep

LEMMA HoldersDistinctStep ==
  ASSUME TypeOK, Drawn, CallsMatch, HoldersDistinct, Next
  PROVE  HoldersDistinct'
<1> SUFFICES ASSUME NEW q \in Resources, NEW r \in Resources, q # r, NEW o \in 1..MaxOwners,
                    Holds(q, o)', Holds(r, o)'
             PROVE  FALSE
  BY DEF HoldersDistinct
<1>1. \A p \in Resources : Holds(p, o) => o <= owners
  BY DEF Drawn, Holds
<1>2. ~(Holds(q, o) /\ Holds(r, o))
  BY DEF HoldersDistinct
<1>3. ASSUME NEW p \in Resources, NEW t \in Resources, p # t, Holds(p, o), Holds(t, o)', ~Holds(t, o)
      PROVE  FALSE
  <2>1. ~(Import(t) /\ o = slot.owner)
    BY <1>3 DEF Import, Holds
  <2>2. o # owners + 1
    BY <1>1, <1>3, SecretAssumption DEF TypeOK
  <2> QED
    BY <1>3, <2>1, <2>2, HoldsStep
<1>4. CASE ~Holds(q, o) /\ ~Holds(r, o)
  <2>1. Alone(q)
    BY <1>4, HoldsStep
  <2> QED
    BY <1>4, <2>1 DEF Alone, Holds, Idle
<1> QED
  BY <1>2, <1>3, <1>4

\* What a resource comes to know of a secret is true of the secret at the name.
LEMMA KnownStep ==
  ASSUME TypeOK, Next, NEW r \in Resources, state'[r] # Nothing
  PROVE  \/ state'[r] = state[r]
         \/ state'[r].revision = 0
         \/ /\ slot' # Nothing /\ state'[r].revision = slot'.id
            /\ state'[r].owner = slot'.owner /\ state'[r].version = slot'.version
<1>1. CASE Apart
  BY <1>1 DEF Apart
<1>2. ASSUME NEW q \in Resources, Alone(q), q # r
      PROVE  state'[r] = state[r]
  BY <1>2 DEF Alone
<1>3. CASE Begins(r) \/ Finds(r) \/ Proceeds(r)
  BY <1>3 DEF Begins, Finds, Proceeds, GoesOn
<1>4. CASE Deleted(r)
  BY <1>4 DEF Deleted
<1>5. CASE Succeeds(r)
  <2>1. slot' = Object(objects', job[r].owner, job[r].version) /\ objects' = objects + 1
        /\ state'[r] = Installed(r, objects') /\ objects < MaxObjects
    BY <1>5 DEF Succeeds, Puts
  <2>2. job[r].owner \in 0..MaxOwners /\ job[r].version \in Versions
    BY <1>5, Outcomes, CallFacts, SecretAssumption DEF Succeeds
  <2>3. slot' # Nothing
    BY <2>1, <2>2, NewObject, ObjectFacts
  <2> QED
    BY <2>1, <2>3 DEF Object, Installed
<1>6. CASE Gives(r)
  BY <1>6 DEF Gives, AfterFailure, NoRevision
<1>7. CASE Learns(r)
  <2>1. slot' = slot
    BY <1>7 DEF Learns, Keeps
  <2>2. CASE state[r] # Nothing /\ state'[r] = Refreshed(r)
    <3>1. state[r] \in States
      BY <2>2 DEF TypeOK
    <3>2. Refreshed(r) # Nothing =>
            /\ slot # Nothing /\ Refreshed(r).revision = slot.id
            /\ Refreshed(r).owner = slot.owner /\ Refreshed(r).version = slot.version
      BY <3>1 DEF Refreshed, States
    <3> QED
      BY <2>1, <2>2, <3>2
  <2>3. CASE Import(r)
    BY <2>1, <2>3 DEF Import, Importable, TypeOK
  <2> QED
    BY <1>7, <2>2, <2>3 DEF Learns
<1> QED
  BY <1>1, <1>2, <1>3, <1>4, <1>5, <1>6, <1>7, CallStep

LEMMA DrawnStep ==
  ASSUME TypeOK, Drawn, CallsMatch, Next
  PROVE  Drawn'
<1>1. /\ owners \in Nat /\ owners' \in Nat /\ owners <= owners'
      /\ objects \in Nat /\ objects' \in Nat /\ objects <= objects'
  BY Monotone, SecretAssumption DEF TypeOK
<1>2. ASSUME NEW n \in Nat, n <= owners
      PROVE  n <= owners'
  BY <1>1, <1>2
<1>3. ASSUME NEW n \in Nat, n <= objects
      PROVE  n <= objects'
  BY <1>1, <1>3
<1>4. \A r \in Resources : ~Idle(r) =>
        /\ job[r].owner \in Nat /\ job[r].id \in Nat
        /\ job[r].owner <= owners /\ job[r].id <= objects
  BY SecretAssumption, CallFacts DEF Drawn, TypeOK, Idle
<1>5. ASSUME NEW request \in late'
      PROVE  request.owner <= owners' /\ request.id <= objects'
  <2>1. CASE request \in late
    <3>1. request.owner \in Nat /\ request.id \in Nat
      BY <2>1, CallFacts, SecretAssumption DEF TypeOK
    <3> QED
      BY <1>2, <1>3, <2>1, <3>1 DEF Drawn
  <2>2. CASE request \notin late
    BY <1>2, <1>3, <1>4, <1>5, <2>2, Monotone
  <2> QED
    BY <2>1, <2>2
<1>6. ASSUME NEW r \in Resources, NEW o \in Nat, Holds(r, o)'
      PROVE  o <= owners'
  <2>1. CASE Holds(r, o)
    BY <1>2, <2>1 DEF Holds, Drawn
  <2>2. CASE owners' = owners + 1 /\ o = owners + 1
    BY <1>1, <2>2
  <2>3. CASE Import(r) /\ o = slot.owner
    BY <1>2, <2>3 DEF Import, Importable, TypeOK
  <2> QED
    BY <1>6, <2>1, <2>2, <2>3, HoldsStep
<1>7. ASSUME NEW r \in Resources, state'[r] # Nothing
      PROVE  state'[r].owner <= owners' /\ state'[r].revision <= objects'
  <2>1. TypeOK' /\ state'[r] \in States /\ state'[r].owner \in Nat
    BY <1>7, StepTypes, StateFacts DEF TypeOK
  <2>2. PICK o \in Nat : o = state'[r].owner
    BY <2>1
  <2>3. o <= owners'
    BY <1>6, <1>7, <2>2 DEF Holds
  <2>4. ASSUME state'[r] = state[r]
        PROVE  state'[r].revision <= objects'
    BY <1>3, <1>7, <2>4, StateFacts DEF Drawn, TypeOK
  <2>5. ASSUME slot' # Nothing /\ state'[r].revision = slot'.id
        PROVE  state'[r].revision <= objects'
    BY <2>1, <2>5 DEF TypeOK
  <2> QED
    BY <1>1, <1>7, <2>2, <2>3, <2>4, <2>5, KnownStep
<1>8. ASSUME NEW r \in Resources, job'[r] # Nothing
      PROVE  job'[r].owner <= owners' /\ job'[r].id <= objects'
  <2>1. job'[r] \in Jobs /\ job'[r].owner \in Nat
    BY <1>8, StepTypes, CallFacts DEF TypeOK
  <2>2. PICK o \in Nat : o = job'[r].owner
    BY <2>1
  <2>3. o <= owners'
    BY <1>6, <1>8, <2>2 DEF Holds, Idle
  <2>4. ASSUME job'[r] # Nothing /\ job[r] # Nothing /\ job'[r].id = job[r].id
        PROVE  job'[r].id <= objects'
    BY <1>3, <1>4, <2>4 DEF Idle
  <2>5. ASSUME job'[r].id = 0
        PROVE  job'[r].id <= objects'
    BY <1>1, <2>5
  <2>6. ASSUME slot # Nothing /\ job'[r].id = slot.id
        PROVE  job'[r].id <= objects'
    BY <1>3, <2>6, ObjectFacts DEF TypeOK
  <2>7. job'[r].id = 0 \/ (job[r] # Nothing /\ job'[r].id = job[r].id)
        \/ (slot # Nothing /\ job'[r].id = slot.id)
    <3>1. job'[r] = job[r] \/ Begins(r) \/ Finds(r) \/ Proceeds(r)
      BY <1>8, CallStep DEF Apart, Alone, Deleted, Succeeds, Gives, Learns
    <3> QED
      BY <1>8, <3>1 DEF Begins, Finds, Owned, Proceeds, GoesOn, Idle
  <2> QED
    BY <1>8, <2>2, <2>3, <2>4, <2>5, <2>6, <2>7
<1> QED
  BY <1>5, <1>7, <1>8 DEF Drawn, Idle

LEMMA CallsMatchStep ==
  ASSUME TypeOK, CallsMatch, Next
  PROVE  CallsMatch'
<1> SUFFICES ASSUME NEW r \in Resources, ~Idle(r)'
             PROVE  /\ job'[r].kind = "create" => state'[r] = Nothing
                    /\ job'[r].kind # "create" =>
                         state'[r] # Nothing /\ state'[r].owner = job'[r].owner
                    /\ job'[r].kind = "delete" => job'[r].step # "create"
  BY DEF CallsMatch, Idle
<1>1. CASE state'[r] = state[r] /\ job'[r] = job[r]
  BY <1>1 DEF CallsMatch, Idle
<1>2. CASE Begins(r)
  BY <1>2, CallFacts DEF Begins
<1>3. CASE Finds(r) \/ Proceeds(r)
  BY <1>3 DEF Finds, Proceeds, GoesOn, CallsMatch
<1>4. CASE Deleted(r) \/ Succeeds(r) \/ Gives(r) \/ Learns(r)
  BY <1>4 DEF Deleted, Succeeds, Gives, Learns, Idle
<1> QED
  BY <1>1, <1>2, <1>3, <1>4, CallStep DEF Apart, Alone

\* The owner of a call, and that of a secret put at the name.
LEMMA HolderOf ==
  ASSUME TypeOK, HoldersDistinct, NEW q \in Resources, NEW r \in Resources, q # r,
         ~Idle(q), ~Idle(r)
  PROVE  job[q].owner # job[r].owner
<1>1. job[q].owner \in 1..MaxOwners
  BY CallFacts DEF TypeOK, Idle
<1> QED
  BY <1>1 DEF HoldersDistinct, Holds

LEMMA FreshUnknownStep ==
  ASSUME TypeOK, Drawn, HoldersDistinct, FreshUnknown, Next
  PROVE  FreshUnknown'
<1> SUFFICES ASSUME NEW r \in Resources, ~Idle(r)', job'[r].kind = "create", job'[r].step # "create"
             PROVE  /\ slot' # Nothing => slot'.owner # job'[r].owner
                    /\ \A request \in late' : request.owner # job'[r].owner
  BY DEF FreshUnknown, Idle
<1>1. CASE job'[r] = job[r]
  <2>1. ~Idle(r) /\ job[r].owner \in 1..MaxOwners
    BY <1>1, CallFacts DEF Idle, TypeOK
  <2>2. ASSUME NEW q \in Resources, ~Idle(q), job[q].step = "create"
        PROVE  job[q].owner # job[r].owner
    BY <1>1, <2>1, <2>2, HolderOf
  <2>3. ASSUME NEW owner, NEW version, Puts(owner, version), slot'.owner = job[r].owner
        PROVE  owner = job[r].owner /\ owner # Unlabelled
    BY <2>1, <2>3 DEF Puts, Object, Unlabelled
  <2>4. slot' # Nothing => slot'.owner # job[r].owner
    <3>1. CASE Keeps
      BY <1>1, <2>1, <3>1 DEF Keeps, FreshUnknown
    <3>2. CASE Frees
      BY <3>2 DEF Frees
    <3> QED
      BY <1>1, <2>1, <2>2, <2>3, <3>1, <3>2, SlotStep DEF FreshUnknown
  <2>5. ASSUME NEW request \in late', request.owner = job[r].owner
        PROVE  FALSE
    <3>1. request \notin late
      BY <1>1, <2>1, <2>5 DEF FreshUnknown
    <3>2. PICK q \in Resources : ~Idle(q) /\ request = job[q] /\ job'[q] = Nothing
      BY <3>1, Monotone
    <3>3. q = r
      BY <2>1, <2>5, <3>2, HolderOf
    <3> QED
      BY <3>2, <3>3 DEF Idle
  <2> QED
    BY <1>1, <2>4, <2>5
<1>2. CASE Begins(r)
  <2>1. slot' = slot /\ late' = late /\ job'[r].owner = owners + 1
    BY <1>2 DEF Begins, Keeps
  <2>2. owners \in Nat /\ \A n \in Nat : n <= owners => n # owners + 1
    BY SecretAssumption DEF TypeOK
  <2>3. slot # Nothing => slot.owner # owners + 1
    BY <2>2, ObjectFacts DEF TypeOK
  <2>4. \A request \in late : request.owner # owners + 1
    BY <2>2, CallFacts DEF TypeOK, Drawn
  <2> QED
    BY <2>1, <2>3, <2>4
<1>3. CASE Finds(r)
  BY <1>3 DEF Finds, GoesOn, Owned, FreshUnknown
<1>4. CASE Proceeds(r) \/ Deleted(r) \/ Succeeds(r) \/ Gives(r) \/ Learns(r)
  BY <1>1, <1>4 DEF Proceeds, Deleted, Succeeds, Gives, Learns, Idle
<1> QED
  BY <1>1, <1>2, <1>3, <1>4, CallStep DEF Apart, Alone

LEMMA LateTardyStep ==
  ASSUME TypeOK, LateTardy, Next
  PROVE  LateTardy'
BY Monotone DEF LateTardy

\* A secret with an ID that is remembered was at the name before.
LEMMA KnownSecret ==
  ASSUME TypeOK, Next, NEW id \in Nat, id <= objects, slot' # Nothing, slot'.id = id
  PROVE  slot # Nothing /\ slot' = slot
<1>1. ASSUME NEW owner, NEW version, Puts(owner, version)
      PROVE  slot'.id = objects + 1
  BY <1>1 DEF Puts, Object
<1>2. id # objects + 1
  BY SecretAssumption DEF TypeOK
<1> QED
  BY <1>1, <1>2, SlotStep DEF Keeps, Frees

\* Who can have put a secret with the owner of a call there.
LEMMA PutBy ==
  ASSUME TypeOK, HoldersDistinct, LateTardy, Next, NEW r \in Resources, ~Idle(r),
         slot' # Nothing, slot'.owner = job[r].owner
  PROVE  \/ slot # Nothing /\ slot' = slot
         \/ slot'.owner \in tardy
         \/ job[r].step = "create"
<1>1. job[r].owner # Unlabelled
  BY CallFacts DEF TypeOK, Idle, Unlabelled
<1>2. ASSUME NEW owner, NEW version, Puts(owner, version)
      PROVE  owner = job[r].owner
  BY <1>2 DEF Puts, Object
<1>3. CASE Keeps
  BY <1>3 DEF Keeps
<1>4. CASE Frees
  BY <1>4 DEF Frees
<1>5. ASSUME NEW q \in Resources, ~Idle(q), job[q].owner = job[r].owner
      PROVE  q = r
  BY <1>5, HolderOf
<1> QED
  BY <1>1, <1>2, <1>3, <1>4, <1>5, SlotStep DEF LateTardy

LEMMA RemovesOwnStep ==
  ASSUME TypeOK, Drawn, HoldersDistinct, LateTardy, RemovesOwn, Next
  PROVE  RemovesOwn'
<1>1. \A r \in Resources : ~Idle(r) => job[r].id \in Nat /\ job[r].id <= objects
  BY SecretAssumption, CallFacts DEF Drawn, TypeOK, Idle
<1>2. \A request \in late : request.id \in Nat /\ request.id <= objects
  BY SecretAssumption, CallFacts DEF Drawn, TypeOK
<1>3. ASSUME NEW r \in Resources, ~Idle(r), job[r].step = "remove", slot' # Nothing
      PROVE  /\ slot'.id = job[r].id => slot'.owner = job[r].owner
             /\ slot'.owner = job[r].owner => slot'.id = job[r].id \/ slot'.owner \in tardy
  <2>1. slot'.id = job[r].id => slot'.owner = job[r].owner
    BY <1>1, <1>3, KnownSecret DEF RemovesOwn
  <2>2. slot'.owner = job[r].owner => slot'.id = job[r].id \/ slot'.owner \in tardy
    BY <1>3, PutBy DEF RemovesOwn
  <2> QED
    BY <2>1, <2>2
<1>4. ASSUME NEW r \in Resources, job'[r] # Nothing, job'[r].step = "remove", slot' # Nothing
      PROVE  /\ slot'.id = job'[r].id => slot'.owner = job'[r].owner
             /\ slot'.owner = job'[r].owner => slot'.id = job'[r].id \/ slot'.owner \in tardy'
  <2>1. CASE job'[r] = job[r]
    BY <1>3, <1>4, <2>1, Monotone DEF Idle
  <2>2. CASE Finds(r)
    BY <1>4, <2>2 DEF Finds, GoesOn, Keeps, Owned
  <2>3. job'[r] = job[r] \/ Finds(r)
    BY <1>4, CallStep DEF Apart, Alone, Begins, Proceeds, Deleted, Succeeds, Gives, Learns
  <2> QED
    BY <2>1, <2>2, <2>3
<1>5. ASSUME NEW request \in late', request.step = "remove", slot' # Nothing, slot'.id = request.id
      PROVE  slot'.owner = request.owner
  <2>1. CASE request \in late
    BY <1>2, <1>5, <2>1, KnownSecret DEF RemovesOwn
  <2>2. CASE request \notin late
    BY <1>3, <1>5, <2>2, Monotone
  <2> QED
    BY <2>1, <2>2
<1> QED
  BY <1>4, <1>5 DEF RemovesOwn, Idle

LEMMA RevisionTrueStep ==
  ASSUME TypeOK, Drawn, RevisionTrue, Next
  PROVE  RevisionTrue'
<1> SUFFICES ASSUME NEW r \in Resources, state'[r] # Nothing, slot' # Nothing,
                    state'[r].revision = slot'.id
             PROVE  slot'.owner = state'[r].owner /\ slot'.version = state'[r].version
  BY DEF RevisionTrue
<1>1. CASE state'[r] = state[r]
  <2>1. state[r].revision \in Nat /\ state[r].revision <= objects
    BY <1>1, StateFacts, SecretAssumption DEF TypeOK, Drawn
  <2> QED
    BY <1>1, <2>1, KnownSecret DEF RevisionTrue
<1>2. CASE state'[r].revision = 0
  <2>1. slot' \in Objects
    BY StepTypes DEF TypeOK
  <2>2. slot'.id \in 1..MaxObjects
    BY <2>1, ObjectFacts
  <2> QED
    BY <1>2, <2>2, SecretAssumption
<1> QED
  BY <1>1, <1>2, KnownStep

\* An operation that claimed the name leaves its owner in the state.
LEMMA LeavesOwner ==
  ASSUME TypeOK, CallsMatch, NEW r \in Resources, ~Idle(r), job[r].step = "create"
  PROVE  /\ AfterFailure(r) # Nothing /\ AfterFailure(r).owner = job[r].owner
         /\ \A id \in 1..MaxObjects :
              Installed(r, id) # Nothing /\ Installed(r, id).owner = job[r].owner
<1>1. \A id \in 1..MaxObjects : Installed(r, id) # Nothing
  BY Outcomes, StateFacts
<1>2. CASE job[r].kind = "create"
  <2> DEFINE m == [owner |-> job[r].owner, version |-> job[r].version, revision |-> 0,
                   tainted |-> TRUE]
  <2>1. job[r].owner \in 1..MaxOwners /\ job[r].version \in Versions
    BY Outcomes, CallFacts
  <2>2. m \in States
    BY <2>1, SecretAssumption DEF States
  <2>3. m # Nothing
    BY <2>2, StateFacts
  <2>4. AfterFailure(r) = m
    BY <1>2 DEF AfterFailure, NoRevision
  <2> QED
    BY <1>1, <2>3, <2>4 DEF Installed
<1>3. CASE job[r].kind # "create"
  BY <1>1, <1>3 DEF CallsMatch, AfterFailure, Installed
<1> QED
  BY <1>2, <1>3

\* Whoever holds an owner goes on to do so, unless his secret is gone.
LEMMA SecretsAccountedStep ==
  ASSUME SecretInv, Next
  PROVE  SecretsAccounted'
<1> SUFFICES ASSUME slot' # Nothing, slot'.owner # Unlabelled, slot'.owner \notin tardy'
             PROVE  \E r \in Resources : Holds(r, slot.owner)'
  BY DEF SecretsAccounted, Holds
<1>1. slot'.owner \notin tardy
  BY Monotone DEF SecretInv
<1>2. CASE Keeps
  <2>1. slot' = slot /\ slot # Nothing
    BY <1>2 DEF Keeps
  <2>2. PICK r \in Resources : Holds(r, slot.owner)
    BY <1>1, <2>1 DEF SecretInv, SecretsAccounted, Holds
  <2>3. state[r] # Nothing /\ ~Idle(r) => state[r].owner = job[r].owner
    BY CallFacts DEF SecretInv, CallsMatch
  <2>4. CASE state'[r] = state[r] /\ job'[r] = job[r]
    BY <2>1, <2>2, <2>4 DEF Holds, Idle
  <2>5. CASE Begins(r)
    BY <2>1, <2>2, <2>5 DEF Holds, Idle, Begins
  <2>6. CASE Finds(r) \/ Proceeds(r)
    <3>1. job'[r] # Nothing
      BY <2>6, CallFacts DEF Finds, Proceeds, GoesOn
    <3> QED
      BY <2>1, <2>2, <2>3, <2>6, <3>1 DEF Holds, Idle, Finds, Proceeds, GoesOn
  <2>7. CASE Deleted(r)
    <3>1. job[r].owner = slot.owner
      BY <2>2, <2>3, <2>7 DEF Holds, Deleted
    <3>2. job[r].step = "remove" /\ slot' = Removed(job[r].id)
      BY <2>1, <2>7, <3>1 DEF Deleted, Owned
    <3>3. slot.id = job[r].id
      BY <1>1, <2>1, <2>7, <3>1, <3>2 DEF SecretInv, RemovesOwn, Deleted
    <3> QED
      BY <2>1, <3>2, <3>3 DEF Removed
  <2>8. CASE Succeeds(r)
    BY <2>1, <2>8 DEF Succeeds, Puts
  <2>9. CASE Gives(r)
    <3>1. ~Idle(r) /\ job[r].owner = slot.owner
      BY <2>2, <2>3, <2>9 DEF Holds, Gives
    <3>2. CASE job[r].kind = "create"
      <4>1. job[r].step = "create"
        BY <2>1, <3>1, <3>2 DEF SecretInv, FreshUnknown
      <4> QED
        BY <2>1, <2>9, <3>1, <4>1, LeavesOwner DEF Gives, Holds, SecretInv
    <3>3. CASE job[r].kind # "create"
      <4>1. state'[r] = state[r] /\ state[r] # Nothing /\ state[r].owner = job[r].owner
        BY <2>9, <3>1, <3>3 DEF SecretInv, CallsMatch, Gives, AfterFailure
      <4> QED
        BY <2>1, <3>1, <4>1 DEF Holds
    <3> QED
      BY <3>2, <3>3
  <2>10. CASE Learns(r)
    <3>1. state[r] # Nothing /\ state[r].owner = slot.owner
      BY <2>2, <2>10 DEF Holds, Learns
    <3>2. state'[r] = Refreshed(r) /\ state[r] \in States
      BY <2>10, <3>1 DEF Learns, Import, SecretInv, TypeOK
    <3>3. slot.version \in Versions /\ slot.id \in 0..MaxObjects
      BY <2>1, SecretAssumption, ObjectFacts DEF SecretInv, TypeOK
    <3>4. Refreshed(r) \in States /\ Refreshed(r).owner = slot.owner
      BY <2>1, <3>1, <3>2, <3>3 DEF Refreshed, States
    <3> QED
      BY <2>1, <3>2, <3>4, StateFacts DEF Holds
  <2> QED
    BY <2>2, <2>4, <2>5, <2>6, <2>7, <2>8, <2>9, <2>10, CallStep DEF SecretInv, Apart, Alone
<1>3. CASE Frees
  BY <1>3 DEF Frees
<1>4. ASSUME NEW owner, NEW version, Puts(owner, version)
      PROVE  slot'.owner = owner
  BY <1>4 DEF Puts, Object
<1>5. ASSUME NEW r \in Resources, ~Idle(r), job[r].step = "create",
             Puts(job[r].owner, job[r].version),
             state'[r] \in {Installed(r, objects'), AfterFailure(r)}
      PROVE  Holds(r, slot.owner)'
  <2>1. slot'.owner = job[r].owner
    BY <1>4, <1>5
  <2>2. objects' \in 1..MaxObjects
    BY <1>5, SecretAssumption DEF SecretInv, TypeOK, Puts
  <2>3. PICK id \in 1..MaxObjects : id = objects'
    BY <2>2
  <2>4. PICK m \in {Installed(r, id), AfterFailure(r)} : m = state'[r]
    BY <1>5, <2>3
  <2>5. m # Nothing /\ m.owner = job[r].owner
    BY <1>5, LeavesOwner DEF SecretInv
  <2> QED
    BY <2>1, <2>4, <2>5 DEF Holds
<1> QED
  BY <1>1, <1>2, <1>3, <1>4, <1>5, SlotStep DEF SecretInv, LateTardy

-----------------------------------------------------------------------------
(* Theorems *)

LEMMA Beginning ==
  ASSUME Init
  PROVE  SecretInv
<1>1. TypeOK
  BY SecretAssumption DEF Init, TypeOK
<1> QED
  BY <1>1 DEF Init, SecretInv, Drawn, CallsMatch, HoldersDistinct, Holds, FreshUnknown, RemovesOwn,
     LateTardy, RevisionTrue, SecretsAccounted, Idle

LEMMA NextStep ==
  ASSUME SecretInv, Next
  PROVE  SecretInv'
<1>1. TypeOK' /\ Drawn' /\ CallsMatch' /\ HoldersDistinct'
  BY StepTypes, DrawnStep, CallsMatchStep, HoldersDistinctStep DEF SecretInv
<1>2. FreshUnknown' /\ RemovesOwn' /\ LateTardy'
  BY FreshUnknownStep, RemovesOwnStep, LateTardyStep DEF SecretInv
<1>3. RevisionTrue' /\ SecretsAccounted'
  BY RevisionTrueStep, SecretsAccountedStep DEF SecretInv
<1> QED
  BY <1>1, <1>2, <1>3 DEF SecretInv

LEMMA Stutter ==
  ASSUME SecretInv, UNCHANGED vars
  PROVE  SecretInv'
<1>1. TypeOK' /\ Drawn' /\ CallsMatch'
  BY DEF SecretInv, vars, TypeOK, Drawn, CallsMatch, Idle
<1>2. HoldersDistinct' /\ FreshUnknown' /\ RemovesOwn' /\ LateTardy'
  BY DEF SecretInv, vars, HoldersDistinct, Holds, FreshUnknown, RemovesOwn, LateTardy, Idle
<1>3. RevisionTrue' /\ SecretsAccounted'
  BY DEF SecretInv, vars, RevisionTrue, SecretsAccounted, Idle
<1> QED
  BY <1>1, <1>2, <1>3 DEF SecretInv

\* The inductive invariant of the calls that install, rotate and remove the secret
\* (install, Delete, Read and ImportState of secret_resource.go), whatever Podman's
\* other clients do and whichever calls or answers are lost or late.
THEOREM SecretInvariant == Spec => []SecretInv
<1>1. Init => SecretInv
  BY Beginning
<1>2. SecretInv /\ [Next]_vars => SecretInv'
  BY NextStep, Stutter
<1> QED
  BY <1>1, <1>2, PTL DEF Spec

\* Every variable holds a value of its type, and IDs and tokens in use were drawn.
THEOREM TypeCorrect == Spec => []TypeOK
<1>1. SecretInv => TypeOK
  BY DEF SecretInv
<1> QED
  BY <1>1, SecretInvariant, PTL

\* Two resources never believe they own the same secret: create draws a new owner
\* token, and one secret is imported into one resource.
THEOREM OwnersStayDistinct == Spec => []OwnersDistinct
<1>1. SecretInv => OwnersDistinct
  BY StateFacts DEF SecretInv, TypeOK, HoldersDistinct, Holds, OwnersDistinct
<1> QED
  BY <1>1, SecretInvariant, PTL

\* The revision that install, Read or ImportState put into the state identifies the
\* secret with the state's owner and version, or no secret that exists.
THEOREM RevisionStaysTrue == Spec => []RevisionTrue
<1>1. SecretInv => RevisionTrue
  BY DEF SecretInv
<1> QED
  BY <1>1, SecretInvariant, PTL

\* Create keeps the owner in the state when it fails after the claim, so that no
\* secret is lost from sight unless Podman executed a request that was given up.
THEOREM SecretsStayAccounted == Spec => []SecretsAccounted
<1>1. SecretInv => SecretsAccounted
  BY DEF SecretInv
<1> QED
  BY <1>1, SecretInvariant, PTL

\* install and Delete never remove or replace the secret of somebody else, although
\* others may create one between the inspection and the removal: the removal names the
\* inspected ID, and Podman refuses to create a name that exists.
THEOREM ForeignStaysUntouched == Spec => ForeignUntouched
<1> DEFINE Own == slot # Nothing /\ slot' # slot =>
                    \/ ForeignRemove
                    \/ \E r \in Resources : ~Idle(r) /\ job[r].owner = slot.owner
                    \/ \E request \in late : request.owner = slot.owner
<1>1. ASSUME SecretInv, Next, slot # Nothing, slot' # slot
      PROVE  \/ ForeignRemove
             \/ \E r \in Resources : ~Idle(r) /\ job[r].owner = slot.owner
             \/ \E request \in late : request.owner = slot.owner
  BY <1>1, SlotStep DEF SecretInv, Keeps, Puts, RemovesOwn
<1>2. SecretInv /\ [Next]_vars => [Own]_vars
  BY <1>1
<1> QED
  BY <1>2, SecretInvariant, PTL DEF Spec, ForeignUntouched
=============================================================================
