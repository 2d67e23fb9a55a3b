--------------------------- MODULE LifecycleProofs ---------------------------
(***************************************************************************)
(* Proofs about Terraform and the engine together, for every number of     *)
(* resources, names and owners, and every bound on faults and edits.       *)
(***************************************************************************)
EXTENDS Lifecycle, EngineRunProofs

\* r stands for the owner id of the name n, in the state or in a call.
Holds(r, n, id) ==
  \/ InState(r) /\ state[r].name = n /\ state[r].id = id
  \/ ~Idle(r) /\ job[r].name = n /\ job[r].id = id

TerraformTyped ==
  /\ config \in [Resources -> Configs \cup {NoConfig}]
  /\ state \in [Resources -> Models \cup {NoState}]
  /\ job \in [Resources -> ProviderCalls \cup {NoJob}]
  /\ lost \subseteq Owners

\* A create has no state yet, the other calls work for the name and the owner in the state.
CallsMatch ==
  \A r \in Resources : ~Idle(r) =>
    /\ job[r].kind = "create" => ~InState(r)
    /\ job[r].kind # "create" =>
         InState(r) /\ state[r].name = job[r].name /\ state[r].id = job[r].id
    /\ job[r].kind # "delete" => job[r].payload \in Payloads

Works(r) == ~Idle(r) /\ job[r].phase = "running"

\* The operation of the engine is that of the one call that runs.
CallsRun ==
  /\ pc # "idle" <=> \E r \in Resources : Works(r)
  /\ \A r, s \in Resources : Works(r) /\ Works(s) => r = s
  /\ \A r \in Resources : Works(r) =>
       /\ op.name = job[r].name /\ op.id = job[r].id
       /\ op.kind = "delete" <=> job[r].kind = "delete"

\* No two resources have one owner.
IDsDistinct ==
  \A r, s \in Resources : r # s =>
    \A n, m \in Names, id \in Owners : ~(Holds(r, n, id) /\ Holds(s, m, id))

\* An owner owns one name.
OneName ==
  /\ \A n, m \in Names : n # m /\ Held(n) => record[n].id # record[m].id
  /\ \A r \in Resources, n, m \in Names, id \in Owners :
       Holds(r, n, id) /\ record[m].id = id => m = n

\* A destroy that succeeded has left nothing to know of.
DeletedFree ==
  \A r \in Resources :
    ~Idle(r) /\ job[r].kind = "delete" /\ job[r].phase = "ok" => record[job[r].name].id # job[r].id

LifecycleInv ==
  /\ ActivationInv
  /\ TerraformTyped
  /\ CallsMatch
  /\ CallsRun
  /\ IDsDistinct
  /\ OneName
  /\ DeletedFree
  /\ OwnersKnown

-----------------------------------------------------------------------------
(* What Terraform holds *)

LEMMA EngineTyped == LifecycleInv => TypeOK
BY DEF LifecycleInv, ActivationInv, EngineInv, OwnershipInv

LEMMA PayloadAttributes ==
  ASSUME NEW p \in Payloads
  PROVE  p \in Attributes
<1>1. p \in PayloadType
  BY ValueAssumption
<1>2. PICK S \in SUBSET Files : p.files \in [S -> Contents \ {Foreign}]
  BY <1>1 DEF PayloadType
<1>3. p.files \in [S -> Nodes]
  BY <1>2 DEF Nodes
<1> QED
  BY <1>1, <1>3 DEF PayloadType, Attributes

LEMMA ModelFacts ==
  ASSUME NEW m \in Models
  PROVE  /\ m # NoState
         /\ m.name \in Names /\ m.id \in Owners /\ m.revision \in Revisions
         /\ m.tainted \in BOOLEAN /\ m.payload \in Attributes
BY TerraformAssumption DEF Models

LEMMA CallFacts ==
  ASSUME NEW c \in ProviderCalls
  PROVE  /\ c # NoJob
         /\ c.kind \in {"create", "update", "delete"} /\ c.name \in Names /\ c.id \in Owners
         /\ c.payload \in Attributes /\ c.phase \in {"running", "ok", "error"}
BY TerraformAssumption DEF ProviderCalls

LEMMA Typed ==
  ASSUME TerraformTyped, NEW r \in Resources
  PROVE  /\ InState(r) => state[r] \in Models
         /\ ~Idle(r) => job[r] \in ProviderCalls
BY DEF TerraformTyped, InState, Idle

\* The files of a record that exist make the attribute of a state.
LEMMA ContainedType ==
  ASSUME TypeOK, NEW n \in Names
  PROVE  /\ Contained(n) \in UNION {[S -> Nodes] : S \in SUBSET Files}
         /\ DOMAIN Contained(n) = {g \in record[n].files : disk[g] # Absent}
         /\ \A f \in DOMAIN Contained(n) : Contained(n)[f] = disk[f]
<1> DEFINE S == {g \in record[n].files : disk[g] # Absent}
<1>1. S \subseteq Files
  BY DEF TypeOK, RecordType
<1>2. \A f \in S : disk[f] \in Nodes
  BY <1>1 DEF TypeOK, Trees
<1>3. Contained(n) \in [S -> Nodes]
  BY <1>2 DEF Contained
<1>4. S \in SUBSET Files
  BY <1>1
<1>5. Contained(n) \in UNION {[T -> Nodes] : T \in SUBSET Files}
  BY <1>3, <1>4
<1>6. \A f \in DOMAIN Contained(n) : Contained(n)[f] = disk[f]
  BY DEF Contained
<1>7. DOMAIN Contained(n) = S
  BY DEF Contained
<1> QED
  BY <1>5, <1>6, <1>7

LEMMA RefreshedType ==
  ASSUME TypeOK, NEW m \in Models
  PROVE  /\ Refreshed(m) \in Models \cup {NoState}
         /\ ~Held(m.name) => Refreshed(m) = NoState
         /\ Held(m.name) =>
              /\ Refreshed(m) # NoState
              /\ Refreshed(m).name = m.name /\ Refreshed(m).id = m.id
              /\ Refreshed(m).payload = [m.payload EXCEPT !.files = Contained(m.name)]
              /\ Refreshed(m).revision = record[m.name].revision
              /\ Refreshed(m).tainted = m.tainted
<1>1. m.name \in Names /\ m.payload \in Attributes
  BY ModelFacts
<1>2. record[m.name].revision \in Revisions
  BY <1>1 DEF TypeOK, RecordType
<1>3. [m.payload EXCEPT !.files = Contained(m.name)] \in Attributes
  BY <1>1, ContainedType DEF Attributes
<1>4. CASE Held(m.name)
  <2>1. PICK attributes \in Attributes : attributes = [m.payload EXCEPT !.files = Contained(m.name)]
    BY <1>3
  <2>2. PICK v \in Revisions : v = record[m.name].revision
    BY <1>2
  <2>3. PICK refreshed : refreshed = [m EXCEPT !.payload = attributes, !.revision = v]
    OBVIOUS
  <2>4. /\ refreshed \in Models /\ refreshed.name = m.name /\ refreshed.id = m.id
        /\ refreshed.payload = attributes /\ refreshed.revision = v
        /\ refreshed.tainted = m.tainted
    BY <2>3 DEF Models
  <2>5. Refreshed(m) = refreshed /\ refreshed # NoState
    BY <1>4, <2>1, <2>2, <2>3, <2>4, ModelFacts DEF Refreshed
  <2> QED
    BY <1>4, <2>1, <2>2, <2>4, <2>5
<1>5. CASE ~Held(m.name)
  BY <1>5 DEF Refreshed
<1> QED
  BY <1>4, <1>5

LEMMA ImportedType ==
  ASSUME TypeOK, NEW n \in Names, Held(n)
  PROVE  /\ Imported(n) \in Models
         /\ Imported(n).name = n /\ Imported(n).id = record[n].id
<1>1. record[n].id \in Owners /\ record[n].revision \in Revisions
  BY DEF TypeOK, RecordType, Held
<1>2. [files |-> Contained(n), restart |-> {}, tryRestart |-> {}, enable |-> {},
       trigger |-> NoRevision] \in Attributes
  BY ContainedType DEF Attributes
<1> QED
  BY <1>1, <1>2 DEF Imported, Models

LEMMA OutcomeType ==
  ASSUME TerraformTyped, CallsMatch, NEW r \in Resources, ~Idle(r), ~Works(r)
  PROVE  /\ Outcome(r) \in Models \cup {NoState}
         /\ job[r].kind = "delete" /\ job[r].phase = "ok" => Outcome(r) = NoState
         /\ ~(job[r].kind = "delete" /\ job[r].phase = "ok") =>
              /\ Outcome(r) # NoState
              /\ Outcome(r).name = job[r].name /\ Outcome(r).id = job[r].id
<1>1. job[r] \in ProviderCalls
  BY Typed
<1>2. /\ job[r].kind \in {"create", "update", "delete"} /\ job[r].phase \in {"ok", "error"}
      /\ job[r].name \in Names /\ job[r].id \in Owners /\ job[r].payload \in Attributes
  BY <1>1, CallFacts DEF Works
<1>3. CASE job[r].kind = "delete" /\ job[r].phase = "ok"
  BY <1>3 DEF Outcome
<1>4. CASE job[r].kind # "delete" /\ job[r].phase = "ok"
  <2>1. PICK m : m = [name |-> job[r].name, id |-> job[r].id, payload |-> job[r].payload,
                      revision |-> job[r].payload, tainted |-> FALSE]
    OBVIOUS
  <2>2. m \in Models /\ m.name = job[r].name /\ m.id = job[r].id
    BY <1>2, <1>4, <2>1 DEF CallsMatch, Models, Revisions
  <2>3. Outcome(r) = m
    BY <1>4, <2>1 DEF Outcome
  <2> QED
    BY <1>4, <2>2, <2>3, ModelFacts
<1>5. CASE job[r].kind = "create" /\ job[r].phase = "error"
  <2>1. PICK m : m = [name |-> job[r].name, id |-> job[r].id, payload |-> job[r].payload,
                      revision |-> NoRevision, tainted |-> TRUE]
    OBVIOUS
  <2>2. m \in Models /\ m.name = job[r].name /\ m.id = job[r].id
    BY <1>2, <2>1 DEF Models, Revisions
  <2>3. Outcome(r) = m
    BY <1>5, <2>1 DEF Outcome
  <2> QED
    BY <1>5, <2>2, <2>3, ModelFacts
<1>6. CASE job[r].kind # "create" /\ job[r].phase = "error"
  <2>1. Outcome(r) = state[r]
    BY <1>6 DEF Outcome
  <2>2. state[r] \in Models /\ state[r].name = job[r].name /\ state[r].id = job[r].id
    BY <1>6, Typed DEF CallsMatch
  <2> QED
    BY <1>6, <2>1, <2>2, ModelFacts
<1> QED
  BY <1>2, <1>3, <1>4, <1>5, <1>6

LEMMA JobType ==
  ASSUME NEW kind \in {"create", "update", "delete"}, NEW n \in Names, NEW id \in Owners,
         NEW p \in Attributes, NEW c, c = Job(kind, n, id, p)
  PROVE  /\ c \in ProviderCalls /\ c.kind = kind /\ c.name = n /\ c.id = id /\ c.payload = p
         /\ c.phase = "running"
BY DEF Job, ProviderCalls

-----------------------------------------------------------------------------
(* What a step does to one resource, its call and the engine *)

Alone(r) == \A q \in Resources \ {r} : state'[q] = state[q] /\ job'[q] = job[q]

Calls(r) ==
  /\ Idle(r) /\ job'[r] # NoJob /\ state'[r] = state[r] /\ UNCHANGED <<lost, record>>
  /\ job'[r].kind = "create" => ~InState(r) /\ job'[r].id \in FreshIDs
  /\ job'[r].kind # "create" =>
       InState(r) /\ state[r].name = job'[r].name /\ state[r].id = job'[r].id
  /\ job'[r].kind # "delete" => job'[r].payload \in Payloads
  /\ \/ /\ job'[r].phase = "running" /\ pc = "idle" /\ pc' # "idle"
        /\ op'.name = job'[r].name /\ op'.id = job'[r].id
        /\ op'.kind = "delete" <=> job'[r].kind = "delete"
     \/ /\ job'[r].phase = "ok" /\ job'[r].kind = "delete" /\ ~Held(job'[r].name)
        /\ UNCHANGED <<pc, op>>

Continues(r) ==
  /\ Works(r) /\ Next /\ state'[r] = state[r] /\ UNCHANGED lost
  /\ job'[r] # NoJob /\ job'[r].kind = job[r].kind /\ job'[r].name = job[r].name
  /\ job'[r].id = job[r].id /\ job'[r].payload = job[r].payload
  /\ pc # "idle"
  /\ job'[r].phase = "running" <=> pc' # "idle"
  /\ job'[r].phase = "ok" => pc \in {"commit", "sync"}

Doubts(r) ==
  /\ ~Idle(r) /\ ~Works(r) /\ state'[r] = state[r] /\ UNCHANGED <<lost, record, pc, op>>
  /\ job'[r] # NoJob /\ job'[r].kind = job[r].kind /\ job'[r].name = job[r].name
  /\ job'[r].id = job[r].id /\ job'[r].payload = job[r].payload /\ job'[r].phase = "error"

Saves(r) ==
  /\ ~Idle(r) /\ ~Works(r) /\ job'[r] = NoJob /\ state'[r] = Outcome(r)
  /\ UNCHANGED <<lost, record, pc, op>>

Dies(r) ==
  /\ ~Idle(r) /\ job'[r] = NoJob /\ state'[r] = state[r] /\ UNCHANGED record
  /\ IF Works(r) THEN pc' = "idle" ELSE UNCHANGED <<pc, op>>
  /\ lost' = IF job[r].kind = "create" THEN lost \cup {job[r].id} ELSE lost

Refreshes(r) ==
  /\ Idle(r) /\ InState(r) /\ job'[r] = job[r] /\ state'[r] = Refreshed(state[r])
  /\ UNCHANGED <<lost, record, pc, op>>

Imports(r) ==
  /\ Idle(r) /\ ~InState(r) /\ job'[r] = job[r]
  /\ \E n \in Names :
       /\ Held(n) /\ record[n].id \notin StateIDs \cup JobIDs
       /\ state'[r] = Imported(n) /\ lost' = lost \ {record[n].id}
  /\ UNCHANGED <<record, pc, op>>

\* An edit of the configuration, or the rest of the host.
Apart == UNCHANGED <<state, job, lost, record, pc, op>>

Effect(r) ==
  Calls(r) \/ Continues(r) \/ Doubts(r) \/ Saves(r) \/ Dies(r) \/ Refreshes(r) \/ Imports(r)

LEMMA AdmittedApply ==
  ASSUME NEW n, NEW id, NEW p, AdmitApply(n, id, p)
  PROVE  /\ pc = "idle" /\ pc' = "reserve" /\ UNCHANGED record
         /\ op'.kind = "apply" /\ op'.name = n /\ op'.id = id
BY DEF AdmitApply

LEMMA AdmittedDelete ==
  ASSUME NEW n, NEW id, AdmitDelete(n, id)
  PROVE  /\ pc = "idle" /\ pc' = "reserve" /\ UNCHANGED record
         /\ op'.kind = "delete" /\ op'.name = n /\ op'.id = id
BY DEF AdmitDelete

\* A call that begins.
LEMMA CallBegins ==
  ASSUME TerraformTyped, NEW r \in Resources, NEW c \in ProviderCalls, Begins(r, c)
  PROVE  /\ job'[r] = c /\ job'[r] # NoJob /\ state'[r] = state[r] /\ UNCHANGED lost
         /\ Alone(r) /\ TerraformTyped'
BY CallFacts DEF TerraformTyped, Begins, Alone

\* A call that goes on or returns.
LEMMA CallEnds ==
  ASSUME TerraformTyped, NEW r \in Resources, ~Idle(r), NEW phase \in {"running", "ok", "error"},
         Ends(r, phase)
  PROVE  /\ state'[r] = state[r] /\ UNCHANGED lost /\ Alone(r) /\ TerraformTyped'
         /\ job'[r] # NoJob /\ job'[r].kind = job[r].kind /\ job'[r].name = job[r].name
         /\ job'[r].id = job[r].id /\ job'[r].payload = job[r].payload
         /\ job'[r].phase = phase
<1>1. job[r] \in ProviderCalls
  BY Typed
<1>2. PICK c : c = [job[r] EXCEPT !.phase = phase]
  OBVIOUS
<1>3. /\ c \in ProviderCalls /\ c.phase = phase
      /\ c.kind = job[r].kind /\ c.name = job[r].name /\ c.id = job[r].id
      /\ c.payload = job[r].payload
  BY <1>1, <1>2 DEF ProviderCalls
<1>4. job' = [job EXCEPT ![r] = c]
  BY <1>2 DEF Ends
<1>5. job'[r] = c /\ \A q \in Resources \ {r} : job'[q] = job[q]
  BY <1>4 DEF TerraformTyped
<1>6. TerraformTyped'
  BY <1>3, <1>4 DEF TerraformTyped, Ends
<1> QED
  BY <1>3, <1>5, <1>6, CallFacts DEF Ends, Alone

LEMMA CreateEffect ==
  ASSUME LifecycleInv, NEW r \in Resources, Create(r)
  PROVE  Alone(r) /\ Calls(r) /\ Next /\ TerraformTyped'
<1>1. TerraformTyped
  BY DEF LifecycleInv
<1>2. config[r] \in Configs /\ config[r].name \in Names /\ config[r].payload \in Payloads
  BY <1>1 DEF Create, TerraformTyped, Configs
<1>3. PICK id \in FreshIDs :
        /\ AdmitApply(config[r].name, id, config[r].payload)
        /\ Begins(r, Job("create", config[r].name, id, config[r].payload))
  BY DEF Create
<1>4. id \in Owners
  BY DEF FreshIDs
<1>5. Next
  BY <1>2, <1>3, <1>4 DEF Next, Admit
<1>6. PICK c : c = Job("create", config[r].name, id, config[r].payload)
  OBVIOUS
<1>7. /\ c \in ProviderCalls /\ c.phase = "running" /\ c.kind = "create"
      /\ c.name = config[r].name /\ c.id = id /\ c.payload = config[r].payload
  <2>1. config[r].payload \in Attributes
    BY <1>2, PayloadAttributes
  <2> QED
    BY <1>2, <1>6, <2>1, <1>4, JobType
<1>8. Begins(r, c)
  BY <1>3, <1>6
<1>9. /\ job'[r] = c /\ job'[r] # NoJob /\ state'[r] = state[r] /\ UNCHANGED lost
      /\ Alone(r) /\ TerraformTyped'
  BY <1>1, <1>7, <1>8, CallBegins
<1>10. /\ pc = "idle" /\ pc' = "reserve" /\ UNCHANGED record
      /\ op'.kind = "apply" /\ op'.name = c.name /\ op'.id = c.id
  BY <1>3, <1>7, AdmittedApply
<1>11. Calls(r)
  BY <1>2, <1>7, <1>9, <1>10 DEF Calls, Create
<1> QED
  BY <1>5, <1>9, <1>11

LEMMA UpdateEffect ==
  ASSUME LifecycleInv, NEW r \in Resources, Update(r)
  PROVE  Alone(r) /\ Calls(r) /\ Next /\ TerraformTyped'
<1>1. TerraformTyped
  BY DEF LifecycleInv
<1>2. /\ config[r] \in Configs /\ config[r].name \in Names /\ config[r].payload \in Payloads
      /\ state[r].name = config[r].name
  BY <1>1 DEF Update, Stays, TerraformTyped, Configs
<1>3. PICK id \in Owners : id = state[r].id
  BY <1>1, Typed, ModelFacts DEF Update
<1>4. /\ AdmitApply(config[r].name, id, config[r].payload)
      /\ Begins(r, Job("update", config[r].name, id, config[r].payload))
  BY <1>3 DEF Update
<1>5. Next
  BY <1>2, <1>4 DEF Next, Admit
<1>6. PICK c : c = Job("update", config[r].name, id, config[r].payload)
  OBVIOUS
<1>7. /\ c \in ProviderCalls /\ c.phase = "running" /\ c.kind = "update"
      /\ c.name = config[r].name /\ c.id = id /\ c.payload = config[r].payload
  <2>1. config[r].payload \in Attributes
    BY <1>2, PayloadAttributes
  <2> QED
    BY <1>2, <1>6, <2>1, JobType
<1>8. Begins(r, c)
  BY <1>4, <1>6
<1>9. /\ job'[r] = c /\ job'[r] # NoJob /\ state'[r] = state[r] /\ UNCHANGED lost
      /\ Alone(r) /\ TerraformTyped'
  BY <1>1, <1>7, <1>8, CallBegins
<1>10. /\ pc = "idle" /\ pc' = "reserve" /\ UNCHANGED record
      /\ op'.kind = "apply" /\ op'.name = c.name /\ op'.id = c.id
  BY <1>4, <1>7, AdmittedApply
<1>11. Calls(r)
  BY <1>2, <1>3, <1>7, <1>9, <1>10 DEF Calls, Update
<1> QED
  BY <1>5, <1>9, <1>11

LEMMA DeleteEffect ==
  ASSUME LifecycleInv, NEW r \in Resources, Delete(r)
  PROVE  Alone(r) /\ Calls(r) /\ (Next \/ UNCHANGED vars) /\ TerraformTyped'
<1>1. TerraformTyped
  BY DEF LifecycleInv
<1>2. PICK n \in Names, id \in Owners, p \in Attributes :
        n = state[r].name /\ id = state[r].id /\ p = state[r].payload
  BY <1>1, Typed, ModelFacts DEF Delete
<1>3. CASE AdmitDelete(n, id) /\ Begins(r, Job("delete", n, id, p))
  <2>1. PICK c : c = Job("delete", n, id, p)
    OBVIOUS
  <2>2. c \in ProviderCalls /\ c.kind = "delete" /\ c.name = n /\ c.id = id /\ c.phase = "running"
    BY <2>1, JobType
  <2>3. Begins(r, c)
    BY <1>3, <2>1
  <2>4. /\ job'[r] = c /\ job'[r] # NoJob /\ state'[r] = state[r] /\ UNCHANGED lost
        /\ Alone(r) /\ TerraformTyped'
    BY <1>1, <2>2, <2>3, CallBegins
  <2>5. /\ pc = "idle" /\ pc' = "reserve" /\ UNCHANGED record
        /\ op'.kind = "delete" /\ op'.name = c.name /\ op'.id = c.id
    BY <1>3, <2>2, AdmittedDelete
  <2>6. Calls(r)
    BY <1>2, <2>2, <2>4, <2>5 DEF Calls, Delete
  <2>7. Next
    BY <1>2, <1>3 DEF Next, Admit
  <2> QED
    BY <2>4, <2>6, <2>7
<1>4. CASE /\ pc = "idle" /\ ~Held(n) /\ UNCHANGED vars
           /\ Begins(r, [Job("delete", n, id, p) EXCEPT !.phase = "ok"])
  <2>1. PICK c : c = [Job("delete", n, id, p) EXCEPT !.phase = "ok"]
    OBVIOUS
  <2>2. c \in ProviderCalls /\ c.kind = "delete" /\ c.name = n /\ c.id = id /\ c.phase = "ok"
    BY <2>1 DEF Job, ProviderCalls
  <2>3. Begins(r, c)
    BY <1>4, <2>1
  <2>4. /\ job'[r] = c /\ job'[r] # NoJob /\ state'[r] = state[r] /\ UNCHANGED lost
        /\ Alone(r) /\ TerraformTyped'
    BY <1>1, <2>2, <2>3, CallBegins
  <2>5. Calls(r)
    BY <1>2, <1>4, <2>2, <2>4 DEF Calls, Delete, vars
  <2> QED
    BY <1>4, <2>4, <2>5
<1> QED
  BY <1>2, <1>3, <1>4 DEF Delete

\* A call returns with the step of the engine that ends the operation, and only the
\* last write of an operation is a success.
LEMMA Returns ==
  ASSUME Call
  PROVE  /\ Return \in {"running", "ok", "error"}
         /\ Return = "running" <=> pc' # "idle"
         /\ Return = "ok" => pc \in {"commit", "sync"}
BY DEF Return

LEMMA CallUnderWay ==
  ASSUME OwnershipInv, Call
  PROVE  pc # "idle"
BY DEF Call, Reserve, QueryRetired, DisableRetired, StopRetired, RemoveFile, RemovalDone,
       InstallFile, InstallDone, RecoverEnablement, DisablePrevious, Enable, Reload, Restart,
       TryRestart, Commit, Forget, SyncRecord

LEMMA ProceedEffect ==
  ASSUME LifecycleInv, NEW r \in Resources, Proceed(r)
  PROVE  Alone(r) /\ Continues(r) /\ Next /\ TerraformTyped'
<1>1. TerraformTyped /\ OwnershipInv
  BY DEF LifecycleInv, ActivationInv, EngineInv
<1>2. Works(r) /\ ~Idle(r)
  BY DEF Proceed, Works
<1>3. CASE Call /\ Ends(r, Return)
  <2>1. PICK phase \in {"running", "ok", "error"} :
          /\ phase = "running" <=> pc' # "idle"
          /\ phase = "ok" => pc \in {"commit", "sync"}
          /\ Ends(r, phase)
    BY <1>3, Returns
  <2>2. Next /\ pc # "idle"
    BY <1>1, <1>3, CallUnderWay DEF Next
  <2>3. /\ state'[r] = state[r] /\ UNCHANGED lost /\ Alone(r) /\ TerraformTyped'
        /\ job'[r] # NoJob /\ job'[r].kind = job[r].kind /\ job'[r].name = job[r].name
        /\ job'[r].id = job[r].id /\ job'[r].payload = job[r].payload /\ job'[r].phase = phase
    BY <1>1, <1>2, <2>1, CallEnds
  <2> QED
    BY <1>2, <2>1, <2>2, <2>3 DEF Continues
<1>4. CASE Fail /\ Ends(r, "error")
  <2>1. Next /\ pc # "idle" /\ pc' = "idle"
    BY <1>4 DEF Next, Fail, End
  <2>2. /\ state'[r] = state[r] /\ UNCHANGED lost /\ Alone(r) /\ TerraformTyped'
        /\ job'[r] # NoJob /\ job'[r].kind = job[r].kind /\ job'[r].name = job[r].name
        /\ job'[r].id = job[r].id /\ job'[r].payload = job[r].payload /\ job'[r].phase = "error"
    BY <1>1, <1>2, <1>4, CallEnds
  <2> QED
    BY <1>2, <2>1, <2>2 DEF Continues
<1> QED
  BY <1>3, <1>4 DEF Proceed

LEMMA OneMoreFault ==
  ASSUME TypeOK, faults < MaxFaults, faults' = faults + 1
  PROVE  faults' \in 0..MaxFaults
BY EngineAssumption DEF TypeOK

LEMMA DoubtEffect ==
  ASSUME LifecycleInv, NEW r \in Resources, Doubt(r)
  PROVE  Alone(r) /\ Doubts(r) /\ Still /\ TerraformTyped'
<1>1. TerraformTyped /\ TypeOK
  BY EngineTyped DEF LifecycleInv
<1>2. ~Idle(r) /\ ~Works(r) /\ Ends(r, "error") /\ UNCHANGED <<record, pc, op>>
  BY DEF Doubt, Works
<1>3. Still
  BY <1>1, OneMoreFault DEF Doubt, Still
<1>4. /\ state'[r] = state[r] /\ UNCHANGED lost /\ Alone(r) /\ TerraformTyped'
      /\ job'[r] # NoJob /\ job'[r].kind = job[r].kind /\ job'[r].name = job[r].name
      /\ job'[r].id = job[r].id /\ job'[r].payload = job[r].payload /\ job'[r].phase = "error"
  BY <1>1, <1>2, CallEnds
<1> QED
  BY <1>2, <1>3, <1>4 DEF Doubts

LEMMA SaveEffect ==
  ASSUME LifecycleInv, NEW r \in Resources, Save(r)
  PROVE  Alone(r) /\ Saves(r) /\ UNCHANGED vars /\ TerraformTyped'
<1>1. TerraformTyped /\ CallsMatch
  BY DEF LifecycleInv
<1>2. ~Idle(r) /\ ~Works(r)
  BY DEF Save, Works
<1>3. PICK m \in Models \cup {NoState} : m = Outcome(r)
  BY <1>1, <1>2, OutcomeType
<1>4. /\ state' = [state EXCEPT ![r] = m] /\ job' = [job EXCEPT ![r] = NoJob]
      /\ UNCHANGED <<vars, config, lost>>
  BY <1>3 DEF Save
<1> QED
  BY <1>1, <1>2, <1>3, <1>4 DEF TerraformTyped, Alone, Saves, vars

LEMMA DieEffect ==
  ASSUME LifecycleInv, NEW r \in Resources, Die(r)
  PROVE  Alone(r) /\ Dies(r) /\ (Next \/ Still) /\ TerraformTyped'
<1>1. TerraformTyped /\ TypeOK
  BY EngineTyped DEF LifecycleInv
<1>2. /\ ~Idle(r) /\ job' = [job EXCEPT ![r] = NoJob] /\ UNCHANGED <<config, state>>
      /\ lost' = IF job[r].kind = "create" THEN lost \cup {job[r].id} ELSE lost
  BY DEF Die
<1>3. Works(r) => Fail /\ Next /\ pc' = "idle" /\ UNCHANGED record
  BY DEF Die, Works, Fail, End, Next
<1>4. ~Works(r) => Still /\ UNCHANGED <<record, pc, op>>
  BY <1>1, <1>2, OneMoreFault DEF Die, Works, Still
<1>5. lost' \subseteq Owners
  BY <1>1, <1>2, Typed, CallFacts DEF TerraformTyped
<1>6. job'[r] = NoJob /\ Alone(r)
  BY <1>1, <1>2 DEF TerraformTyped, Alone
<1>7. TerraformTyped'
  BY <1>1, <1>2, <1>5 DEF TerraformTyped
<1> QED
  BY <1>2, <1>3, <1>4, <1>6, <1>7 DEF Dies

LEMMA ReadEffect ==
  ASSUME LifecycleInv, NEW r \in Resources, Read(r)
  PROVE  Alone(r) /\ Refreshes(r) /\ UNCHANGED vars /\ TerraformTyped'
<1>1. TerraformTyped /\ TypeOK
  BY EngineTyped DEF LifecycleInv
<1>2. PICK m \in Models \cup {NoState} : m = Refreshed(state[r])
  BY <1>1, Typed, RefreshedType DEF Read
<1>3. state' = [state EXCEPT ![r] = m] /\ UNCHANGED <<vars, config, job, lost>>
  BY <1>2 DEF Read
<1> QED
  BY <1>1, <1>2, <1>3 DEF Read, TerraformTyped, Alone, Refreshes, vars

LEMMA ImportEffect ==
  ASSUME LifecycleInv, NEW r \in Resources, NEW n \in Names, ImportState(r, n)
  PROVE  Alone(r) /\ Imports(r) /\ UNCHANGED vars /\ TerraformTyped'
<1>1. TerraformTyped /\ TypeOK
  BY EngineTyped DEF LifecycleInv
<1>2. PICK m \in Models : m = Imported(n)
  BY <1>1, ImportedType DEF ImportState
<1>3. state' = [state EXCEPT ![r] = m] /\ UNCHANGED <<vars, config, job>>
  BY <1>2 DEF ImportState
<1>4. lost' \subseteq Owners
  BY <1>1 DEF ImportState, TerraformTyped
<1>5. TerraformTyped' /\ state'[r] = m /\ Alone(r)
  BY <1>1, <1>3, <1>4 DEF TerraformTyped, Alone
<1>6. Imports(r)
  BY <1>2, <1>3, <1>5 DEF ImportState, Imports, vars
<1> QED
  BY <1>3, <1>5, <1>6

LEMMA EditEffect ==
  ASSUME LifecycleInv, NEW r \in Resources, Edit(r)
  PROVE  Apart /\ UNCHANGED vars /\ TerraformTyped'
<1>1. TerraformTyped
  BY DEF LifecycleInv
<1>2. PICK c \in Configs \cup {NoConfig} : config' = [config EXCEPT ![r] = c]
  BY DEF Edit
<1> QED
  BY <1>1, <1>2 DEF Edit, Apart, TerraformTyped, vars

LEMMA EnvironmentEffect ==
  ASSUME LifecycleInv, Environment, UNCHANGED terraformVars
  PROVE  Apart /\ Next /\ TerraformTyped'
<1>1. UNCHANGED <<record, pc, op>>
  BY DEF Environment, Drift, ForeignReload, UpgradePodman, StartUnit, StopUnit, Relink
<1>2. TerraformTyped
  BY DEF LifecycleInv
<1> QED
  BY <1>1, <1>2 DEF Apart, Next, terraformVars, TerraformTyped

\* Every step works for one resource or for none, and is a step of the engine or
\* leaves the host alone.
LEMMA StepEffect ==
  ASSUME LifecycleInv, LifecycleNext
  PROVE  /\ Apart \/ \E r \in Resources : Alone(r) /\ Effect(r)
         /\ Next \/ Still
         /\ TerraformTyped'
<1>1. UNCHANGED vars => Still
  BY EngineTyped, StutterIsStill
<1>2. ASSUME NEW r \in Resources,
             Provider(r) \/ Doubt(r) \/ Die(r) \/ Read(r) \/ Edit(r)
      PROVE  /\ Apart \/ (Alone(r) /\ Effect(r))
             /\ Next \/ Still
             /\ TerraformTyped'
  BY <1>1, <1>2, CreateEffect, UpdateEffect, DeleteEffect, ProceedEffect, SaveEffect, DoubtEffect,
     DieEffect, ReadEffect, EditEffect DEF Provider, Effect
<1>3. ASSUME NEW r \in Resources, NEW n \in Names, ImportState(r, n)
      PROVE  Alone(r) /\ Effect(r) /\ Still /\ TerraformTyped'
  BY <1>1, <1>3, ImportEffect DEF Effect
<1> QED
  BY <1>2, <1>3, EnvironmentEffect DEF LifecycleNext

-----------------------------------------------------------------------------
(* Calls and owners *)

LEMMA CallsMatchStep ==
  ASSUME LifecycleInv, LifecycleNext
  PROVE  CallsMatch'
<1>1. CallsMatch
  BY DEF LifecycleInv
<1>2. CASE Apart
  BY <1>1, <1>2 DEF Apart, CallsMatch, Idle, InState
<1>3. ASSUME NEW r \in Resources, Alone(r), Effect(r)
      PROVE  CallsMatch'
  <2>1. ASSUME NEW q \in Resources, ~Idle(q)'
        PROVE  /\ job'[q].kind = "create" => ~InState(q)'
               /\ job'[q].kind # "create" =>
                    InState(q)' /\ state'[q].name = job'[q].name /\ state'[q].id = job'[q].id
               /\ job'[q].kind # "delete" => job'[q].payload \in Payloads
    <3>1. CASE q # r
      BY <1>1, <1>3, <2>1, <3>1 DEF Alone, CallsMatch, Idle, InState
    <3>2. CASE q = r /\ Calls(r)
      BY <3>2 DEF Calls, InState
    <3>3. CASE q = r /\ (Continues(r) \/ Doubts(r))
      BY <1>1, <3>3 DEF Continues, Doubts, Works, CallsMatch, InState
    <3>4. CASE q = r /\ (Saves(r) \/ Dies(r) \/ Refreshes(r) \/ Imports(r))
      BY <2>1, <3>4 DEF Saves, Dies, Refreshes, Imports, Idle
    <3> QED
      BY <1>3, <3>1, <3>2, <3>3, <3>4 DEF Effect
  <2> QED
    BY <2>1 DEF CallsMatch
<1> QED
  BY <1>2, <1>3, StepEffect

LEMMA CallsRunStep ==
  ASSUME LifecycleInv, LifecycleNext
  PROVE  CallsRun'
<1>1. CallsRun /\ OwnershipInv
  BY DEF LifecycleInv, ActivationInv, EngineInv
<1>2. CASE Apart
  BY <1>1, <1>2 DEF Apart, CallsRun, Works, Idle
<1>3. ASSUME NEW r \in Resources, Alone(r), Effect(r)
      PROVE  CallsRun'
  <2>1. \A q \in Resources \ {r} : Works(q)' <=> Works(q)
    BY <1>3 DEF Alone, Works, Idle
  <2>2. CASE Calls(r) /\ job'[r].phase = "running"
    <3>1. Works(r)' /\ \A q \in Resources \ {r} : ~Works(q)'
      BY <1>1, <2>1, <2>2 DEF Calls, Works, Idle, CallsRun
    <3> QED
      BY <2>2, <3>1 DEF Calls, CallsRun
  <2>3. CASE Continues(r)
    <3>1. /\ \A q \in Resources \ {r} : ~Works(q)'
          /\ Works(r)' <=> pc' # "idle"
          /\ op.name = job'[r].name /\ op.id = job'[r].id
          /\ op.kind = "delete" <=> job'[r].kind = "delete"
      BY <1>1, <2>1, <2>3 DEF Continues, Works, Idle, CallsRun
    <3>2. pc' # "idle" => op'.name = op.name /\ op'.id = op.id /\ op'.kind = op.kind
      BY <1>1, <2>3, OperationKept DEF Continues
    <3> QED
      BY <3>1, <3>2 DEF CallsRun
  <2>4. CASE Dies(r) /\ Works(r)
    <3>1. (\A q \in Resources : ~Works(q)') /\ pc' = "idle"
      BY <1>1, <2>1, <2>4 DEF Dies, Works, Idle, CallsRun
    <3> QED
      BY <3>1 DEF CallsRun
  <2>5. CASE \/ Calls(r) /\ job'[r].phase # "running"
             \/ Doubts(r) \/ Saves(r) \/ (Dies(r) /\ ~Works(r)) \/ Refreshes(r) \/ Imports(r)
    <3>1. ~Works(r) /\ ~Works(r)' /\ UNCHANGED <<pc, op>>
      BY <2>5 DEF Calls, Doubts, Saves, Dies, Refreshes, Imports, Works, Idle
    <3>2. \A q \in Resources : Works(q)' => job'[q] = job[q]
      BY <1>3, <3>1 DEF Alone
    <3> QED
      BY <1>1, <2>1, <3>1, <3>2 DEF CallsRun
  <2> QED
    BY <1>3, <2>2, <2>3, <2>4, <2>5 DEF Effect
<1> QED
  BY <1>2, <1>3, StepEffect

\* The engine gives a name to the owner that the running call works for, or frees it.
LEMMA RecordEffect ==
  ASSUME LifecycleInv, LifecycleNext, NEW n \in Names, record'[n] # record[n]
  PROVE  \E r \in Resources :
           /\ Alone(r) /\ Continues(r) /\ job[r].name = n
           /\ record'[n].id \in {job[r].id, NoOwner}
<1>1. OwnershipInv /\ CallsRun
  BY DEF LifecycleInv, ActivationInv, EngineInv
<1>2. PICK r \in Resources : Alone(r) /\ Continues(r)
  BY StepEffect DEF Apart, Effect, Calls, Doubts, Saves, Dies, Refreshes, Imports
<1>3. Next /\ Works(r)
  BY <1>2 DEF Continues
<1>4. op.name = n /\ op.name = job[r].name /\ op.id = job[r].id
  BY <1>1, <1>3, OthersKept DEF CallsRun
<1>5. record \in [Names -> RecordType]
  BY <1>1 DEF OwnershipInv, TypeOK
<1>6. record'[n].id \in {op.id, NoOwner}
  <2>1. Reserve \/ Commit \/ Forget
    BY <1>3, RecordFrame
  <2>2. record'[n] \in {Reservation(op), Commitment(op), NoRecord}
    BY <1>4, <1>5, <2>1 DEF Reserve, Commit, Forget
  <2> QED
    BY <2>2 DEF Reservation, Commitment, NoRecord
<1> QED
  BY <1>2, <1>4, <1>6

\* A resource keeps its owners, or takes one that nobody has.
LEMMA HoldsStep ==
  ASSUME LifecycleInv, NEW r \in Resources, Effect(r), NEW n \in Names, NEW id \in Owners,
         Holds(r, n, id)', ~Holds(r, n, id)
  PROVE  /\ id \notin StateIDs \cup JobIDs /\ UNCHANGED record
         /\ id \notin RecordIDs \/ (Held(n) /\ record[n].id = id)
<1>1. TypeOK /\ TerraformTyped /\ CallsMatch
  BY EngineTyped DEF LifecycleInv
<1>2. CASE Calls(r)
  <2>1. job'[r].kind = "create" /\ job'[r].id = id
    BY <1>2 DEF Calls, Holds, InState, Idle
  <2> QED
    BY <1>2, <2>1 DEF Calls, FreshIDs
<1>3. ~(Continues(r) \/ Doubts(r) \/ Dies(r))
  BY DEF Continues, Doubts, Dies, Works, Holds, InState, Idle
<1>4. ~Saves(r)
  <2>1. SUFFICES ASSUME Saves(r) PROVE FALSE
    OBVIOUS
  <2>2. ~Idle(r) /\ ~Works(r) /\ job'[r] = NoJob /\ state'[r] = Outcome(r)
    BY <2>1 DEF Saves
  <2>3. Outcome(r) # NoState /\ Outcome(r).name = n /\ Outcome(r).id = id
    BY <2>2 DEF Holds, InState, Idle
  <2>4. job[r].name = n /\ job[r].id = id
    BY <1>1, <2>2, <2>3, OutcomeType
  <2> QED
    BY <2>2, <2>4 DEF Holds
<1>5. ~Refreshes(r)
  <2>1. SUFFICES ASSUME Refreshes(r) PROVE FALSE
    OBVIOUS
  <2>2. Idle(r) /\ InState(r) /\ job'[r] = job[r] /\ state'[r] = Refreshed(state[r])
    BY <2>1 DEF Refreshes
  <2>3. Refreshed(state[r]) # NoState /\ Refreshed(state[r]).name = n /\ Refreshed(state[r]).id = id
    BY <2>2 DEF Holds, InState, Idle
  <2>4. state[r].name = n /\ state[r].id = id
    BY <1>1, <2>2, <2>3, Typed, RefreshedType
  <2> QED
    BY <2>2, <2>4 DEF Holds
<1>6. CASE Imports(r)
  <2>1. PICK k \in Names :
          Held(k) /\ record[k].id \notin StateIDs \cup JobIDs /\ state'[r] = Imported(k)
    BY <1>6 DEF Imports
  <2>2. state'[r].name = n /\ state'[r].id = id
    BY <1>6 DEF Imports, Holds, Idle
  <2>3. k = n /\ record[k].id = id
    BY <1>1, <2>1, <2>2, ImportedType
  <2> QED
    BY <1>6, <2>1, <2>3 DEF Imports
<1> QED
  BY <1>2, <1>3, <1>4, <1>5, <1>6 DEF Effect

LEMMA HoldsKept ==
  ASSUME NEW q, NEW n, NEW id, state'[q] = state[q], job'[q] = job[q]
  PROVE  Holds(q, n, id)' <=> Holds(q, n, id)
BY DEF Holds, InState, Idle

LEMMA HeldIDs ==
  ASSUME NEW r \in Resources, NEW n, NEW id, Holds(r, n, id)
  PROVE  id \in StateIDs \cup JobIDs
BY DEF Holds, StateIDs, JobIDs

LEMMA IDsDistinctStep ==
  ASSUME LifecycleInv, LifecycleNext
  PROVE  IDsDistinct'
<1>1. IDsDistinct
  BY DEF LifecycleInv
<1>2. CASE Apart
  BY <1>1, <1>2 DEF Apart, IDsDistinct, Holds, InState, Idle
<1>3. ASSUME NEW a \in Resources, Alone(a), Effect(a)
      PROVE  IDsDistinct'
  <2>1. ASSUME NEW q \in Resources, q # a, NEW n \in Names, NEW id \in Owners, Holds(q, n, id)'
        PROVE  Holds(q, n, id) /\ id \in StateIDs \cup JobIDs
    BY <1>3, <2>1, HoldsKept, HeldIDs DEF Alone
  <2>2. ASSUME NEW n \in Names, NEW id \in Owners, Holds(a, n, id)'
        PROVE  Holds(a, n, id) \/ id \notin StateIDs \cup JobIDs
    BY <1>3, <2>2, HoldsStep
  <2>3. ASSUME NEW r \in Resources, NEW s \in Resources, r # s, NEW n \in Names,
               NEW m \in Names, NEW id \in Owners, Holds(r, n, id)', Holds(s, m, id)'
        PROVE  FALSE
    <3>1. Holds(r, n, id) /\ Holds(s, m, id)
      BY <2>1, <2>2, <2>3
    <3> QED
      BY <1>1, <2>3, <3>1 DEF IDsDistinct
  <2> QED
    BY <2>3 DEF IDsDistinct
<1> QED
  BY <1>2, <1>3, StepEffect

LEMMA OwnersOfCalls ==
  ASSUME TerraformTyped, NEW r \in Resources, ~Idle(r)
  PROVE  /\ job[r].name \in Names /\ job[r].id \in Owners
         /\ Holds(r, job[r].name, job[r].id)
BY Typed, CallFacts DEF Holds

\* With a call under way the owner in the state is the owner of the call.
LEMMA HoldsOnce ==
  ASSUME CallsMatch, NEW r \in Resources, ~Idle(r), NEW n, NEW id, Holds(r, n, id)
  PROVE  job[r].name = n /\ job[r].id = id
BY DEF CallsMatch, Holds, InState, Idle

LEMMA OneNameStep ==
  ASSUME LifecycleInv, LifecycleNext
  PROVE  OneName'
<1>1. TypeOK /\ TerraformTyped /\ CallsMatch /\ IDsDistinct /\ OneName
  BY EngineTyped DEF LifecycleInv
<1>2. ASSUME NEW n \in Names, record'[n] # record[n]
      PROVE  \E r \in Resources :
               /\ ~Idle(r) /\ Alone(r) /\ Continues(r)
               /\ job[r].name = n /\ job[r].id \in Owners /\ Holds(r, n, job[r].id)
               /\ record'[n].id \in {job[r].id, NoOwner}
  BY <1>1, <1>2, RecordEffect, OwnersOfCalls DEF Continues, Works
<1>3. ASSUME NEW n \in Names, NEW m \in Names, n # m, Held(n)', record'[n].id = record'[m].id
      PROVE  FALSE
  <2>1. CASE record'[n] = record[n] /\ record'[m] = record[m]
    BY <1>1, <1>3, <2>1 DEF OneName, Held
  <2>2. CASE record'[n] # record[n]
    <3>1. PICK r \in Resources :
            /\ job[r].name = n /\ job[r].id \in Owners /\ Holds(r, n, job[r].id)
            /\ record'[n].id = job[r].id
      BY <1>2, <1>3, <2>2 DEF Held
    <3>2. record'[m] = record[m]
      BY <1>2, <1>3, <2>2, OthersKept, <1>1, StepEffect
         DEF LifecycleInv, ActivationInv, EngineInv, Continues
    <3> QED
      BY <1>1, <1>3, <3>1, <3>2 DEF OneName
  <2>3. CASE record'[m] # record[m] /\ record'[n] = record[n]
    <3>1. PICK r \in Resources :
            /\ job[r].name = m /\ job[r].id \in Owners /\ Holds(r, m, job[r].id)
            /\ record'[m].id = job[r].id
      BY <1>2, <1>3, <2>3 DEF Held
    <3> QED
      BY <1>1, <1>3, <2>3, <3>1 DEF OneName
  <2> QED
    BY <2>1, <2>2, <2>3
<1>4. ASSUME NEW q \in Resources, NEW n \in Names, NEW m \in Names, NEW id \in Owners,
             Holds(q, n, id)', record'[m].id = id
      PROVE  m = n
  <2>1. CASE ~Holds(q, n, id)
    <3>1. PICK r \in Resources : Alone(r) /\ Effect(r)
      BY <1>4, <2>1, StepEffect, HoldsKept DEF Apart
    <3>2. q = r
      BY <1>4, <2>1, <3>1, HoldsKept DEF Alone
    <3>3. /\ UNCHANGED record
          /\ id \notin RecordIDs \/ (Held(n) /\ record[n].id = id)
      BY <1>4, <2>1, <3>1, <3>2, HoldsStep
    <3>4. record[m].id = id /\ id \in RecordIDs
      BY <1>4, <3>3, EngineAssumption DEF RecordIDs
    <3> QED
      BY <1>1, <3>3, <3>4 DEF OneName
  <2>2. CASE Holds(q, n, id) /\ record'[m] = record[m]
    BY <1>1, <1>4, <2>2 DEF OneName
  <2>3. CASE Holds(q, n, id) /\ record'[m] # record[m]
    <3>1. PICK r \in Resources :
            /\ ~Idle(r) /\ job[r].name = m /\ Holds(r, m, job[r].id)
            /\ record'[m].id \in {job[r].id, NoOwner}
      BY <1>2, <2>3
    <3>2. job[r].id = id
      BY <1>4, <3>1, EngineAssumption
    <3>3. q = r
      BY <1>1, <2>3, <3>1, <3>2 DEF IDsDistinct
    <3> QED
      BY <1>1, <2>3, <3>1, <3>3, HoldsOnce
  <2> QED
    BY <2>1, <2>2, <2>3
<1> QED
  BY <1>3, <1>4 DEF OneName

LEMMA DeletedFreeStep ==
  ASSUME LifecycleInv, LifecycleNext
  PROVE  DeletedFree'
<1>1. /\ TypeOK /\ TerraformTyped /\ IDsDistinct /\ DeletedFree /\ CallsRun
      /\ OwnershipInv
  BY EngineTyped DEF LifecycleInv, ActivationInv, EngineInv
<1>2. CASE Apart
  BY <1>1, <1>2 DEF Apart, DeletedFree, Idle
<1>3. ASSUME NEW a \in Resources, Alone(a), Effect(a),
             NEW q \in Resources, ~Idle(q)', job'[q].kind = "delete", job'[q].phase = "ok",
             NEW n \in Names, n = job'[q].name, NEW id \in Owners, id = job'[q].id
      PROVE  record'[n].id # id
  <2>1. CASE q # a
    <3>1. ~Idle(q) /\ job'[q] = job[q] /\ record[n].id # id /\ Holds(q, n, id)
      BY <1>1, <1>3, <2>1 DEF Alone, Idle, DeletedFree, Holds
    <3>2. CASE record'[n] = record[n]
      BY <3>1, <3>2
    <3>3. CASE record'[n] # record[n]
      <4>1. PICK r \in Resources :
              Alone(r) /\ Continues(r) /\ job[r].name = n /\ record'[n].id \in {job[r].id, NoOwner}
        BY <3>3, RecordEffect
      <4>2. Works(r) /\ ~Idle(r) /\ ~Works(q)
        BY <1>3, <3>1, <4>1 DEF Continues, Works
      <4>3. job[r].id # id
        BY <1>1, <3>1, <4>1, <4>2, OwnersOfCalls DEF IDsDistinct
      <4> QED
        BY <4>1, <4>3, EngineAssumption
    <3> QED
      BY <3>2, <3>3
  <2>2. CASE q = a /\ Calls(a)
    BY <1>3, <2>2, EngineAssumption DEF Calls, Held
  <2>3. CASE q = a /\ Continues(a)
    <3>1. op.name = n /\ op.kind = "delete" /\ pc \in {"commit", "sync"} /\ Next
      BY <1>1, <1>3, <2>3 DEF Continues, CallsRun
    <3>2. pc = "sync"
      BY <1>1, <3>1 DEF OwnershipInv, StepsConsistent, ApplyOnly
    <3>3. record[n] = NoRecord
      BY <1>1, <3>1, <3>2 DEF OwnershipInv, Reserving
    <3>4. record'[n] = record[n]
      BY <1>1, <3>1, <3>2, OthersKept
    <3> QED
      BY <3>3, <3>4, EngineAssumption DEF NoRecord
  <2>4. CASE q = a /\ (Doubts(a) \/ Saves(a) \/ Dies(a) \/ Refreshes(a) \/ Imports(a))
    BY <1>1, <1>3, <2>4 DEF Doubts, Saves, Dies, Refreshes, Imports, Idle, DeletedFree
  <2> QED
    BY <1>3, <2>1, <2>2, <2>3, <2>4 DEF Effect
<1>4. ASSUME NEW a \in Resources, Alone(a), Effect(a),
             NEW q \in Resources, ~Idle(q)', job'[q].kind = "delete", job'[q].phase = "ok"
      PROVE  record'[job'[q].name].id # job'[q].id
  <2>1. job'[q] \in ProviderCalls
    BY <1>4, StepEffect DEF TerraformTyped, Idle
  <2>2. job'[q].name \in Names /\ job'[q].id \in Owners
    BY <2>1, CallFacts
  <2> QED
    BY <1>3, <1>4, <2>2
<1> QED
  BY <1>2, <1>4, StepEffect DEF DeletedFree

LEMMA KnownHolds ==
  ASSUME NEW n
  PROVE  Known(n) <=> \E r \in Resources : Holds(r, n, record[n].id)
BY DEF Known, Holds

\* A resource that lets an owner go has died with it, or its record is gone.
LEMMA HoldsLost ==
  ASSUME LifecycleInv, NEW r \in Resources, Effect(r), NEW n \in Names, NEW id \in Owners,
         Holds(r, n, id), record[n].id = id
  PROVE  Holds(r, n, id)' \/ id \in lost'
<1>1. TypeOK /\ TerraformTyped /\ CallsMatch /\ DeletedFree
  BY EngineTyped DEF LifecycleInv
<1>2. CASE Calls(r)
  BY <1>2 DEF Calls, Holds, InState, Idle
<1>3. CASE Continues(r) \/ Doubts(r)
  BY <1>3 DEF Continues, Doubts, Holds, InState, Idle
<1>4. CASE Saves(r)
  <2>1. job[r].name = n /\ job[r].id = id /\ ~Idle(r) /\ ~Works(r) /\ state'[r] = Outcome(r)
    BY <1>1, <1>4, HoldsOnce DEF Saves
  <2>2. ~(job[r].kind = "delete" /\ job[r].phase = "ok")
    BY <1>1, <2>1 DEF DeletedFree
  <2>3. Outcome(r) # NoState /\ Outcome(r).name = n /\ Outcome(r).id = id
    BY <1>1, <2>1, <2>2, OutcomeType
  <2> QED
    BY <2>1, <2>3 DEF Holds, InState
<1>5. CASE Dies(r)
  <2>1. job[r].name = n /\ job[r].id = id /\ ~Idle(r)
    BY <1>1, <1>5, HoldsOnce DEF Dies
  <2>2. CASE job[r].kind = "create"
    BY <1>5, <2>1, <2>2 DEF Dies
  <2>3. CASE job[r].kind # "create"
    BY <1>1, <1>5, <2>1, <2>3 DEF Dies, CallsMatch, Holds, InState
  <2> QED
    BY <2>2, <2>3
<1>6. CASE Refreshes(r)
  <2>1. /\ InState(r) /\ state[r].name = n /\ state[r].id = id
        /\ state'[r] = Refreshed(state[r])
    BY <1>6 DEF Refreshes, Holds
  <2>2. state[r] \in Models /\ Held(n)
    BY <1>1, <2>1, Typed, EngineAssumption DEF Held
  <2>3. Refreshed(state[r]) # NoState /\ Refreshed(state[r]).name = n /\ Refreshed(state[r]).id = id
    BY <1>1, <2>1, <2>2, RefreshedType
  <2> QED
    BY <2>1, <2>3 DEF Holds, InState
<1>7. ~Imports(r)
  BY DEF Imports, Holds
<1> QED
  BY <1>2, <1>3, <1>4, <1>5, <1>6, <1>7 DEF Effect

LEMMA OwnersKnownStep ==
  ASSUME LifecycleInv, LifecycleNext
  PROVE  OwnersKnown'
<1>1. TypeOK /\ TerraformTyped /\ OneName /\ OwnersKnown
  BY EngineTyped DEF LifecycleInv
<1>2. ASSUME NEW n \in Names, Held(n)', NEW id \in Owners, id = record'[n].id
      PROVE  (\E r \in Resources : Holds(r, n, id)') \/ id \in lost'
  <2>1. CASE record'[n] # record[n]
    <3>1. PICK r \in Resources : Continues(r) /\ job[r].name = n /\ job[r].id = id
      BY <1>2, <2>1, RecordEffect DEF Held
    <3> QED
      BY <3>1 DEF Continues, Holds, Idle
  <2>2. ASSUME record'[n] = record[n], NEW q \in Resources, Holds(q, n, id)
        PROVE  Holds(q, n, id)' \/ id \in lost'
    <3>1. CASE Apart
      BY <2>2, <3>1, HoldsKept DEF Apart
    <3>2. ASSUME NEW a \in Resources, Alone(a), Effect(a)
          PROVE  Holds(q, n, id)' \/ id \in lost'
      BY <1>2, <2>2, <3>2, HoldsKept, HoldsLost DEF Alone
    <3> QED
      BY <3>1, <3>2, StepEffect
  <2>3. ASSUME record'[n] = record[n], id \in lost
        PROVE  (\E r \in Resources : Holds(r, n, id)') \/ id \in lost'
    <3>1. CASE id \in lost'
      BY <3>1
    <3>2. CASE id \notin lost'
      <4>1. PICK a \in Resources : Imports(a)
        BY <2>3, <3>2, StepEffect DEF Apart, Effect, Calls, Continues, Doubts, Saves, Dies, Refreshes
      <4>2. PICK k \in Names :
              Held(k) /\ state'[a] = Imported(k) /\ lost' = lost \ {record[k].id}
        BY <4>1 DEF Imports
      <4>3. record[k].id = id /\ k = n
        BY <1>1, <1>2, <2>3, <3>2, <4>2 DEF OneName, Held
      <4>4. Imported(k) \in Models /\ Imported(k).name = n /\ Imported(k).id = id
        BY <1>1, <4>2, <4>3, ImportedType
      <4> QED
        BY <4>2, <4>4, ModelFacts DEF Holds, InState
    <3> QED
      BY <3>1, <3>2
  <2>4. record'[n] = record[n] => (\E r \in Resources : Holds(r, n, id)) \/ id \in lost
    BY <1>1, <1>2, KnownHolds DEF OwnersKnown, Held
  <2> QED
    BY <2>1, <2>2, <2>3, <2>4
<1>3. ASSUME NEW n \in Names, Held(n)'
      PROVE  Known(n)' \/ record'[n].id \in lost'
  <2>1. TypeOK'
    BY StepEffect, ActivationStep, ActivationStutter
       DEF LifecycleInv, ActivationInv, EngineInv, OwnershipInv
  <2>2. PICK id \in Owners : id = record'[n].id
    BY <1>3, <2>1 DEF TypeOK, RecordType, Held
  <2>3. (\E r \in Resources : Holds(r, n, id)') \/ id \in lost'
    BY <1>2, <1>3, <2>2
  <2> QED
    BY <2>2, <2>3 DEF Known, Holds
<1> QED
  BY <1>3 DEF OwnersKnown

-----------------------------------------------------------------------------
(* The invariant *)

LEMMA LifecycleBegins ==
  ASSUME LifecycleInit
  PROVE  LifecycleInv
<1>1. ActivationInv
  BY ActivationInit DEF LifecycleInit
<1>2. TerraformTyped
  BY DEF LifecycleInit, TerraformTyped
<1>3. \A r \in Resources : Idle(r) /\ ~InState(r)
  BY DEF LifecycleInit, Idle, InState
<1>4. CallsRun
  BY <1>3 DEF LifecycleInit, Init, CallsRun, Works
<1>5. \A n \in Names : ~Held(n)
  BY DEF LifecycleInit, Init, Held, NoRecord
<1>6. OneName
  BY <1>3, <1>5 DEF OneName, Holds
<1> QED
  BY <1>1, <1>2, <1>3, <1>4, <1>5, <1>6
     DEF LifecycleInv, CallsMatch, IDsDistinct, Holds, DeletedFree, OwnersKnown

LEMMA LifecycleStutter ==
  ASSUME LifecycleInv, UNCHANGED lifecycleVars
  PROVE  LifecycleInv'
<1>1. ActivationInv'
  BY EngineTyped, StutterIsStill, ActivationStutter DEF LifecycleInv, lifecycleVars
<1>2. UNCHANGED <<record, pc, op, config, state, job, lost>>
  BY DEF lifecycleVars, vars, terraformVars
<1> QED
  BY <1>1, <1>2 DEF LifecycleInv, TerraformTyped, CallsMatch, CallsRun, Works, IDsDistinct,
     OneName, DeletedFree, OwnersKnown, Known, Holds, Held, InState, Idle

LEMMA LifecycleStep ==
  ASSUME LifecycleInv, LifecycleNext
  PROVE  LifecycleInv'
<1>1. ActivationInv'
  BY StepEffect, ActivationStep, ActivationStutter DEF LifecycleInv
<1> QED
  BY <1>1, StepEffect, CallsMatchStep, CallsRunStep, IDsDistinctStep, OneNameStep,
     DeletedFreeStep, OwnersKnownStep DEF LifecycleInv

\* The calls of the provider and the operations of the engine fit together at all
\* times: one call runs at most, for the name and the owner that its resource holds,
\* and every owner is one resource's and owns one name (Create,
\* deployment_resource.go:243).
THEOREM LifecycleInvariant == LifecycleSpec => []LifecycleInv
<1>1. LifecycleInit => LifecycleInv
  BY LifecycleBegins
<1>2. LifecycleInv /\ [LifecycleNext]_lifecycleVars => LifecycleInv'
  BY LifecycleStep, LifecycleStutter
<1> QED
  BY <1>1, <1>2, PTL DEF LifecycleSpec

\* What Terraform saves is of its type, no two resources of the state have one ID, and
\* the engine works exactly when a call runs, for that call.
THEOREM LifecycleTypeCorrect == LifecycleSpec => []LifecycleTypeOK
<1>1. LifecycleInv => LifecycleTypeOK
  <2>1. SUFFICES ASSUME LifecycleInv PROVE LifecycleTypeOK
    OBVIOUS
  <2>2. TerraformTyped /\ CallsRun /\ IDsDistinct
    BY <2>1 DEF LifecycleInv
  <2>3. ASSUME NEW r \in Resources, InState(r)
        PROVE  /\ state[r].name \in Names /\ state[r].id \in Owners
               /\ state[r].revision \in Revisions
    BY <2>2, <2>3, Typed, ModelFacts
  <2>4. ASSUME NEW r \in Resources, NEW s \in Resources, r # s, InState(r), InState(s)
        PROVE  state[s].id # state[r].id
    BY <2>2, <2>3, <2>4 DEF IDsDistinct, Holds
  <2> QED
    BY <2>2, <2>3, <2>4 DEF LifecycleTypeOK, TerraformTyped, CallsRun, Works
<1> QED
  BY <1>1, LifecycleInvariant, PTL

\* Terraform can always find its way back to a record: the resource that claimed it
\* still knows it, in the state or in a call, or a process died with the claim and the
\* record has to be imported (Create, deployment_resource.go:248; Delete, :360; Read,
\* :327).
THEOREM OwnersStayKnown == LifecycleSpec => []OwnersKnown
<1>1. LifecycleInv => OwnersKnown
  BY DEF LifecycleInv
<1> QED
  BY <1>1, LifecycleInvariant, PTL

\* The record behind a state that a refresh keeps.
LEMMA RefreshedRecord ==
  ASSUME LifecycleInv, NEW r \in Resources, InState(r), NEW n \in Names, n = state[r].name,
         CanRead(n, state[r].id), Refreshed(state[r]) # NoState
  PROVE  /\ Held(n) /\ record[n].id = state[r].id
         /\ Refreshed(state[r]).name = n
         /\ Refreshed(state[r]).revision = record[n].revision
         /\ Refreshed(state[r]).payload.files = Contained(n)
<1>1. TypeOK /\ state[r] \in Models
  BY EngineTyped, Typed DEF LifecycleInv
<1>2. Held(n)
  BY <1>1, RefreshedType
<1>3. record[n].id = state[r].id
  BY <1>2 DEF CanRead, MayUse, Held
<1>4. /\ Refreshed(state[r]).name = n /\ Refreshed(state[r]).revision = record[n].revision
      /\ Refreshed(state[r]).payload = [state[r].payload EXCEPT !.files = Contained(n)]
  BY <1>1, <1>2, RefreshedType
<1>5. state[r].payload \in Attributes
  BY <1>1, ModelFacts
<1>6. Refreshed(state[r]).payload.files = Contained(n)
  BY <1>4, <1>5 DEF Attributes
<1> QED
  BY <1>2, <1>3, <1>4, <1>6

\* A plan that shows no change after a refresh means that the record holds the configured
\* payload, that its files are in place, that no link is other than the engine left it and
\* that nothing older runs (ModifyPlan, deployment_resource.go:226; the emptied revision,
\* :70). It says nothing of what others started, stopped, enabled or disabled.
THEOREM EmptyPlansApplied == LifecycleSpec => []EmptyPlanApplied
<1>1. LifecycleInv => EmptyPlanApplied
  <2>1. SUFFICES ASSUME LifecycleInv, NEW r \in Resources, InState(r),
                        CanRead(state[r].name, state[r].id),
                        PlanEmpty(Refreshed(state[r]), config[r])
                 PROVE  Applied(r)
    BY DEF EmptyPlanApplied
  <2>2. TypeOK /\ TerraformTyped /\ CommittedExact /\ NothingOlderRuns
    BY <2>1, EngineTyped DEF LifecycleInv, ActivationInv, EngineInv
  <2>3. PICK n \in Names : n = state[r].name
    BY <2>1, <2>2, Typed, ModelFacts
  <2>4. PICK p \in Payloads : p = config[r].payload
    BY <2>1, <2>2 DEF PlanEmpty, TerraformTyped, Configs
  <2>5. /\ Held(n) /\ record[n].id = state[r].id /\ config[r].name = n
        /\ record[n].revision = p /\ Contained(n) = p.files
    BY <2>1, <2>3, <2>4, RefreshedRecord DEF PlanEmpty
  <2>6. Committed(n)
    BY <2>5, PayloadFacts DEF Committed
  <2>7. \A f \in DOMAIN p.files : disk[f] = p.files[f]
    <3>1. \A f \in DOMAIN Contained(n) : Contained(n)[f] = disk[f]
      BY <2>2, ContainedType
    <3> HIDE DEF Contained
    <3> QED
      BY <2>5, <3>1
  <2>8. (links \cap record[n].units) \ relinked = p.enable \ relinked
    BY <2>2, <2>5, <2>6 DEF CommittedExact
  <2>9. \A u \in p.restart \cup p.tryRestart : UpToDate(u, p)
    BY <2>2, <2>5, <2>6 DEF NothingOlderRuns
  <2> QED
    BY <2>4, <2>5, <2>7, <2>8, <2>9 DEF Applied
<1> QED
  BY <1>1, LifecycleInvariant, PTL
=============================================================================
