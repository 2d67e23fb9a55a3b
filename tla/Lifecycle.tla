------------------------------ MODULE Lifecycle -----------------------------
(***************************************************************************)
(* Deployment resources in Terraform: their configuration, their state and *)
(* the provider calls Create, Read, Update, Delete and ImportState, each   *)
(* of which runs one operation of the engine on the host.  The steps on    *)
(* the host are those of module Engine; what Terraform knows of the host   *)
(* is the state it saved when the last call returned.                      *)
(***************************************************************************)
EXTENDS Engine

\* KeepRevision, EagerReturn and ClaimedOnSuccess are slips of the code (README,
\* Mutants).

CONSTANTS
  Resources,    \* resource addresses
  NoConfig,     \* the address is not in the configuration
  NoState,      \* the address is not in the state
  NoJob,        \* no provider call is under way for the address
  MaxEdits      \* bound on changes to the configuration

VARIABLES
  config,       \* config[r]: the name and payload written in the configuration
  state,        \* state[r]: deploymentModel as Terraform saved it
  job,          \* job[r]: the provider call under way and how it returned
  lost,         \* history: IDs whose create died before Terraform saved them
  edits         \* changes to the configuration so far

terraformVars == <<config, state, job, lost, edits>>
lifecycleVars == <<vars, terraformVars>>

ASSUME EditAssumption == MaxEdits \in Nat

Configs == [name : Names, payload : Payloads]

LifecycleInit ==
  /\ Init
  /\ config \in [Resources -> Configs]
  /\ state = [r \in Resources |-> NoState]
  /\ job = [r \in Resources |-> NoJob]
  /\ lost = {}
  /\ edits = 0

-----------------------------------------------------------------------------
(* What Terraform holds *)

Idle(r) == job[r] = NoJob

InState(r) == state[r] # NoState

StateIDs == {state[r].id : r \in {s \in Resources : InState(s)}}

JobIDs == {job[r].id : r \in {s \in Resources : ~Idle(s)}}

RecordIDs == {record[n].id : n \in Names} \ {NoOwner}

\* rand.Text: an ID that nothing carries.
FreshIDs == Owners \ (StateIDs \cup JobIDs \cup RecordIDs)

\* ModifyPlan: nothing to do when every attribute of the configuration is the
\* state's and the revision of the configuration is the applied one.
PlanEmpty(m, c) ==
  /\ m # NoState
  /\ c # NoConfig
  /\ ~m.tainted
  /\ m.name = c.name
  /\ m.payload = c.payload
  /\ m.revision = c.payload

\* The resource stays: name requires replacement, and so does a tainted resource.
Stays(r) == config[r] # NoConfig /\ state[r].name = config[r].name /\ ~state[r].tainted

\* The contents of a record's files that exist on the host.
Contained(n) == [f \in {g \in record[n].files : disk[g] # Absent} |-> disk[f]]

\* Engine.readOwnership and Engine.Read return a snapshot.
CanRead(n, id) ==
  /\ MayUse(n, id)
  /\ \A f \in record[n].files : Readable(disk, f)

KeepRevision(m) ==
  IF Held(m.name) THEN [m EXCEPT !.payload.files = Contained(m.name)] ELSE NoState

\* deploymentResource.Read of a saved model, when the engine can read.
Refreshed(m) ==
  IF Held(m.name)
  THEN [m EXCEPT !.payload.files = Contained(m.name), !.revision = record[m.name].revision]
  ELSE NoState

\* ImportState: the record's owner, files and revision; the policy is null.
Imported(n) ==
  [name |-> n, id |-> record[n].id, revision |-> record[n].revision, tainted |-> FALSE,
   payload |-> [files |-> Contained(n), restart |-> {}, tryRestart |-> {}, enable |-> {},
                trigger |-> NoRevision]]

-----------------------------------------------------------------------------
(* Provider calls.  A call that the engine refuses before its first change     *)
(* reports an error, leaves the state alone and is no step.                    *)

Job(kind, name, id, payload) ==
  [kind |-> kind, name |-> name, id |-> id, payload |-> payload, phase |-> "running"]

Begins(r, call) == job' = [job EXCEPT ![r] = call] /\ UNCHANGED <<config, state, lost, edits>>

Create(r) ==
  /\ Idle(r)
  /\ ~InState(r)
  /\ config[r] # NoConfig
  /\ \E id \in FreshIDs :
       /\ AdmitApply(config[r].name, id, config[r].payload)
       /\ Begins(r, Job("create", config[r].name, id, config[r].payload))

Update(r) ==
  /\ Idle(r)
  /\ InState(r)
  /\ Stays(r)
  /\ ~PlanEmpty(state[r], config[r])
  /\ AdmitApply(config[r].name, state[r].id, config[r].payload)
  /\ Begins(r, Job("update", config[r].name, state[r].id, config[r].payload))

\* Delete, also as the first half of a replacement. Without a record there is
\* nothing to do.
Delete(r) ==
  /\ Idle(r)
  /\ InState(r)
  /\ ~Stays(r)
  /\ LET call == Job("delete", state[r].name, state[r].id, state[r].payload) IN
     \/ AdmitDelete(state[r].name, state[r].id) /\ Begins(r, call)
     \/ /\ pc = "idle"
        /\ ~Held(state[r].name)
        /\ Begins(r, [call EXCEPT !.phase = "ok"])
        /\ UNCHANGED vars

Ends(r, phase) ==
  job' = [job EXCEPT ![r].phase = phase] /\ UNCHANGED <<config, state, lost, edits>>

EagerReturn == IF pc = "reload" THEN "ok" ELSE "running"

\* The call returns when the engine does, which succeeds with its last write.
Return ==
  CASE pc' # "idle" -> "running"
    [] pc' = "idle" /\ pc \in {"commit", "sync"} -> "ok"
    [] OTHER -> "error"

Proceed(r) ==
  /\ ~Idle(r)
  /\ job[r].phase = "running"
  /\ \/ Call /\ Ends(r, Return)
     \/ Fail /\ Ends(r, "error")

\* The last write took effect and yet reported an error.
Doubt(r) ==
  /\ ~Idle(r)
  /\ job[r].phase = "ok"
  /\ faults < MaxFaults
  /\ faults' = faults + 1
  /\ Ends(r, "error")
  /\ UNCHANGED <<record, hostVars, pc, op, todo>>

ClaimedOnSuccess(r) ==
  CASE job[r].phase = "ok" /\ job[r].kind = "delete" -> NoState
    [] job[r].phase = "ok" /\ job[r].kind # "delete" ->
         [name |-> job[r].name, id |-> job[r].id, payload |-> job[r].payload,
          revision |-> job[r].payload, tainted |-> FALSE]
    [] OTHER -> state[r]

\* What the call returns as the new state. A create that failed after it claimed
\* the name returns its owner with an empty revision, and Terraform taints it.
Outcome(r) ==
  CASE job[r].phase = "ok" /\ job[r].kind = "delete" -> NoState
    [] job[r].phase = "ok" /\ job[r].kind # "delete" ->
         [name |-> job[r].name, id |-> job[r].id, payload |-> job[r].payload,
          revision |-> job[r].payload, tainted |-> FALSE]
    [] job[r].phase = "error" /\ job[r].kind = "create" ->
         [name |-> job[r].name, id |-> job[r].id, payload |-> job[r].payload,
          revision |-> NoRevision, tainted |-> TRUE]
    [] OTHER -> state[r]

\* Terraform saves the state that the call returned.
Save(r) ==
  /\ ~Idle(r)
  /\ job[r].phase # "running"
  /\ state' = [state EXCEPT ![r] = Outcome(r)]
  /\ job' = [job EXCEPT ![r] = NoJob]
  /\ UNCHANGED <<vars, config, lost, edits>>

\* The provider or Terraform dies before the state is saved.
Die(r) ==
  /\ ~Idle(r)
  /\ IF job[r].phase = "running"
     THEN Fail
     ELSE /\ faults < MaxFaults
          /\ faults' = faults + 1
          /\ UNCHANGED <<record, hostVars, pc, op, todo>>
  /\ job' = [job EXCEPT ![r] = NoJob]
  /\ lost' = IF job[r].kind = "create" THEN lost \cup {job[r].id} ELSE lost
  /\ UNCHANGED <<config, state, edits>>

\* A refresh, under the lock like every other operation.
Read(r) ==
  /\ Idle(r)
  /\ InState(r)
  /\ pc = "idle"
  /\ CanRead(state[r].name, state[r].id)
  /\ state' = [state EXCEPT ![r] = Refreshed(state[r])]
  /\ UNCHANGED <<vars, config, job, lost, edits>>

\* terraform import of a name into an address of the configuration. Terraform asks
\* its users to import nothing that another address has.
ImportState(r, n) ==
  /\ Idle(r)
  /\ ~InState(r)
  /\ config[r] # NoConfig
  /\ pc = "idle"
  /\ Held(n)
  /\ record[n].id \notin StateIDs \cup JobIDs
  /\ CanRead(n, record[n].id)
  /\ state' = [state EXCEPT ![r] = Imported(n)]
  /\ lost' = lost \ {record[n].id}
  /\ UNCHANGED <<vars, config, job, edits>>

\* Somebody edits the configuration between two runs of Terraform.
Edit(r) ==
  /\ Idle(r)
  /\ edits < MaxEdits
  /\ config' \in {[config EXCEPT ![r] = c] : c \in Configs \cup {NoConfig}}
  /\ config' # config
  /\ edits' = edits + 1
  /\ UNCHANGED <<vars, state, job, lost>>

Provider(r) == Create(r) \/ Update(r) \/ Delete(r) \/ Proceed(r) \/ Save(r)

LifecycleNext ==
  \/ \E r \in Resources :
       Provider(r) \/ Doubt(r) \/ Die(r) \/ Read(r) \/ Edit(r) \/ \E n \in Names : ImportState(r, n)
  \/ Environment /\ UNCHANGED terraformVars

LifecycleSpec == LifecycleInit /\ [][LifecycleNext]_lifecycleVars

-----------------------------------------------------------------------------
(* Properties *)

\* The attributes that a configuration or a state holds for a payload.
Attributes ==
  [files : UNION {[S -> Nodes] : S \in SUBSET Files}, restart : SUBSET Units,
   tryRestart : SUBSET Units, enable : SUBSET Units, trigger : Triggers \cup {NoRevision}]

Models ==
  [name : Names, id : Owners, revision : Revisions, tainted : BOOLEAN, payload : Attributes]

ProviderCalls ==
  [kind : {"create", "update", "delete"}, name : Names, id : Owners, payload : Attributes,
   phase : {"running", "ok", "error"}]

ASSUME TerraformAssumption ==
  NoConfig \notin Configs /\ NoState \notin Models /\ NoJob \notin ProviderCalls

\* A call is running exactly when the engine is, and the operation is its own; no
\* two resources have one ID.
LifecycleTypeOK ==
  /\ config \in [Resources -> Configs \cup {NoConfig}]
  /\ \A r \in Resources : InState(r) =>
       /\ state[r].name \in Names
       /\ state[r].id \in Owners
       /\ state[r].revision \in Revisions
       /\ \A s \in Resources \ {r} : InState(s) => state[s].id # state[r].id
  /\ lost \subseteq Owners
  /\ pc # "idle" <=> \E r \in Resources : ~Idle(r) /\ job[r].phase = "running"
  /\ \A r \in Resources : ~Idle(r) /\ job[r].phase = "running" =>
       op.name = job[r].name /\ op.id = job[r].id

\* Who can clean up a record: a resource that has its name and its ID, in the state or
\* in a call that has not returned.
Known(n) ==
  \E r \in Resources :
    \/ InState(r) /\ state[r].name = n /\ state[r].id = record[n].id
    \/ ~Idle(r) /\ job[r].name = n /\ job[r].id = record[n].id

\* Terraform can always find its way back to a record: unless a process died, whose
\* record has to be imported, a failed create keeps its owner, a failed or doubtful
\* destroy keeps its resource, a change of name leaves nothing behind and a refresh
\* drops a resource only when its record is gone (Create,
\* deployment_resource.go:248; ModifyPlan, :196; Delete, :360; Read, :327).
OwnersKnown == \A n \in Names : Held(n) => Known(n) \/ record[n].id \in lost

\* The payload in the configuration of r is what r last applied: the record is r's and
\* says so, its files are in place, its links are as the engine left them and nothing
\* older runs in its name.
Applied(r) ==
  LET n == config[r].name
      p == config[r].payload
  IN /\ record[n].id = state[r].id
     /\ record[n].revision = p
     /\ \A f \in DOMAIN p.files : disk[f] = p.files[f]
     /\ (links \cap record[n].units) \ relinked = p.enable \ relinked
     /\ \A u \in p.restart \cup p.tryRestart : UpToDate(u, p)

\* A plan that shows no change after a refresh means that the configured payload is
\* applied and its files are untouched, after any sequence of failed, interrupted and
\* foreign changes ("Empty while recovery is pending; the next plan schedules an update
\* even if the files already match", deployment_resource.go:70; ModifyPlan, :226). Read
\* never asks the manager (read.go:47): a unit that stopped and a link that somebody
\* else set or removed do not show in a plan, and the property does not say they would.
EmptyPlanApplied ==
  \A r \in Resources :
    /\ Idle(r)
    /\ InState(r)
    /\ pc = "idle"
    /\ CanRead(state[r].name, state[r].id)
    /\ PlanEmpty(Refreshed(state[r]), config[r])
    => Applied(r)
=============================================================================
