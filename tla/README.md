# Verification of terraform-provider-quadlet

The provider deploys Quadlets, native systemd user units and configuration files
to a rootless Podman host, and installs Podman secrets. Everything it does is a
sequence of small remote or local calls that can stop anywhere, on a host that
other people and programs use as well. These TLA+ modules model what those
sequences do to the host and to what the provider knows of it. TLC checks them on
small hosts, and TLAPS proves the safety properties for hosts of every size.

Source paths below are relative to `src/internal/`.

## The system

| Part | State it keeps | Operations | Hard about it |
|---|---|---|---|
| Deployment engine (`deployment/apply.go`, `units.go`, `read.go`) | none of its own; one record per deployment on the host | `Apply`, `Delete`, `Read`, `Lookup` | stops between any two calls; the next apply may carry another payload |
| Ownership records (`deployment/ownership.go`) | `deployments/<name>/deployment.json`: owner, files, units, enabled units, applied revision | `readRecord`, `writeRecord`, `checkConflicts` | an empty revision reserves what an unfinished operation may have touched |
| Payload (`deployment/plan.go`) | | `Validate`, `ValidateOwnership`, `Digest` | |
| Quadlet discovery (`quadlet/validator.go`) | | `Discover` in a staging tree with the host's generator | the generator changes with Podman |
| systemd client (`systemd/manager.go`) | D-Bus connection | `Reload`, `Enable`, `Disable`, `Loaded`, `Stop`, `Restart`, `TryRestart` | several jobs per call; a job may outlive the call |
| Hosts (`local/`, `remote/`) | open calls, SSH and SFTP sessions, the lease on `config.lock` | file operations, `Run`, `Lock`, `Close` | cancellation while calls are under way; a lost connection loses the lock |
| Access (`provider/access.go`) | | opens a session, takes the lock, bounds the operation by a timeout | a refresh without a state directory takes no lock |
| Deployment resource (`provider/deployment_resource.go`) | Terraform state | Create, Read, Update, Delete, Import | partial creates must keep their owner |
| Secret resource (`provider/secret_resource.go`, `podman/client.go`) | Terraform state; the secret in Podman | Create, Read, Update, Delete, Import | no lock; Podman's answers get lost |

The provider's resources call the engine through `access.engine`, which opens a
host session, takes `config.lock` and hands the engine the host's files, the
Quadlet validator and the systemd client. Deployments of one host user share the
configuration directory, the user manager and the directory of records, and
nothing else. Secret resources go straight to the Podman API.

What must be right, part by part:

* engine and records: no two deployments share a unit or a path; everything an
  operation wrote is recorded until it is gone; a committed record tells the
  truth about files and enablement links, and nothing older than it goes on running;
  only the owner of a name changes or frees it; an interrupted deployment can be
  finished;
* local host: an operation ends before the next holder of the lock begins, and the
  lock always comes back;
* SSH host: what a successful operation did, it did under the lock, and a power
  failure neither tears nor undoes it; the lock always comes back, at the latest by the
  operation's timeout;
* systemd client: a call reports the truth about its own jobs and leaves none behind
  unless it was refused or cancelled;
* deployment resource: the Terraform state knows the owner of every record, and a
  plan that shows no change means that the configured payload is applied and its files
  are untouched;
* secrets: nobody else's secret is removed, a revision identifies one value, no
  secret is lost from sight, a rotation can be finished.

## Modules

| Module | Models | Checked by | Proved in |
|---|---|---|---|
| `Layout` | paths, units, payloads, validation, discovery, file-operation rules (constants only) | the engine runs | |
| `Engine` | `Apply` and `Delete` call by call, the user manager, units that come and go, drift, foreign reloads, upgrades | `engine_*` | `EngineProofs`, `EngineHostProofs`, `EngineRunProofs` |
| `EngineInvariant` | the inductive invariants of `Engine` | | the three modules above |
| `Claims` | what the ownership records promise, abstractly | `engine_shared` | `EngineHostProofs` |
| `EngineClaims` | the refinement mapping from `Engine` to `Claims` | `engine_shared` | `EngineHostProofs` |
| `Lifecycle` | the deployment resource and the Terraform state, over `Engine` | `lifecycle` | `LifecycleProofs` |
| `Lease` | what the lock of a host session promises, abstractly | `local_session` | `LocalSessionProofs` |
| `LocalSession` | calls, commands, cancellation and lock of the local transport | `local_session` | `LocalSessionProofs` |
| `RemoteSession` | connection, lock, requests and file replacement over SSH | `remote_session` | `RemoteSessionProofs` |
| `Jobs` | `Manager.jobs` and the job queue of the user manager | `jobs`, `jobs_awaited` | `JobsProofs` |
| `Secret` | secret resources and the Podman API | `secret_*` | `SecretProofs` |
| `MCEngine`, `MCEngineClaims`, `MCLifecycle`, `MCSecret` | small instances for TLC | | |

### Layout and Engine

`disk` is the configuration directory: for each managed path a content, a
directory, or nothing. `Parents` orders the paths. `links` are the units with
enablement links, `loaded` is what the manager read at its last reload (tree,
units, links), and `run[u]` is what the running instance of a unit was started
from: the payload whose apply started it and the files it read. `record[n]` is the
JSON record of deployment `n`. `pc` names the next call the engine will make.
`drifted` are the paths that others have changed since the engine wrote them (the
file that they edit, create or delete and the directories they make above it),
`relinked` the units that others have enabled or disabled since the engine did.
`op` holds the locals of `Apply` or `Delete`, with the names the code uses them
for: `prior` is `state`, `want` is `payload`, `changed` is `changed`, `present` is
what `Loaded` returned.

| Code | Action |
|---|---|
| `Apply` to the last check, `apply.go:26-80` | `AdmitApply` |
| `Delete` to the last check, `read.go:75-87` | `AdmitDelete` |
| `writeRecord` with an empty revision | `Reserve` |
| `removeUnits`: `Loaded`, `Disable`, `Stop` | `QueryRetired`, `DisableRetired`, `StopRetired` |
| the loops over files | `RemoveFile`, `RemovalDone`, `InstallFile`, `InstallDone` |
| `if interrupted { disableNative }` | `RecoverEnablement` |
| `applyUnits` | `DisablePrevious`, `Enable`, `Reload`, `Restart`, `TryRestart` |
| the closing `writeRecord` | `Commit` |
| `Remove` of the record, `Sync` | `Forget`, `SyncRecord` |
| an error, a timeout, a dropped connection, a killed provider | `Fail` |

Checks before the first change are one action because they only read what the
lock protects or what drift may change between any two actions anyway; a payload
they refuse changes nothing and is no step. After `Fail` the operation is over:
there is no clean-up in the code beyond the staging directory. A call on several
units may have reached some of them when it fails, an installation may have made
the directories above its file. A call that took effect although the caller saw
an error is that call followed by `Fail`.

That one operation at a time holds the lock is an assumption of this module:
`Admit` requires that the engine is idle. For the local transport it is proved
(`ExclusiveUse`); over SSH it holds for what successful operations did
(`SuccessUnderLock`), and a rename of an operation that was cut off may come late.
The environment is not under the lock: files drift (`Drift`), somebody enables or
disables a unit (`Relink`), reloads the manager or upgrades Podman, and at any time
units are started by sockets, timers or people, end, crash or are stopped (`StartUnit`,
`StopUnit`).

Jobs promise little. `Manager.jobs` takes `done` and `skipped` for success
(`systemd/manager.go:161`) and looks at no `ActiveState`, so after a `Restart` that
succeeded (`Restarted`) each unit of the list runs what it reads now or does not run at
all: a oneshot unit, a failed condition, a crash. The same jobs may stop, start or
restart other units, also those of other deployments, because systemd propagates them
along dependencies and because units run commands ("Systemd dependencies and unit
commands may affect other workloads", docs/resources/deployment.md). `Dependents[u]` are
the units a job for `u` reaches. A failed `Restart` or `TryRestart` (`Disrupted`)
reaches some of the units that are loaded; jobs that go on after the failure are in
`Jobs`, and what they do to a unit is a stop and a start by somebody else.

So the properties of running units say what may not run, and never that a unit runs:
the engine does not ask the manager, neither in `Read` nor in an apply that finds
nothing changed (`apply.go:119`). `NothingOlderRuns` is what the condition
of `apply.go:119` is there for: under a committed record no unit of the two lists goes
on with the payload, the definition or the files of before.

Abstractions: a payload is a member of a small set and its digest is the payload
itself (no collisions); contents are values; a quadlet defines the units that
`Generators` assigns to its content; loops over sorted names visit files in any
order that removes a directory before what is in it, as sorted names do. Disabling a
unit whose file is gone removes its links, which `apply.go:110-116` relies on.

### Claims and EngineClaims

`Claims` keeps for each name who holds it, for which files and units, and whether
an operation on it is unfinished (`open`); beside it the files and links that
deployments wrote. It allows to open a claim that meets no other one, to write
inside an open claim, and to close or drop a claim only when what it gives up is
gone. A step may only move the claim to one that the rules allow; the ledger does not
say which. `EngineClaims` maps the record to the claim, and contents other than
`Foreign` to written files.

### Lifecycle

`Lifecycle` extends `Engine` with Terraform: `config[r]` is what the configuration
says of an address, `state[r]` the saved `deploymentModel` (with `id`, `revision`
for `applied_revision` and whether Terraform tainted it), `job[r]` the provider
call under way. Every host step is a step of `Engine`, taken by the resource whose
call runs.

| Code (`provider/deployment_resource.go`) | Definition |
|---|---|
| `ModifyPlan`: name changed, revision compared | `Stays`, `PlanEmpty` |
| `Create`, `Update`, `Delete` up to the engine's last check | `Create`, `Update`, `Delete` |
| the engine's calls, and what `apply` returns | `Proceed`, `Return` |
| the state in the response | `Outcome`, saved by `Save` |
| `Read` | `Read`, `Refreshed` |
| `ImportState` | `ImportState`, `Imported` |

`Doubt` is a last write that took effect and yet reported an error. `Die` is a
killed provider: the call's result is not saved, and a create's ID enters the history
variable `lost`, from which an import takes it. A replacement is a `Delete` followed
by a `Create` of the same address, as Terraform does it; a `Read` may come between
any two calls, so plans with and without a refresh both occur. `Read` compares files and
the revision and never asks the manager (`deployment/read.go:47`): an empty plan says
nothing about units that stopped or links that others changed, and `EmptyPlanApplied`
does not claim it. `FreshIDs` stands for `rand.Text`, whose IDs do not collide.
Terraform's rule that an object is imported into one address only is part of
`ImportState`.

### Lease and LocalSession

`main[s]` is the goroutine of an operation: inside `fn` between two calls, at the
mutex (`begin`), in a file system call or a command, polling for the lock, in the
deferred `release` or `Close`. `open[s]` is `Client.ctx`, `lease[s]` the context
that `Lock` derives from the operation's, `release[s]` the `sync.OnceFunc`, and
`procs[s]` the processes of a command. An operation of the provider makes one call
at a time, so the wait group is empty exactly when `main[s]` is in no call.

| Code | Action |
|---|---|
| `Connect`, `client.go:31-43` | `Connect` |
| `begin`: the check, then `Add`, under `mu` | `Begin`, `FileCall` or `Run` |
| `done` | `Done` |
| `Lock`: up to the first try, a try, an error | `Lock`, `TryLock`, `GiveUp` |
| `AfterFunc(c.ctx, cancel)`, `AfterFunc(lease, release)` | `StopClient`, `BeginRelease` |
| `release`: `c.Close` to the wait, `file.Close` | `CloseForRelease`, `Unlock` |
| `cmd.Cancel` | `Kill` |
| the deferred calls of `access.engine` and `withHost` | `Return`, `Released`, `Close` |

A timeout cancels the contexts without `mu`, so it may come between the two steps
of `begin`. File calls of `local/files.go` all have the shape `begin`, work,
`done`; what they do is in `Layout` and `Engine`. `AfterFunc(ctx, client.Close)` in
`withHost` runs after a timeout only and finds the context cancelled already. A
kill reaches the process group at once; a command that is not cancelled waits for
its children, as those that the provider runs do. Each session may be killed by
itself, which covers a provider process with several of them. Processes of a
command survive a killed provider and are not counted then.

`Lease` is the contract: calls start under the lock and the lock is given back when
none is left. The mapping counts a session as busy while a call it made under the
lock, or a process of it, is under way.

### RemoteSession

`at[o]` is the goroutine of an operation, `done[o]` its context, `up[o]` and
`peer[o]` are the two ends of its connection, which fail independently, `wire[o]`
the requests that the host has received, and `flock[o]` the process on the host that
holds the lock. A request is executed (`Execute`), fails (`Fail`) or is lost (`Lose`), also
when the client has given up and the connection is gone; its answer arrives only
over a connection that stands.

| Code | Action |
|---|---|
| `Connect`: the dial loop, the handshake, `client.go:86-115` | `Start`, `Connect`, `Refused`, `DialGivesUp` |
| `Lock`: `Start` of the command, `ReadString`, the errors | `Lock`, `Locked`, `LockFails` |
| `flock ... sh -c "printf; cat"` on the host | `Acquire`, `FlockEnds` |
| `AfterFunc(ctx, closeConnection)`, `AfterFunc(ctx, client.Close)` | `CloseConnection` |
| sshd ends the connection of a client that is gone; a connection breaks | `HangUp`, `Break` |
| `session.Wait` and `release` in the goroutine | `Notice` |
| `release`, `Close` | part of `Leave` |
| `WriteFile` with `Upload`, `InstallFile` with `install` | `Copy`, `CreateFile`, `DoCopy` |
| `commitFile`: `sync -f tmp` | `Sync`, `DoSync`, `FileSynced` |
| `PosixRename` | `Rename`, `DoRename` |
| `sync -f` of the directory, the return | `SyncDir`, `DoSync`, `Written` |
| the check of the context in `Run`, which SFTP calls lack | `Ask`, `Interrupted` |

Each of the four steps is a request that can fail, hang, be lost or be executed late,
and `tmp[o]` says what the host has of the temporary file: nothing, a part, all of it,
or all of it written back. `CreateFile` is an upload or a copy that has begun; a part of the file stays when its
connection breaks there. Only the order of `commitFile` keeps it from the destination:
the sync is asked for when the upload was answered, the rename when the sync was. If an
error of `sync` were ignored (`SyncTried`), `DestinationWhole` would fail. `sync -f` writes back the whole file system, so a sync of one operation
also saves what another one renamed. The removal of the temporary file that
`WriteFile` and `InstallFile` defer is left out: its errors are ignored, and nobody
reads what it leaves.

All operations write one destination, which stands for any file they share: the record
first of all. `dest` is what a reader sees, `safe` what a power failure leaves at least,
and `PowerFailure` picks either; data that no `sync` wrote back is torn. The local
`commit` (`local/files.go:231`) takes the same steps with `fsync`. `Copying` is the set
of ways to make the temporary file; they differ in the context, at which `Run` looks and
SFTP does not.

The lock's process does not read its input while it waits for the lock, so it
survives the connection, takes the lock later and ends then. A late request of an
operation that failed may still be executed under the next holder: `stray` records
requests of operations under way that were executed when their connection had lost
the lock, and `SuccessUnderLock` says that such operations do not succeed.

### Jobs

`call[c]` holds the locals of one call of `Manager.jobs`: units `todo`, the request
under way, units `pending` with their channels (`result`), and whether the D-Bus
connection lives. `job[u]` is whose job is queued for a unit, `wire` the requests
the manager has received. The calls follow each other, since they are made under
`config.lock`; requests and jobs of one that is over do not vanish.

| Code (`systemd/manager.go`) | Action |
|---|---|
| `submit` of a unit, its answer, its error, `:147-154` | `Submit`, `Submitted`, `SubmitFails` or `Refuse` |
| the `select` for a result | `Receive` |
| `ctx.Done()`, in `submit` and in the `select` | `Cancel` |
| the last `if` | `Return` |
| the user manager: queues with mode `replace`, refuses, carries out | `Queue`, `Refuse`, `CarryOut` |
| other clients, a broken socket | `Foreign`, `Disconnect`, `LoseRequest` |

A job that replaces another one cancels it, or the two are merged when they ask for
the same; both occur. `carried` remembers for each call whose job was carried out.

### Secret

`slot` is the secret at one name, with its ID, owner label and version label.
`state[r]` is what Terraform holds for resource `r`, `job[r]` the call under way:
`Inspect`, `Remove`, `Install` follow `install` and `Delete` of
`secret_resource.go`. A lost request, a lost answer and a request that Podman
executes after the provider gave up are `LoseRequest`, `LoseAnswer`, and `Delay`
with `ExecuteLate`. `ForeignCreate` and `ForeignRemove` are other Podman clients.
A secret is imported into at most one resource, as Terraform demands of its users.

## Runs

Each run gives small sets to the constants. Deadlock is checked on
`local_session` only: elsewhere a deployment that is refused waits for a person, all
calls are over, or bounded counters end every behaviour.

| Run | Instance and bounds | Shows |
|---|---|---|
| `engine_faults` | 2 names, 2 owners, a quadlet and a native file, 4 payloads between which `web.service` moves from one file to the other, 2 generators, jobs of one unit that pull the other along, drift of the native file, 2 disturbances | `TypeOK`, `FootprintRecorded`, `RecordsReadable`, `CommittedExact`, `NothingOlderRuns` |
| `engine_shared` | 2 names, 2 owners, 4 paths with `app` above `app/settings`, drift of `app`, 2 disturbances | `OwnershipDisjoint`, `StartedUnitsRecorded`, `ImplementsClaims`, `Isolation`, `OnlyOwnerReleases` |
| `engine_retry` | 2 names, 1 owner, 3 payloads, 2 faults, fair | `RetryCompletes` |
| `lifecycle` | 2 addresses, 2 names, 3 IDs, a native and a configuration file, 2 payloads, 1 edit of the configuration, drift, 2 disturbances | `LifecycleTypeOK`, `OwnersKnown`, `EmptyPlanApplied` |
| `local_session` | 2 operations and another process, no bound on calls, fair | `OneAtATime`, `ImplementsLease`, `OperationsEnd`, `LockReturns` |
| `remote_session` | 2 operations with any number of uploads, 2 disturbances (power failures, broken connections, failed requests, killed lock processes), any number of timeouts and kills of the provider, fair | `TypeOK`, `SuccessUnderLock`, `DestinationWhole`, `SuccessDurable`, `LockReturns` |
| `jobs` | 2 calls on up to 2 units, 1 job of another client, fair | `JobsTypeOK`, `OutcomeTrue`, `NothingLeftBehind`, `CallsReturn` |
| `secret_calls` | 2 resources, 2 versions, 3 secrets and 3 owners ever, 2 lost or late calls | `TypeOK`, `OwnersDistinct`, `RevisionTrue`, `SecretsAccounted`, `ForeignUntouched` |
| `secret_apply` | 1 resource, 6 secrets, 3 lost calls, fair | `InstallCompletes` |
| `engine_retry_nested` | as `engine_retry` with `app` and `app/settings` in two payloads | violated, see Findings |
| `engine_destroy` | as `engine_retry` with 1 fault | violated, see Findings |
| `jobs_awaited` | as `jobs` without another client | violated, see Findings |

Why the bounds are enough: the engine compares one deployment with one other at a
time, so two names show every conflict. The state an interruption leaves is a
record, some files and some links; two interruptions build every mixture of three
payloads, and the disturbances are as well one interruption together with a drift, a
link set by hand, a reload or an upgrade, before it, in it or after it. One native and one generated unit that may swap files cover both sides of
every comparison of units. For secrets, one rotation is two objects, and a third
one is made by somebody else or by a late request. The instances differ where a
property needs room: `MaxFaults` counts failures, drift, foreign links and reloads and
upgrades together; starts, stops and crashes of units are unbounded.

The lock has one holder and the callbacks of a session act on that session alone,
so two sessions and a third party show every hand-over. The same holds over SSH,
where the second operation meets every leftover of the first one. Two disturbances are a
power failure after a broken connection, a request that fails or a lock process that is
killed, or two of those, one in each operation; a second power failure finds the disk in
a state that the first one can leave as well. The provider's own ends (timeouts, errors,
kills), late and lost requests are not bounded. `Copying` is an upload there; the
theorems hold for both. A call of
`Manager.jobs` can meet the leftovers of one earlier call, and two units are one that
is refused, late or failed and one that is not.

A third ID is that of a create whose record somebody has yet to import while both
addresses hold others. Two resources are a replacement or a destroy of one beside an
apply of the other, and one edit makes each of the two payloads follow the other on
either name. Two disturbances are an interrupted call on top of a drift.

`StartedUnitsRecorded` holds on `engine_shared`, where every unit stays with the
file that defines it (`SteadyUnits`, which TLC evaluates there and which is the
hypothesis of its theorem); the stronger statement of the documentation fails when
it moves (Findings).

### Fairness

`RetrySpec` assumes that an operation under way goes on (`WF_vars(Call)`: every
call returns, at the latest by the operation's timeout) and that the owner of an
interrupted deployment applies again and again (`SF` on each retry: a person or a
pipeline runs Terraform while other owners use the lock as well). Faults are
bounded, so they cease. `ApplySpec` of `Secret` assumes the same of a resource
that Terraform applies and refreshes repeatedly, and that Podman executes the
requests it received. `FairSpec` of `LocalSession` assumes that goroutines that can
run do, that timers fire and that file system calls return. It assumes nothing of
commands, which may hang until they are killed, and nothing of other processes,
which may keep the lock. `FairSpec` of `RemoteSession` assumes that timers fire, that
sshd finds out that a client is gone and that `cat` reads the end of its input, and
nothing of requests and connections: they may stay unanswered and unnoticed.
`FairSpec` of `Jobs` assumes that the call goes on and its timeout fires (every
operation has one, `access.go:41`), and nothing of the manager.

### Mutants

`PROJECT.json` names for each property a slip of the code that the property
notices; the slips are operators next to the definition they replace, so for
example `PayloadReservation` (reserve the new payload only) beside `Reservation`.

## Findings

1. A path replaced by one above or below it after an interrupted apply
   (`engine_retry_nested`). The reservation is the union of both payloads' paths
   (`deployment/apply.go:62`), so it can hold `app` and `app/settings`. Once one
   of them is on the disk, `checkPaths` refuses every apply and destroy
   (`apply.go:67`, `read.go:84`), or `Remove` meets a directory that is not empty.
   README.md promises that failed deployments are retried on the next apply.
2. A unit that destroy does not stop (`engine_destroy`). `Loaded` leaves out units
   without a definition (`systemd/manager.go:116`), and `removeUnits` stops only
   what it returns. A running unit loses its definition when an apply that moves
   it to another file is interrupted and somebody reloads the manager. Destroy
   then drops the record and leaves the unit running.
3. Jobs that are not waited for (`jobs_awaited`). The comment of `Manager.jobs`
   (`systemd/manager.go:137`) says that it queues one job per unit and waits for every
   one of them. When a unit is refused it returns at once (`manager.go:149`): units
   after it get no job and those before it run on when the lock is given up.

## Proofs

The theorems hold for every value of the constants: any sets of names, owners, files,
units, payloads, generators, resources, secrets, sessions, operations and calls, and
any bound on faults, edits and foreign jobs. Finite is only the set of units
in `Jobs`. Each module has one inductive invariant; one lemma per conjunct shows that a
step preserves it, with a step of the proof for each action that can disturb it, and
frame lemmas say what the other actions leave alone. TLC checked every inductive
invariant on the instance of its run before it was proved.

### Engine

| Theorem | Statement |
|---|---|
| `EngineProofs`: `OwnershipInvariant` | `Spec => []OwnershipInv` |
| `TypeCorrect`, `NoSharedOwnership`, `RecordsStayReadable` | `TypeOK`, `OwnershipDisjoint`, `RecordsReadable` |
| `EngineHostProofs`: `HostInvariant` | `Spec => []EngineInv` |
| `FootprintStaysRecorded`, `CommittedRecordsExact` | `FootprintRecorded`, `CommittedExact` |
| `OperationsIsolated`, `ReleasedByOwner` | `Isolation`, `OnlyOwnerReleases` |
| `ClaimsImplemented` | `Spec => ImplementsClaims` |
| `EngineRunProofs`: `ActivationInvariant` | `Spec => []ActivationInv` |
| `NothingOlderStaysRunning` | `NothingOlderRuns` |
| `StartedStayRecorded` | `SteadyUnits` implies `Spec => []StartedUnitsRecorded` |

`OwnershipInv` is about the records alone. `OwnershipDisjoint` needs to know that
the conflict check made on admission still holds when the reservation is written
(`Reserving`), and that a commit shrinks the record it replaces, which rests on
the record being the reservation (`Reserving` again) and on the locals being what
admission checked (`LocalsConsistent`). `RecordsReadable` needs that a payload's
enabled units are native and owned, and that the record an operation started from was
readable. `TypeOK` needs that only an apply installs and commits (`StepsConsistent`).

`EngineInv` adds what the host holds while an operation goes on. `FootprintRecorded`
breaks, if at all, when a commit or a destroy shrinks the record, so it needs that the
files given up are gone (`RetiredGone`) and that links are found where the record says
(`LinksRecorded`). `CommittedExact` needs that the files of the payload are in place,
even those that the apply found unchanged and did not install (`WantedInstalled`), and
that links are those of the policy (`LinksFollow`). That one is subtle: a first apply, a
change, and the retry of an interrupted apply reach the new policy by three different
sets of calls, and which links can be there depends on what the prior record was
(`PriorCommitted`). `DestroyedGone` is for `OnlyOwnerReleases`: a destroy leaves
nothing at its paths, directories included, but for what others put there.

`ClaimsImplemented` maps each call: `Reserve` opens a claim, because the conflict check
covers the union; `Commit` closes it, because what it gives up is gone; `Forget` drops
it; other calls of an operation work inside its claim, since the paths and units they
touch are its own (`OutOfReach`); what others do only overwrites. All other steps are
stutters.

`ActivationInv` is about an apply that finds nothing to do (`apply.go:119`) and commits
without restarting. It may, because its prior record was committed with the same payload
and units, and nothing older runs under a committed record: `NothingOlderRuns` is used to
prove itself, by way of `ActivationFollows`. `CommittedLoaded` says that the manager has
read the committed definitions, so that a unit that anybody starts later, or that a job
of another deployment pulls along, reads them. That is all that units do to each other
here (`Adrift`: stopped, or started by somebody else), so the theorem holds for any
`Dependents` and any number of stops and starts.

`StartedStayRecorded` needs its hypothesis: finding 2 is what happens without it.
`SteadyUnits` says that each unit of a restart list has a home, a file that defines it
in every payload that has the unit, whatever the generator, and that others leave alone.
Then the manager knows every unit that the engine started, at any time
(`StartedAccounted`), and `removeUnits` stops all the retired ones before the first file
is removed (`RetiredStopped`).

### Terraform

`LifecycleProofs` builds on `ActivationInv`: `LifecycleInvariant`,
`LifecycleTypeCorrect`, `OwnersStayKnown` (`OwnersKnown`) and `EmptyPlansApplied`
(`EmptyPlanApplied`). `OwnersKnown` is in danger when a state is dropped or replaced. It
needs that the engine's operation is that of the one call that runs (`CallsRun`), that a
call works for the owner and the name in its resource's state (`CallsMatch`), that an ID
belongs to one resource (`IDsDistinct`) and to one name (`OneName`, or else a resource
that moves to another name would leave a record behind), and that a destroy which
succeeded has freed its name (`DeletedFree`). `EmptyPlanApplied` follows from
`CommittedExact` and `NothingOlderRuns`: an empty plan needs the revision to be the
applied one, so the refresh has read a committed record of the same payload and found
every file unchanged. Units that stopped and links that others changed are outside it.

### Sessions

`LocalSessionProofs`, for any number of sessions: `SessionInvariant`, `ExclusiveUse`
(`OneAtATime`) and `LeaseImplemented` (`ImplementsLease`). `OneAtATime` needs that the
lock is kept until the release function is through (`KeptUntilReleased`), that no call
enters between its drain and the unlock (`ClosedWhileDraining`, where `mu` is needed),
that the release runs only once it is due (`NothingToReleaseYet`), and that children do
not outlive their leader (`ProcessesAwaited`). One lemma says that a session's step
leaves the others alone, so the induction is about one session.

`RemoteSessionProofs`: `RemoteInvariant`, `TypeCorrect`, `SuccessWasUnderLock`
(`SuccessUnderLock`), `DestinationStaysWhole` (`DestinationWhole`) and
`SuccessIsDurable` (`SuccessDurable`). The request on the way is the one that the
operation waits for, and a failed operation may leave its last one (`OneRequest`). The
lock's process lives as long as the host serves the connection (`LockServed`), so an
operation that did something without the lock waits for an answer that cannot come
(`StrayFails`) and will not succeed. What the client knows of its temporary file holds as
long as the host is up: it is complete when its sync is asked for and synced when its
rename is, and no earlier request is left that would change it (`FileReady`); a power
failure takes the file and the requests together. The directory is synced after a rename
before the operation goes on (`Durable`). Neither of the last two mentions the lock:
durability does not rest on it.

### Jobs

`JobsProofs`: `JobsInvariant`, `TypeCorrect` (`JobsTypeOK`), `OutcomesTrue`
(`OutcomeTrue`) and `NothingIsLeftBehind` (`NothingLeftBehind`). Every unit of a call is
left to queue, waited for, or received (`Partition`, over sequences without
repetition); a result says what the manager did with the call's own job, and at most one
request is out, for the head of the queue (`ResultTrue`); what the call has counted as
failed is what it received (`Counted`). When nothing is left to queue or to wait for,
the result of every unit is known.

### Secrets

`SecretProofs`: `SecretInvariant`, `TypeCorrect` (`TypeOK`), `OwnersStayDistinct`
(`OwnersDistinct`), `RevisionStaysTrue` (`RevisionTrue`), `SecretsStayAccounted`
(`SecretsAccounted`) and `ForeignStaysUntouched` (`ForeignUntouched`). Owners and IDs
that anybody remembers were drawn before, so a new one is new (`Drawn`). No two
resources, in their states or calls, hold one owner (`HoldersDistinct`). A create that
has not asked Podman is unknown to it (`FreshUnknown`), so the claim of a name cannot
meet its own secret. A removal names the ID that was inspected, so it removes the
owner's secret or nothing (`RemovesOwn`); if a late request has put another one of the
same owner in its place, the owner is `tardy` (`LateTardy`), which is the case that
`SecretsAccounted` excepts.

### Assumptions on the constants

Beside the shape of paths, generators and payloads (`PathAssumption`, `UnitAssumption`,
`ValueAssumption`) the assumptions say that bounds are natural numbers and that the
values which stand for nothing (`NoOwner`, `Stopped`, `Nothing`, `NoJob`, ...) are none
of the values of the sets they extend (`EngineAssumption`, `InstanceAssumption`,
`TerraformAssumption`, `SecretAssumption`, `NothingAssumption`, `JobsAssumption`,
`HoldersDiffer`, `OldIsNoOperation`, `CopyingAssumption`, `FaultAssumption`,
`EditAssumption`). TLC evaluates
each of them on the runs.

### What the proofs changed

The proof of `OnlyOwnerReleases` failed at first: in the model a path counted as touched
by others only if it was the file they wrote, and not when it was a directory that
appeared above such a file. A destroy may find one at a path that it removed. `drifted`
holds those paths now.

### Model-checked only

The liveness properties: `RetryCompletes`, `InstallCompletes`, `OperationsEnd`,
`LockReturns`, `CallsReturn`. Liveness under fairness is out of the prover's reach. That
`StartedUnitsRecorded` fails without `SteadyUnits`, and the other two findings, are
counterexamples of TLC.

## Not modelled

Name and path syntax, JSON, XDG directories, SSH authentication, the plugin
framework, provider settings, the diagnostics buffer: no behaviour over time. Staging
directories and temporary files left behind: nobody else reads them, and their deferred
removal is left out. Durability of
removals after a power failure: `Engine` takes removals for final. A refresh that finds
no state directory reads without the lock; what it reads is an unfinished deployment at
worst, which the next plan repairs. `DialContext` connections of a local session, which
`Close` cancels and does not wait for: their late requests are those of `Jobs` and
`Secret`. In `Lifecycle`, unknown values at plan time, the reported `units` and
several configurations edited at once. In `Secret`, a provider killed between Podman's
create and the saved state: the secret has an owner that nobody knows then, and only an
import recovers the name, as after a late create. Files of other deployments that a
unit's own commands change: they count as drift where the paths are in `DriftFiles`. The
content of records beyond enablement (versions, paths and unit names that `readRecord`
refuses).

`LocalSession` and `RemoteSession` are checked beside `Engine`, not composed with it:
`Lease` and `SuccessUnderLock` are what `Engine` assumes of them.

## Plan

1. The lock as `Engine` assumes it: a contract of the lease over SSH, with the late
   requests it allows, and `RemoteSession` proved to implement it.
2. What a destroy promises about units in general (`DestroyStopsUnits`) under the
   weakest condition on the host that makes it true.
3. The safety steps behind the liveness properties: which interrupted states an apply of
   the owner can always leave.
