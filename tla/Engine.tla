------------------------------- MODULE Engine -------------------------------
(***************************************************************************)
(* deployment.Engine: Apply and Delete over one host, one action per call  *)
(* the engine makes to the host's file system and to the systemd user      *)
(* manager.  config.lock serializes the operations (module LocalSession    *)
(* and the README say what the lock guarantees), so at most one operation  *)
(* is under way; it may stop between any two calls, and between operations *)
(* and during them the host goes on living: files and links change by      *)
(* other hands, units start and stop, somebody reloads the manager, Podman *)
(* is upgraded.                                                            *)
(***************************************************************************)
EXTENDS Layout, Naturals

\* Operators that no other definition uses (MayUseAny, CommittedConflict,
\* RetiredByDelete, ActivatesIfChanged, ActivatesIfEdited, NoRecovery,
\* PayloadReservation, StickyCommitment, EndKeepingLocals; in Layout EqualPaths,
\* MissingFiles, RemovableFile) are slips of the code: each replaces the
\* definition after it to show that the properties notice (README, Mutants).

CONSTANTS
  Names,        \* deployment names
  Owners,       \* resource IDs
  NoOwner,      \* the empty ID
  NoOp,         \* no operation is under way
  Stopped,      \* a unit is not running
  Elsewhere,    \* a unit was started by something else than the engine
  Dependents,   \* Dependents[u]: the units that a job for u, or a command of u, may also
                \* stop, start or restart
  DriftFiles,   \* paths somebody else may touch
  MaxFaults     \* bound on failures, foreign changes of files and links, foreign
                \* reloads and upgrades together

VARIABLES
  record,       \* record[n]: deployments/<n>/deployment.json
  disk,         \* the configuration directory
  links,        \* units with enablement links
  loaded,       \* what the manager read at its last reload
  run,          \* run[u]: what the running instance of unit u was started from
  generator,    \* the installed version of Podman's generator
  pc,           \* the engine call that comes next
  op,           \* the locals of Apply or Delete
  todo,         \* the files left in the loop that pc names
  drifted,      \* history: files others touched since the engine last wrote them
  relinked,     \* history: units others enabled or disabled since the engine last did
  faults        \* disturbances so far

hostVars == <<disk, links, loaded, run, generator, drifted, relinked>>
vars ==
  <<record, disk, links, loaded, run, generator, pc, op, todo, drifted, relinked, faults>>

ASSUME EngineAssumption ==
  /\ NoOwner \notin Owners
  /\ Dependents \in [Units -> SUBSET Units]
  /\ DriftFiles \subseteq Files
  /\ MaxFaults \in Nat

Revisions == Payloads \cup {NoRevision}

RecordType ==
  [id : Owners \cup {NoOwner}, files : SUBSET Files, units : SUBSET Units,
   enabled : SUBSET Units, revision : Revisions]

\* An absent record has an empty ID.
NoRecord ==
  [id |-> NoOwner, files |-> {}, units |-> {}, enabled |-> {}, revision |-> NoRevision]

\* Delete works towards a tree without files.
NoPayload ==
  [files |-> [f \in {} |-> Absent], restart |-> {}, tryRestart |-> {}, enable |-> {},
   trigger |-> NoRevision]

-----------------------------------------------------------------------------
(* Ownership *)

Held(n) == record[n].id # NoOwner
Committed(n) == Held(n) /\ record[n].revision # NoRevision
Interrupted(n) == Held(n) /\ record[n].revision = NoRevision

MayUseAny(n, id) == TRUE

\* Engine.readOwnership: nobody's name, or the caller's.
MayUse(n, id) == record[n].id \in {NoOwner, id}

CommittedConflict(n, files, units) ==
  \E m \in {k \in Names \ {n} : Committed(k)} :
    \/ \E f \in files, g \in record[m].files : Overlaps(f, g)
    \/ units \cap record[m].units # {}

\* Engine.checkConflicts: committed and unfinished records of the other names
\* reserve everything they list.
Conflict(n, files, units) ==
  \E m \in Names \ {n} :
    \/ \E f \in files, g \in record[m].files : Overlaps(f, g)
    \/ units \cap record[m].units # {}

\* The union of what the record holds and what the payload needs.
OwnedFiles(o) == o.prior.files \cup DOMAIN o.want.files
OwnedUnits(o) == o.prior.units \cup o.units

RetiredFiles(o) == o.prior.files \ DOMAIN o.want.files
RetiredByDelete(o) == IF o.kind = "delete" THEN o.prior.units ELSE {}

RetiredUnits(o) == OwnedUnits(o) \ o.units

\* disableNative only touches units whose native file is owned.
DisableSet(units, files) == units \cap Native(files)

Resumes(o) == o.prior.id # NoOwner /\ o.prior.revision = NoRevision

ActivatesIfChanged(o) == Resumes(o) \/ o.changed # {}

ActivatesIfEdited(o) ==
  \/ Resumes(o)
  \/ o.prior.revision # o.want
  \/ o.prior.units # o.units

Activates(o) ==
  \/ Resumes(o)
  \/ o.changed # {}
  \/ o.prior.revision # o.want
  \/ o.prior.units # o.units

\* The units addressed by the three calls of Units.Disable: the retired ones, all
\* native ones when an interrupted apply is resumed, and the previously enabled.
RetiredLinks(o) == DisableSet(RetiredUnits(o), OwnedFiles(o))

NoRecovery(o) == {}

RecoveredLinks(o) ==
  IF Resumes(o) THEN DisableSet(OwnedUnits(o), OwnedFiles(o)) ELSE {}

PreviousLinks(o) == IF Activates(o) THEN o.prior.enabled \cap o.units ELSE {}

PayloadReservation(o) ==
  [id |-> o.id, files |-> DOMAIN o.want.files, units |-> o.units,
   enabled |-> o.prior.enabled, revision |-> NoRevision]

\* The record Apply and Delete write before the first change.
Reservation(o) ==
  [id |-> o.id, files |-> OwnedFiles(o), units |-> OwnedUnits(o),
   enabled |-> o.prior.enabled, revision |-> NoRevision]

StickyCommitment(o) ==
  [id |-> o.id, files |-> DOMAIN o.want.files, units |-> o.units,
   enabled |-> o.want.enable \cup o.prior.enabled, revision |-> o.want]

\* The record that commits an apply.
Commitment(o) ==
  [id |-> o.id, files |-> DOMAIN o.want.files, units |-> o.units,
   enabled |-> o.want.enable, revision |-> o.want]

-----------------------------------------------------------------------------
(* The systemd user manager *)

\* What a unit started now reads: definitions as loaded, the rest from the disk.
Reads(u) ==
  LET owned == UNION {record[n].files : n \in {m \in Names : u \in record[m].units}} IN
  [f \in owned |-> IF f \in Sources THEN loaded.tree[f] ELSE disk[f]]

Started(u, under) == [under |-> under, read |-> Reads(u)]

Running(u) == run[u] # Stopped

\* What jobs for these units pull along, by systemd's dependencies or by the units'
\* own commands ("may affect other workloads", docs/resources/deployment.md).
Reached(units) == UNION {Dependents[u] : u \in units}

\* Instances after jobs that start the units in up for the engine, start the units in
\* pulled as well and leave the units in down stopped.
Settled(up, down, pulled, under) ==
  [u \in Units |-> IF u \in down THEN Stopped
                   ELSE IF u \in up THEN Started(u, under)
                   ELSE IF u \in pulled THEN Started(u, Elsewhere) ELSE run[u]]

\* Restart jobs for a set of units, of which those in up are carried out.
JobsRun(up, units, under) ==
  \E down \in SUBSET (units \cup Reached(units)) :
    \E pulled \in SUBSET (Reached(units) \cap loaded.units) :
      run' = Settled(up, down, pulled, under)

\* Every job ends as "done" or "skipped": no unit of the list runs on as before, but
\* nobody looks whether it is up (a oneshot unit, a failed condition, a crash).
Restarted(units, under) == JobsRun(units, units, under)

\* Some jobs are carried out, some fail and some are never submitted.
Disrupted(units, under) == \E up \in SUBSET units : JobsRun(up, units, under)

Halted(units) ==
  \E down \in SUBSET Reached(units) :
    \E pulled \in SUBSET (Reached(units) \cap loaded.units) :
      run' = Settled({}, units \cup down, pulled, Elsewhere)

\* Units.Enable and Units.Disable on some units.
Linked(units) == links' = links \cup units /\ relinked' = relinked \ units

Unlinked(units) == links' = links \ units /\ relinked' = relinked \ units

\* The tree restricted to what daemon-reload reads.
Definitions(tree) == [f \in Sources |-> tree[f]]

ReloadedManager ==
  [tree |-> Definitions(disk), units |-> UnitsOf(disk, generator), links |-> links]

Init ==
  /\ record = [n \in Names |-> NoRecord]
  /\ \E S \in SUBSET DriftFiles :
       /\ \A f \in S : Parents[f] \cap S = {}
       /\ disk = [f \in Files |-> IF f \in S THEN Foreign
                                  ELSE IF \E g \in S : f \in Parents[g] THEN Directory
                                  ELSE Absent]
  /\ links = {}
  /\ generator \in Generators
  /\ loaded = [tree |-> Definitions(disk), units |-> UnitsOf(disk, generator), links |-> {}]
  /\ run = [u \in Units |-> Stopped]
  /\ pc = "idle"
  /\ op = NoOp
  /\ todo = {}
  /\ drifted = {}
  /\ relinked = {}
  /\ faults = 0

-----------------------------------------------------------------------------
(* Apply and Delete, call by call.  A call that fails is the action Fail.   *)

EndKeepingLocals == pc' = "idle" /\ todo' = {} /\ UNCHANGED op

End == pc' = "idle" /\ op' = NoOp /\ todo' = {}

Goto(step) == pc' = step /\ UNCHANGED <<op, todo>>

\* Entering the loop over the files to remove.
GotoRemoval ==
  pc' = "remove" /\ todo' = RetiredFiles(op) /\ UNCHANGED op

\* Apply up to its first change: validation, staging and discovery, ownership,
\* conflicts, paths and the comparison with the host. A payload that any of
\* these refuses changes nothing.
AdmitApply(n, id, p) ==
  /\ pc = "idle"
  /\ Valid(p)
  /\ MayUse(n, id)
  /\ Discoverable(p, generator)
  /\ OwnsActivated(p, Discover(p, generator))
  /\ LET o == [kind |-> "apply", name |-> n, id |-> id, want |-> p, prior |-> record[n],
               units |-> Discover(p, generator), changed |-> Differing(disk, p),
               present |-> {}]
     IN /\ ~Conflict(n, OwnedFiles(o), OwnedUnits(o))
        /\ \A f \in OwnedFiles(o) : PathOK(disk, f)
        /\ \A f \in DOMAIN p.files : Readable(disk, f)
        /\ op' = o
  /\ pc' = "reserve"
  /\ UNCHANGED <<record, hostVars, todo, faults>>

\* Delete up to its first change; it knows only what the record says.
AdmitDelete(n, id) ==
  /\ pc = "idle"
  /\ Held(n)
  /\ MayUse(n, id)
  /\ ~Conflict(n, record[n].files, record[n].units)
  /\ \A f \in record[n].files : PathOK(disk, f)
  /\ op' = [kind |-> "delete", name |-> n, id |-> id, want |-> NoPayload,
            prior |-> record[n], units |-> {}, changed |-> {}, present |-> {}]
  /\ pc' = "reserve"
  /\ UNCHANGED <<record, hostVars, todo, faults>>

Reserve ==
  /\ pc = "reserve"
  /\ record' = [record EXCEPT ![op.name] = Reservation(op)]
  /\ IF RetiredUnits(op) = {} THEN GotoRemoval ELSE Goto("query")
  /\ UNCHANGED <<hostVars, faults>>

\* removeUnits asks which retired units the manager knows, then disables and stops.
QueryRetired ==
  /\ pc = "query"
  /\ op' = [op EXCEPT !.present = RetiredUnits(op) \cap loaded.units]
  /\ pc' = "disable"
  /\ UNCHANGED <<record, hostVars, todo, faults>>

DisableRetired ==
  /\ pc = "disable"
  /\ Unlinked(RetiredLinks(op))
  /\ IF op.present = {} THEN GotoRemoval ELSE Goto("stop")
  /\ UNCHANGED <<record, disk, loaded, run, generator, drifted, faults>>

StopRetired ==
  /\ pc = "stop"
  /\ Halted(op.present)
  /\ GotoRemoval
  /\ UNCHANGED <<record, disk, links, loaded, generator, drifted, relinked, faults>>

\* The files go in the order of their names, a directory before what is in it.
RemoveFile(f) ==
  /\ pc = "remove"
  /\ f \in todo
  /\ Parents[f] \cap todo = {}
  /\ IF Removable(disk, f)
     THEN /\ disk' = Without(disk, f)
          /\ drifted' = drifted \ {f}
          /\ todo' = todo \ {f}
          /\ UNCHANGED <<pc, op>>
     ELSE End /\ UNCHANGED <<disk, drifted>>
  /\ UNCHANGED <<record, links, loaded, run, generator, relinked, faults>>

RemovalDone ==
  /\ pc = "remove"
  /\ todo = {}
  /\ IF op.kind = "delete"
     THEN Goto("reload")
     ELSE pc' = "install" /\ todo' = op.changed /\ UNCHANGED op
  /\ UNCHANGED <<record, hostVars, faults>>

InstallFile(f) ==
  /\ pc = "install"
  /\ f \in todo
  /\ IF Installable(disk, f)
     THEN /\ disk' = With(disk, f, op.want.files[f])
          /\ drifted' = drifted \ {f}
          /\ todo' = todo \ {f}
          /\ UNCHANGED <<pc, op>>
     ELSE End /\ UNCHANGED <<disk, drifted>>
  /\ UNCHANGED <<record, links, loaded, run, generator, relinked, faults>>

InstallDone ==
  /\ pc = "install"
  /\ todo = {}
  /\ Goto("recover")
  /\ UNCHANGED <<record, hostVars, faults>>

\* A partial apply may have enabled units before it stopped.
RecoverEnablement ==
  /\ pc = "recover"
  /\ Unlinked(RecoveredLinks(op))
  /\ Goto("reset")
  /\ UNCHANGED <<record, disk, loaded, run, generator, drifted, faults>>

\* applyUnits resets the links of the previous policy before it sets the new ones.
DisablePrevious ==
  /\ pc = "reset"
  /\ Unlinked(PreviousLinks(op))
  /\ Goto("enable")
  /\ UNCHANGED <<record, disk, loaded, run, generator, drifted, faults>>

Enable ==
  /\ pc = "enable"
  /\ IF \A u \in op.want.enable : disk[NativeFile[u]] \in Contents
     THEN Linked(op.want.enable) /\ Goto("reload")
     ELSE End /\ UNCHANGED <<links, relinked>>
  /\ UNCHANGED <<record, disk, loaded, run, generator, drifted, faults>>

Reload ==
  /\ pc = "reload"
  /\ loaded' = ReloadedManager
  /\ Goto(IF op.kind = "delete" THEN "forget" ELSE IF Activates(op) THEN "restart" ELSE "commit")
  /\ UNCHANGED <<record, disk, links, run, generator, drifted, relinked, faults>>

\* A job for a unit that the manager does not know is refused, after the jobs
\* submitted before it.
Restart ==
  /\ pc = "restart"
  /\ IF op.want.restart \subseteq loaded.units
     THEN Restarted(op.want.restart, op.want) /\ Goto("tryrestart")
     ELSE Disrupted(op.want.restart \cap loaded.units, op.want) /\ End
  /\ UNCHANGED <<record, disk, links, loaded, generator, drifted, relinked, faults>>

\* On-demand units are refreshed when they run, never started.
TryRestart ==
  /\ pc = "tryrestart"
  /\ LET refreshed == {u \in op.want.tryRestart : Running(u)} IN
     IF op.want.tryRestart \subseteq loaded.units
     THEN Restarted(refreshed, op.want) /\ Goto("commit")
     ELSE Disrupted(refreshed \cap loaded.units, op.want) /\ End
  /\ UNCHANGED <<record, disk, links, loaded, generator, drifted, relinked, faults>>

Commit ==
  /\ pc = "commit"
  /\ record' = [record EXCEPT ![op.name] = Commitment(op)]
  /\ End
  /\ UNCHANGED <<hostVars, faults>>

Forget ==
  /\ pc = "forget"
  /\ record' = [record EXCEPT ![op.name] = NoRecord]
  /\ Goto("sync")
  /\ UNCHANGED <<hostVars, faults>>

SyncRecord ==
  /\ pc = "sync"
  /\ End
  /\ UNCHANGED <<record, hostVars, faults>>

\* The call that comes next fails, the connection drops, the timeout expires or
\* the provider dies. A call on several units may have reached some of those that
\* the manager knows, an installation may have made directories. (A call that succeeded
\* before the error is that call, then Fail.)
Fail ==
  /\ pc # "idle"
  /\ faults < MaxFaults
  /\ faults' = faults + 1
  /\ \/ /\ \/ pc = "stop" /\ \E units \in SUBSET op.present : Halted(units)
           \/ /\ pc = "restart"
              /\ Disrupted(op.want.restart \cap loaded.units, op.want)
           \/ /\ pc = "tryrestart"
              /\ Disrupted({u \in op.want.tryRestart \cap loaded.units : Running(u)}, op.want)
        /\ UNCHANGED <<links, relinked, disk>>
     \/ /\ \/ pc = "enable" /\ \E units \in SUBSET op.want.enable : Linked(units)
           \/ pc = "disable" /\ \E units \in SUBSET RetiredLinks(op) : Unlinked(units)
           \/ pc = "recover" /\ \E units \in SUBSET RecoveredLinks(op) : Unlinked(units)
           \/ pc = "reset" /\ \E units \in SUBSET PreviousLinks(op) : Unlinked(units)
        /\ UNCHANGED <<run, disk>>
     \/ /\ pc = "install"
        /\ \E f \in todo : Installable(disk, f) /\ disk' = MadeAbove(disk, f)
        /\ UNCHANGED <<run, links, relinked>>
     \/ UNCHANGED <<run, links, relinked, disk>>
  /\ End
  /\ UNCHANGED <<record, loaded, generator, drifted>>

-----------------------------------------------------------------------------
(* The rest of the host *)

\* Somebody edits, creates or deletes a file.
Drift(f) ==
  /\ faults < MaxFaults
  /\ f \in DriftFiles
  /\ Installable(disk, f)
  /\ disk' \in {Without(disk, f), With(disk, f, Foreign)}
  /\ drifted' = drifted \cup {g \in Files : disk'[g] # disk[g]}
  /\ faults' = faults + 1
  /\ UNCHANGED <<record, links, loaded, run, generator, pc, op, todo, relinked>>

\* Somebody enables or disables a native unit by hand, without a reload.
Relink(u) ==
  /\ faults < MaxFaults
  /\ u \in NativeUnits
  /\ \/ u \in links /\ links' = links \ {u}
     \/ /\ u \notin links
        /\ disk[NativeFile[u]] \in Contents
        /\ links' = links \cup {u}
  /\ relinked' = relinked \cup {u}
  /\ faults' = faults + 1
  /\ UNCHANGED <<record, disk, loaded, run, generator, pc, op, todo, drifted>>

\* Somebody runs systemctl --user daemon-reload.
ForeignReload ==
  /\ faults < MaxFaults
  /\ loaded' = ReloadedManager
  /\ faults' = faults + 1
  /\ UNCHANGED <<record, disk, links, run, generator, pc, op, todo, drifted, relinked>>

UpgradePodman ==
  /\ faults < MaxFaults
  /\ generator' \in Generators \ {generator}
  /\ faults' = faults + 1
  /\ UNCHANGED <<record, disk, links, loaded, run, pc, op, todo, drifted, relinked>>

\* A socket, a timer, a dependency or the user starts a unit.
StartUnit(u) ==
  /\ ~Running(u)
  /\ u \in loaded.units
  /\ run' = [run EXCEPT ![u] = Started(u, Elsewhere)]
  /\ UNCHANGED <<record, disk, links, loaded, generator, pc, op, todo, drifted, relinked, faults>>

\* A unit ends, crashes or is stopped by somebody. (A restart by somebody is a stop
\* and a start.)
StopUnit(u) ==
  /\ Running(u)
  /\ run' = [run EXCEPT ![u] = Stopped]
  /\ UNCHANGED <<record, disk, links, loaded, generator, pc, op, todo, drifted, relinked, faults>>

-----------------------------------------------------------------------------

Admit ==
  \E n \in Names, id \in Owners :
    AdmitDelete(n, id) \/ \E p \in Payloads : AdmitApply(n, id, p)

Call ==
  \/ Reserve \/ QueryRetired \/ DisableRetired \/ StopRetired
  \/ \E f \in Files : RemoveFile(f) \/ InstallFile(f)
  \/ RemovalDone \/ InstallDone
  \/ RecoverEnablement \/ DisablePrevious \/ Enable
  \/ Reload \/ Restart \/ TryRestart
  \/ Commit \/ Forget \/ SyncRecord

Environment ==
  \/ \E f \in Files : Drift(f)
  \/ ForeignReload \/ UpgradePodman
  \/ \E u \in Units : StartUnit(u) \/ StopUnit(u) \/ Relink(u)

Next == Admit \/ Call \/ Fail \/ Environment

Spec == Init /\ [][Next]_vars

\* The owner of an interrupted deployment applies it again, possibly changed.
Retry(n) ==
  /\ Interrupted(n)
  /\ \E p \in Payloads : AdmitApply(n, record[n].id, p)

\* An operation goes on until it returns, and an owner who may retry does so again
\* and again. Disturbances are finitely many (MaxFaults).
RetrySpec == Spec /\ WF_vars(Call) /\ \A n \in Names : SF_vars(Retry(n))

-----------------------------------------------------------------------------
(* Properties *)

Steps ==
  {"idle", "reserve", "query", "disable", "stop", "remove", "install", "recover",
   "reset", "enable", "reload", "restart", "tryrestart", "commit", "forget", "sync"}

OpType ==
  [kind : {"apply", "delete"}, name : Names, id : Owners, want : Payloads \cup {NoPayload},
   prior : RecordType, units : SUBSET Units, changed : SUBSET Files, present : SUBSET Units]

\* A running instance: what it was started under and the files it read.
Instances ==
  [under : Payloads \cup {Elsewhere}, read : UNION {[S -> Nodes] : S \in SUBSET Files}]

ASSUME InstanceAssumption == Stopped \notin Instances

RunType == {Stopped} \cup Instances

\* Every variable holds a value of its type, and an operation is under way exactly
\* when the engine is not idle.
TypeOK ==
  /\ record \in [Names -> RecordType]
  /\ disk \in Trees
  /\ links \subseteq Units
  /\ loaded \in [tree : [Sources -> Nodes], units : SUBSET Units, links : SUBSET Units]
  /\ run \in [Units -> RunType]
  /\ generator \in Generators
  /\ pc \in Steps
  /\ IF pc = "idle" THEN op = NoOp ELSE op \in OpType
  /\ todo \subseteq Files
  /\ drifted \subseteq Files
  /\ relinked \subseteq NativeUnits
  /\ faults \in 0..MaxFaults

\* Two deployments never own the same unit, the same file, or a file and a
\* directory above it, whatever interrupted operations left behind
\* (checkConflicts, ownership.go:125).
OwnershipDisjoint ==
  \A n, m \in Names :
    n # m => /\ record[n].units \cap record[m].units = {}
             /\ \A f \in record[n].files, g \in record[m].files : ~Overlaps(f, g)

\* The links as the engine left them.
KeptLinks == links \ relinked

\* Whatever the engine wrote stays accounted for: a file with a payload's content
\* and an enablement link belong to some record, so that a later apply or destroy
\* finds them ("Ownership includes everything an interrupted operation may have
\* touched", ownership.go:25).
FootprintRecorded ==
  /\ \A f \in Files :
       disk[f] \in Contents \ {Foreign} => \E n \in Names : f \in record[n].files
  /\ \A u \in KeptLinks :
       u \in NativeUnits /\ \E n \in Names : u \in record[n].units /\ NativeFile[u] \in record[n].files

\* Every record on the host passes the checks of readRecord (ownership.go:57); one
\* that did not would fail each operation of every deployment of the user.
RecordsReadable ==
  \A n \in Names :
    record[n].enabled \subseteq record[n].units \cap Native(record[n].files)

\* A committed record tells the truth: it lists exactly the payload's files and
\* policy, the host holds those contents unless somebody touched them since, and
\* the enablement links, on disk and in the manager, are those of the policy unless
\* somebody else enabled or disabled the unit since ("Committing replaces it with
\* exactly the installed ownership and policy", ownership.go:32, and the order in
\* applyUnits, units.go:157).
CommittedExact ==
  \A n \in Names : Committed(n) =>
    LET p == record[n].revision IN
    /\ record[n].files = DOMAIN p.files
    /\ record[n].enabled = p.enable
    /\ \A f \in DOMAIN p.files : f \in drifted \/ disk[f] = p.files[f]
    /\ (links \cap record[n].units) \ relinked = p.enable \ relinked
    /\ (loaded.links \cap record[n].units) \ relinked = p.enable \ relinked

\* If u runs, somebody else started it or the engine did under p, and it runs with the
\* files of p, but for those others have touched.
UpToDate(u, p) ==
  Running(u) =>
    /\ run[u].under \in {p, Elsewhere}
    /\ \A f \in DOMAIN p.files :
         f \in drifted \/ (f \in DOMAIN run[u].read /\ run[u].read[f] = p.files[f])

\* Once a deployment is committed, no unit of its two restart lists goes on running with
\* what was there before: an instance that the engine started under another payload, or
\* one that read another definition or file (Apply's activate condition, apply.go:119).
\* Whether the units run at all is not said: the engine never asks the manager.
NothingOlderRuns ==
  \A n \in Names : Committed(n) =>
    LET p == record[n].revision IN
    \A u \in p.restart \cup p.tryRestart : UpToDate(u, p)

\* Others leave the path f alone, and f with any content of a payload defines u, which
\* nothing else defines.
Home(u, f) ==
  /\ f \notin DriftFiles
  /\ \A g \in DriftFiles : f \notin Parents[g]
  /\ \A p \in Payloads, version \in Generators :
       /\ u \in Discover(p, version) => f \in DOMAIN p.files
       /\ f \in DOMAIN p.files =>
            (u \in NativeUnits /\ NativeFile[u] = f) \/ u \in version[f][p.files[f]]

\* The units that the payloads restart stay with the files that define them.
SteadyUnits ==
  \A p \in Payloads : \A u \in p.restart \cup p.tryRestart : \E f \in Files : Home(u, f)

\* A unit that the engine started runs no longer than some record lists it: retiring
\* a unit or destroying a deployment stops it (removeUnits, units.go:44; "Destroy
\* stops recorded units", docs/resources/deployment.md).
StartedUnitsRecorded ==
  \A u \in Units :
    Running(u) /\ run[u].under # Elsewhere => \E n \in Names : u \in record[n].units

\* An operation changes nothing of another deployment: not its record, its files or
\* its links; and it starts and stops units of another deployment only where one of its
\* own units pulls them ("Systemd dependencies and unit commands may affect other
\* workloads", docs/resources/deployment.md).
Isolation ==
  [][Call \/ Fail =>
       \A m \in Names \ {op.name} :
         /\ record'[m] = record[m]
         /\ \A f \in record[m].files : disk'[f] = disk[f]
         /\ \A u \in record[m].units :
              /\ u \in links' <=> u \in links
              /\ run'[u] = run[u] \/ u \in Reached(OwnedUnits(op))]_vars

\* A record changes hands only through its owner: as long as a name is held, only
\* operations with the holder's ID rewrite its record, and only a destroy that
\* removed every file and link of the deployment frees the name (Delete, read.go:72).
OnlyOwnerReleases ==
  [][\A n \in Names : Held(n) /\ record'[n] # record[n] =>
       /\ op.name = n /\ op.id = record[n].id
       /\ record'[n].id # record[n].id =>
            /\ op.kind = "delete"
            /\ record[n].revision = NoRevision
            /\ \A f \in record[n].files : disk[f] = Absent \/ f \in drifted
            /\ links \cap record[n].units \subseteq relinked]_vars

\* A deployment does not stay interrupted while its owner keeps applying and the
\* host keeps working ("Failed deployments are retried on the next apply",
\* README.md; "ownership retained for retry", apply.go:91).
RetryCompletes == \A n \in Names : Interrupted(n) ~> (Committed(n) \/ ~Held(n))

\* A unit that the engine started for a deployment is stopped by the time the
\* deployment's destroy returns: the statement of docs/resources/deployment.md and
\* README.md, without any assumption on how the unit came to be retired.
DestroyStopsUnits ==
  [][\A n \in Names : Held(n) /\ record'[n].id = NoOwner =>
       \A u \in record[n].units : Running(u) => run[u].under = Elsewhere]_vars
=============================================================================
