--------------------------- MODULE EngineRunProofs ---------------------------
(***************************************************************************)
(* Proofs about what runs: nothing older than a committed deployment, and  *)
(* nothing the engine started that no record lists, for every set of       *)
(* names, owners, files, units, payloads and generators, every dependency  *)
(* between units and every bound on the faults.                            *)
(***************************************************************************)
EXTENDS EngineHostProofs

-----------------------------------------------------------------------------
(* What a step does to the instances, the manager and the touched files *)

\* What becomes of an instance that no call of the engine is about.
Adrift(u) == run'[u] \in {run[u], Stopped, Started(u, Elsewhere)}

LEMMA JobEffects ==
  ASSUME NEW S, NEW under, NEW u \in Units
  PROVE  /\ Restarted(S, under) => IF u \in S THEN run'[u] \in {Stopped, Started(u, under)}
                                   ELSE Adrift(u)
         /\ Disrupted(S, under) => Adrift(u) \/ (u \in S /\ run'[u] = Started(u, under))
         /\ Halted(S) => IF u \in S THEN run'[u] = Stopped ELSE Adrift(u)
<1>1. ASSUME NEW up \in SUBSET S, JobsRun(up, S, under)
      PROVE  IF u \in up THEN run'[u] \in {Stopped, Started(u, under)} ELSE Adrift(u)
  BY <1>1 DEF JobsRun, Settled, Adrift
<1>2. CASE Halted(S)
  BY <1>2 DEF Halted, Settled, Adrift
<1> QED
  BY <1>1, <1>2 DEF Restarted, Disrupted, Adrift

\* An instance changes at the hands of others, or at three calls.
LEMMA RunFrame ==
  ASSUME OwnershipInv, Next, NEW u \in Units
  PROVE  Adrift(u) \/ ((Call \/ Fail) /\ pc \in {"stop", "restart", "tryrestart"})
<1>1. CASE Admit
  BY <1>1, AdmitFrame DEF Adrift
<1>2. CASE Call
  BY <1>2 DEF Call, Reserve, QueryRetired, DisableRetired, StopRetired, RemoveFile, RemovalDone,
     InstallFile, InstallDone, RecoverEnablement, DisablePrevious, Enable, Reload, Restart,
     TryRestart, Commit, Forget, SyncRecord, hostVars, Adrift
<1>3. CASE Fail
  BY <1>3 DEF Fail, Adrift
<1>4. ASSUME NEW v \in Units, StartUnit(v) \/ StopUnit(v)
      PROVE  Adrift(u)
  BY <1>4 DEF StartUnit, StopUnit, Adrift, OwnershipInv, TypeOK
<1>5. CASE Environment
  BY <1>4, <1>5 DEF Environment, Drift, ForeignReload, UpgradePodman, Relink, Adrift
<1> QED
  BY <1>1, <1>2, <1>3, <1>5 DEF Next

\* Which units the jobs of the calls are for.
LEMMA JobsOfCalls ==
  ASSUME Call \/ Fail, pc \in {"stop", "restart", "tryrestart"}, NEW u \in Units
  PROVE  \/ Adrift(u)
         \/ pc = "stop" /\ u \in op.present /\ run'[u] = Stopped
         \/ /\ pc \in {"restart", "tryrestart"}
            /\ u \in (op.want.restart \cup op.want.tryRestart) \cap loaded.units
            /\ run'[u] = Started(u, op.want)
<1>1. CASE StopRetired
  BY <1>1, JobEffects DEF StopRetired
<1>2. CASE Restart
  BY <1>2, JobEffects DEF Restart, Adrift
<1>3. CASE TryRestart
  BY <1>3, JobEffects DEF TryRestart, Adrift
<1>4. CASE Fail
  BY <1>4, JobEffects DEF Fail, Adrift
<1> QED
  BY <1>1, <1>2, <1>3, <1>4 DEF Call, Reserve, QueryRetired, DisableRetired, RemoveFile,
     RemovalDone, InstallFile, InstallDone, RecoverEnablement, DisablePrevious, Enable, Reload,
     Commit, Forget, SyncRecord

\* The engine neither starts nor stops on purpose what the operation does not own.
LEMMA UnownedAdrift ==
  ASSUME OwnershipInv, Next, NEW u \in Units, ~(pc \in Reserved /\ u \in OwnedUnits(op))
  PROVE  Adrift(u)
<1>1. pc \in {"restart", "tryrestart"} =>
        op.want.restart \cup op.want.tryRestart \subseteq OwnedUnits(op)
  BY DEF OwnershipInv, StepsConsistent, ApplyOnly, LocalsConsistent, OwnsActivated, OwnedUnits
<1>2. pc = "stop" => op.present \subseteq OwnedUnits(op)
  BY DEF OwnershipInv, LocalsConsistent, RetiredUnits
<1> QED
  BY <1>1, <1>2, RunFrame, JobsOfCalls DEF Reserved

\* The manager reads the disk at a reload and at no other time.
LEMMA LoadedFrame ==
  ASSUME Next
  PROVE  \/ UNCHANGED loaded
         \/ loaded' = ReloadedManager /\ UNCHANGED <<disk, drifted>>
BY AdmitFrame DEF Next, Call, Environment, Reserve, QueryRetired, DisableRetired, StopRetired,
   RemoveFile, RemovalDone, InstallFile, InstallDone, RecoverEnablement, DisablePrevious,
   Enable, Reload, Restart, TryRestart, Commit, Forget, SyncRecord, Fail, Drift,
   ForeignReload, UpgradePodman, StartUnit, StopUnit, Relink, hostVars

\* A file counts as touched by others until an operation writes it again.
LEMMA DriftedFrame ==
  ASSUME Next, NEW g \in drifted, g \notin drifted'
  PROVE  pc \in {"remove", "install"} /\ g \in todo
BY AdmitFrame DEF Next, Call, Environment, Reserve, QueryRetired, DisableRetired, StopRetired,
   RemoveFile, RemovalDone, InstallFile, InstallDone, RecoverEnablement, DisablePrevious,
   Enable, Reload, Restart, TryRestart, Commit, Forget, SyncRecord, Fail, Drift,
   ForeignReload, UpgradePodman, StartUnit, StopUnit, Relink, hostVars

-----------------------------------------------------------------------------
(* A payload in place stays loaded, and what starts then reads it *)

\* The name n covers the payload p: its record lists the files and restarted units.
Covers(n, p) ==
  /\ DOMAIN p.files \subseteq record[n].files
  /\ p.restart \cup p.tryRestart \subseteq record[n].units

InstalledPayload(p) == \A f \in DOMAIN p.files : InPlace(f, p.files[f])

\* No file of p is being written.
Untouched(p) == pc \in {"remove", "install"} => todo \cap DOMAIN p.files = {}

LEMMA StartedFresh ==
  ASSUME NEW p \in Payloads, NEW n \in Names, NEW u \in record[n].units,
         DOMAIN p.files \subseteq record[n].files, Loaded(p), InstalledPayload(p),
         NEW f \in DOMAIN p.files
  PROVE  f \in drifted \/ (f \in DOMAIN Reads(u) /\ Reads(u)[f] = p.files[f])
<1> DEFINE owned == UNION {record[m].files : m \in {k \in Names : u \in record[k].units}}
<1>1. f \in owned
  OBVIOUS
<1>2. f \in DOMAIN Reads(u) /\ Reads(u)[f] = IF f \in Sources THEN loaded.tree[f] ELSE disk[f]
  BY <1>1 DEF Reads
<1> QED
  BY <1>2 DEF Loaded, InstalledPayload, InPlace

LEMMA LoadedStep ==
  ASSUME Next, NEW p \in Payloads, Loaded(p), InstalledPayload(p), Untouched(p)
  PROVE  Loaded(p)'
<1>1. ASSUME NEW f \in DOMAIN p.files, f \in drifted
      PROVE  f \in drifted'
  BY <1>1, DriftedFrame DEF Untouched
<1>2. CASE UNCHANGED loaded
  BY <1>1, <1>2 DEF Loaded
<1>3. CASE loaded' = ReloadedManager /\ UNCHANGED <<disk, drifted>>
  BY <1>3 DEF Loaded, ReloadedManager, Definitions, InstalledPayload, InPlace
<1> QED
  BY <1>2, <1>3, LoadedFrame

\* An instance that is not restarted stays up to date, and so is one that others start.
LEMMA UpToDateStep ==
  ASSUME Next, NEW p \in Payloads, NEW n \in Names, Covers(n, p), Loaded(p),
         InstalledPayload(p), Untouched(p),
         NEW u \in p.restart \cup p.tryRestart, UpToDate(u, p), Adrift(u)
  PROVE  UpToDate(u, p)'
<1>1. ASSUME NEW f \in DOMAIN p.files, f \in drifted
      PROVE  f \in drifted'
  BY <1>1, DriftedFrame DEF Untouched
<1>2. CASE run'[u] = run[u]
  BY <1>1, <1>2 DEF UpToDate, Running
<1>3. CASE run'[u] = Stopped
  BY <1>3 DEF UpToDate, Running
<1>4. CASE run'[u] = Started(u, Elsewhere)
  <2>1. \A f \in DOMAIN p.files :
          f \in drifted \/ (f \in DOMAIN run'[u].read /\ run'[u].read[f] = p.files[f])
    BY <1>4, StartedFresh DEF Started, Covers
  <2>2. run'[u].under = Elsewhere
    BY <1>4 DEF Started
  <2> QED
    BY <1>1, <2>1, <2>2 DEF UpToDate
<1> QED
  BY <1>2, <1>3, <1>4 DEF Adrift

-----------------------------------------------------------------------------
(* Committed deployments *)

\* A record that stays committed keeps its payload out of the operation's reach.
LEMMA CommittedApart ==
  ASSUME ActivationInv, Next, NEW n \in Names, Committed(n), record'[n] = record[n],
         NEW p, p = record[n].revision
  PROVE  /\ p \in Payloads /\ Covers(n, p) /\ Loaded(p) /\ InstalledPayload(p) /\ Untouched(p)
         /\ \A u \in record[n].units : Adrift(u)
<1> USE DEF ActivationInv, EngineInv
<1>1. p \in Payloads /\ record[n].units \subseteq Units
  BY DEF Committed, OwnershipInv, TypeOK, RecordType, Revisions
<1>2. record[n].files = DOMAIN p.files /\ InstalledPayload(p)
  BY DEF CommittedExact, InstalledPayload, InPlace
<1>3. Covers(n, p) /\ Loaded(p)
  BY <1>2 DEF CommittedLoaded, Covers
<1>4. pc \in Reserved => op.name # n
  BY OwnRecord DEF Committed
<1>5. Untouched(p)
  <2>1. ASSUME pc \in {"remove", "install"}
        PROVE  todo \subseteq OwnedFiles(op) /\ pc \in Reserved
    BY <2>1, LoopFiles DEF RetiredFiles, OwnedFiles, Reserved
  <2> QED
    BY <1>2, <1>4, <2>1, OutOfReach DEF Untouched
<1>6. ASSUME NEW u \in record[n].units
      PROVE  Adrift(u)
  <2>1. ~(pc \in Reserved /\ u \in OwnedUnits(op))
    BY <1>4, OutOfReach
  <2> QED
    BY <1>1, <2>1, UnownedAdrift
<1> QED
  BY <1>1, <1>2, <1>3, <1>5, <1>6

\* A record becomes committed by the call that ends an apply.
LEMMA BecomesCommitted ==
  ASSUME ActivationInv, Next, NEW n \in Names, Committed(n)', record'[n] # record[n]
  PROVE  /\ pc = "commit" /\ op.name = n /\ record'[n] = Commitment(op)
         /\ UNCHANGED <<disk, loaded, run, drifted>>
<1> USE DEF ActivationInv, EngineInv
<1>1. op.name = n /\ (Reserve \/ Commit \/ Forget)
  BY OthersKept, RecordFrame
<1>2. ~Reserve
  BY <1>1 DEF Reserve, Reservation, Committed, OwnershipInv, TypeOK
<1>3. ~Forget
  BY <1>1 DEF Forget, NoRecord, Committed, Held, OwnershipInv, TypeOK
<1> QED
  BY <1>1, <1>2, <1>3 DEF Commit, OwnershipInv, TypeOK, hostVars

LEMMA CommittedLoadedStep ==
  ASSUME ActivationInv, Next
  PROVE  CommittedLoaded'
<1> SUFFICES ASSUME NEW n \in Names, Committed(n)', NEW p, p = record'[n].revision
             PROVE  p.restart \cup p.tryRestart \subseteq record'[n].units /\ Loaded(p)'
  BY DEF CommittedLoaded
<1>1. CASE record'[n] = record[n]
  <2>1. Committed(n) /\ p = record[n].revision
    BY <1>1 DEF Committed, Held
  <2> QED
    BY <1>1, <2>1, CommittedApart, LoadedStep DEF Covers
<1>2. CASE record'[n] # record[n]
  <2>1. pc = "commit" /\ p = op.want /\ record'[n].units = op.units /\ UNCHANGED <<loaded, drifted>>
    BY <1>2, BecomesCommitted DEF Commitment
  <2>2. op.want.restart \cup op.want.tryRestart \subseteq op.units
    BY <2>1 DEF ActivationInv, EngineInv, OwnershipInv, StepsConsistent, ApplyOnly,
       LocalsConsistent, OwnsActivated
  <2> QED
    BY <2>1, <2>2 DEF ActivationInv, ActivationFollows, Loaded
<1> QED
  BY <1>1, <1>2

LEMMA NothingOlderStep ==
  ASSUME ActivationInv, Next
  PROVE  NothingOlderRuns'
<1> SUFFICES ASSUME NEW n \in Names, Committed(n)', NEW p, p = record'[n].revision,
                    NEW u \in p.restart \cup p.tryRestart
             PROVE  UpToDate(u, p)'
  BY DEF NothingOlderRuns, UpToDate
<1>1. CASE record'[n] = record[n]
  <2>1. Committed(n) /\ p = record[n].revision
    BY <1>1 DEF Committed, Held
  <2>2. UpToDate(u, p)
    BY <2>1 DEF ActivationInv, NothingOlderRuns
  <2>3. /\ p \in Payloads /\ Covers(n, p) /\ Loaded(p) /\ InstalledPayload(p) /\ Untouched(p)
        /\ \A v \in record[n].units : Adrift(v)
    BY <1>1, <2>1, CommittedApart
  <2> QED
    BY <2>2, <2>3, UpToDateStep DEF Covers
<1>2. CASE record'[n] # record[n]
  <2>1. pc = "commit" /\ p = op.want /\ UNCHANGED <<run, drifted>>
    BY <1>2, BecomesCommitted DEF Commitment
  <2>2. RestartedUnder(op.want) /\ RefreshedUnder(op.want)
    BY <2>1 DEF ActivationInv, ActivationFollows
  <2> QED
    BY <2>1, <2>2 DEF RestartedUnder, RefreshedUnder, UpToDate, Running
<1> QED
  BY <1>1, <1>2

-----------------------------------------------------------------------------
(* The apply under way *)

\* An apply that activates nothing retires and installs nothing.
LEMMA KeepsNothing ==
  ASSUME EngineInv, Keeps
  PROVE  /\ op.changed = {} /\ op.present = {} /\ RetiredFiles(op) = {}
         /\ pc \in {"remove", "install"} => todo = {}
<1> USE DEF EngineInv, OwnershipInv
<1>1. op.changed = {} /\ op.prior.revision = op.want /\ op.prior.units = op.units
  BY DEF Keeps, Activates
<1>2. op.want \in Payloads /\ op.want # NoRevision
  BY PayloadFacts DEF Keeps, LocalsConsistent
<1>3. op.prior.files = DOMAIN op.want.files
  BY <1>1, <1>2 DEF Keeps, PriorCommitted
<1>4. op.present = {}
  BY <1>1 DEF Keeps, LocalsConsistent, RetiredUnits, OwnedUnits
<1> QED
  BY <1>1, <1>3, <1>4 DEF RetiredFiles, StepsConsistent

\* While it activates, and all along when it has nothing to activate, an apply works
\* on a payload that is in place and that its record covers.
LEMMA WantedCovered ==
  ASSUME ActivationInv, pc \in {"restart", "tryrestart", "commit"} \/ Keeps,
         NEW n \in Names, n = op.name, NEW p, p = op.want
  PROVE  /\ p \in Payloads /\ Covers(n, p) /\ InstalledPayload(p) /\ Untouched(p) /\ Loaded(p)
<1> USE DEF ActivationInv, EngineInv, OwnershipInv
<1>1. op.kind = "apply" /\ pc # "idle"
  BY DEF Keeps, StepsConsistent, ApplyOnly
<1>2. p \in Payloads /\ p.restart \cup p.tryRestart \subseteq op.units
  BY <1>1 DEF LocalsConsistent, OwnsActivated
<1>3. Covers(n, p)
  <2>1. CASE pc = "reserve"
    <3>1. record[n] = op.prior /\ op.prior.units = op.units /\ op.prior.revision = op.want
      BY <2>1 DEF Reserving, Keeps, Activates
    <3>2. op.prior.files = DOMAIN op.want.files
      BY <1>1, <1>2, <3>1, PayloadFacts DEF PriorCommitted
    <3> QED
      BY <1>2, <3>1, <3>2 DEF Covers
  <2>2. CASE pc \in Reserved
    BY <1>2, <2>2, ReservedSets DEF Covers
  <2> QED
    BY <1>1, <2>1, <2>2 DEF TypeOK, Steps, StepsConsistent, DeleteOnly, Reserved
<1>4. Untouched(p)
  BY KeepsNothing DEF Untouched
<1>5. InstalledPayload(p)
  <2>1. pc \notin DeleteOnly
    BY <1>1 DEF StepsConsistent
  <2>2. Keeps => op.changed = {} /\ (pc = "install" => todo = {})
    BY KeepsNothing
  <2> QED
    BY <1>1, <2>1, <2>2
       DEF WantedInstalled, InstalledPayload, ApplyOnly, DeleteOnly, TypeOK, Steps
<1>6. Loaded(p)
  BY DEF ActivationFollows
<1> QED
  BY <1>2, <1>3, <1>4, <1>5, <1>6
\* An apply that has nothing to activate is admitted on an activated deployment.
LEMMA AdmittedActivated ==
  ASSUME ActivationInv, Admit
  PROVE  ActivationFollows'
<1> USE DEF ActivationInv, EngineInv, OwnershipInv
<1>1. pc' = "reserve" /\ UNCHANGED <<record, loaded, run, drifted>>
  BY AdmitFrame
<1>2. CASE Keeps'
  <2>1. PICK n \in Names : n = op'.name /\ op'.prior = record[n]
    BY AdmittedPrior
  <2>2. op'.want \in Payloads /\ op'.want # NoRevision
    <3>1. LocalsConsistent'
      BY LocalsStep DEF Next
    <3> QED
      BY <1>2, <3>1, PayloadFacts DEF Keeps, LocalsConsistent
  <2>3. Committed(n) /\ record[n].revision = op'.want
    BY <1>2, <2>1, <2>2 DEF Keeps, Activates, Committed, FreeNamesEmpty, NoRecord
  <2>4. Loaded(op.want)'
    BY <1>1, <2>3 DEF CommittedLoaded, Loaded
  <2>5. RestartedUnder(op.want)' /\ RefreshedUnder(op.want)'
    BY <1>1, <2>3 DEF NothingOlderRuns, RestartedUnder, RefreshedUnder, UpToDate, Running
  <2> QED
    BY <1>1, <2>4, <2>5 DEF ActivationFollows
<1>3. CASE ~Keeps'
  BY <1>1, <1>3 DEF ActivationFollows
<1> QED
  BY <1>2, <1>3

\* Which calls come before and after the restarts.
LEMMA ActivationFrame ==
  ASSUME Next, pc # "idle", pc' # "idle"
  PROVE  /\ pc' = "restart" => (pc = "reload" /\ Activates(op) /\ op.kind # "delete")
                               \/ pc = "restart"
         /\ pc' = "tryrestart" => Restart \/ pc = "tryrestart"
         /\ pc' = "commit" => \/ pc = "reload" /\ ~Activates(op) /\ op.kind # "delete"
                              \/ TryRestart \/ pc = "commit"
         /\ pc' = pc /\ pc \in {"restart", "tryrestart", "commit"} => Environment
<1>1. CASE Admit
  BY <1>1, AdmitFrame
<1>2. CASE Call
  BY <1>2 DEF Call, Reserve, QueryRetired, DisableRetired, StopRetired, RemoveFile, RemovalDone,
     InstallFile, InstallDone, RecoverEnablement, DisablePrevious, Enable, Reload, Restart,
     TryRestart, Commit, Forget, SyncRecord, Goto, GotoRemoval, End
<1>3. CASE Fail
  BY <1>3 DEF Fail, End
<1>4. CASE Environment
  BY <1>4 DEF Environment, Drift, ForeignReload, UpgradePodman, StartUnit, StopUnit, Relink
<1> QED
  BY <1>1, <1>2, <1>3, <1>4 DEF Next

\* An apply that keeps everything, or is done, leaves the instances to the others.
LEMMA RunKept ==
  ASSUME ActivationInv, Next, pc = "commit" \/ Keeps, NEW u \in Units
  PROVE  Adrift(u)
<1> USE DEF ActivationInv, EngineInv, OwnershipInv
<1>1. Keeps => op.present = {} /\ pc \notin {"restart", "tryrestart"}
  BY KeepsNothing DEF ActivationFollows, Keeps
<1> QED
  BY <1>1, RunFrame, JobsOfCalls

\* No unit of the restart list goes on as it was before the restart, and what starts
\* after it reads the wanted payload.
LEMMA RestartedStep ==
  ASSUME ActivationInv, Next, pc # "idle", pc' # "idle", NEW n \in Names, n = op.name,
         NEW p, p = op.want, pc' \in {"tryrestart", "commit"} \/ Keeps', Keeps' <=> Keeps,
         NEW u \in p.restart
  PROVE  UpToDate(u, p)'
<1> USE DEF ActivationInv, EngineInv, OwnershipInv
<1>1. CASE Restart
  <2>1. Restarted(op.want.restart, op.want) /\ drifted' = drifted
    BY <1>1 DEF Restart, End
  <2>2. p \in Payloads /\ Covers(n, p) /\ InstalledPayload(p) /\ Loaded(p)
    BY <1>1, WantedCovered DEF Restart
  <2>3. u \in Units /\ u \in record[n].units
    BY <2>2, PayloadFacts DEF Covers
  <2>4. run'[u] = Started(u, p) \/ run'[u] = Stopped
    BY <2>1, <2>3, JobEffects
  <2>5. \A f \in DOMAIN p.files :
          f \in drifted \/ (f \in DOMAIN Reads(u) /\ Reads(u)[f] = p.files[f])
    BY <2>2, <2>3, StartedFresh DEF Covers
  <2> QED
    BY <2>1, <2>4, <2>5 DEF Running, UpToDate, Started
<1>2. CASE pc \in {"tryrestart", "commit"} \/ Keeps
  <2>1. p \in Payloads /\ Covers(n, p) /\ InstalledPayload(p) /\ Loaded(p) /\ Untouched(p)
    BY <1>2, WantedCovered
  <2>2. u \in Units /\ UpToDate(u, p)
    BY <1>2, <2>1, PayloadFacts DEF ActivationFollows, RestartedUnder
  <2>3. Adrift(u) \/ (pc = "tryrestart" /\ run'[u] = Started(u, p) /\ drifted' = drifted)
    <3>1. pc = "tryrestart" /\ (Call \/ Fail) => drifted' = drifted
      BY DEF Call, Fail, Reserve, QueryRetired, DisableRetired, StopRetired, RemoveFile,
         RemovalDone, InstallFile, InstallDone, RecoverEnablement, DisablePrevious, Enable,
         Reload, Restart, TryRestart, Commit, Forget, SyncRecord
    <3> QED
      BY <1>2, <2>2, <3>1, RunKept, RunFrame, JobsOfCalls
  <2>4. \A f \in DOMAIN p.files :
          f \in drifted \/ (f \in DOMAIN Reads(u) /\ Reads(u)[f] = p.files[f])
    BY <2>1, StartedFresh DEF Covers
  <2>5. CASE Adrift(u)
    BY <2>1, <2>2, <2>5, UpToDateStep
  <2>6. CASE run'[u] = Started(u, p) /\ drifted' = drifted
    BY <2>4, <2>6 DEF UpToDate, Started
  <2> QED
    BY <2>3, <2>5, <2>6
<1>3. Restart \/ pc \in {"tryrestart", "commit"} \/ Keeps
  BY ActivationFrame DEF Keeps, TypeOK, OpType, TryRestart
<1> QED
  BY <1>1, <1>2, <1>3

\* The units that run of the other list are refreshed, and start refreshed after that.
LEMMA RefreshedStep ==
  ASSUME ActivationInv, Next, pc # "idle", pc' # "idle", NEW n \in Names, n = op.name,
         NEW p, p = op.want, pc' = "commit" \/ Keeps', Keeps' <=> Keeps,
         NEW u \in p.tryRestart
  PROVE  UpToDate(u, p)'
<1> USE DEF ActivationInv, EngineInv, OwnershipInv
<1>1. CASE TryRestart
  <2>1. Restarted({v \in op.want.tryRestart : Running(v)}, op.want) /\ drifted' = drifted
    BY <1>1 DEF TryRestart, End
  <2>2. p \in Payloads /\ Covers(n, p) /\ InstalledPayload(p) /\ Loaded(p)
    BY <1>1, WantedCovered DEF TryRestart
  <2>3. u \in Units /\ u \in record[n].units
    BY <2>2, PayloadFacts DEF Covers
  <2>4. run'[u] \in {Stopped, Started(u, p), Started(u, Elsewhere)}
    BY <2>1, <2>3, JobEffects DEF Running, Adrift
  <2>5. \A f \in DOMAIN p.files :
          f \in drifted \/ (f \in DOMAIN Reads(u) /\ Reads(u)[f] = p.files[f])
    BY <2>2, <2>3, StartedFresh DEF Covers
  <2> QED
    BY <2>1, <2>4, <2>5 DEF Running, UpToDate, Started
<1>2. CASE pc = "commit" \/ Keeps
  <2>1. p \in Payloads /\ Covers(n, p) /\ InstalledPayload(p) /\ Loaded(p) /\ Untouched(p)
    BY <1>2, WantedCovered
  <2>2. u \in Units
    BY <2>1, PayloadFacts
  <2>3. UpToDate(u, p)
    BY <1>2 DEF ActivationFollows, RefreshedUnder
  <2> QED
    BY <1>2, <2>1, <2>2, <2>3, RunKept, UpToDateStep
<1>3. TryRestart \/ pc = "commit" \/ Keeps
  BY ActivationFrame DEF Keeps, TypeOK, OpType
<1> QED
  BY <1>1, <1>2, <1>3

LEMMA WantedLoadedStep ==
  ASSUME ActivationInv, Next, pc # "idle", pc' # "idle", NEW n \in Names, n = op.name,
         NEW p, p = op.want, pc' \in {"restart", "tryrestart", "commit"} \/ Keeps',
         Keeps' <=> Keeps
  PROVE  Loaded(p)'
<1> USE DEF ActivationInv, EngineInv, OwnershipInv
<1>1. CASE pc \in {"restart", "tryrestart", "commit"} \/ Keeps
  BY <1>1, WantedCovered, LoadedStep
<1>2. CASE Reload
  <2>1. \A f \in DOMAIN p.files : InPlace(f, p.files[f])
    BY <1>2 DEF Reload, WantedInstalled, ApplyOnly
  <2> QED
    BY <1>2, <2>1 DEF Reload, InPlace, Loaded, ReloadedManager, Definitions
<1>3. \/ pc \in {"restart", "tryrestart", "commit"} \/ Keeps
      \/ Reload
  <2>1. pc = "reload" \/ pc \in {"restart", "tryrestart", "commit"} \/ Keeps
    BY ActivationFrame DEF Restart, TryRestart
  <2>2. CASE pc = "reload" /\ pc' # pc
    BY <2>2, AdmitFrame DEF Next, Environment, Drift, ForeignReload, UpgradePodman, StartUnit, StopUnit, Relink,
       Call, Fail, End, Reserve, QueryRetired, DisableRetired, StopRetired,
       RemoveFile, RemovalDone, InstallFile, InstallDone, RecoverEnablement,
       DisablePrevious, Enable, Restart, TryRestart, Commit, Forget, SyncRecord
  <2> QED
    BY <2>1, <2>2
<1> QED
  BY <1>1, <1>2, <1>3

LEMMA ActivationFollowsStep ==
  ASSUME ActivationInv, Next
  PROVE  ActivationFollows'
<1> USE DEF ActivationInv, EngineInv, OwnershipInv
<1>1. CASE pc' = "idle"
  BY <1>1 DEF ActivationFollows, Keeps
<1>2. CASE pc = "idle" /\ ~Admit
  BY <1>1, <1>2, IdleFrame
<1>3. CASE pc # "idle" /\ pc' # "idle"
  <2>1. PICK n \in Names : n = op.name
    BY <1>3 DEF TypeOK, OpType
  <2>2. PICK p : p = op.want
    OBVIOUS
  <2>3. op'.want = p /\ op'.kind = op.kind /\ Activates(op)' = Activates(op)
    BY <1>3, <2>2, OperationKept, OperationSetsKept
  <2>4. Keeps' <=> Keeps
    BY <1>3, <2>3 DEF Keeps
  <2>5. pc' \in {"restart", "tryrestart"} => Activates(op)'
    BY <1>3, <2>3, ActivationFrame DEF ActivationFollows, Restart
  <2>6. pc' \in {"restart", "tryrestart", "commit"} \/ Keeps' => Loaded(op.want)'
    BY <1>3, <2>1, <2>2, <2>3, <2>4, WantedLoadedStep DEF Loaded
  <2>7. pc' \in {"tryrestart", "commit"} \/ Keeps' => RestartedUnder(op.want)'
    BY <1>3, <2>1, <2>2, <2>3, <2>4, RestartedStep DEF RestartedUnder, UpToDate
  <2>8. pc' = "commit" \/ Keeps' => RefreshedUnder(op.want)'
    BY <1>3, <2>1, <2>2, <2>3, <2>4, RefreshedStep DEF RefreshedUnder, UpToDate
  <2> QED
    BY <2>5, <2>6, <2>7, <2>8 DEF ActivationFollows
<1> QED
  BY <1>1, <1>2, <1>3, AdmittedActivated

-----------------------------------------------------------------------------

LEMMA ActivationInit ==
  ASSUME Init
  PROVE  ActivationInv
<1>1. pc = "idle" /\ \A n \in Names : record[n] = NoRecord
  BY DEF Init
<1> QED
  BY <1>1, EngineInit DEF ActivationInv, CommittedLoaded, ActivationFollows, Keeps,
     NothingOlderRuns, Committed, Held, NoRecord

LEMMA ActivationStutter ==
  ASSUME ActivationInv, Still
  PROVE  ActivationInv'
<1>1. EngineInv'
  BY EngineStutter DEF ActivationInv
<1>2. CommittedLoaded' /\ NothingOlderRuns'
  BY DEF ActivationInv, Still, hostVars, CommittedLoaded, NothingOlderRuns, Committed, Held,
     Loaded, UpToDate, Running
<1>3. ActivationFollows'
  BY DEF ActivationInv, Still, hostVars, ActivationFollows, Keeps, Activates, Resumes, Loaded,
     RestartedUnder, RefreshedUnder, UpToDate, Running
<1> QED
  BY <1>1, <1>2, <1>3 DEF ActivationInv

LEMMA ActivationStep ==
  ASSUME ActivationInv, Next
  PROVE  ActivationInv'
BY EngineStep, CommittedLoadedStep, ActivationFollowsStep, NothingOlderStep
   DEF ActivationInv

\* The invariant behind NothingOlderRuns: an apply that skips the restarts because
\* nothing changed (apply.go:119) leaves nothing older running, since the apply that
\* committed replaced it and whatever started since then reads what is loaded.
THEOREM ActivationInvariant == Spec => []ActivationInv
<1>1. ActivationInv => TypeOK
  BY DEF ActivationInv, EngineInv, OwnershipInv
<1>2. ActivationInv /\ [Next]_vars => ActivationInv'
  BY <1>1, StutterIsStill, ActivationStutter, ActivationStep
<1> QED
  BY ActivationInit, <1>2, PTL DEF Spec

\* Whatever failed before, whoever reloads the manager or starts and stops units: of a
\* committed deployment's two restart lists nothing runs that the engine started under
\* another payload, and nothing that reads an older definition or file. (A unit of the
\* lists may well be stopped.)
THEOREM NothingOlderStaysRunning == Spec => []NothingOlderRuns
<1>1. ActivationInv => NothingOlderRuns
  BY DEF ActivationInv
<1> QED
  BY ActivationInvariant, <1>1, PTL

-----------------------------------------------------------------------------
(* Started units, where units stay with the files that define them *)

\* A home holding the content of a payload defines its unit, for every generator.
LEMMA HomeDefines ==
  ASSUME OwnershipInv, NEW u \in Units, NEW f \in Files, Home(u, f),
         \E p \in Payloads : f \in DOMAIN p.files /\ disk[f] = p.files[f]
  PROVE  u \in ReloadedManager.units
<1>1. PICK p \in Payloads : f \in DOMAIN p.files /\ disk[f] = p.files[f]
  OBVIOUS
<1>2. disk[f] \in Contents /\ f \in DOMAIN disk /\ generator \in Generators
  BY <1>1, PayloadFacts DEF OwnershipInv, TypeOK, Trees
<1>3. (u \in NativeUnits /\ NativeFile[u] = f) \/ u \in generator[f][disk[f]]
  BY <1>1, <1>2 DEF Home
<1>4. u \in UnitsOf(disk, generator)
  BY <1>2, <1>3 DEF UnitsOf, Generated
<1> QED
  BY <1>4 DEF ReloadedManager

\* The engine starts units of its payload, at two calls, if the manager knows them.
LEMMA EngineStarts ==
  ASSUME OwnershipInv, Next, NEW u \in Units, StartedByEngine(u)'
  PROVE  \/ StartedByEngine(u) /\ run'[u] = run[u] /\ ~(pc = "stop" /\ StopRetired /\ u \in op.present)
         \/ /\ pc \in {"restart", "tryrestart"} /\ u \in op.want.restart \cup op.want.tryRestart
            /\ u \in loaded.units /\ UNCHANGED <<record, disk, loaded, drifted>>
<1> USE DEF OwnershipInv
<1>1. CASE Adrift(u)
  <2>1. run'[u] = run[u]
    BY <1>1 DEF Adrift, StartedByEngine, Running, Started
  <2>2. StopRetired /\ u \in op.present => run'[u] = Stopped
    BY JobEffects DEF StopRetired
  <2> QED
    BY <2>1, <2>2 DEF StartedByEngine, Running
<1>2. CASE /\ Call \/ Fail
           /\ pc \in {"restart", "tryrestart"}
           /\ u \in (op.want.restart \cup op.want.tryRestart) \cap loaded.units
  BY <1>2 DEF Call, Reserve, QueryRetired, DisableRetired, StopRetired, RemoveFile, RemovalDone,
     InstallFile, InstallDone, RecoverEnablement, DisablePrevious, Enable, Reload, Restart,
     TryRestart, Commit, Forget, SyncRecord, Fail
<1>3. CASE run'[u] = Stopped
  BY <1>3 DEF StartedByEngine, Running
<1> QED
  BY <1>1, <1>2, <1>3, RunFrame, JobsOfCalls

\* Others change nothing at a home.
LEMMA HomeLeftAlone ==
  ASSUME OwnershipInv, Environment, NEW u \in Units, NEW f \in Files, Home(u, f)
  PROVE  disk'[f] = disk[f]
<1>1. ASSUME NEW g \in Files, Drift(g)
      PROVE  disk'[f] = disk[f]
  <2>1. f # g /\ f \notin Parents[g]
    BY <1>1 DEF Drift, Home
  <2> QED
    BY <1>1, <2>1 DEF Drift, Without, With, MadeAbove, OwnershipInv, TypeOK, Trees
<1> QED
  BY <1>1 DEF Environment, ForeignReload, UpgradePodman, StartUnit, StopUnit, Relink

LEMMA HomesUntouchedStep ==
  ASSUME OwnershipInv, HomesUntouched, Next
  PROVE  HomesUntouched'
<1> SUFFICES ASSUME NEW u \in Units, NEW f \in drifted', f \notin drifted, Home(u, f)
             PROVE  FALSE
  BY DEF HomesUntouched
<1>1. Environment /\ f \in Files /\ disk'[f] # disk[f]
  BY AdmitFrame DEF Next, Call, Environment, Reserve, QueryRetired, DisableRetired, StopRetired,
     RemoveFile, RemovalDone, InstallFile, InstallDone, RecoverEnablement, DisablePrevious,
     Enable, Reload, Restart, TryRestart, Commit, Forget, SyncRecord, Fail, Drift,
     ForeignReload, UpgradePodman, StartUnit, StopUnit, Relink, hostVars
<1> QED
  BY <1>1, HomeLeftAlone

LEMMA UnitsDiscoveredStep ==
  ASSUME OwnershipInv, UnitsDiscovered, Next
  PROVE  UnitsDiscovered'
<1> USE DEF OwnershipInv
<1>1. ASSUME NEW n \in Names, NEW id \in Owners, NEW p \in Payloads, AdmitApply(n, id, p)
      PROVE  op'.want = p /\ op'.units = Discover(p, generator) /\ generator \in Generators
  BY <1>1 DEF AdmitApply, TypeOK
<1>2. ASSUME NEW n \in Names, NEW id \in Owners, AdmitDelete(n, id)
      PROVE  op'.kind # "apply"
  BY <1>2 DEF AdmitDelete
<1>3. CASE Admit
  BY <1>1, <1>2, <1>3 DEF Admit, UnitsDiscovered
<1>4. CASE pc' = "idle"
  BY <1>4 DEF UnitsDiscovered
<1>5. CASE pc # "idle" /\ pc' # "idle"
  BY <1>5, OperationKept DEF UnitsDiscovered
<1> QED
  BY <1>3, <1>4, <1>5, IdleFrame

\* A started unit of the operation's record that it keeps has its home in the payload.
LEMMA HomeWanted ==
  ASSUME SteadyInv, pc # "idle", NEW u \in op.units, NEW f \in Files, Home(u, f)
  PROVE  op.kind = "apply" /\ op.want \in Payloads /\ f \in DOMAIN op.want.files
<1> USE DEF SteadyInv, EngineInv, OwnershipInv
<1>1. op.kind = "apply" /\ op.want \in Payloads
  BY DEF LocalsConsistent, TypeOK, OpType
<1> QED
  BY <1>1 DEF UnitsDiscovered, Home

\* A started unit has a home, and there it is accounted for.
LEMMA StartedHasHome ==
  ASSUME SteadyUnits, SteadyInv, NEW u \in Units, StartedByEngine(u)
  PROVE  \E f \in Files : Home(u, f) /\ Accounted(u, f)
BY DEF SteadyUnits, SteadyInv, StartedAccounted

\* A record that lists a started unit with its home keeps both until it is stopped.
LEMMA StaysListed ==
  ASSUME SteadyInv, Next, NEW u \in Units, StartedByEngine(u), NEW f \in Files, Home(u, f),
         NEW n \in Names, u \in record[n].units, f \in record[n].files
  PROVE  u \in record'[n].units /\ f \in record'[n].files
<1> USE DEF SteadyInv, EngineInv, OwnershipInv
<1>1. CASE record'[n] = record[n]
  BY <1>1
<1>2. CASE record'[n] # record[n]
  <2>1. op.name = n /\ (Reserve \/ Commit \/ Forget)
    BY <1>2, OthersKept, RecordFrame
  <2>2. CASE Reserve
    <3>1. record'[n] = Reservation(op) /\ record[n] = op.prior
      BY <2>1, <2>2 DEF Reserve, Reserving, TypeOK
    <3> QED
      BY <3>1 DEF Reservation, OwnedFiles, OwnedUnits
  <2>3. CASE Commit \/ Forget
    <3>1. u \in OwnedUnits(op) /\ pc \in {"commit", "forget"}
      BY <2>1, <2>3, ReservedSets DEF Commit, Forget, Reserved
    <3>2. u \in op.units
      BY <3>1 DEF RetiredStopped, RetiredUnits
    <3>3. op.kind = "apply" /\ f \in DOMAIN op.want.files
      BY <3>1, <3>2, HomeWanted
    <3>4. pc = "commit" /\ record'[n] = Commitment(op)
      BY <2>1, <2>3, <3>1, <3>3 DEF StepsConsistent, DeleteOnly, Commit, Forget, TypeOK
    <3> QED
      BY <3>2, <3>3, <3>4 DEF Commitment
  <2> QED
    BY <2>1, <2>2, <2>3
<1> QED
  BY <1>1, <1>2

\* The home of a started unit keeps the content of a payload.
LEMMA HomeStaysInPlace ==
  ASSUME SteadyInv, Next, NEW u \in Units, StartedByEngine(u), NEW f \in Files, Home(u, f),
         Accounted(u, f)
  PROVE  \E p \in Payloads : f \in DOMAIN p.files /\ disk'[f] = p.files[f]
<1> USE DEF SteadyInv, EngineInv, OwnershipInv
<1>1. PICK n \in Names : u \in record[n].units /\ f \in record[n].files
  BY DEF Accounted
<1>2. PICK p \in Payloads : f \in DOMAIN p.files /\ disk[f] = p.files[f]
  BY DEF Accounted
<1>3. disk[f] \in Contents /\ disk[f] # Absent /\ disk[f] # Directory
  BY <1>2, PayloadFacts, ValueAssumption
<1>4. ASSUME NEW g \in Files, Installable(disk, g)
      PROVE  f \notin Parents[g]
  BY <1>3, <1>4 DEF Installable, PathOK
<1>5. ASSUME NEW g \in Files, RemoveFile(g)
      PROVE  disk'[f] = disk[f]
  <2>1. CASE g = f /\ f \in todo
    <3>1. f \in RetiredFiles(op) /\ pc = "remove"
      BY <1>5, <2>1, LoopFiles DEF RemoveFile
    <3>2. op.name = n
      BY <1>1, <3>1, OutOfReach DEF Reserved, RetiredFiles, OwnedFiles
    <3>3. u \in OwnedUnits(op)
      BY <1>1, <3>1, <3>2, ReservedSets DEF Reserved
    <3>4. u \notin op.units
      BY <3>1, HomeWanted DEF RetiredFiles
    <3> QED
      BY <3>1, <3>3, <3>4 DEF RetiredStopped, RetiredUnits
  <2>2. CASE ~(g = f /\ f \in todo)
    BY <1>5, <2>2 DEF RemoveFile, Without, TypeOK, Trees
  <2> QED
    BY <2>1, <2>2
<1>6. ASSUME NEW g \in Files, InstallFile(g)
      PROVE  \E q \in Payloads : f \in DOMAIN q.files /\ disk'[f] = q.files[f]
  <2>1. op.want \in Payloads /\ g \in DOMAIN op.want.files
    BY <1>6, LoopFiles DEF InstallFile
  <2>2. CASE Installable(disk, g)
    <3>1. disk' = With(disk, g, op.want.files[g])
      BY <1>6, <2>2 DEF InstallFile
    <3>2. disk'[f] = IF f = g THEN op.want.files[f] ELSE disk[f]
      BY <1>4, <2>2, <3>1 DEF With, MadeAbove
    <3> QED
      BY <1>2, <2>1, <3>2
  <2>3. CASE ~Installable(disk, g)
    BY <1>2, <1>6, <2>3 DEF InstallFile
  <2> QED
    BY <2>2, <2>3
<1>7. CASE Fail
  BY <1>2, <1>4, <1>7 DEF Fail, MadeAbove, TypeOK
<1>8. CASE Environment
  BY <1>2, <1>8, HomeLeftAlone
<1>9. CASE Admit
  BY <1>2, <1>9, AdmitFrame
<1> QED
  BY <1>2, <1>5, <1>6, <1>7, <1>8, <1>9 DEF Next, Call, Reserve, QueryRetired, DisableRetired,
     StopRetired, RemovalDone, InstallDone, RecoverEnablement, DisablePrevious, Enable, Reload,
     Restart, TryRestart, Commit, Forget, SyncRecord, hostVars

\* What the engine starts is in its record, its home is in place and loaded.
LEMMA StartsAccounted ==
  ASSUME SteadyInv, NEW u \in Units, pc \in {"restart", "tryrestart"},
         u \in op.want.restart \cup op.want.tryRestart, u \in loaded.units,
         NEW f \in Files, Home(u, f)
  PROVE  Accounted(u, f)
<1> USE DEF SteadyInv, EngineInv, OwnershipInv
<1>1. op.kind = "apply" /\ op.name \in Names
  BY DEF StepsConsistent, ApplyOnly, TypeOK, OpType
<1>2. u \in op.units
  BY <1>1 DEF LocalsConsistent, OwnsActivated
<1>3. op.want \in Payloads /\ f \in DOMAIN op.want.files
  BY <1>2, HomeWanted
<1>4. u \in record[op.name].units /\ f \in record[op.name].files
  BY <1>2, <1>3, ReservedSets DEF Reserved
<1>5. disk[f] = op.want.files[f]
  BY <1>3 DEF WantedInstalled, ApplyOnly, InPlace, HomesUntouched
<1> QED
  BY <1>1, <1>3, <1>4, <1>5 DEF Accounted

LEMMA StartedAccountedStep ==
  ASSUME SteadyInv, Next
  PROVE  StartedAccounted'
<1> SUFFICES ASSUME NEW u \in Units, StartedByEngine(u)'
             PROVE  /\ \E p \in Payloads : u \in p.restart \cup p.tryRestart
                    /\ \A f \in Files : Home(u, f) => Accounted(u, f)'
  BY DEF StartedAccounted
<1>1. OwnershipInv
  BY DEF SteadyInv, EngineInv
<1>2. CASE StartedByEngine(u)
  <2>1. ASSUME NEW f \in Files, Home(u, f)
        PROVE  Accounted(u, f)'
    <3>1. Accounted(u, f)
      BY <1>2, <2>1 DEF SteadyInv, StartedAccounted
    <3>2. \E n \in Names : u \in record'[n].units /\ f \in record'[n].files
      BY <1>2, <2>1, <3>1, StaysListed DEF Accounted
    <3>3. \E p \in Payloads : f \in DOMAIN p.files /\ disk'[f] = p.files[f]
      BY <1>2, <2>1, <3>1, HomeStaysInPlace
    <3>4. u \in loaded'.units
      BY <1>1, <2>1, <3>1, HomeDefines, LoadedFrame DEF Accounted
    <3> QED
      BY <3>2, <3>3, <3>4 DEF Accounted
  <2> QED
    BY <1>2, <2>1 DEF SteadyInv, StartedAccounted
<1>3. CASE /\ pc \in {"restart", "tryrestart"} /\ u \in op.want.restart \cup op.want.tryRestart
           /\ u \in loaded.units /\ UNCHANGED <<record, disk, loaded, drifted>>
  <2>1. op.want \in Payloads
    BY <1>1, <1>3 DEF OwnershipInv, StepsConsistent, ApplyOnly, LocalsConsistent
  <2>2. ASSUME NEW f \in Files, Home(u, f)
        PROVE  Accounted(u, f)'
    <3>1. Accounted(u, f)
      BY <1>3, <2>2, StartsAccounted
    <3> QED
      BY <1>3, <3>1 DEF Accounted
  <2> QED
    BY <1>3, <2>1, <2>2
<1> QED
  BY <1>1, <1>2, <1>3, EngineStarts

\* removeUnits addresses the retired units that the manager knows, which are all that run.
LEMMA RetiredStoppedStep ==
  ASSUME SteadyUnits, SteadyInv, Next
  PROVE  RetiredStopped'
<1> USE DEF SteadyInv, EngineInv, OwnershipInv
<1> SUFFICES ASSUME pc' \notin {"idle", "reserve", "query"},
                    NEW u \in RetiredUnits(op)', StartedByEngine(u)', u \in Units
             PROVE  pc' \in {"disable", "stop"} /\ u \in op'.present
  <2>1. RetiredUnits(op)' \subseteq Units \/ pc' = "idle"
    <3>1. TypeOK'
      BY TypeStep
    <3> QED
      BY <3>1, OperationSets DEF TypeOK
  <2> QED
    BY <2>1 DEF RetiredStopped
<1>1. pc # "idle"
  BY IdleFrame, AdmitFrame
<1>2. u \in RetiredUnits(op)
  BY <1>1, OperationSetsKept
<1>3. StartedByEngine(u) /\ ~(pc = "stop" /\ StopRetired /\ u \in op.present)
  <2>1. u \notin op.units
    BY <1>2 DEF RetiredUnits
  <2>2. pc \in {"restart", "tryrestart"} => op.want.restart \cup op.want.tryRestart \subseteq op.units
    BY DEF StepsConsistent, ApplyOnly, LocalsConsistent, OwnsActivated
  <2> QED
    BY <2>1, <2>2, EngineStarts
<1>4. u \in loaded.units
  BY <1>3, StartedHasHome DEF Accounted
<1>5. CASE QueryRetired
  <2>1. op'.present = RetiredUnits(op) \cap loaded.units /\ pc' = "disable"
    BY <1>1, <1>5 DEF QueryRetired, TypeOK, OpType
  <2> QED
    BY <1>2, <1>4, <2>1
<1>6. CASE ~QueryRetired
  <2>1. op' = op
    BY <1>1, <1>6, LocalsFrame
  <2>2. pc \notin {"reserve", "query"}
    BY <1>1, <1>2, <1>6, AdmitFrame DEF Next, Call, Environment, Reserve, DisableRetired, StopRetired,
       RemoveFile, RemovalDone, InstallFile, InstallDone, RecoverEnablement, DisablePrevious,
       Enable, Reload, Restart, TryRestart, Commit, Forget, SyncRecord, Fail, Drift,
       ForeignReload, UpgradePodman, StartUnit, StopUnit, Relink, Goto, GotoRemoval, End
  <2>3. pc \in {"disable", "stop"} /\ u \in op.present
    BY <1>1, <1>2, <1>3, <2>2 DEF RetiredStopped
  <2>4. pc' \in {"disable", "stop"}
    BY <1>1, <1>3, <2>3, AdmitFrame DEF Next, Call, Environment, Reserve, QueryRetired, DisableRetired,
       RemoveFile, RemovalDone, InstallFile, InstallDone, RecoverEnablement, DisablePrevious,
       Enable, Reload, Restart, TryRestart, Commit, Forget, SyncRecord, Fail, Drift,
       ForeignReload, UpgradePodman, StartUnit, StopUnit, Relink, Goto, GotoRemoval, End, StopRetired
  <2> QED
    BY <2>1, <2>3, <2>4
<1> QED
  BY <1>5, <1>6

LEMMA SteadyInit ==
  ASSUME Init
  PROVE  SteadyInv
<1>1. \A u \in Units : ~Running(u)
  BY DEF Init, Running
<1>2. pc = "idle" /\ drifted = {}
  BY DEF Init
<1> QED
  BY <1>1, <1>2, EngineInit DEF SteadyInv, StartedAccounted, StartedByEngine, RetiredStopped,
     UnitsDiscovered, HomesUntouched

LEMMA SteadyStutter ==
  ASSUME SteadyInv, Still
  PROVE  SteadyInv'
<1>1. EngineInv'
  BY EngineStutter DEF SteadyInv
<1>2. StartedAccounted' /\ RetiredStopped'
  BY DEF SteadyInv, Still, hostVars, StartedAccounted, Accounted, StartedByEngine, Running,
     RetiredStopped, RetiredUnits, OwnedUnits
<1>3. UnitsDiscovered' /\ HomesUntouched'
  BY DEF SteadyInv, Still, hostVars, UnitsDiscovered, HomesUntouched
<1> QED
  BY <1>1, <1>2, <1>3 DEF SteadyInv

\* As long as every unit stays with a file that defines it, removeUnits stops what the
\* engine started before any record gives it up. (Without the hypothesis it does not:
\* the manager may have forgotten a unit that runs.)
THEOREM StartedStayRecorded ==
  ASSUME SteadyUnits
  PROVE  Spec => []StartedUnitsRecorded
<1>1. SteadyInv => TypeOK
  BY DEF SteadyInv, EngineInv, OwnershipInv
<1>2. SteadyInv /\ Next => SteadyInv'
  <2> SUFFICES ASSUME SteadyInv, Next
               PROVE  SteadyInv'
    OBVIOUS
  <2>1. EngineInv' /\ HomesUntouched' /\ UnitsDiscovered'
    BY EngineStep, HomesUntouchedStep, UnitsDiscoveredStep DEF SteadyInv, EngineInv
  <2> QED
    BY <2>1, StartedAccountedStep, RetiredStoppedStep DEF SteadyInv
<1>3. SteadyInv /\ [Next]_vars => SteadyInv'
  BY <1>1, <1>2, StutterIsStill, SteadyStutter
<1>4. SteadyInv => StartedUnitsRecorded
  <2> SUFFICES ASSUME SteadyInv, NEW u \in Units, StartedByEngine(u)
               PROVE  \E n \in Names : u \in record[n].units
    BY DEF StartedUnitsRecorded, StartedByEngine
  <2> QED
    BY StartedHasHome DEF Accounted
<1> QED
  BY SteadyInit, <1>3, <1>4, PTL DEF Spec
=============================================================================
