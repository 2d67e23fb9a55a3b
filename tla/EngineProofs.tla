---------------------------- MODULE EngineProofs ----------------------------
(***************************************************************************)
(* Proofs about Engine for every set of names, owners, files, units,       *)
(* payloads and generators, and every bound on the faults.                 *)
(***************************************************************************)
EXTENDS EngineInvariant, TLAPS

-----------------------------------------------------------------------------
(* Payloads and the sets an operation is about *)

LEMMA PayloadFacts ==
  ASSUME NEW p \in Payloads
  PROVE  /\ DOMAIN p.files \subseteq Files
         /\ \A f \in DOMAIN p.files : p.files[f] \in Contents \ {Foreign}
         /\ p.restart \subseteq Units
         /\ p.tryRestart \subseteq Units
         /\ p.enable \subseteq Units
         /\ p # NoRevision
<1>1. p \in PayloadType
  BY ValueAssumption
<1>2. PICK S \in SUBSET Files : p.files \in [S -> Contents \ {Foreign}]
  BY <1>1 DEF PayloadType
<1> QED
  BY <1>1, <1>2, ValueAssumption DEF PayloadType

LEMMA DiscoverUnits ==
  ASSUME NEW p \in Payloads, NEW g \in Generators
  PROVE  Discover(p, g) \subseteq Units
<1>1. Native(DOMAIN p.files) \subseteq Units
  BY UnitAssumption DEF Native
<1>2. ASSUME NEW f \in DOMAIN p.files
      PROVE  g[f][p.files[f]] \subseteq Units
  BY PayloadFacts, UnitAssumption
<1> QED
  BY <1>1, <1>2 DEF Discover, Generated

LEMMA NoPayloadFacts ==
  /\ DOMAIN NoPayload.files = {}
  /\ NoPayload.restart = {} /\ NoPayload.tryRestart = {} /\ NoPayload.enable = {}
BY DEF NoPayload

LEMMA OperationSets ==
  ASSUME NEW o \in OpType
  PROVE  /\ DOMAIN o.want.files \subseteq Files
         /\ o.want.enable \subseteq Units
         /\ OwnedFiles(o) \subseteq Files
         /\ OwnedUnits(o) \subseteq Units
         /\ RetiredFiles(o) \subseteq Files
         /\ RetiredUnits(o) \subseteq OwnedUnits(o)
         /\ Reservation(o) \in RecordType
<1>1. DOMAIN o.want.files \subseteq Files /\ o.want.enable \subseteq Units
  BY PayloadFacts, NoPayloadFacts DEF OpType
<1>2. o.prior \in RecordType /\ o.units \subseteq Units /\ o.id \in Owners
  BY DEF OpType
<1>3. o.prior.files \subseteq Files /\ o.prior.units \subseteq Units
        /\ o.prior.enabled \subseteq Units
  BY <1>2 DEF RecordType
<1> QED
  BY <1>1, <1>2, <1>3
     DEF OwnedFiles, OwnedUnits, RetiredFiles, RetiredUnits, Reservation, RecordType, Revisions

-----------------------------------------------------------------------------
(* The types of what the manager does *)

LEMMA StartedType ==
  ASSUME TypeOK, NEW u \in Units, NEW under \in Payloads \cup {Elsewhere}
  PROVE  Started(u, under) \in Instances
<1> DEFINE owned == UNION {record[n].files : n \in {m \in Names : u \in record[m].units}}
<1>1. owned \subseteq Files
  BY DEF TypeOK, RecordType
<1>2. \A f \in owned : (IF f \in Sources THEN loaded.tree[f] ELSE disk[f]) \in Nodes
  BY <1>1 DEF TypeOK, Trees
<1>3. Reads(u) \in [owned -> Nodes]
  BY <1>2 DEF Reads
<1> QED
  BY <1>1, <1>3 DEF Started, Instances

LEMMA RunTypes ==
  ASSUME TypeOK, NEW S \in SUBSET Units, NEW under \in Payloads \cup {Elsewhere},
         Restarted(S, under) \/ Disrupted(S, under) \/ Halted(S)
  PROVE  run' \in [Units -> RunType]
<1>1. \A u \in Units, other \in {under, Elsewhere} : Started(u, other) \in RunType
  BY StartedType DEF RunType
<1>2. Stopped \in RunType /\ \A u \in Units : run[u] \in RunType
  BY DEF TypeOK, RunType
<1>3. \A up, down, pulled :
        /\ Settled(up, down, pulled, under) \in [Units -> RunType]
        /\ Settled(up, down, pulled, Elsewhere) \in [Units -> RunType]
  BY <1>1, <1>2 DEF Settled
<1>4. ASSUME NEW up, JobsRun(up, S, under)
      PROVE  run' \in [Units -> RunType]
  BY <1>3, <1>4 DEF JobsRun
<1>5. CASE Halted(S)
  BY <1>3, <1>5 DEF Halted
<1> QED
  BY <1>4, <1>5 DEF Restarted, Disrupted

LEMMA ManagerType ==
  ASSUME TypeOK
  PROVE  ReloadedManager \in [tree : [Sources -> Nodes], units : SUBSET Units, links : SUBSET Units]
<1>1. Sources \subseteq Files
  BY UnitAssumption DEF Sources
<1>2. Definitions(disk) \in [Sources -> Nodes]
  BY <1>1 DEF Definitions, TypeOK, Trees
<1>3. Generated(disk, generator) \subseteq Units
  <2>1. ASSUME NEW f \in DOMAIN disk, disk[f] \in Contents
        PROVE  generator[f][disk[f]] \subseteq Units
    BY <2>1, UnitAssumption DEF TypeOK, Trees
  <2> QED
    BY <2>1 DEF Generated
<1>4. UnitsOf(disk, generator) \subseteq Units
  BY <1>3, UnitAssumption DEF UnitsOf
<1> QED
  BY <1>2, <1>4 DEF ReloadedManager, TypeOK

LEMMA TreeTypes ==
  ASSUME NEW tree \in Trees, NEW f \in Files, NEW content \in Contents
  PROVE  /\ Without(tree, f) \in Trees
         /\ MadeAbove(tree, f) \in Trees
         /\ With(tree, f, content) \in Trees
BY DEF Without, MadeAbove, With, Trees, Nodes

-----------------------------------------------------------------------------
(* Type correctness is preserved *)

LEMMA TypeStep ==
  ASSUME OwnershipInv, Next
  PROVE  TypeOK'
<1> USE DEF OwnershipInv
<1>op. pc # "idle" => op \in OpType /\ op.name \in Names
  BY DEF TypeOK, OpType
<1>sets. pc # "idle" => /\ DOMAIN op.want.files \subseteq Files
                        /\ op.want.enable \subseteq Units
                        /\ RetiredFiles(op) \subseteq Files
                        /\ Reservation(op) \in RecordType
  BY <1>op, OperationSets
<1>pay. pc # "idle" /\ op.kind = "apply" =>
          /\ op.want \in Payloads
          /\ op.want.restart \subseteq Units
          /\ op.want.tryRestart \subseteq Units
          /\ \A f \in DOMAIN op.want.files : op.want.files[f] \in Contents
  BY PayloadFacts DEF LocalsConsistent
<1>1. ASSUME NEW n \in Names, NEW id \in Owners, NEW p \in Payloads, AdmitApply(n, id, p)
      PROVE  TypeOK'
  <2>1. Discover(p, generator) \subseteq Units
    BY DiscoverUnits DEF TypeOK
  <2>2. Differing(disk, p) \subseteq Files
    BY PayloadFacts DEF Differing
  <2>3. op' \in OpType
    BY <1>1, <2>1, <2>2 DEF AdmitApply, OpType, TypeOK
  <2> QED
    BY <1>1, <2>3 DEF AdmitApply, TypeOK, hostVars, Steps
<1>2. ASSUME NEW n \in Names, NEW id \in Owners, AdmitDelete(n, id)
      PROVE  TypeOK'
  <2>1. op' \in OpType
    BY <1>2 DEF AdmitDelete, OpType, TypeOK
  <2> QED
    BY <1>2, <2>1 DEF AdmitDelete, TypeOK, hostVars, Steps
<1>3. CASE Reserve
  BY <1>3, <1>op, <1>sets DEF Reserve, TypeOK, hostVars, Steps, Goto, GotoRemoval
<1>4. CASE QueryRetired
  BY <1>4, <1>op DEF QueryRetired, TypeOK, OpType, hostVars, Steps
<1>5. CASE DisableRetired
  BY <1>5, <1>op, <1>sets DEF DisableRetired, Unlinked, TypeOK, Steps, Goto, GotoRemoval
<1>6. CASE StopRetired
  <2>1. run' \in [Units -> RunType]
    BY <1>6, <1>op, RunTypes DEF StopRetired, OpType
  <2> QED
    BY <1>6, <1>op, <1>sets, <2>1 DEF StopRetired, TypeOK, Steps, GotoRemoval
<1>7. ASSUME NEW f \in Files, RemoveFile(f)
      PROVE  TypeOK'
  <2>1. Without(disk, f) \in Trees
    BY DEF Without, TypeOK, Trees, Nodes
  <2> QED
    BY <1>7, <2>1, <1>op DEF RemoveFile, TypeOK, Steps, End
<1>8. ASSUME NEW f \in Files, InstallFile(f)
      PROVE  TypeOK'
  <2>1. op.want.files[f] \in Contents
    BY <1>8, <1>pay DEF InstallFile, StepsConsistent, LocalsConsistent, ApplyOnly
  <2>2. With(disk, f, op.want.files[f]) \in Trees
    BY <2>1, TreeTypes DEF TypeOK
  <2> QED
    BY <1>8, <2>2, <1>op DEF InstallFile, TypeOK, Steps, End
<1>9. CASE RemovalDone
  BY <1>9, <1>op DEF RemovalDone, TypeOK, OpType, hostVars, Steps, Goto
<1>10. CASE InstallDone
  BY <1>10, <1>op DEF InstallDone, TypeOK, hostVars, Steps, Goto
<1>11. CASE RecoverEnablement
  BY <1>11, <1>op DEF RecoverEnablement, Unlinked, TypeOK, Steps, Goto
<1>12. CASE DisablePrevious
  BY <1>12, <1>op DEF DisablePrevious, Unlinked, TypeOK, Steps, Goto
<1>13. CASE Enable
  BY <1>13, <1>op, <1>sets DEF Enable, Linked, TypeOK, Steps, Goto, End
<1>14. CASE Reload
  BY <1>14, <1>op, ManagerType DEF Reload, TypeOK, Steps, Goto
<1>15. CASE Restart
  <2>1. op.kind = "apply"
    BY <1>15 DEF Restart, StepsConsistent, ApplyOnly
  <2>2. run' \in [Units -> RunType]
    BY <1>15, <2>1, <1>pay, RunTypes DEF Restart
  <2> QED
    BY <1>15, <2>2, <1>op DEF Restart, TypeOK, Steps, Goto, End
<1>16. CASE TryRestart
  <2>1. op.kind = "apply"
    BY <1>16 DEF TryRestart, StepsConsistent, ApplyOnly
  <2>2. run' \in [Units -> RunType]
    BY <1>16, <2>1, <1>pay, RunTypes DEF TryRestart
  <2> QED
    BY <1>16, <2>2, <1>op DEF TryRestart, TypeOK, Steps, Goto, End
<1>17. CASE Commit
  <2>1. op.kind = "apply"
    BY <1>17 DEF Commit, StepsConsistent, ApplyOnly
  <2>2. Commitment(op) \in RecordType
    BY <1>17, <2>1, <1>op, <1>sets, <1>pay
       DEF Commit, Commitment, RecordType, OpType, Revisions
  <2> QED
    BY <1>17, <2>2, <1>op DEF Commit, TypeOK, Steps, End, hostVars
<1>18. CASE Forget
  <2>1. NoRecord \in RecordType
    BY DEF NoRecord, RecordType, Revisions
  <2> QED
    BY <1>18, <2>1, <1>op DEF Forget, TypeOK, Steps, Goto, hostVars
<1>19. CASE SyncRecord
  BY <1>19, <1>op DEF SyncRecord, TypeOK, Steps, End, hostVars
<1>20. CASE Fail
  <2>1. faults' \in 0..MaxFaults /\ pc' \in Steps /\ op' = NoOp /\ pc' = "idle" /\ todo' = {}
    BY <1>20, EngineAssumption DEF Fail, End, TypeOK, Steps
  <2>2. run' \in [Units -> RunType] /\ links' \subseteq Units /\ relinked' \subseteq NativeUnits
    <3>1. CASE pc = "stop" /\ (\E units \in SUBSET op.present : Halted(units))
                 /\ UNCHANGED <<links, relinked>>
      BY <3>1, <1>op, RunTypes DEF OpType, TypeOK
    <3>2. CASE /\ pc = "restart" /\ Disrupted(op.want.restart \cap loaded.units, op.want)
               /\ UNCHANGED <<links, relinked>>
      BY <3>2, <1>pay, RunTypes DEF TypeOK, StepsConsistent, ApplyOnly
    <3>3. CASE /\ pc = "tryrestart"
               /\ Disrupted({u \in op.want.tryRestart \cap loaded.units : Running(u)}, op.want)
               /\ UNCHANGED <<links, relinked>>
      BY <3>3, <1>pay, RunTypes DEF TypeOK, StepsConsistent, ApplyOnly
    <3>4. CASE pc = "enable" /\ (\E units \in SUBSET op.want.enable : Linked(units))
                 /\ UNCHANGED run
      BY <3>4, <1>sets DEF TypeOK, Linked
    <3>5. CASE UNCHANGED run /\ \E units : Unlinked(units)
      BY <3>5 DEF TypeOK, Unlinked
    <3>6. CASE UNCHANGED <<run, links, relinked>>
      BY <3>6 DEF TypeOK
    <3> QED
      BY <1>20, <3>1, <3>2, <3>3, <3>4, <3>5, <3>6 DEF Fail
  <2>3. disk' \in Trees
    BY <1>20, TreeTypes, ValueAssumption DEF Fail, TypeOK
  <2> QED
    BY <1>20, <2>1, <2>2, <2>3 DEF Fail, TypeOK
<1>21. ASSUME NEW f \in Files, Drift(f)
       PROVE  TypeOK'
  <2>1. disk' \in Trees
    BY <1>21, TreeTypes, ValueAssumption DEF Drift, TypeOK
  <2> QED
    BY <1>21, <2>1, EngineAssumption DEF Drift, TypeOK
<1>22. CASE ForeignReload
  BY <1>22, ManagerType, EngineAssumption DEF ForeignReload, TypeOK
<1>23. CASE UpgradePodman
  BY <1>23, EngineAssumption DEF UpgradePodman, TypeOK
<1>24. ASSUME NEW u \in Units, StartUnit(u)
       PROVE  TypeOK'
  BY <1>24, StartedType DEF RunType, StartUnit, TypeOK
<1>25. ASSUME NEW u \in Units, StopUnit(u)
       PROVE  TypeOK'
  BY <1>25 DEF RunType, StopUnit, TypeOK
<1>26. ASSUME NEW u \in Units, Relink(u)
       PROVE  TypeOK'
  BY <1>26, UnitAssumption, EngineAssumption DEF Relink, TypeOK
<1> QED
  BY <1>1, <1>2, <1>3, <1>4, <1>5, <1>6, <1>7, <1>8, <1>9, <1>10, <1>11, <1>12, <1>13,
     <1>14, <1>15, <1>16, <1>17, <1>18, <1>19, <1>20, <1>21, <1>22, <1>23, <1>24, <1>25, <1>26
     DEF Next, Admit, Call, Environment

-----------------------------------------------------------------------------
(* Ownership *)

\* An operation is admitted without a change to the host.
LEMMA AdmitFrame ==
  ASSUME Admit
  PROVE  /\ pc = "idle" /\ pc' = "reserve"
         /\ UNCHANGED <<record, disk, links, loaded, run, generator, todo, drifted, relinked>>
<1>1. ASSUME NEW n \in Names, NEW id \in Owners, AdmitDelete(n, id)
      PROVE  /\ pc = "idle" /\ pc' = "reserve"
             /\ UNCHANGED <<record, disk, links, loaded, run, generator, todo, drifted, relinked>>
  BY <1>1 DEF AdmitDelete, hostVars
<1>2. ASSUME NEW n \in Names, NEW id \in Owners, NEW p \in Payloads, AdmitApply(n, id, p)
      PROVE  /\ pc = "idle" /\ pc' = "reserve"
             /\ UNCHANGED <<record, disk, links, loaded, run, generator, todo, drifted, relinked>>
  BY <1>2 DEF AdmitApply, hostVars
<1> QED
  BY <1>1, <1>2 DEF Admit

\* Every action but three leaves the records alone.
LEMMA RecordFrame ==
  ASSUME Next
  PROVE  Reserve \/ Commit \/ Forget \/ UNCHANGED record
<1>1. CASE Admit
  BY <1>1, AdmitFrame
<1>2. CASE Call
  BY <1>2 DEF Call, QueryRetired, DisableRetired, StopRetired, RemoveFile, RemovalDone,
     InstallFile, InstallDone, RecoverEnablement, DisablePrevious, Enable, Reload, Restart,
     TryRestart, SyncRecord
<1>3. CASE Fail
  BY <1>3 DEF Fail
<1>4. CASE Environment
  BY <1>4 DEF Environment, Drift, ForeignReload, UpgradePodman, StartUnit, StopUnit, Relink
<1> QED
  BY <1>1, <1>2, <1>3, <1>4 DEF Next

\* A step of an operation under way keeps its locals, but for the query, or ends it.
LEMMA LocalsFrame ==
  ASSUME Next, pc # "idle"
  PROVE  \/ UNCHANGED op
         \/ pc' = "idle" /\ todo' = {}
         \/ QueryRetired
<1>1. CASE Admit
  BY <1>1, AdmitFrame
<1>2. CASE Call
  BY <1>2 DEF Call, Reserve, DisableRetired, StopRetired, RemoveFile, RemovalDone,
     InstallFile, InstallDone, RecoverEnablement, DisablePrevious, Enable, Reload, Restart,
     TryRestart, Commit, Forget, SyncRecord, Goto, GotoRemoval, End
<1>3. CASE Fail
  BY <1>3 DEF Fail, End
<1>4. CASE Environment
  BY <1>4 DEF Environment, Drift, ForeignReload, UpgradePodman, StartUnit, StopUnit, Relink
<1> QED
  BY <1>1, <1>2, <1>3, <1>4 DEF Next

\* Only an operation that is admitted leaves the idle state.
LEMMA IdleFrame ==
  ASSUME Next, pc = "idle"
  PROVE  Admit \/ UNCHANGED <<record, pc, op, todo>>
<1>1. ~Call
  BY DEF Call, Reserve, QueryRetired, DisableRetired, StopRetired, RemoveFile, RemovalDone,
     InstallFile, InstallDone, RecoverEnablement, DisablePrevious, Enable, Reload, Restart,
     TryRestart, Commit, Forget, SyncRecord
<1>2. ~Fail
  BY DEF Fail
<1>3. CASE Environment
  BY <1>3 DEF Environment, Drift, ForeignReload, UpgradePodman, StartUnit, StopUnit, Relink
<1> QED
  BY <1>1, <1>2, <1>3 DEF Next

LEMMA LocalsStep ==
  ASSUME OwnershipInv, Next
  PROVE  LocalsConsistent'
<1> USE DEF OwnershipInv
<1>1. ASSUME NEW n \in Names, NEW id \in Owners, NEW p \in Payloads, AdmitApply(n, id, p)
      PROVE  LocalsConsistent'
  <2>1. /\ op'.kind = "apply" /\ op'.want = p /\ op'.units = Discover(p, generator)
        /\ op'.changed = Differing(disk, p) /\ op'.prior = record[n] /\ op'.id = id
        /\ op'.present = {}
    BY <1>1 DEF AdmitApply
  <2>2. Valid(p) /\ OwnsActivated(p, Discover(p, generator))
    BY <1>1 DEF AdmitApply
  <2>3. Native(DOMAIN p.files) \subseteq Discover(p, generator) /\ Differing(disk, p) \subseteq DOMAIN p.files
    BY DEF Discover, Differing
  <2>4. record[n].id \in {NoOwner, id} /\ (record[n].id = NoOwner => record[n] = NoRecord)
    BY <1>1 DEF AdmitApply, MayUse, FreeNamesEmpty, Held
  <2>5. record[n].enabled \subseteq record[n].units \cap Native(record[n].files)
    BY DEF RecordsReadable
  <2> QED
    BY <2>1, <2>2, <2>3, <2>4, <2>5 DEF LocalsConsistent
<1>2. ASSUME NEW n \in Names, NEW id \in Owners, AdmitDelete(n, id)
      PROVE  LocalsConsistent'
  <2>1. /\ op'.kind = "delete" /\ op'.want = NoPayload /\ op'.units = {} /\ op'.changed = {}
        /\ op'.prior = record[n] /\ op'.id = id /\ op'.present = {}
    BY <1>2 DEF AdmitDelete
  <2>2. record[n].id = id /\ id # NoOwner
    BY <1>2, EngineAssumption DEF AdmitDelete, MayUse, Held
  <2>3. record[n].enabled \subseteq record[n].units \cap Native(record[n].files)
    BY DEF RecordsReadable
  <2> QED
    BY <2>1, <2>2, <2>3 DEF LocalsConsistent
<1>3. CASE QueryRetired
  <2>1. op \in OpType /\ pc # "idle"
    BY <1>3 DEF QueryRetired, TypeOK
  <2>2. /\ op'.kind = op.kind /\ op'.want = op.want /\ op'.units = op.units
        /\ op'.changed = op.changed /\ op'.prior = op.prior /\ op'.id = op.id
        /\ op'.present \subseteq RetiredUnits(op)
    BY <1>3, <2>1 DEF QueryRetired, OpType
  <2>3. RetiredUnits(op)' = RetiredUnits(op)
    BY <2>2 DEF RetiredUnits, OwnedUnits
  <2> QED
    BY <2>1, <2>2, <2>3 DEF LocalsConsistent
<1>4. CASE pc # "idle" /\ ~QueryRetired
  BY <1>4, LocalsFrame DEF LocalsConsistent, RetiredUnits, OwnedUnits
<1>5. CASE pc = "idle"
  <2>1. CASE Admit
    BY <1>1, <1>2, <2>1 DEF Admit
  <2>2. CASE UNCHANGED pc
    BY <1>5, <2>2 DEF LocalsConsistent
  <2> QED
    BY <1>5, <2>1, <2>2, IdleFrame
<1> QED
  BY <1>3, <1>4, <1>5

LEMMA StepsStep ==
  ASSUME OwnershipInv, Next
  PROVE  StepsConsistent'
<1> USE DEF OwnershipInv, StepsConsistent, ApplyOnly, DeleteOnly
<1>kind. pc # "idle" => op \in OpType
  BY DEF TypeOK
<1>1. CASE Admit
  BY <1>1, AdmitFrame
<1>2. CASE QueryRetired
  BY <1>2 DEF QueryRetired
<1>3. CASE Reserve \/ DisableRetired \/ StopRetired
  BY <1>3, <1>kind DEF Reserve, DisableRetired, StopRetired, Goto, GotoRemoval, RetiredFiles
<1>4. CASE \E f \in Files : RemoveFile(f) \/ InstallFile(f)
  BY <1>4 DEF RemoveFile, InstallFile, RetiredFiles, End
<1>5. CASE RemovalDone
  BY <1>5, <1>kind DEF RemovalDone, OpType, Goto
<1>6. CASE \/ InstallDone \/ RecoverEnablement \/ DisablePrevious \/ Enable
           \/ Restart \/ TryRestart \/ Commit \/ Forget \/ SyncRecord
  BY <1>6 DEF InstallDone, RecoverEnablement, DisablePrevious, Enable, Restart, TryRestart,
     Commit, Forget, SyncRecord, Goto, End
<1>7. CASE Reload
  BY <1>7, <1>kind DEF Reload, OpType, Goto
<1>8. CASE Fail
  BY <1>8 DEF Fail, End
<1>9. CASE Environment
  BY <1>9 DEF Environment, Drift, ForeignReload, UpgradePodman, StartUnit, StopUnit, Relink, RetiredFiles
<1> QED
  BY <1>1, <1>2, <1>3, <1>4, <1>5, <1>6, <1>7, <1>8, <1>9 DEF Next, Call

\* The names other than the operation's are never written.
LEMMA OthersKept ==
  ASSUME OwnershipInv, Next, NEW m \in Names, record'[m] # record[m]
  PROVE  /\ pc \in {"reserve", "commit", "forget"}
         /\ op.name = m
BY RecordFrame DEF OwnershipInv, TypeOK, Reserve, Commit, Forget

\* An operation reserves a superset of what it commits.
LEMMA ReservedSets ==
  ASSUME OwnershipInv, pc \in Reserved
  PROVE  /\ op.name \in Names
         /\ record[op.name].files = OwnedFiles(op)
         /\ record[op.name].units = OwnedUnits(op)
         /\ op.units \subseteq record[op.name].units
         /\ DOMAIN op.want.files \subseteq record[op.name].files
BY DEF OwnershipInv, TypeOK, OpType, Reserving, Reserved, Reservation, OwnedFiles, OwnedUnits

LEMMA RecordsStep ==
  ASSUME OwnershipInv, Next
  PROVE  FreeNamesEmpty' /\ RecordsReadable'
<1> USE DEF OwnershipInv
<1>1. CASE Reserve
  <2>1. op \in OpType /\ op.id # NoOwner
    BY <1>1, EngineAssumption DEF Reserve, TypeOK, OpType
  <2>2. op.prior.enabled \subseteq OwnedUnits(op) \cap Native(OwnedFiles(op))
    BY <1>1 DEF Reserve, LocalsConsistent, OwnedUnits, OwnedFiles, Native
  <2>3. record' = [record EXCEPT ![op.name] = Reservation(op)]
    BY <1>1 DEF Reserve
  <2> QED
    BY <2>1, <2>2, <2>3
       DEF FreeNamesEmpty, RecordsReadable, Held, Reservation, TypeOK
<1>2. CASE Commit
  <2>1. op \in OpType /\ op.id # NoOwner /\ op.kind = "apply"
    BY <1>2, EngineAssumption DEF Commit, TypeOK, OpType, StepsConsistent, ApplyOnly
  <2>2. op.want.enable \subseteq op.units \cap Native(DOMAIN op.want.files)
    BY <1>2, <2>1 DEF Commit, LocalsConsistent, Valid, OwnsActivated, Native
  <2>3. record' = [record EXCEPT ![op.name] = Commitment(op)]
    BY <1>2 DEF Commit
  <2> QED
    BY <2>1, <2>2, <2>3
       DEF FreeNamesEmpty, RecordsReadable, Held, Commitment, TypeOK
<1>3. CASE Forget
  BY <1>3 DEF Forget, FreeNamesEmpty, RecordsReadable, Held, NoRecord, TypeOK
<1>4. CASE UNCHANGED record
  BY <1>4 DEF FreeNamesEmpty, RecordsReadable, Held
<1> QED
  BY <1>1, <1>2, <1>3, <1>4, RecordFrame

LEMMA OverlapsSymmetric ==
  ASSUME NEW f, NEW g
  PROVE  Overlaps(f, g) <=> Overlaps(g, f)
BY DEF Overlaps

\* A record may grow where it meets no other one, and shrink anywhere.
LEMMA DisjointAfterWrite ==
  ASSUME OwnershipDisjoint, NEW n \in Names, NEW new, record \in [Names -> RecordType],
         record' = [record EXCEPT ![n] = new],
         \/ new.files \subseteq record[n].files /\ new.units \subseteq record[n].units
         \/ ~Conflict(n, new.files, new.units)
  PROVE  OwnershipDisjoint'
<1>1. ASSUME NEW m \in Names \ {n}
      PROVE  /\ new.units \cap record[m].units = {}
             /\ \A f \in new.files, g \in record[m].files : ~Overlaps(f, g)
  BY DEF OwnershipDisjoint, Conflict
<1> QED
  BY <1>1, OverlapsSymmetric DEF OwnershipDisjoint

LEMMA DisjointStep ==
  ASSUME OwnershipInv, Next
  PROVE  OwnershipDisjoint'
<1> USE DEF OwnershipInv
<1>1. CASE Reserve
  <2>1. op.name \in Names /\ ~Conflict(op.name, OwnedFiles(op), OwnedUnits(op))
    BY <1>1 DEF Reserve, Reserving, TypeOK, OpType
  <2> QED
    BY <1>1, <2>1, DisjointAfterWrite DEF Reserve, Reservation, TypeOK
<1>2. CASE Commit
  BY <1>2, DisjointAfterWrite, ReservedSets DEF Commit, Commitment, TypeOK, Reserved
<1>3. CASE Forget
  <2>1. NoRecord.files = {} /\ NoRecord.units = {}
    BY DEF NoRecord
  <2>2. op.name \in Names
    BY <1>3 DEF Forget, TypeOK, OpType
  <2> QED
    BY <1>3, <2>1, <2>2, DisjointAfterWrite DEF Forget, TypeOK
<1>4. CASE UNCHANGED record
  BY <1>4 DEF OwnershipDisjoint
<1> QED
  BY <1>1, <1>2, <1>3, <1>4, RecordFrame

LEMMA ReservingStep ==
  ASSUME OwnershipInv, Next
  PROVE  Reserving'
<1> USE DEF OwnershipInv, Reserving, Reserved
<1>op. pc # "idle" => op \in OpType /\ op.name \in Names
  BY DEF TypeOK, OpType
<1>1. ASSUME NEW n \in Names, NEW id \in Owners, NEW p \in Payloads, AdmitApply(n, id, p)
      PROVE  Reserving'
  <2>1. /\ op'.name = n /\ op'.prior = record[n] /\ pc' = "reserve" /\ record' = record
        /\ ~Conflict(n, OwnedFiles(op'), OwnedUnits(op'))
    BY <1>1 DEF AdmitApply
  <2> QED
    BY <2>1 DEF Conflict, OwnedFiles, OwnedUnits, Reservation
<1>2. ASSUME NEW n \in Names, NEW id \in Owners, AdmitDelete(n, id)
      PROVE  Reserving'
  <2>1. /\ op'.name = n /\ op'.prior = record[n] /\ pc' = "reserve" /\ record' = record
        /\ op'.want = NoPayload /\ op'.units = {}
        /\ ~Conflict(n, record[n].files, record[n].units)
    BY <1>2 DEF AdmitDelete
  <2>2. OwnedFiles(op') = record[n].files /\ OwnedUnits(op') = record[n].units
    BY <2>1, NoPayloadFacts DEF OwnedFiles, OwnedUnits
  <2> QED
    BY <2>1, <2>2 DEF Conflict, OwnedFiles, OwnedUnits
<1>3. CASE Reserve
  BY <1>3, <1>op DEF Reserve, Reservation, OwnedFiles, OwnedUnits, Goto, GotoRemoval, TypeOK
<1>4. CASE QueryRetired
  <2>1. /\ op'.name = op.name /\ op'.id = op.id /\ op'.want = op.want /\ op'.units = op.units
        /\ op'.prior = op.prior /\ pc' = "disable" /\ record' = record /\ pc = "query"
    BY <1>4, <1>op DEF QueryRetired, OpType
  <2> QED
    BY <2>1 DEF Reservation, OwnedFiles, OwnedUnits
<1>5. CASE Forget
  BY <1>5, <1>op DEF Forget, Goto, TypeOK
<1>6. CASE pc' = "idle"
  BY <1>6
<1>7. CASE UNCHANGED <<pc, op, record>>
  BY <1>7 DEF Conflict, Reservation, OwnedFiles, OwnedUnits
<1>8. CASE UNCHANGED <<op, record>> /\ pc \in Reserved /\ pc' \in Reserved
  BY <1>8 DEF Reservation, OwnedFiles, OwnedUnits
<1> QED
  BY <1>1, <1>2, <1>3, <1>4, <1>5, <1>6, <1>7, <1>8
     DEF Next, Admit, Call, Environment, DisableRetired, StopRetired, RemoveFile, RemovalDone,
         InstallFile, InstallDone, RecoverEnablement, DisablePrevious, Enable, Reload, Restart,
         TryRestart, Commit, SyncRecord, Fail, Drift, ForeignReload, UpgradePodman, StartUnit, StopUnit, Relink,
         Goto, GotoRemoval, End

LEMMA OwnershipInit ==
  ASSUME Init
  PROVE  OwnershipInv
<1>1. disk \in Trees /\ generator \in Generators
  BY ValueAssumption DEF Init, Trees, Nodes
<1>2. Definitions(disk) \in [Sources -> Nodes] /\ UnitsOf(disk, generator) \subseteq Units
  <2>1. Sources \subseteq Files
    BY UnitAssumption DEF Sources
  <2>2. ASSUME NEW f \in DOMAIN disk, disk[f] \in Contents
        PROVE  generator[f][disk[f]] \subseteq Units
    BY <2>2, <1>1, UnitAssumption DEF Trees
  <2> QED
    BY <1>1, <2>1, <2>2, UnitAssumption DEF Definitions, UnitsOf, Generated, Trees
<1>3. NoRecord \in RecordType
  BY DEF NoRecord, RecordType, Revisions
<1>4. TypeOK
  BY <1>1, <1>2, <1>3, EngineAssumption DEF Init, TypeOK, Steps, RunType
<1>5. \A n \in Names : record[n] = NoRecord
  BY DEF Init
<1>6. FreeNamesEmpty /\ OwnershipDisjoint /\ RecordsReadable
  BY <1>5 DEF FreeNamesEmpty, OwnershipDisjoint, RecordsReadable, NoRecord
<1>7. LocalsConsistent /\ StepsConsistent /\ Reserving
  BY DEF Init, LocalsConsistent, StepsConsistent, Reserving, ApplyOnly, DeleteOnly, Reserved
<1> QED
  BY <1>4, <1>6, <1>7 DEF OwnershipInv

\* Nothing happens, or a disturbance that leaves the host alone.
Still == UNCHANGED <<record, hostVars, pc, op, todo>> /\ faults' \in 0..MaxFaults

LEMMA StutterIsStill == TypeOK /\ UNCHANGED vars => Still
BY DEF vars, hostVars, TypeOK, Still

LEMMA OwnershipStutter ==
  ASSUME OwnershipInv, Still
  PROVE  OwnershipInv'
<1>1. TypeOK'
  BY DEF OwnershipInv, TypeOK, Still, hostVars
<1>2. FreeNamesEmpty' /\ OwnershipDisjoint' /\ RecordsReadable'
  BY DEF OwnershipInv, Still, hostVars, FreeNamesEmpty, Held, OwnershipDisjoint, RecordsReadable
<1>3. LocalsConsistent' /\ StepsConsistent' /\ Reserving'
  BY DEF OwnershipInv, Still, hostVars, LocalsConsistent, StepsConsistent, Reserving, RetiredUnits,
     OwnedUnits, OwnedFiles, RetiredFiles, Conflict, Reservation
<1> QED
  BY <1>1, <1>2, <1>3 DEF OwnershipInv

\* The inductive invariant of the records (ownership.go): what every operation reserves
\* before its first change, and what a record on the host allows the others.
THEOREM OwnershipInvariant == Spec => []OwnershipInv
<1>1. OwnershipInv /\ [Next]_vars => OwnershipInv'
  BY TypeStep, RecordsStep, LocalsStep, StepsStep, ReservingStep, DisjointStep,
     StutterIsStill, OwnershipStutter DEF OwnershipInv
<1> QED
  BY OwnershipInit, <1>1, PTL DEF Spec

\* Every variable of the engine and its host holds a value of its type.
THEOREM TypeCorrect == Spec => []TypeOK
<1>1. OwnershipInv => TypeOK
  BY DEF OwnershipInv
<1> QED
  BY OwnershipInvariant, <1>1, PTL

\* checkConflicts keeps any number of deployments apart: no file, no directory above a
\* file and no unit is ever owned twice.
THEOREM NoSharedOwnership == Spec => []OwnershipDisjoint
<1>1. OwnershipInv => OwnershipDisjoint
  BY DEF OwnershipInv
<1> QED
  BY OwnershipInvariant, <1>1, PTL

\* readRecord accepts every record that Apply and Delete leave behind, at any point.
THEOREM RecordsStayReadable == Spec => []RecordsReadable
<1>1. OwnershipInv => RecordsReadable
  BY DEF OwnershipInv
<1> QED
  BY OwnershipInvariant, <1>1, PTL
=============================================================================
