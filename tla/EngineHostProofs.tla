-------------------------- MODULE EngineHostProofs --------------------------
(***************************************************************************)
(* Proofs about the files and the enablement links that Engine leaves on   *)
(* the host, and that Engine implements Claims with them, for every set of *)
(* names, owners, files, units, payloads and generators, and every bound   *)
(* on the faults.                                                          *)
(***************************************************************************)
EXTENDS EngineClaims, EngineProofs

-----------------------------------------------------------------------------
(* Operations under way *)

\* As long as an operation is under way it is about the same sets.
LEMMA OperationKept ==
  ASSUME OwnershipInv, Next, pc # "idle", pc' # "idle"
  PROVE  /\ op'.kind = op.kind /\ op'.name = op.name /\ op'.id = op.id
         /\ op'.want = op.want /\ op'.prior = op.prior /\ op'.units = op.units
         /\ op'.changed = op.changed
<1>1. op \in OpType
  BY DEF OwnershipInv, TypeOK
<1>2. CASE QueryRetired
  BY <1>1, <1>2 DEF QueryRetired, OpType
<1> QED
  BY <1>2, LocalsFrame

LEMMA OperationSetsKept ==
  ASSUME OwnershipInv, Next, pc # "idle", pc' # "idle"
  PROVE  /\ OwnedFiles(op)' = OwnedFiles(op) /\ OwnedUnits(op)' = OwnedUnits(op)
         /\ RetiredFiles(op)' = RetiredFiles(op) /\ RetiredUnits(op)' = RetiredUnits(op)
         /\ Resumes(op)' = Resumes(op) /\ Activates(op)' = Activates(op)
BY OperationKept
   DEF OwnedFiles, OwnedUnits, RetiredFiles, RetiredUnits, Resumes, Activates

\* The files and the record of the operation under way.
LEMMA OwnRecord ==
  ASSUME OwnershipInv, pc \in Reserved
  PROVE  /\ op.name \in Names
         /\ record[op.name].id = op.id /\ op.id # NoOwner
         /\ record[op.name].revision = NoRevision
BY EngineAssumption DEF OwnershipInv, TypeOK, OpType, Reserving, Reserved, Reservation

\* What an apply installs, and what every operation may give up.
LEMMA LoopFiles ==
  ASSUME OwnershipInv
  PROVE  /\ pc = "install" => /\ op.kind = "apply" /\ op.want \in Payloads
                              /\ todo \subseteq DOMAIN op.want.files
                              /\ \A f \in todo : op.want.files[f] \in Contents \ {Foreign}
         /\ pc = "remove" => todo \subseteq RetiredFiles(op)
BY PayloadFacts DEF OwnershipInv, StepsConsistent, LocalsConsistent, ApplyOnly

-----------------------------------------------------------------------------
(* What a step does to a file *)

\* Only an installation puts a payload's content on the host.
LEMMA WrittenStep ==
  ASSUME OwnershipInv, Next, NEW g \in Files, Written(g)'
  PROVE  \/ Written(g)
         \/ pc = "install" /\ g \in todo
<1> USE ValueAssumption DEF Written
<1>1. CASE UNCHANGED disk
  BY <1>1
<1>2. ASSUME NEW f \in Files, RemoveFile(f)
      PROVE  Written(g)
  BY <1>2 DEF RemoveFile, Without, OwnershipInv, TypeOK, Trees
<1>3. ASSUME NEW f \in Files, InstallFile(f)
      PROVE  Written(g) \/ (pc = "install" /\ g \in todo)
  BY <1>3 DEF InstallFile, With, MadeAbove, OwnershipInv, TypeOK, Trees
<1>4. ASSUME NEW f \in Files, Drift(f)
      PROVE  Written(g)
  BY <1>4 DEF Drift, Without, With, MadeAbove, OwnershipInv, TypeOK, Trees
<1>5. ASSUME NEW f \in Files, disk' = MadeAbove(disk, f)
      PROVE  Written(g)
  BY <1>5 DEF MadeAbove, OwnershipInv, TypeOK, Trees
<1>6. CASE Fail
  BY <1>1, <1>5, <1>6 DEF Fail, OwnershipInv, TypeOK
<1>7. CASE Admit
  BY <1>1, <1>7, AdmitFrame
<1>8. CASE Call
  BY <1>1, <1>2, <1>3, <1>8 DEF Call, Reserve, QueryRetired, DisableRetired, StopRetired,
     RemovalDone, InstallDone, RecoverEnablement, DisablePrevious, Enable, Reload, Restart,
     TryRestart, Commit, Forget, SyncRecord, hostVars
<1>9. CASE Environment
  BY <1>1, <1>4, <1>9 DEF Environment, ForeignReload, UpgradePodman, StartUnit, StopUnit, Relink
<1> QED
  BY <1>6, <1>7, <1>8, <1>9 DEF Next

\* A file with the content c, or touched by others since it had it, stays so unless
\* the operation removes or installs this very file.
LEMMA InPlaceStep ==
  ASSUME OwnershipInv, Next, NEW g \in Files, NEW c \in Contents, InPlace(g, c)
  PROVE  \/ g \in drifted' \/ disk'[g] = c
         \/ pc = "remove" /\ g \in todo
         \/ pc = "install" /\ g \in todo
<1> USE ValueAssumption DEF InPlace
<1>1. CASE UNCHANGED <<disk, drifted>>
  BY <1>1
<1>2. ASSUME NEW f \in Files, RemoveFile(f), f # g
      PROVE  g \in drifted' \/ disk'[g] = c
  BY <1>2 DEF RemoveFile, Without, OwnershipInv, TypeOK, Trees
<1>3. ASSUME NEW f \in Files, InstallFile(f), f # g
      PROVE  g \in drifted' \/ disk'[g] = c
  <2>1. CASE ~Installable(disk, f)
    BY <1>3, <2>1 DEF InstallFile
  <2>2. CASE Installable(disk, f)
    <3>1. disk[g] = c => g \notin Parents[f]
      BY <2>2 DEF Installable, PathOK
    <3>2. disk[g] = c => disk'[g] = c
      BY <1>3, <2>2, <3>1 DEF InstallFile, With, MadeAbove
    <3> QED
      BY <1>3, <2>2, <3>2 DEF InstallFile
  <2> QED
    BY <2>1, <2>2
<1>4. ASSUME NEW f \in Files, Drift(f)
      PROVE  g \in drifted' \/ disk'[g] = c
  BY <1>4 DEF Drift
<1>5. ASSUME NEW f \in Files, Installable(disk, f), disk' = MadeAbove(disk, f),
             UNCHANGED drifted
      PROVE  g \in drifted' \/ disk'[g] = c
  BY <1>5 DEF MadeAbove, Installable, PathOK
<1>6. CASE Fail
  BY <1>1, <1>5, <1>6 DEF Fail, OwnershipInv, TypeOK
<1>7. CASE Admit
  BY <1>1, <1>7, AdmitFrame
<1>8. CASE Call
  <2>1. CASE \E f \in Files : RemoveFile(f) \/ InstallFile(f)
    BY <2>1, <1>2, <1>3 DEF RemoveFile, InstallFile
  <2>2. CASE ~(\E f \in Files : RemoveFile(f) \/ InstallFile(f))
    BY <1>1, <1>8, <2>2 DEF Call, Reserve, QueryRetired, DisableRetired, StopRetired,
       RemovalDone, InstallDone, RecoverEnablement, DisablePrevious, Enable, Reload, Restart,
       TryRestart, Commit, Forget, SyncRecord, hostVars
  <2> QED
    BY <2>1, <2>2
<1>9. CASE Environment
  BY <1>1, <1>4, <1>9 DEF Environment, ForeignReload, UpgradePodman, StartUnit, StopUnit, Relink
<1> QED
  BY <1>6, <1>7, <1>8, <1>9 DEF Next

\* A file that an iteration of a loop leaves behind is as the loop wants it.
LEMMA LoopStep ==
  ASSUME OwnershipInv, Next, pc' = pc, pc \in {"remove", "install"},
         NEW g \in todo, g \notin todo'
  PROVE  disk'[g] = IF pc = "remove" THEN Absent ELSE op.want.files[g]
<1>1. CASE \E f \in Files : RemoveFile(f)
  BY <1>1 DEF RemoveFile, Without, End, OwnershipInv, TypeOK, Trees
<1>2. CASE \E f \in Files : InstallFile(f)
  BY <1>2 DEF InstallFile, With, MadeAbove, End, OwnershipInv, TypeOK, Trees
<1>3. CASE Admit
  BY <1>3, AdmitFrame
<1>4. CASE Environment
  BY <1>4 DEF Environment, Drift, ForeignReload, UpgradePodman, StartUnit, StopUnit, Relink
<1>5. CASE Fail
  BY <1>5 DEF Fail, End
<1> QED
  BY <1>1, <1>2, <1>3, <1>4, <1>5 DEF Next, Call, Reserve, QueryRetired, DisableRetired,
     StopRetired, RemovalDone, InstallDone, RecoverEnablement, DisablePrevious, Enable,
     Reload, Restart, TryRestart, Commit, Forget, SyncRecord, Goto, GotoRemoval

-----------------------------------------------------------------------------
(* Files *)

\* Where the loops begin and end.
LEMMA LoopFrame ==
  ASSUME OwnershipInv, Next, pc # "idle", pc' # "idle"
  PROVE  /\ pc' = "remove" /\ pc # "remove" => todo' = RetiredFiles(op)
         /\ pc' = "install" /\ pc # "install" => pc = "remove" /\ todo = {} /\ todo' = op.changed
         /\ pc' \in ApplyOnly \cup {"reload", "forget", "sync"} =>
              pc \in ApplyOnly \cup {"remove", "reload", "forget", "sync"}
         /\ pc' \in {"reserve", "query", "disable", "stop", "remove"} =>
              pc \in {"reserve", "query", "disable", "stop", "remove"}
         /\ pc = "remove" /\ pc' \notin {"remove", "install"} => op.kind = "delete"
         /\ pc = "remove" /\ pc' # "remove" => todo = {}
         /\ pc = "install" /\ pc' # "install" => todo = {}
<1> USE DEF ApplyOnly
<1>1. CASE Admit
  BY <1>1, AdmitFrame
<1>2. CASE Call
  BY <1>2 DEF Call, Reserve, QueryRetired, DisableRetired, StopRetired, RemoveFile, RemovalDone,
     InstallFile, InstallDone, RecoverEnablement, DisablePrevious, Enable, Reload, Restart,
     TryRestart, Commit, Forget, SyncRecord, Goto, GotoRemoval, End
<1>3. CASE Fail
  BY <1>3 DEF Fail, End
<1>4. CASE Environment
  BY <1>4 DEF Environment, Drift, ForeignReload, UpgradePodman, StartUnit, StopUnit, Relink
<1> QED
  BY <1>1, <1>2, <1>3, <1>4 DEF Next

LEMMA RetiredGoneStep ==
  ASSUME OwnershipInv, RetiredGone, Next
  PROVE  RetiredGone'
<1>1. CASE pc = "idle" \/ pc' = "idle"
  BY <1>1, AdmitFrame, IdleFrame DEF RetiredGone, ApplyOnly
<1>2. CASE pc # "idle" /\ pc' # "idle"
  <2>1. RetiredFiles(op)' = RetiredFiles(op) /\ RetiredFiles(op) \subseteq Files
    BY <1>2, OperationSetsKept, OperationSets DEF OwnershipInv, TypeOK
  <2>2. ASSUME NEW f \in RetiredFiles(op), ~Written(f)
        PROVE  ~Written(f)'
    BY <2>1, <2>2, WrittenStep, LoopFiles DEF RetiredFiles
  <2>3. ASSUME pc' = "remove", NEW f \in RetiredFiles(op) \ todo'
        PROVE  ~Written(f)'
    <3>1. CASE pc = "remove" /\ f \in todo
      BY <2>3, <3>1, LoopStep, ValueAssumption DEF Written
    <3>2. CASE pc = "remove" /\ f \notin todo
      BY <2>2, <2>3, <3>2 DEF RetiredGone
    <3> QED
      BY <1>2, <2>3, <3>1, <3>2, LoopFrame
  <2>4. ASSUME pc' \in ApplyOnly \cup {"reload", "forget", "sync"}, NEW f \in RetiredFiles(op)
        PROVE  ~Written(f)'
    BY <1>2, <2>2, <2>4, LoopFrame DEF RetiredGone, ApplyOnly
  <2> QED
    BY <2>1, <2>3, <2>4 DEF RetiredGone
<1> QED
  BY <1>1, <1>2

LEMMA DestroyedGoneStep ==
  ASSUME OwnershipInv, DestroyedGone, Next
  PROVE  DestroyedGone'
<1>1. CASE pc = "idle" \/ pc' = "idle"
  BY <1>1, AdmitFrame, IdleFrame DEF DestroyedGone
<1>2. CASE pc # "idle" /\ pc' # "idle" /\ op.kind = "delete"
  <2>1. RetiredFiles(op)' = RetiredFiles(op) /\ RetiredFiles(op) \subseteq Files /\ op'.kind = op.kind
    BY <1>2, OperationKept, OperationSetsKept, OperationSets DEF OwnershipInv, TypeOK
  <2>2. ASSUME NEW f \in RetiredFiles(op), InPlace(f, Absent)
        PROVE  InPlace(f, Absent)'
    <3>1. CASE \E g \in Files : RemoveFile(g)
      BY <1>2, <2>1, <2>2, <3>1 DEF RemoveFile, Without, InPlace, End, OwnershipInv, TypeOK, Trees
    <3>2. CASE Environment
      BY <2>1, <2>2, <3>2 DEF Environment, Drift, ForeignReload, UpgradePodman, StartUnit, StopUnit, Relink, InPlace
    <3>3. ~(\E g \in Files : InstallFile(g))
      BY <1>2 DEF InstallFile, OwnershipInv, StepsConsistent, ApplyOnly
    <3>4. CASE UNCHANGED <<disk, drifted>>
      BY <2>2, <3>4 DEF InPlace
    <3> QED
      BY <1>2, <3>1, <3>2, <3>3, <3>4, AdmitFrame DEF Next, Call, Reserve, QueryRetired,
         DisableRetired, StopRetired, RemovalDone, InstallDone, RecoverEnablement,
         DisablePrevious, Enable, Reload, Restart, TryRestart, Commit, Forget, SyncRecord, Fail,
         End, hostVars
  <2>3. ASSUME pc' = "remove", NEW f \in RetiredFiles(op) \ todo'
        PROVE  InPlace(f, Absent)'
    <3>1. CASE pc = "remove" /\ f \in todo
      BY <2>3, <3>1, LoopStep DEF InPlace
    <3>2. CASE pc = "remove" /\ f \notin todo
      BY <1>2, <2>2, <2>3, <3>2 DEF DestroyedGone
    <3> QED
      BY <1>2, <2>3, <3>1, <3>2, LoopFrame
  <2>4. ASSUME pc' \in {"reload", "forget", "sync"}, NEW f \in RetiredFiles(op)
        PROVE  InPlace(f, Absent)'
    <3>1. pc \in {"remove", "reload", "forget", "sync"} /\ (pc = "remove" => todo = {})
      BY <1>2, <2>4, LoopFrame DEF ApplyOnly, OwnershipInv, StepsConsistent
    <3> QED
      BY <1>2, <2>2, <3>1 DEF DestroyedGone
  <2> QED
    BY <1>2, <2>1, <2>3, <2>4 DEF DestroyedGone
<1>3. CASE pc # "idle" /\ pc' # "idle" /\ op.kind # "delete"
  BY <1>3, OperationKept DEF DestroyedGone
<1> QED
  BY <1>1, <1>2, <1>3

LEMMA WantedInstalledStep ==
  ASSUME OwnershipInv, WantedInstalled, Next
  PROVE  WantedInstalled'
<1>1. CASE pc' = "idle"
  BY <1>1 DEF WantedInstalled, ApplyOnly
<1>2. ASSUME NEW n \in Names, NEW id \in Owners, NEW p \in Payloads, AdmitApply(n, id, p)
      PROVE  WantedInstalled'
  <2>1. op'.want = p /\ op'.changed = Differing(disk, p) /\ disk' = disk /\ pc' = "reserve"
    BY <1>2 DEF AdmitApply, hostVars
  <2> QED
    BY <2>1 DEF WantedInstalled, InPlace, Differing, ApplyOnly
<1>3. ASSUME NEW n \in Names, NEW id \in Owners, AdmitDelete(n, id)
      PROVE  WantedInstalled'
  <2>1. op'.want = NoPayload
    BY <1>3 DEF AdmitDelete
  <2> QED
    BY <2>1, NoPayloadFacts DEF WantedInstalled
<1>4. CASE pc = "idle" /\ ~Admit
  BY <1>1, <1>4, IdleFrame DEF OwnershipInv, TypeOK
<1>5. CASE pc # "idle" /\ pc' # "idle"
  <2>1. op'.want = op.want /\ op'.changed = op.changed /\ DOMAIN op.want.files \subseteq Files
    BY <1>5, OperationKept, OperationSets DEF OwnershipInv, TypeOK
  <2>2. \A f \in DOMAIN op.want.files : op.want.files[f] \in Contents
    BY <1>5, PayloadFacts, NoPayloadFacts DEF OwnershipInv, TypeOK, OpType
  <2>3. ASSUME NEW f \in DOMAIN op.want.files, InPlace(f, op.want.files[f])
        PROVE  f \in drifted' \/ disk'[f] = op.want.files[f] \/ (pc = "install" /\ f \in todo)
    BY <2>1, <2>2, <2>3, InPlaceStep, LoopFiles DEF RetiredFiles
  <2>4. ASSUME pc = "install", pc' = "install", NEW f \in DOMAIN op.want.files \ todo'
        PROVE  f \in drifted' \/ disk'[f] = op.want.files[f]
    <3>1. CASE f \in todo
      BY <2>1, <2>4, <3>1, LoopStep DEF InPlace
    <3>2. CASE f \notin todo
      BY <2>3, <2>4, <3>2 DEF WantedInstalled
    <3> QED
      BY <3>1, <3>2
  <2>5. ASSUME pc' \in {"reserve", "query", "disable", "stop", "remove"},
               NEW f \in DOMAIN op.want.files \ op.changed
        PROVE  f \in drifted' \/ disk'[f] = op.want.files[f]
    BY <1>5, <2>3, <2>5, LoopFrame DEF WantedInstalled
  <2>6. ASSUME pc' = "install", pc # "install", NEW f \in DOMAIN op.want.files \ todo'
        PROVE  f \in drifted' \/ disk'[f] = op.want.files[f]
    BY <1>5, <2>3, <2>6, LoopFrame DEF WantedInstalled
  <2>7. ASSUME pc' \in (ApplyOnly \cup {"reload"}) \ {"install"},
               NEW f \in DOMAIN op.want.files
        PROVE  f \in drifted' \/ disk'[f] = op.want.files[f]
    <3>1. op.kind # "delete"
      BY <1>5, NoPayloadFacts DEF OwnershipInv, LocalsConsistent
    <3>2. pc \in ApplyOnly \cup {"reload"} /\ (pc = "install" => todo = {})
      BY <1>5, <2>7, <3>1, LoopFrame DEF ApplyOnly, DeleteOnly, OwnershipInv, StepsConsistent
    <3> QED
      BY <2>3, <3>2 DEF WantedInstalled
  <2> QED
    BY <2>1, <2>4, <2>5, <2>6, <2>7 DEF WantedInstalled, InPlace
<1> QED
  BY <1>1, <1>2, <1>3, <1>4, <1>5 DEF Admit

-----------------------------------------------------------------------------
(* Enablement links *)

\* The calls of Units.Enable and Units.Disable, complete or not.
Relinks ==
  /\ pc \in {"disable", "recover", "reset", "enable"}
  /\ UNCHANGED record
  /\ \E S \in SUBSET OwnedUnits(op) :
       Unlinked(S) \/ (pc = "enable" /\ S \subseteq op.want.enable /\ Linked(S))

\* Operations change links at four calls only, and only for their own units.
LEMMA CallsRelink ==
  ASSUME OwnershipInv, Call \/ Fail
  PROVE  UNCHANGED <<links, relinked>> \/ Relinks
<1>1. pc = "enable" => op.want.enable \subseteq OwnedUnits(op)
  BY DEF OwnershipInv, LocalsConsistent, StepsConsistent, ApplyOnly, OwnsActivated, OwnedUnits
<1>2. /\ RetiredLinks(op) \subseteq OwnedUnits(op)
      /\ RecoveredLinks(op) \subseteq OwnedUnits(op)
      /\ PreviousLinks(op) \subseteq OwnedUnits(op)
  BY DEF RetiredLinks, RecoveredLinks, PreviousLinks, DisableSet, RetiredUnits, OwnedUnits
<1>3. CASE Fail
  BY <1>1, <1>2, <1>3 DEF Fail, Relinks
<1>4. CASE DisableRetired \/ RecoverEnablement \/ DisablePrevious \/ Enable
  BY <1>1, <1>2, <1>4 DEF DisableRetired, RecoverEnablement, DisablePrevious, Enable, Relinks
<1>5. CASE Call /\ ~(DisableRetired \/ RecoverEnablement \/ DisablePrevious \/ Enable)
  BY <1>5 DEF Call, Reserve, QueryRetired, StopRetired, RemoveFile, RemovalDone,
     InstallFile, InstallDone, Reload, Restart, TryRestart, Commit, Forget, SyncRecord, hostVars
<1> QED
  BY <1>3, <1>4, <1>5

\* Otherwise they change by other hands.
LEMMA LinksFrame ==
  ASSUME OwnershipInv, Next
  PROVE  \/ UNCHANGED <<links, relinked>>
         \/ UNCHANGED record /\ \E u \in Units : Relink(u)
         \/ Relinks
<1>1. CASE Admit
  BY <1>1, AdmitFrame
<1>2. CASE Environment
  BY <1>2 DEF Environment, Drift, ForeignReload, UpgradePodman, StartUnit, StopUnit, Relink
<1> QED
  BY <1>1, <1>2, CallsRelink DEF Next

\* Enabling and disabling act on the links that the engine left like on all links.
LEMMA KeptLinksMove ==
  /\ \A S : Linked(S) => KeptLinks' = KeptLinks \cup S /\ relinked' \cap S = {}
  /\ \A S : Unlinked(S) => KeptLinks' = KeptLinks \ S
  /\ \A u : Relink(u) => KeptLinks' = KeptLinks \ {u} /\ relinked' = relinked \cup {u}
BY DEF Linked, Unlinked, Relink, KeptLinks

LEMMA LinksStep ==
  ASSUME OwnershipInv, Next, KeptLinks' # KeptLinks
  PROVE  /\ \/ KeptLinks' \subseteq KeptLinks
            \/ pc = "enable" /\ KeptLinks' \subseteq KeptLinks \cup op.want.enable
         /\ UNCHANGED record
         /\ Call \/ Fail => Relinks /\ KeptLinks' \ OwnedUnits(op) = KeptLinks \ OwnedUnits(op)
<1>1. ~UNCHANGED <<links, relinked>>
  BY DEF KeptLinks
<1>2. ASSUME NEW u \in Units, Relink(u)
      PROVE  KeptLinks' \subseteq KeptLinks
  BY <1>2, KeptLinksMove
<1>3. ASSUME Relinks
      PROVE  /\ \/ KeptLinks' \subseteq KeptLinks
                \/ pc = "enable" /\ KeptLinks' \subseteq KeptLinks \cup op.want.enable
             /\ UNCHANGED record
             /\ KeptLinks' \ OwnedUnits(op) = KeptLinks \ OwnedUnits(op)
  BY <1>3, KeptLinksMove DEF Relinks
<1> QED
  BY <1>1, <1>2, <1>3, LinksFrame, CallsRelink

\* The policy of an apply is about its own native units.
LEMMA PolicyNative ==
  ASSUME OwnershipInv, pc # "idle", NEW u \in op.want.enable
  PROVE  u \in op.units /\ u \in NativeUnits /\ NativeFile[u] \in DOMAIN op.want.files
BY NoPayloadFacts DEF OwnershipInv, TypeOK, OpType, LocalsConsistent, Valid, OwnsActivated

\* A link of a unit that the operation owns has its native file among its files.
LEMMA OwnLinks ==
  ASSUME OwnershipInv, LinksRecorded, pc \in Reserved
  PROVE  KeptLinks \cap OwnedUnits(op) \subseteq Native(OwnedFiles(op))
<1>1. ASSUME NEW u \in KeptLinks, u \in OwnedUnits(op)
      PROVE  u \in Native(OwnedFiles(op))
  <2>1. PICK n \in Names : u \in record[n].units /\ NativeFile[u] \in record[n].files
    BY <1>1 DEF LinksRecorded
  <2>2. n = op.name
    BY <1>1, <2>1, ReservedSets DEF OwnershipInv, OwnershipDisjoint
  <2> QED
    BY <1>1, <2>1, <2>2, ReservedSets DEF LinksRecorded, Native
<1> QED
  BY <1>1

LEMMA LinksRecordedStep ==
  ASSUME OwnershipInv, LinksRecorded, LinksFollow, Next
  PROVE  LinksRecorded'
<1> USE DEF Reserved
<1>1. CASE Reserve
  <2>1. /\ op.name \in Names /\ record[op.name] = op.prior /\ UNCHANGED <<links, relinked>>
        /\ record' = [record EXCEPT ![op.name] = Reservation(op)]
    BY <1>1 DEF Reserve, OwnershipInv, TypeOK, OpType, Reserving, hostVars
  <2>2. ASSUME NEW n \in Names
        PROVE  record[n].files \subseteq record'[n].files /\ record[n].units \subseteq record'[n].units
    BY <2>1 DEF OwnershipInv, TypeOK, Reservation, OwnedFiles, OwnedUnits
  <2> QED
    BY <2>1, <2>2 DEF LinksRecorded, KeptLinks
<1>2. CASE Commit \/ Forget
  <2>1. pc \in {"commit", "forget"} /\ UNCHANGED <<links, relinked>> /\ op.name \in Names
    BY <1>2, ReservedSets DEF Commit, Forget, hostVars
  <2>2. \A n \in Names \ {op.name} : record'[n] = record[n]
    BY <1>2 DEF Commit, Forget, OwnershipInv, TypeOK
  <2>3. ASSUME NEW u \in KeptLinks, u \in OwnedUnits(op)
        PROVE  u \in NativeUnits /\ u \in record'[op.name].units
               /\ NativeFile[u] \in record'[op.name].files
    <3>1. u \in op.want.enable
      BY <2>1, <2>3 DEF LinksFollow
    <3>2. pc = "commit"
      BY <2>1, <3>1, NoPayloadFacts DEF OwnershipInv, StepsConsistent, DeleteOnly, LocalsConsistent
    <3>3. record'[op.name] = Commitment(op)
      BY <1>2, <2>1, <3>2 DEF Commit, Forget, OwnershipInv, TypeOK
    <3> QED
      BY <2>1, <3>1, <3>3, PolicyNative DEF Commitment
  <2>4. ASSUME NEW u \in KeptLinks, u \notin OwnedUnits(op)
        PROVE  u \in NativeUnits
               /\ \E n \in Names : u \in record'[n].units /\ NativeFile[u] \in record'[n].files
    <3>1. PICK n \in Names : u \in record[n].units /\ NativeFile[u] \in record[n].files
      BY DEF LinksRecorded
    <3>2. n # op.name
      BY <2>1, <2>4, <3>1, ReservedSets
    <3> QED
      BY <2>2, <3>1, <3>2 DEF LinksRecorded
  <2> QED
    BY <2>1, <2>3, <2>4 DEF LinksRecorded, KeptLinks
<1>3. CASE UNCHANGED record
  <2>1. ASSUME NEW u \in KeptLinks', u \notin KeptLinks
        PROVE  u \in NativeUnits
               /\ \E n \in Names : u \in record[n].units /\ NativeFile[u] \in record[n].files
    <3>1. pc = "enable" /\ u \in op.want.enable
      BY <2>1, LinksStep
    <3> QED
      BY <3>1, PolicyNative, ReservedSets
  <2> QED
    BY <1>3, <2>1 DEF LinksRecorded
<1> QED
  BY <1>1, <1>2, <1>3, RecordFrame

\* What an admitted operation starts from.
LEMMA AdmittedPrior ==
  ASSUME OwnershipInv, Admit
  PROVE  /\ op'.name \in Names /\ op'.prior = record[op'.name]
         /\ ~Conflict(op'.name, OwnedFiles(op'), OwnedUnits(op'))
<1>1. TypeOK' /\ Reserving'
  BY TypeStep, ReservingStep DEF Next
<1>2. pc' = "reserve" /\ record' = record
  BY AdmitFrame
<1> QED
  BY <1>1, <1>2 DEF TypeOK, OpType, Reserving, Conflict, OwnedFiles, OwnedUnits

LEMMA PriorCommittedStep ==
  ASSUME OwnershipInv, PriorCommitted, CommittedExact, Next
  PROVE  PriorCommitted'
<1>1. CASE Admit
  <2>1. \A n \in Names : record[n].revision # NoRevision => Committed(n)
    BY DEF OwnershipInv, FreeNamesEmpty, NoRecord, Committed
  <2> QED
    BY <1>1, <2>1, AdmittedPrior DEF PriorCommitted, CommittedExact
<1>2. CASE pc # "idle" /\ pc' # "idle"
  BY <1>2, OperationKept DEF PriorCommitted
<1>3. CASE pc' = "idle"
  BY <1>3 DEF PriorCommitted
<1> QED
  BY <1>1, <1>2, <1>3, IdleFrame

\* An operation is admitted with the links of its committed policy.
LEMMA LinksAtAdmission ==
  ASSUME OwnershipInv, LinksRecorded, CommittedExact, Admit
  PROVE  LinksFollow'
<1> DEFINE n == op'.name
<1>1. n \in Names /\ op'.prior = record[n] /\ UNCHANGED <<links, relinked>> /\ pc' = "reserve"
  BY AdmittedPrior, AdmitFrame
<1>2. ASSUME NEW u \in KeptLinks, u \in OwnedUnits(op)'
      PROVE  u \in record[n].units
  <2>1. PICK m \in Names : u \in record[m].units
    BY DEF LinksRecorded
  <2> QED
    BY <1>2, <2>1, AdmittedPrior DEF Conflict
<1>3. CASE Committed(n)
  <2>1. KeptLinks \cap record[n].units \subseteq record[n].enabled
    BY <1>1, <1>3 DEF CommittedExact, KeptLinks
  <2> QED
    BY <1>1, <1>2, <2>1 DEF LinksFollow, ApplyOnly, KeptLinks
<1>4. CASE ~Held(n)
  <2>1. record[n] = NoRecord
    BY <1>1, <1>4 DEF OwnershipInv, FreeNamesEmpty
  <2>2. KeptLinks \cap OwnedUnits(op)' = {}
    BY <1>2, <2>1 DEF NoRecord
  <2> QED
    BY <1>1, <2>2 DEF LinksFollow, ApplyOnly, KeptLinks
<1>5. CASE Interrupted(n)
  <2>1. Resumes(op)'
    BY <1>1, <1>5 DEF Resumes, Interrupted, Held
  <2> QED
    BY <1>1, <2>1 DEF LinksFollow, ApplyOnly
<1> QED
  BY <1>3, <1>4, <1>5 DEF Committed, Interrupted

LEMMA LinksFollowStep ==
  ASSUME OwnershipInv, LinksRecorded, LinksFollow, PriorCommitted, CommittedExact, Next
  PROVE  LinksFollow'
<1> USE DEF LinksFollow, ApplyOnly
<1>sets. pc # "idle" /\ pc' # "idle" =>
           /\ OwnedUnits(op)' = OwnedUnits(op) /\ RetiredUnits(op)' = RetiredUnits(op)
           /\ Resumes(op)' = Resumes(op)
           /\ op'.want = op.want /\ op'.prior = op.prior
  BY OperationSetsKept, OperationKept
<1>retired. RetiredUnits(op) \subseteq OwnedUnits(op)
  BY DEF RetiredUnits
<1>1. CASE Admit
  BY <1>1, LinksAtAdmission
<1>2. CASE pc' = "idle"
  BY <1>2
<1>3. CASE Reserve
  BY <1>3, <1>sets DEF Reserve, Goto, GotoRemoval, hostVars, KeptLinks
<1>4. CASE DisableRetired
  <2>1. KeptLinks' = KeptLinks \ RetiredLinks(op)
    BY <1>4, KeptLinksMove DEF DisableRetired
  <2>2. KeptLinks' \cap RetiredUnits(op) = {}
    <3>1. KeptLinks \cap OwnedUnits(op) \subseteq Native(OwnedFiles(op))
      BY <1>4, OwnLinks DEF DisableRetired, Reserved
    <3> QED
      BY <1>retired, <2>1, <3>1 DEF RetiredLinks, DisableSet
  <2> QED
    BY <1>4, <1>sets, <2>1, <2>2 DEF DisableRetired, Goto, GotoRemoval
<1>5. CASE RecoverEnablement
  <2>1. KeptLinks' = KeptLinks \ RecoveredLinks(op)
    BY <1>5, KeptLinksMove DEF RecoverEnablement
  <2>2. Resumes(op) => KeptLinks' \cap OwnedUnits(op) = {}
    <3>1. KeptLinks \cap OwnedUnits(op) \subseteq Native(OwnedFiles(op))
      BY <1>5, OwnLinks DEF RecoverEnablement, Reserved
    <3> QED
      BY <2>1, <3>1 DEF RecoveredLinks, DisableSet
  <2> QED
    BY <1>5, <1>sets, <2>1, <2>2 DEF RecoverEnablement, Goto
<1>6. CASE DisablePrevious
  <2>1. KeptLinks' = KeptLinks \ PreviousLinks(op)
    BY <1>6, KeptLinksMove DEF DisablePrevious
  <2>2. KeptLinks \cap OwnedUnits(op) \subseteq op.units
    BY <1>6 DEF DisablePrevious, RetiredUnits
  <2>3. CASE Resumes(op)
    BY <1>6, <1>sets, <2>1, <2>3 DEF DisablePrevious, Goto
  <2>4. CASE ~Resumes(op) /\ Activates(op)
    BY <1>6, <1>sets, <2>1, <2>2, <2>4 DEF DisablePrevious, PreviousLinks, Goto
  <2>5. CASE ~Activates(op)
    <3>1. op.want # NoRevision /\ op.prior.revision = op.want
      BY <1>6, <2>5, PayloadFacts DEF DisablePrevious, Activates, OwnershipInv,
         StepsConsistent, LocalsConsistent
    <3>2. op.prior.enabled = op.want.enable
      BY <1>6, <3>1 DEF DisablePrevious, PriorCommitted
    <3> QED
      BY <1>6, <1>sets, <2>1, <2>5, <3>2 DEF DisablePrevious, Activates, Goto
  <2> QED
    BY <2>3, <2>4, <2>5 DEF Activates
<1>7. CASE Enable
  <2>1. op.want.enable \subseteq op.units /\ op.units \subseteq OwnedUnits(op)
    BY <1>7, PolicyNative DEF Enable, OwnedUnits
  <2>2. CASE Linked(op.want.enable) /\ Goto("reload")
    <3>1. KeptLinks' = KeptLinks \cup op.want.enable /\ relinked' \cap op.want.enable = {}
      BY <2>2, KeptLinksMove
    <3> QED
      BY <1>7, <1>sets, <2>1, <2>2, <3>1 DEF Enable, Goto, RetiredUnits
  <2>3. CASE End
    BY <1>2, <2>3 DEF End
  <2> QED
    BY <1>7, <2>2, <2>3 DEF Enable
<1>8. CASE RemovalDone
  <2>1. CASE op.kind = "delete"
    <3>1. RetiredUnits(op) = OwnedUnits(op) /\ op.want.enable = {}
      BY <1>8, <2>1, NoPayloadFacts DEF RemovalDone, OwnershipInv, LocalsConsistent, RetiredUnits
    <3> QED
      BY <1>8, <1>sets, <2>1, <3>1 DEF RemovalDone, Goto, hostVars, KeptLinks
  <2>2. CASE op.kind # "delete"
    BY <1>8, <1>sets, <2>2 DEF RemovalDone, hostVars, KeptLinks
  <2> QED
    BY <2>1, <2>2
<1>9. CASE Reload
  <2>1. loaded'.links = links /\ UNCHANGED <<links, relinked>>
    BY <1>9 DEF Reload, ReloadedManager
  <2> QED
    BY <1>9, <1>sets, <2>1 DEF Reload, Goto, KeptLinks
<1>10. CASE \/ QueryRetired \/ StopRetired \/ InstallDone \/ Restart \/ TryRestart \/ Forget
  BY <1>10, <1>sets DEF QueryRetired, StopRetired, InstallDone, Restart, TryRestart, Forget,
     Goto, GotoRemoval, End, hostVars, KeptLinks
<1>11. ASSUME UNCHANGED <<pc, op, links, relinked>>, UNCHANGED loaded \/ loaded'.links = links
       PROVE  LinksFollow'
  BY <1>11 DEF OwnedUnits, RetiredUnits, Resumes, KeptLinks
<1>12. ASSUME NEW u \in Units, Relink(u)
       PROVE  LinksFollow'
  <2>1. KeptLinks' = KeptLinks \ {u} /\ relinked' = relinked \cup {u} /\ UNCHANGED <<pc, op, loaded>>
    BY <1>12, KeptLinksMove DEF Relink
  <2>2. /\ OwnedUnits(op)' = OwnedUnits(op) /\ RetiredUnits(op)' = RetiredUnits(op)
        /\ Resumes(op)' = Resumes(op)
    BY <2>1 DEF OwnedUnits, RetiredUnits, Resumes
  <2> QED
    BY <2>1, <2>2
<1>13. CASE Environment
  BY <1>11, <1>12, <1>13 DEF Environment, Drift, ForeignReload, ReloadedManager, UpgradePodman,
     StartUnit, StopUnit
<1>14. CASE \E f \in Files : RemoveFile(f) \/ InstallFile(f)
  BY <1>2, <1>11, <1>14 DEF RemoveFile, InstallFile, End
<1> QED
  BY <1>1, <1>2, <1>3, <1>4, <1>5, <1>6, <1>7, <1>8, <1>9, <1>10, <1>13, <1>14
     DEF Next, Call, Fail, Commit, SyncRecord, End

-----------------------------------------------------------------------------
(* What the records say of the host *)

\* What another deployment holds is out of the operation's reach.
LEMMA OutOfReach ==
  ASSUME OwnershipInv, pc \in Reserved, NEW m \in Names, m # op.name
  PROVE  /\ \A f \in OwnedFiles(op), g \in record[m].files : f # g /\ ~Overlaps(f, g)
         /\ OwnedUnits(op) \cap record[m].units = {}
BY ReservedSets DEF OwnershipInv, OwnershipDisjoint, Overlaps

LEMMA FootprintStep ==
  ASSUME OwnershipInv, RetiredGone, LinksRecorded', FootprintRecorded, Next
  PROVE  FootprintRecorded'
<1>1. ASSUME NEW f \in Files, Written(f)'
      PROVE  \E n \in Names : f \in record'[n].files
  <2>1. \E n \in Names : f \in record[n].files
    <3>1. CASE Written(f)
      BY <3>1 DEF FootprintRecorded, Written
    <3>2. CASE pc = "install" /\ f \in todo
      BY <3>2, LoopFiles, ReservedSets DEF Reserved
    <3> QED
      BY <1>1, <3>1, <3>2, WrittenStep
  <2>2. PICK n \in Names : f \in record[n].files
    BY <2>1
  <2>3. CASE record'[n] # record[n]
    <3>1. n = op.name /\ pc \in {"reserve", "commit", "forget"}
      BY <2>3, OthersKept
    <3>2. CASE Reserve
      BY <2>2, <3>1, <3>2 DEF Reserve, Reservation, OwnedFiles, OwnershipInv, Reserving, TypeOK
    <3>3. CASE Commit \/ Forget
      <4>1. f \in OwnedFiles(op) /\ UNCHANGED disk /\ Written(f)
        BY <1>1, <2>2, <3>1, <3>3, ReservedSets DEF Commit, Forget, hostVars, Reserved, Written
      <4>2. f \notin RetiredFiles(op)
        BY <3>3, <4>1 DEF Commit, Forget, RetiredGone, ApplyOnly
      <4>3. f \in DOMAIN op.want.files
        BY <4>1, <4>2 DEF OwnedFiles, RetiredFiles
      <4>4. pc = "commit"
        BY <3>3, <4>3, NoPayloadFacts DEF Commit, Forget, OwnershipInv, StepsConsistent,
           DeleteOnly, LocalsConsistent
      <4>5. record'[n] = Commitment(op)
        BY <3>1, <3>3, <4>4 DEF Commit, Forget, OwnershipInv, TypeOK
      <4> QED
        BY <4>3, <4>5 DEF Commitment
    <3> QED
      BY <2>3, <3>2, <3>3, RecordFrame
  <2> QED
    BY <2>2, <2>3
<1> QED
  BY <1>1 DEF FootprintRecorded, Written, LinksRecorded

LEMMA CommittedExactStep ==
  ASSUME OwnershipInv, WantedInstalled, LinksFollow, CommittedExact, Next
  PROVE  CommittedExact'
<1> SUFFICES ASSUME NEW n \in Names, Committed(n)'
             PROVE  LET p == record'[n].revision IN
                    /\ record'[n].files = DOMAIN p.files
                    /\ record'[n].enabled = p.enable
                    /\ \A f \in DOMAIN p.files : f \in drifted' \/ disk'[f] = p.files[f]
                    /\ (links' \cap record'[n].units) \ relinked' = p.enable \ relinked'
                    /\ (loaded'.links \cap record'[n].units) \ relinked' = p.enable \ relinked'
  BY DEF CommittedExact
<1> DEFINE p == record'[n].revision
<1>1. CASE record'[n] # record[n]
  <2>1. op.name = n /\ (Reserve \/ Commit \/ Forget)
    BY <1>1, OthersKept, RecordFrame
  <2>2. ~Reserve
    BY <2>1 DEF Reserve, Reservation, Committed, OwnershipInv, TypeOK
  <2>3. ~Forget
    BY <2>1 DEF Forget, NoRecord, Committed, Held, OwnershipInv, TypeOK
  <2>4. record'[n] = Commitment(op) /\ pc = "commit" /\ UNCHANGED <<disk, links, relinked, loaded, drifted>>
    BY <2>1, <2>2, <2>3 DEF Commit, OwnershipInv, TypeOK, hostVars
  <2>5. op.want.enable \subseteq op.units /\ op.units \subseteq OwnedUnits(op)
    BY <2>4, PolicyNative DEF OwnedUnits
  <2>6. \A f \in DOMAIN op.want.files : InPlace(f, op.want.files[f])
    BY <2>4 DEF WantedInstalled, ApplyOnly
  <2>7. (links \cap OwnedUnits(op)) \ relinked = op.want.enable \ relinked
        /\ (loaded.links \cap OwnedUnits(op)) \ relinked = op.want.enable \ relinked
    BY <2>4 DEF LinksFollow, KeptLinks
  <2> QED
    BY <2>4, <2>5, <2>6, <2>7 DEF Commitment, InPlace
<1>2. CASE record'[n] = record[n]
  <2>1. Committed(n) /\ p = record[n].revision /\ p \in Payloads
    BY <1>2 DEF Committed, Held, OwnershipInv, TypeOK, RecordType, Revisions
  <2>2. /\ record[n].files = DOMAIN p.files /\ record[n].enabled = p.enable
        /\ (links \cap record[n].units) \ relinked = p.enable \ relinked
        /\ (loaded.links \cap record[n].units) \ relinked = p.enable \ relinked
        /\ \A f \in DOMAIN p.files : InPlace(f, p.files[f])
    BY <2>1 DEF CommittedExact, InPlace
  <2>3. pc \in Reserved => op.name # n
    BY <2>1, OwnRecord DEF Committed
  <2>4. ASSUME NEW f \in DOMAIN p.files
        PROVE  f \in drifted' \/ disk'[f] = p.files[f]
    <3>1. f \in Files /\ p.files[f] \in Contents
      BY <2>1, PayloadFacts
    <3>2. ASSUME pc \in {"remove", "install"}, f \in todo
          PROVE  FALSE
      <4>1. f \in OwnedFiles(op)
        BY <3>2, LoopFiles DEF RetiredFiles, OwnedFiles
      <4> QED
        BY <2>2, <2>3, <3>2, <4>1, OutOfReach DEF Reserved
    <3> QED
      BY <2>2, <3>1, <3>2, InPlaceStep
  <2>5. UNCHANGED loaded \/ (loaded'.links = links /\ UNCHANGED <<links, relinked>>)
    BY AdmitFrame DEF Next, Call, Environment, Reserve, QueryRetired, DisableRetired, StopRetired,
       RemoveFile, RemovalDone, InstallFile, InstallDone, RecoverEnablement, DisablePrevious,
       Enable, Reload, Restart, TryRestart, Commit, Forget, SyncRecord, Fail, Drift,
       ForeignReload, UpgradePodman, StartUnit, StopUnit, Relink, ReloadedManager, hostVars
  <2>6. /\ (links' \cap record[n].units) \ relinked' = p.enable \ relinked'
        /\ (loaded'.links \cap record[n].units) \ relinked' = p.enable \ relinked'
    <3>1. CASE UNCHANGED <<links, relinked>>
      BY <2>2, <2>5, <3>1
    <3>2. CASE \E u \in Units : Relink(u)
      <4>1. PICK u \in Units : Relink(u)
        BY <3>2
      <4>2. links' \ {u} = links \ {u} /\ relinked' = relinked \cup {u} /\ UNCHANGED loaded
        BY <4>1 DEF Relink
      <4> QED
        BY <2>2, <4>2
    <3>3. CASE Relinks
      <4>1. PICK S \in SUBSET OwnedUnits(op) :
              links' \ S = links \ S /\ relinked' \ S = relinked \ S
        BY <3>3 DEF Relinks, Linked, Unlinked
      <4>2. S \cap record[n].units = {}
        BY <2>3, <3>3, OutOfReach DEF Relinks, Reserved
      <4>3. p.enable \subseteq record[n].units
        BY <2>1, <2>2 DEF OwnershipInv, RecordsReadable
      <4>4. UNCHANGED loaded \/ UNCHANGED <<links, relinked>>
        BY <2>5
      <4> QED
        BY <2>2, <2>5, <4>1, <4>2, <4>3, <4>4
    <3> QED
      BY <3>1, <3>2, <3>3, LinksFrame
  <2> QED
    BY <1>2, <2>1, <2>2, <2>4, <2>6
<1> QED
  BY <1>1, <1>2

-----------------------------------------------------------------------------

LEMMA EngineInit ==
  ASSUME Init
  PROVE  EngineInv
<1>1. pc = "idle" /\ KeptLinks = {} /\ \A n \in Names : record[n] = NoRecord
  BY DEF Init, KeptLinks
<1>2. \A f \in Files : ~Written(f)
  BY ValueAssumption DEF Init, Written
<1>3. RetiredGone /\ DestroyedGone /\ WantedInstalled /\ LinksFollow /\ PriorCommitted
  BY <1>1 DEF RetiredGone, DestroyedGone, WantedInstalled, LinksFollow, PriorCommitted, ApplyOnly
<1>4. LinksRecorded /\ FootprintRecorded /\ CommittedExact
  BY <1>1, <1>2 DEF LinksRecorded, FootprintRecorded, Written, CommittedExact, Committed, Held,
     NoRecord
<1> QED
  BY <1>3, <1>4, OwnershipInit DEF EngineInv

LEMMA EngineStutter ==
  ASSUME EngineInv, Still
  PROVE  EngineInv'
<1>1. OwnershipInv'
  BY OwnershipStutter DEF EngineInv
<1>2. RetiredGone' /\ DestroyedGone' /\ WantedInstalled'
  BY DEF EngineInv, Still, hostVars, RetiredGone, DestroyedGone, WantedInstalled, RetiredFiles, Written, InPlace
<1>3. LinksRecorded' /\ LinksFollow' /\ PriorCommitted'
  BY DEF EngineInv, Still, hostVars, LinksRecorded, LinksFollow, KeptLinks, PriorCommitted, OwnedUnits,
     RetiredUnits, Resumes
<1>4. FootprintRecorded' /\ CommittedExact'
  BY DEF EngineInv, Still, hostVars, FootprintRecorded, KeptLinks, CommittedExact, Committed, Held
<1> QED
  BY <1>1, <1>2, <1>3, <1>4 DEF EngineInv

LEMMA EngineStep ==
  ASSUME EngineInv, Next
  PROVE  EngineInv'
<1>1. OwnershipInv'
  BY TypeStep, RecordsStep, LocalsStep, StepsStep, ReservingStep, DisjointStep
     DEF EngineInv, OwnershipInv
<1>2. LinksRecorded'
  BY LinksRecordedStep DEF EngineInv
<1> QED
  BY <1>1, <1>2, RetiredGoneStep, DestroyedGoneStep, WantedInstalledStep, LinksFollowStep, PriorCommittedStep,
     FootprintStep, CommittedExactStep DEF EngineInv

\* The inductive invariant of the files and the links: how far each loop of Apply and
\* Delete (apply.go, read.go) and each change of the enablement (units.go) has come.
THEOREM HostInvariant == Spec => []EngineInv
<1>1. EngineInv /\ [Next]_vars => EngineInv'
  BY EngineStep, StutterIsStill, EngineStutter DEF EngineInv, OwnershipInv
<1> QED
  BY EngineInit, <1>1, PTL DEF Spec

\* For hosts of every size: whatever an operation wrote or enabled stays in a record
\* until it is gone, however often operations fail and the host changes.
THEOREM FootprintStaysRecorded == Spec => []FootprintRecorded
<1>1. EngineInv => FootprintRecorded
  BY DEF EngineInv
<1> QED
  BY HostInvariant, <1>1, PTL

\* A committed record describes the files and links of the host exactly, whatever
\* interrupted operations came before it.
THEOREM CommittedRecordsExact == Spec => []CommittedExact
<1>1. EngineInv => CommittedExact
  BY DEF EngineInv
<1> QED
  BY HostInvariant, <1>1, PTL

-----------------------------------------------------------------------------
(* What a step may never do *)

\* Jobs for a set of units start and stop these units and what they pull along.
LEMMA JobsReach ==
  ASSUME NEW S, NEW under, NEW u \in Units, run'[u] # run[u],
         Restarted(S, under) \/ Disrupted(S, under) \/ Halted(S)
  PROVE  u \in S \cup Reached(S)
<1>1. ASSUME NEW up \in SUBSET S, JobsRun(up, S, under)
      PROVE  u \in S \cup Reached(S)
  BY <1>1 DEF JobsRun, Settled
<1>2. CASE Halted(S)
  BY <1>2 DEF Halted, Settled
<1> QED
  BY <1>1, <1>2 DEF Restarted, Disrupted

\* The instances that a call starts or stops are those of the operation's units and of
\* the units that these pull along.
LEMMA RunStep ==
  ASSUME OwnershipInv, Next, Call \/ Fail, NEW u \in Units, run'[u] # run[u]
  PROVE  pc \in Reserved /\ u \in OwnedUnits(op) \cup Reached(OwnedUnits(op))
<1> USE DEF Reserved
<1>1. pc \in {"restart", "tryrestart"} =>
        op.want.restart \subseteq OwnedUnits(op) /\ op.want.tryRestart \subseteq OwnedUnits(op)
  BY DEF OwnershipInv, StepsConsistent, ApplyOnly, LocalsConsistent, OwnsActivated, OwnedUnits
<1>2. pc = "stop" => op.present \subseteq OwnedUnits(op)
  BY DEF OwnershipInv, LocalsConsistent, RetiredUnits
<1>3. ASSUME NEW S \in SUBSET OwnedUnits(op), NEW under,
             Restarted(S, under) \/ Disrupted(S, under) \/ Halted(S)
      PROVE  u \in OwnedUnits(op) \cup Reached(OwnedUnits(op))
  BY <1>3, JobsReach DEF Reached
<1>4. CASE StopRetired
  BY <1>2, <1>3, <1>4 DEF StopRetired
<1>5. CASE Restart
  BY <1>1, <1>3, <1>5 DEF Restart
<1>6. CASE TryRestart
  BY <1>1, <1>3, <1>6 DEF TryRestart
<1>7. CASE Fail
  BY <1>1, <1>2, <1>3, <1>7 DEF Fail
<1>8. CASE UNCHANGED run
  BY <1>8
<1> QED
  BY <1>4, <1>5, <1>6, <1>7, <1>8 DEF Call, Reserve, QueryRetired, DisableRetired, RemoveFile,
     RemovalDone, InstallFile, InstallDone, RecoverEnablement, DisablePrevious, Enable, Reload,
     Commit, Forget, SyncRecord, hostVars

\* The files that a call touches are the operation's and the directories above them.
LEMMA DiskStep ==
  ASSUME OwnershipInv, Call \/ Fail, NEW g \in Files, disk'[g] # disk[g]
  PROVE  pc \in Reserved /\ \E f \in OwnedFiles(op) : f = g \/ g \in Parents[f]
<1> USE DEF Reserved
<1>1. pc \in {"remove", "install"} => todo \subseteq OwnedFiles(op)
  BY LoopFiles DEF OwnedFiles, RetiredFiles
<1>2. CASE \E f \in Files : RemoveFile(f)
  BY <1>1, <1>2 DEF RemoveFile, Without, OwnershipInv, TypeOK, Trees
<1>3. CASE \E f \in Files : InstallFile(f)
  BY <1>1, <1>3 DEF InstallFile, With, MadeAbove, OwnershipInv, TypeOK, Trees
<1>4. CASE Fail
  BY <1>1, <1>4 DEF Fail, MadeAbove
<1>5. CASE UNCHANGED disk
  BY <1>5
<1> QED
  BY <1>2, <1>3, <1>4, <1>5 DEF Call, Reserve, QueryRetired, DisableRetired, StopRetired,
     RemovalDone, InstallDone, RecoverEnablement, DisablePrevious, Enable, Reload, Restart,
     TryRestart, Commit, Forget, SyncRecord, hostVars

\* However deployments are nested, renamed or interrupted: an operation leaves the
\* record, the files and the links of the others alone, and of their running units it
\* reaches those only that its own units pull along.
THEOREM OperationsIsolated == Spec => Isolation
<1>1. ASSUME EngineInv, Next, Call \/ Fail, NEW m \in Names \ {op.name}
      PROVE  /\ record'[m] = record[m]
             /\ \A f \in record[m].files : disk'[f] = disk[f]
             /\ \A u \in record[m].units :
                  /\ u \in links' <=> u \in links
                  /\ run'[u] = run[u] \/ u \in Reached(OwnedUnits(op))
  <2> USE <1>1 DEF EngineInv
  <2>1. record[m].files \subseteq Files /\ record[m].units \subseteq Units
    BY DEF OwnershipInv, TypeOK, RecordType
  <2>2. record'[m] = record[m]
    BY OthersKept
  <2>3. ASSUME NEW g \in record[m].files
        PROVE  disk'[g] = disk[g]
    BY <2>1, DiskStep, OutOfReach DEF Overlaps
  <2>4. ASSUME NEW u \in record[m].units
        PROVE  run'[u] = run[u] \/ u \in Reached(OwnedUnits(op))
    BY <2>1, RunStep, OutOfReach
  <2>5. ASSUME NEW u \in record[m].units
        PROVE  u \in links' <=> u \in links
    <3>1. CASE UNCHANGED links
      BY <3>1
    <3>2. CASE Relinks
      <4>1. u \notin OwnedUnits(op)
        BY <3>2, OutOfReach DEF Relinks, Reserved
      <4> QED
        BY <3>2, <4>1 DEF Relinks, Linked, Unlinked
    <3> QED
      BY <3>1, <3>2, CallsRelink
  <2> QED
    BY <2>2, <2>3, <2>4, <2>5
<1> DEFINE Isolated ==
  Call \/ Fail =>
    \A m \in Names \ {op.name} :
      /\ record'[m] = record[m]
      /\ \A f \in record[m].files : disk'[f] = disk[f]
      /\ \A u \in record[m].units :
           /\ u \in links' <=> u \in links
           /\ run'[u] = run[u] \/ u \in Reached(OwnedUnits(op))
<1>2. EngineInv /\ [Next]_vars => [Isolated]_vars
  BY <1>1
<1> QED
  BY HostInvariant, <1>2, PTL DEF Spec, Isolation

\* A held name is rewritten by its owner's operations only, and freed by a destroy
\* after its files and links are gone.
THEOREM ReleasedByOwner == Spec => OnlyOwnerReleases
<1> DEFINE Released(n) ==
  Held(n) /\ record'[n] # record[n] =>
    /\ op.name = n /\ op.id = record[n].id
    /\ record'[n].id # record[n].id =>
         /\ op.kind = "delete"
         /\ record[n].revision = NoRevision
         /\ \A f \in record[n].files : disk[f] = Absent \/ f \in drifted
         /\ links \cap record[n].units \subseteq relinked
<1>1. ASSUME EngineInv, Next, NEW n \in Names
      PROVE  Released(n)
  <2> SUFFICES ASSUME Held(n), record'[n] # record[n]
               PROVE  Released(n)
    OBVIOUS
  <2> USE <1>1 DEF EngineInv
  <2>1. op.name = n /\ (Reserve \/ Commit \/ Forget)
    BY OthersKept, RecordFrame
  <2>2. CASE Reserve
    <3>1. record[n] = op.prior /\ op.prior.id = op.id
      BY <2>1, <2>2 DEF Reserve, OwnershipInv, Reserving, LocalsConsistent, Held
    <3> QED
      BY <2>1, <2>2, <3>1 DEF Reserve, Reservation, OwnershipInv, TypeOK
  <2>3. CASE Commit
    BY <2>1, <2>3, OwnRecord DEF Commit, Commitment, Reserved, OwnershipInv, TypeOK
  <2>4. CASE Forget
    <3>1. pc = "forget" /\ op.kind = "delete" /\ record[n].revision = NoRevision
          /\ op.id = record[n].id
      BY <2>1, <2>4, OwnRecord DEF Forget, Reserved, OwnershipInv, StepsConsistent, DeleteOnly
    <3>2. OwnedUnits(op) = record[n].units /\ RetiredUnits(op) = OwnedUnits(op)
          /\ RetiredFiles(op) = record[n].files
      BY <2>1, <3>1, ReservedSets, NoPayloadFacts
         DEF Reserved, OwnershipInv, LocalsConsistent, RetiredUnits, RetiredFiles, OwnedFiles
    <3>3. links \cap record[n].units \subseteq relinked
      BY <3>1, <3>2 DEF LinksFollow, KeptLinks
    <3>4. \A f \in record[n].files : disk[f] = Absent \/ f \in drifted
      BY <3>1, <3>2 DEF DestroyedGone, InPlace
    <3> QED
      BY <2>1, <3>1, <3>3, <3>4
  <2> QED
    BY <2>1, <2>2, <2>3, <2>4
<1>2. EngineInv /\ [Next]_vars => [\A n \in Names : Released(n)]_vars
  BY <1>1
<1> QED
  BY HostInvariant, <1>2, PTL DEF Spec, OnlyOwnerReleases

-----------------------------------------------------------------------------
(* The ledger of claims *)

\* What the mapping makes of the state: the ledger's variables.
claims == [n \in Names |-> ClaimOf(n)]
written == {f \in Files : disk[f] \in Contents \ {Foreign}}

LEMMA ClashesAreOverlaps ==
  ASSUME NEW f \in Files, NEW S \in SUBSET Files
  PROVE  ClashesOf[f] \cap S = {} <=> \A g \in S : ~Overlaps(f, g)
BY DEF ClashesOf

\* The instance provides what the ledger assumes of its constants.
LEMMA LedgerAssumption == Ledger!ClaimsAssumption
<1>1. \A f, g \in Files : Overlaps(f, f) /\ (Overlaps(f, g) => Overlaps(g, f))
  BY DEF Overlaps
<1> QED
  BY <1>1, EngineAssumption DEF Ledger!ClaimsAssumption, ClashesOf

LEMMA ClaimFields ==
  ASSUME NEW n \in Names
  PROVE  /\ claims[n].id = record[n].id
         /\ claims[n].files = record[n].files
         /\ claims[n].units = record[n].units
         /\ claims[n].open <=> Interrupted(n)
BY DEF claims, ClaimOf, Interrupted, Held

\* A step that leaves the records alone leaves the claims alone.
LEMMA ClaimsKept ==
  ASSUME UNCHANGED record
  PROVE  claims' = claims
BY DEF claims, ClaimOf, Interrupted, Held

\* Writing one record changes one claim.
LEMMA ClaimWritten ==
  ASSUME TypeOK, NEW n \in Names, NEW r \in RecordType, record' = [record EXCEPT ![n] = r]
  PROVE  /\ claims' = [claims EXCEPT ![n] = claims'[n]]
         /\ claims'[n].id = r.id /\ claims'[n].files = r.files /\ claims'[n].units = r.units
         /\ claims'[n].open <=> r.id # NoOwner /\ r.revision = NoRevision
         /\ claims'[n] \in Ledger!ClaimType
<1>1. \A m \in Names \ {n} : ClaimOf(m)' = ClaimOf(m)
  BY DEF TypeOK, ClaimOf, Interrupted, Held
<1>2. record'[n] = r
  BY DEF TypeOK
<1>3. claims'[n] = ClaimOf(n)'
  BY DEF claims
<1>4. ClaimOf(n)' \in Ledger!ClaimType
  BY <1>2 DEF ClaimOf, Interrupted, Held, RecordType, Ledger!ClaimType
<1> QED
  BY <1>1, <1>2, <1>3, <1>4 DEF claims, ClaimOf, Interrupted, Held

LEMMA ReserveOpensClaim ==
  ASSUME EngineInv, Reserve, NEW n \in Names, n = op.name
  PROVE  Ledger!OpenClaim(n, claims'[n])
<1>1. /\ op \in OpType /\ record[n] = op.prior /\ pc = "reserve"
      /\ ~Conflict(n, OwnedFiles(op), OwnedUnits(op))
      /\ op.prior.id \in {NoOwner, op.id} /\ op.id # NoOwner
  BY EngineAssumption DEF Reserve, EngineInv, OwnershipInv, TypeOK, OpType, Reserving, LocalsConsistent
<1>2. /\ record' = [record EXCEPT ![n] = Reservation(op)]
      /\ Reservation(op) \in RecordType
      /\ Reservation(op).id = op.id /\ Reservation(op).revision = NoRevision
      /\ Reservation(op).files = OwnedFiles(op) /\ Reservation(op).units = OwnedUnits(op)
  BY <1>1, OperationSets DEF Reserve, Reservation
<1>3. /\ claims'[n].id = op.id /\ claims'[n].files = OwnedFiles(op)
      /\ claims'[n].units = OwnedUnits(op) /\ claims'[n].open
      /\ claims' = [claims EXCEPT ![n] = claims'[n]]
      /\ claims'[n] \in Ledger!ClaimType
  <2>1. TypeOK
    BY DEF EngineInv, OwnershipInv
  <2> QED
    BY <1>1, <1>2, <2>1, ClaimWritten
<1>4. /\ claims[n].id \in {NoOwner, op.id}
      /\ claims[n].files \subseteq OwnedFiles(op)
      /\ claims[n].units \subseteq OwnedUnits(op)
  BY <1>1, ClaimFields DEF OwnedFiles, OwnedUnits
<1>5. ASSUME NEW m \in Names \ {n}
      PROVE  Ledger!Compatible(claims'[n].files, claims'[n].units, claims[m])
  <2>1. claims[m].files = record[m].files /\ claims[m].units = record[m].units
    BY ClaimFields
  <2>2. OwnedFiles(op) \subseteq Files /\ record[m].files \subseteq Files
    BY <1>1, OperationSets DEF EngineInv, OwnershipInv, TypeOK, RecordType
  <2>3. \A f \in OwnedFiles(op) : ClashesOf[f] \cap record[m].files = {}
    BY <1>1, <2>2, ClashesAreOverlaps DEF Conflict
  <2>4. OwnedUnits(op) \cap record[m].units = {}
    BY <1>1 DEF Conflict
  <2> QED
    BY <1>3, <2>1, <2>3, <2>4 DEF Ledger!Compatible
<1>6. written' = written /\ KeptLinks' = KeptLinks
  BY DEF Reserve, hostVars, written, KeptLinks
<1>7. claims'[n].id # NoOwner /\ claims[n].id \in {NoOwner, claims'[n].id}
      /\ claims[n].files \subseteq claims'[n].files /\ claims[n].units \subseteq claims'[n].units
  BY <1>1, <1>3, <1>4
<1> QED
  BY <1>3, <1>5, <1>6, <1>7 DEF Ledger!OpenClaim, claims, written

LEMMA CommitClosesClaim ==
  ASSUME EngineInv, Commit, NEW n \in Names, n = op.name
  PROVE  Ledger!CloseClaim(n, claims'[n])
<1>1. /\ pc = "commit" /\ op \in OpType /\ TypeOK
      /\ record[n].id = op.id /\ op.id # NoOwner /\ record[n].revision = NoRevision
      /\ record[n].files = OwnedFiles(op) /\ record[n].units = OwnedUnits(op)
  BY OwnRecord, ReservedSets DEF Commit, Reserved, EngineInv, OwnershipInv, TypeOK
<1>2. /\ record' = [record EXCEPT ![n] = Commitment(op)]
      /\ Commitment(op) \in RecordType
      /\ Commitment(op).id = op.id /\ Commitment(op).revision # NoRevision
      /\ Commitment(op).files = DOMAIN op.want.files /\ Commitment(op).units = op.units
  <2>1. op.want \in Payloads
    BY <1>1 DEF EngineInv, OwnershipInv, StepsConsistent, ApplyOnly, LocalsConsistent
  <2> QED
    BY <1>1, <2>1, PayloadFacts DEF Commit, Commitment, RecordType, Revisions, OpType
<1>3. /\ claims'[n].id = op.id /\ claims'[n].files = DOMAIN op.want.files
      /\ claims'[n].units = op.units /\ ~claims'[n].open
      /\ claims' = [claims EXCEPT ![n] = claims'[n]]
  BY <1>1, <1>2, ClaimWritten
<1>4. /\ claims[n].id = op.id /\ claims[n].files = OwnedFiles(op)
      /\ claims[n].units = OwnedUnits(op) /\ claims[n].open
  BY <1>1, ClaimFields DEF Interrupted, Held
<1>5. written \cap OwnedFiles(op) \subseteq DOMAIN op.want.files
  BY <1>1 DEF written, Written, EngineInv, RetiredGone, ApplyOnly, RetiredFiles, OwnedFiles
<1>6. KeptLinks \cap OwnedUnits(op) \subseteq op.units
  BY <1>1 DEF EngineInv, LinksFollow, ApplyOnly, RetiredUnits, OwnedUnits
<1>7. written' = written /\ KeptLinks' = KeptLinks
  BY DEF Commit, hostVars, written, KeptLinks
<1>8. /\ claims'[n].id = claims[n].id
      /\ claims'[n].files \subseteq claims[n].files /\ claims'[n].units \subseteq claims[n].units
      /\ written \cap claims[n].files \subseteq claims'[n].files
      /\ KeptLinks \cap claims[n].units \subseteq claims'[n].units
  BY <1>3, <1>4, <1>5, <1>6 DEF OwnedFiles, OwnedUnits
<1> QED
  BY <1>3, <1>4, <1>7, <1>8 DEF Ledger!CloseClaim, claims, written

LEMMA ForgetDropsClaim ==
  ASSUME EngineInv, Forget, NEW n \in Names, n = op.name
  PROVE  Ledger!DropClaim(n)
<1>1. /\ pc = "forget" /\ op.kind = "delete" /\ TypeOK
      /\ record[n].id # NoOwner /\ record[n].revision = NoRevision
      /\ record[n].files = OwnedFiles(op) /\ record[n].units = OwnedUnits(op)
  BY OwnRecord, ReservedSets DEF Forget, Reserved, EngineInv, OwnershipInv, StepsConsistent,
     DeleteOnly
<1>2. OwnedFiles(op) = RetiredFiles(op) /\ OwnedUnits(op) = RetiredUnits(op)
  BY <1>1, NoPayloadFacts DEF EngineInv, OwnershipInv, LocalsConsistent, OwnedFiles, OwnedUnits,
     RetiredFiles, RetiredUnits
<1>3. NoRecord \in RecordType /\ record' = [record EXCEPT ![n] = NoRecord]
  BY DEF Forget, NoRecord, RecordType, Revisions
<1>4. claims' = [claims EXCEPT ![n] = Ledger!Free]
  <2>1. \A m \in Names \ {n} : ClaimOf(m)' = ClaimOf(m)
    BY <1>1, <1>3 DEF TypeOK, ClaimOf, Interrupted, Held
  <2>2. record'[n] = NoRecord
    BY <1>1, <1>3 DEF TypeOK
  <2>3. ClaimOf(n)' = Ledger!Free
    <3>1. ~(record'[n].id # NoOwner /\ record'[n].revision = NoRevision)
      BY <2>2 DEF NoRecord
    <3>2. record'[n].id = NoOwner /\ record'[n].files = {} /\ record'[n].units = {}
      BY <2>2 DEF NoRecord
    <3> QED
      BY <3>1, <3>2 DEF ClaimOf, Interrupted, Held, Ledger!Free
  <2> QED
    BY <2>1, <2>3 DEF claims
<1>5. claims[n].files = OwnedFiles(op) /\ claims[n].units = OwnedUnits(op) /\ claims[n].open
  BY <1>1, ClaimFields DEF Interrupted, Held
<1>6. written \cap OwnedFiles(op) = {}
  BY <1>1, <1>2 DEF written, Written, EngineInv, RetiredGone
<1>7. KeptLinks \cap OwnedUnits(op) = {}
  BY <1>1, <1>2 DEF EngineInv, LinksFollow
<1>8. written' = written /\ KeptLinks' = KeptLinks
  BY DEF Forget, hostVars, written, KeptLinks
<1>9. written \cap claims[n].files = {} /\ KeptLinks \cap claims[n].units = {}
  BY <1>5, <1>6, <1>7
<1> QED
  BY <1>4, <1>5, <1>8, <1>9 DEF Ledger!DropClaim, claims, written

\* Calls that change the host change what the open claim of their deployment covers.
LEMMA CallsWorkInside ==
  ASSUME EngineInv, Next, Call \/ Fail, UNCHANGED record, NEW n \in Names, n = op.name,
         written' # written \/ KeptLinks' # KeptLinks
  PROVE  Ledger!Work(n)
<1>1. pc \in Reserved
  <2>1. CASE disk' # disk
    <3>1. PICK g \in Files : disk'[g] # disk[g]
      BY <2>1, TypeStep DEF EngineInv, OwnershipInv, TypeOK, Trees
    <3> QED
      BY <3>1, DiskStep DEF EngineInv
  <2>2. CASE KeptLinks' # KeptLinks
    BY <2>2, LinksStep DEF EngineInv, Relinks, Reserved
  <2> QED
    BY <2>1, <2>2 DEF written
<1>2. /\ claims[n].files = OwnedFiles(op) /\ claims[n].units = OwnedUnits(op) /\ claims[n].open
  BY <1>1, ClaimFields, OwnRecord, ReservedSets DEF Interrupted, Held, EngineInv
<1>3. ASSUME NEW g \in Files \ OwnedFiles(op)
      PROVE  g \in written' <=> g \in written
  <2>1. ASSUME g \in written'
        PROVE  g \in written
    BY <1>1, <2>1, WrittenStep, LoopFiles DEF written, Written, EngineInv, OwnedFiles
  <2>2. ASSUME g \in written, disk'[g] # disk[g]
        PROVE  FALSE
    <3>1. PICK m \in Names : g \in record[m].files
      BY <2>2 DEF written, EngineInv, FootprintRecorded
    <3>2. m # op.name
      BY <1>1, <3>1, ReservedSets DEF EngineInv
    <3> QED
      BY <1>1, <2>2, <3>1, <3>2, DiskStep, OutOfReach DEF EngineInv, Overlaps
  <2> QED
    BY <2>1, <2>2 DEF written
<1>4. written' \ OwnedFiles(op) = written \ OwnedFiles(op)
  BY <1>3 DEF written
<1>5. KeptLinks' \ OwnedUnits(op) = KeptLinks \ OwnedUnits(op)
  BY LinksStep DEF EngineInv
<1>6. claims' = claims
  BY ClaimsKept
<1>7. written' \ claims[n].files = written \ claims[n].files
      /\ KeptLinks' \ claims[n].units = KeptLinks \ claims[n].units
  BY <1>2, <1>4, <1>5
<1> QED
  BY <1>2, <1>6, <1>7 DEF Ledger!Work, claims, written

\* The rest of the host only ever overwrites or removes what deployments wrote.
LEMMA OthersOverwrite ==
  ASSUME EngineInv, Environment
  PROVE  Ledger!Overwrite
<1>1. UNCHANGED record
  BY DEF Environment, Drift, ForeignReload, UpgradePodman, StartUnit, StopUnit, Relink
<1>2. ASSUME NEW f \in Files, Drift(f)
      PROVE  written' \subseteq written
  BY <1>2, ValueAssumption
     DEF Drift, Without, With, MadeAbove, written, EngineInv, OwnershipInv, TypeOK, Trees
<1>3. written' \subseteq written
  BY <1>2 DEF Environment, ForeignReload, UpgradePodman, StartUnit, StopUnit, Relink, written
<1>4. KeptLinks' \subseteq KeptLinks
  BY KeptLinksMove DEF Environment, Drift, ForeignReload, UpgradePodman, StartUnit, StopUnit,
     KeptLinks
<1>5. claims' = claims
  BY <1>1, ClaimsKept
<1> QED
  BY <1>3, <1>4, <1>5 DEF Ledger!Overwrite, claims, written

-----------------------------------------------------------------------------

\* Every step of Engine is a step of the ledger, or one it does not see.
LEMMA LedgerStep ==
  EngineInv /\ [Next]_vars => [Ledger!ClaimsNext]_(Ledger!claimsVars)
<1> SUFFICES ASSUME EngineInv, [Next]_vars
             PROVE  [Ledger!ClaimsNext]_(Ledger!claimsVars)
  OBVIOUS
<1> DEFINE Seen == claims' # claims \/ written' # written \/ KeptLinks' # KeptLinks
<1>1. CASE UNCHANGED vars
  <2>1. claims' = claims /\ written' = written /\ KeptLinks' = KeptLinks
    BY <1>1, ClaimsKept DEF vars, written, KeptLinks
  <2> QED
    BY <2>1 DEF Ledger!claimsVars, claims, written
<1>2. ASSUME Next, Reserve \/ Commit \/ Forget
      PROVE  Ledger!ClaimsNext
  <2>1. PICK n \in Names : n = op.name
    BY <1>2 DEF Reserve, Commit, Forget, EngineInv, OwnershipInv, TypeOK, OpType
  <2>2. Ledger!OpenClaim(n, claims'[n]) \/ Ledger!CloseClaim(n, claims'[n]) \/ Ledger!DropClaim(n)
    BY <1>2, <2>1, ReserveOpensClaim, CommitClosesClaim, ForgetDropsClaim
  <2> QED
    BY <2>2 DEF Ledger!ClaimsNext, claims
<1>3. ASSUME Next, UNCHANGED record
      PROVE  [Ledger!ClaimsNext]_(Ledger!claimsVars)
  <2>1. claims' = claims
    BY <1>3, ClaimsKept
  <2>2. CASE written' = written /\ KeptLinks' = KeptLinks
    BY <2>1, <2>2 DEF Ledger!claimsVars, claims, written
  <2>3. CASE Environment
    BY <2>3, OthersOverwrite DEF Ledger!ClaimsNext
  <2>4. CASE (Call \/ Fail) /\ ~(written' = written /\ KeptLinks' = KeptLinks)
    <3>1. PICK n \in Names : n = op.name
      <4>1. pc # "idle"
        BY <2>4, IdleFrame, <1>3, AdmitFrame DEF written, Call, Fail, Reserve, QueryRetired,
           DisableRetired, StopRetired, RemoveFile, RemovalDone, InstallFile, InstallDone,
           RecoverEnablement, DisablePrevious, Enable, Reload, Restart, TryRestart, Commit,
           Forget, SyncRecord
      <4> QED
        BY <4>1 DEF EngineInv, OwnershipInv, TypeOK, OpType
    <3> QED
      BY <1>3, <2>4, <3>1, CallsWorkInside DEF Ledger!ClaimsNext
  <2>5. CASE Admit
    BY <2>2, <2>5, AdmitFrame DEF written, KeptLinks
  <2> QED
    BY <1>3, <2>2, <2>3, <2>4, <2>5 DEF Next
<1> QED
  BY <1>1, <1>2, <1>3, RecordFrame

\* Whatever operations, failures and other programs do to a host, its records are a
\* ledger of claims: reserve first, write inside, give up what is gone.
THEOREM ClaimsImplemented == Spec => ImplementsClaims
<1>1. Init => Ledger!ClaimsInit
  <2> SUFFICES ASSUME Init
               PROVE  Ledger!ClaimsInit
    OBVIOUS
  <2>1. \A n \in Names : ClaimOf(n) = Ledger!Free
    BY DEF Init, ClaimOf, Interrupted, Held, NoRecord, Ledger!Free
  <2>2. written = {} /\ KeptLinks = {}
    BY ValueAssumption DEF Init, written, KeptLinks
  <2> QED
    BY <2>1, <2>2 DEF Ledger!ClaimsInit, written
<1> QED
  BY <1>1, LedgerStep, HostInvariant, PTL DEF Spec, ImplementsClaims, Ledger!ClaimsSpec
=============================================================================
