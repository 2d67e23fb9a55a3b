CONSTANTS
  Names = {n1, n2}
  Owners = {o1, o2}
  NoOwner = NoOwner
  NoOp = NoOp
  Stopped = Stopped
  Elsewhere = Elsewhere
  Absent = Absent
  Directory = Directory
  NoRevision = NoRevision
  Foreign = Foreign
  quadlet = quadlet
  native = native
  conf = conf
  below = below
  app = app
  web = web
  v1 = v1
  v2 = v2
  t1 = t1
  t2 = t2
  Files = {quadlet, native}
  Units = {app, web}
  Contents = {v1, v2, Foreign}
  Triggers = {t1, t2}
  Parents <- MCParents
  NativeFile <- MCNativeFile
  Generators <- MCGenerators
  Dependents <- MCDependents
  Payloads <- FaultPayloads
  DriftFiles = {native}
  MaxFaults = 2
SPECIFICATION Spec
SYMMETRY Symmetric
INVARIANTS
  TypeOK
  FootprintRecorded
  RecordsReadable
  CommittedExact
  NothingOlderRuns
CHECK_DEADLOCK FALSE
