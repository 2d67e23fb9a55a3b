CONSTANTS
  Names = {n1, n2}
  Owners = {o1, o2, o3}
  NoOwner = NoOwner
  NoOp = NoOp
  Stopped = Stopped
  Elsewhere = Elsewhere
  Absent = Absent
  Directory = Directory
  NoRevision = NoRevision
  Foreign = Foreign
  quadlet = quadlet
  native = native
  conf = conf
  below = below
  app = app
  web = web
  v1 = v1
  v2 = v2
  t1 = t1
  t2 = t2
  Files = {native, conf}
  Units = {web}
  Contents = {v1, v2, Foreign}
  Triggers = {t1, t2}
  Parents <- MCParents
  NativeFile <- MCNativeFile
  Generators <- MCOneGenerator
  Dependents <- MCDependents
  Payloads <- LifecyclePayloads
  DriftFiles = {conf}
  MaxFaults = 2
  Resources = {r1, r2}
  NoConfig = NoConfig
  NoState = NoState
  NoJob = NoJob
  MaxEdits = 1
SPECIFICATION LifecycleSpec
SYMMETRY LifecycleSymmetric
INVARIANTS
  LifecycleTypeOK
  OwnersKnown
  EmptyPlanApplied
CHECK_DEADLOCK FALSE
