\* Two operations, two disturbances.
SPECIFICATION FairSpec
CONSTANTS
  Operations = {o1, o2}
  Old = Old
  Copying = {"upload"}
  MaxFaults = 2
INVARIANTS
  TypeOK
  SuccessUnderLock
  DestinationWhole
  SuccessDurable
PROPERTIES
  LockReturns
CHECK_DEADLOCK FALSE
