\* Two operations of the provider beside another process that uses the same lock file.
SPECIFICATION FairSpec
CONSTANTS
  Sessions = {s1, s2}
  Nobody = Nobody
  Elsewhere = Elsewhere
INVARIANTS
  OneAtATime
PROPERTIES
  ImplementsLease
  OperationsEnd
  LockReturns
