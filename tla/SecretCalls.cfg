CONSTANTS
  Nothing = Nothing
  Resources = {r1, r2}
  Versions = {v1, v2}
  MaxObjects = 3
  MaxOwners = 3
  MaxLost = 2
  MaxLate = 2
SPECIFICATION Spec
SYMMETRY Symmetric
INVARIANTS
  TypeOK
  OwnersDistinct
  RevisionTrue
  SecretsAccounted
PROPERTIES
  ForeignUntouched
CHECK_DEADLOCK FALSE
