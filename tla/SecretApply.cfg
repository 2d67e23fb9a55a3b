CONSTANTS
  Nothing = Nothing
  Resources = {r1}
  Versions = {v1, v2}
  MaxObjects = 6
  MaxOwners = 6
  MaxLost = 3
  MaxLate = 0
SPECIFICATION ApplySpec
PROPERTIES
  InstallCompletes
CHECK_DEADLOCK FALSE
