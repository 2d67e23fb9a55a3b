\* Two calls on up to two units, one job of another client.
SPECIFICATION FairSpec
CONSTANTS
  Calls = {c1, c2}
  Units = {web, app}
  NoJob = NoJob
  Other = Other
  MaxForeign = 1
INVARIANTS
  JobsTypeOK
  OutcomeTrue
  NothingLeftBehind
PROPERTIES
  CallsReturn
CHECK_DEADLOCK FALSE
