\* The comment of Manager.jobs: it waits for every job.
SPECIFICATION Spec
CONSTANTS
  Calls = {c1, c2}
  Units = {web, app}
  NoJob = NoJob
  Other = Other
  MaxForeign = 0
INVARIANTS
  JobsAwaited
CHECK_DEADLOCK FALSE
