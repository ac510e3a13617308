CONSTANTS
  Good = {home, work}
  Bad = {empty}
  Null = null
  Default = default
  MaxRuns = 3
SPECIFICATION Spec
INVARIANTS OwnConnection AllOrNothing
CHECK_DEADLOCK FALSE
