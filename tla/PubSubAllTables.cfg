CONSTANTS
  Callers = {c1, c2}
  Channels = {news, items}
  AllTables = star
  MaxSent = 2
  MaxObservers = 2
  MaxConnects = 2
SPECIFICATION Spec
INVARIANTS AllTablesHeard
SYMMETRY Interchangeable
CHECK_DEADLOCK FALSE
