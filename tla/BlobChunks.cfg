CONSTANTS
  Rows <- MCCutRows
  Octets = {"0", "a", "b", "c", "d", "e"}
  Calls <- MCCutCalls
  Foreign <- MCCutForeign
  Width <- MCCutWidth
  Zero = "0"
  Parts = 2
SPECIFICATION Spec
INVARIANT ReadIsWhole
CHECK_DEADLOCK FALSE
