CONSTANTS
  Rows <- MCRows
  Octets = {"0", "a", "b", "c", "d", "e"}
  Calls <- MCCalls
  Foreign <- MCForeign
  Width <- MCWidth
  Zero = "0"
  Parts = 2
SPECIFICATION Spec
INVARIANTS TypeOK  ChunksAdvance
 
CHECK_DEADLOCK FALSE
