CONSTANTS
  RowCounts = {0, 1, 2}
  MaxCalls = 7
SPECIFICATION Spec
INVARIANTS RowsFollowSteps  BlobOutlivedOnlyByFailure
CHECK_DEADLOCK FALSE
