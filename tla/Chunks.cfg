CONSTANTS
  NBuffers = 2
  MinRows = 1
  ChunkRows = {0, 3}
  MaxChunks = 3
  MaxCommands = 3
SPECIFICATION Spec
INVARIANTS TypeOK InBounds RowsetIsOneAnswer OnlyVMsReuseBuffers NoStrayChunk PartialIsBarred
CHECK_DEADLOCK FALSE
