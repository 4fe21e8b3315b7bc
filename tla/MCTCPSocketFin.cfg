SPECIFICATION Spec
CONSTANTS
  CHUNK_SIZE <- MCChunkSize
  Capacity <- MCCapacity
  MaxWritten <- MCMaxWrittenSmall
  Closers <- MCServer
  Faults <- MCNoFault
  Platform <- MCPlatform
INVARIANTS
  NewDataIsAnnounced
\* Both ends may be done with the connection.
CHECK_DEADLOCK FALSE
