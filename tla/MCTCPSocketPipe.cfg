SPECIFICATION Spec
CONSTANTS
  CHUNK_SIZE <- MCChunkSize
  Capacity <- MCCapacity
  MaxWritten <- MCMaxWrittenSmall
  Closers <- MCServer
  Faults <- MCResets
  Platform <- MCPlatform
INVARIANTS
  SurvivesItsPeer
\* Both ends may be done with the connection.
CHECK_DEADLOCK FALSE
