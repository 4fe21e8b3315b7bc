SPECIFICATION FairSpec
CONSTANTS
  CHUNK_SIZE <- MCChunkSize
  Capacity <- MCCapacity
  MaxWritten <- MCMaxWritten
  Closers <- MCBoth
  Faults <- MCHarmless
  Platform <- MCPlatform
INVARIANTS
  UselessOnlyWhenDrained
PROPERTIES
  ImplementsByteLink
  WrittenIsAnnounced
\* Both ends may be done with the connection.
CHECK_DEADLOCK FALSE
