SPECIFICATION FairSpec
CONSTANTS
  CHUNK_SIZE <- MCChunkSize
  Capacity <- MCCapacity
  MaxWritten <- MCMaxWrittenSmall
  Closers <- MCServer
  Faults <- MCErrors
  Platform <- MCPlatform
INVARIANTS
  PrefixThenGarbage
  AnnouncedWhileUseful
PROPERTIES
  BrokenConnectionIsNoticed
\* Both ends may be done with the connection.
CHECK_DEADLOCK FALSE
