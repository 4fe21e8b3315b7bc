SPECIFICATION Spec
CONSTANTS
  CHUNK_SIZE <- MCSmallChunk
  Mappings <- MCMappings
  PeerRequests <- MCGood
  MaxRequests <- MCMaxRequests
  MaySplit <- MCAnywhere
INVARIANTS
  AvailableIsReceived
\* The peer may have sent all its requests, and the process may be dead.
CHECK_DEADLOCK FALSE
