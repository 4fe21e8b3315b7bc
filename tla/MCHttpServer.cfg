SPECIFICATION FairSpec
CONSTANTS
  CHUNK_SIZE <- MCBigChunk
  Mappings <- MCMappings
  PeerRequests <- MCRequests
  MaxRequests <- MCMaxRequests
  MaySplit <- MCBetweenLines
INVARIANTS
  ParsedAsSent
  NothingLostOrTaken
  OneResponseEach
PROPERTIES
  EveryRequestIsAnswered
\* The peer may have sent all its requests, and the process may be dead.
CHECK_DEADLOCK FALSE
