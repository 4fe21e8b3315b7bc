SPECIFICATION FairSpec
CONSTANTS
  Connections = {1, 2}
  Requests = {"page", "post", "upgrade", "ping"}
  MaxRequests = 2
INVARIANTS
  SpeaksOneProtocol
PROPERTIES
  ImplementsChatRoom
  PostedIsSeen
\* The program may have ended.
CHECK_DEADLOCK FALSE
