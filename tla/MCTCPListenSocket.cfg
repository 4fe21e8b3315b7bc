SPECIFICATION FairSpec
CONSTANTS
  Backlog <- MCBacklog
  Descriptors <- MCDescriptors
  MaxConnections <- MCMaxConnections
  Faults <- MCFaults
  Platforms <- MCPlatforms
INVARIANTS
  EachConnectionOnce
PROPERTIES
  EveryConnectionIsAnnounced
\* After an Update that returned false nothing need happen any more.
CHECK_DEADLOCK FALSE
