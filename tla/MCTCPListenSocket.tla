--------------------------- MODULE MCTCPListenSocket ---------------------------
(***************************************************************************)
(* TCPListenSocket for TLC: four connections against a backlog of two and  *)
(* two descriptors, so that connections wait for both.                     *)
(***************************************************************************)
EXTENDS TCPListenSocket

MCBacklog == 2
MCDescriptors == 2
MCMaxConnections == 4
MCFaults == {"ECONNABORTED", "EINTR", "ENFILE", "ENOBUFS"}
MCPlatforms == {"linux", "windows"}
================================================================================
