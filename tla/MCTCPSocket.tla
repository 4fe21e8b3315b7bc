------------------------------ MODULE MCTCPSocket ------------------------------
(***************************************************************************)
(* TCPSocket for TLC: segments of 2 bytes, a kernel that holds 2 bytes in  *)
(* each direction, a client that writes up to 3 bytes (one segment and a   *)
(* half, more than the kernel takes) and a server that writes one or two.  *)
(* The client is built for Linux, the server for Windows.                  *)
(***************************************************************************)
EXTENDS TCPSocket

MCChunkSize == 2
MCCapacity == 2
MCMaxWritten == [e \in Ends |-> IF e = "client" THEN 3 ELSE 2]
MCMaxWrittenSmall == [e \in Ends |-> IF e = "client" THEN 3 ELSE 1]
MCServer == {"server"}
MCBoth == Ends
MCPlatform == [e \in Ends |-> IF e = "client" THEN "linux" ELSE "windows"]
MCHarmless == {"EINTR"}
MCErrors == {"ENOMEM", "ECONNRESET", "ETIMEDOUT"}
MCResets == {"ECONNRESET"}
MCNoFault == {}
================================================================================
