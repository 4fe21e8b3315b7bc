------------------------------- MODULE MCStreams -------------------------------
(***************************************************************************)
(* Streams for TLC.                                                        *)
(*                                                                         *)
(* ReadStream: segments of 2 bytes and 4 bytes in all give lists of one to *)
(* four segments with full, partly filled and exactly filled ends;         *)
(* requests up to 3 bytes span up to three segments and can ask for less,  *)
(* exactly and more than there is.                                         *)
(*                                                                         *)
(* WriteStream: segments of 2 bytes and 7 bytes in all, so that a call     *)
(* writes nothing, part of a segment, exactly one to three of them, or     *)
(* more, before and after a list is fetched.                               *)
(***************************************************************************)
EXTENDS Streams

MCChunkSize == 2
MCMaxBytes == 4
MCMaxRequest == 3
MCMaxBytesWritten == 7
================================================================================
