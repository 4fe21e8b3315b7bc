------------------------------ MODULE MCWebsocket ------------------------------
(***************************************************************************)
(* Websocket for TLC.  The lengths 0..1, 2, and 3 stand for those that     *)
(* take 7, 16 and 64 bits.                                                 *)
(***************************************************************************)
EXTENDS Websocket

MCShortMax == 1
MCWordMax == 2

Frames(fins, ops, masks, sizes) == [fin : fins, op : ops, masked : masks, size : sizes]

\* Whole frames of every encoding.
MCWhole == Frames({TRUE}, {1, 9}, {FALSE}, {0, 1, 2, 3})
           \cup Frames({TRUE}, {1, 9}, {TRUE}, {1})
           \cup Frames({TRUE}, {8}, {TRUE}, {1, 3})
           \cup Frames({TRUE}, {2}, {TRUE}, {2, Malformed, TooLong})
           \cup Frames({TRUE}, {10, 3}, {FALSE}, {0})

\* Fragments, with whole frames between them.
MCFragments == Frames({FALSE}, {0, 1, 2}, {FALSE}, {0, 1})
               \cup Frames({FALSE}, {1}, {TRUE}, {1})
               \cup Frames({TRUE}, {0}, {FALSE}, {0, 1})
               \cup Frames({TRUE}, {1, 9}, {FALSE}, {1})

MCFrames == MCWhole \cup MCFragments

MCFewFrames == 2
MCOneText == 1
================================================================================
