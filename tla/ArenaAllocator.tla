------------------------------ MODULE ArenaAllocator ------------------------------
(***************************************************************************)
(* tools/ArenaAllocator.h: places of a chain of blocks, each used once.    *)
(* A place is its block and its index there.  The constructor of an object *)
(* may throw.                                                              *)
(***************************************************************************)
EXTENDS Integers, Sequences

CONSTANTS PerBlock,
          MaxBlocks \* bound

ArenaAssumption == PerBlock \in Nat \ {0} /\ MaxBlocks \in Nat \ {0}

VARIABLES blocks, \* the myAt of each block, the newest one last
          live,   \* the places of objects that are constructed and not deleted
          spent,  \* the places of objects that have been
          freed   \* the allocator is destroyed

vars == <<blocks, live, spent, freed>>

Full(at) == at = PerBlock

NewestAt == blocks[Len(blocks)]

\* New takes a place of the newest block, or of a block behind it; the place is
\* gone when the constructor throws.
New(throws) ==
  /\ ~freed
  /\ Full(NewestAt) => Len(blocks) < MaxBlocks
  /\ LET chain == IF Full(NewestAt) THEN Append(blocks, 0) ELSE blocks
         last  == Len(chain)
         place == <<last, chain[last]>>
     IN /\ blocks' = [chain EXCEPT ![last] = @ + 1]
        /\ live' = IF throws THEN live ELSE live \cup {place}
        /\ spent' = IF throws THEN spent \cup {place} ELSE spent
  /\ UNCHANGED freed

\* Delete runs the destructor; the place is not used again.
Delete(place) ==
  /\ ~freed
  /\ live' = live \ {place} /\ spent' = spent \cup {place}
  /\ UNCHANGED <<blocks, freed>>

\* ~ArenaAllocator frees the blocks, along their chain, whatever lives in them.
Destroy ==
  /\ ~freed /\ freed' = TRUE
  /\ blocks' = <<>>
  /\ UNCHANGED <<live, spent>>

Init == blocks = <<0>> /\ live = {} /\ spent = {} /\ freed = FALSE

Next == \/ \E throws \in BOOLEAN : New(throws)
        \/ \E place \in live : Delete(place)
        \/ Destroy

Spec == Init /\ [][Next]_vars

\* Every object has a place to itself, inside of a block, that nobody had before.
PlacesAreApart ==
  /\ live \cap spent = {}
  /\ ~freed => live \cup spent = {p \in (1..Len(blocks)) \X (0..(PerBlock - 1)) : p[2] < blocks[p[1]]}
================================================================================
