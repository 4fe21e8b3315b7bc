-------------------------------- MODULE ObjectPool --------------------------------
(***************************************************************************)
(* tools/ObjectPool.h: a pool of slots on a stack, and objects from the    *)
(* heap when it is empty.  The constructor of an object may throw.  A      *)
(* client returns what it got, once, and destroys the pool when it has     *)
(* returned everything.                                                    *)
(***************************************************************************)
EXTENDS Integers, Sequences, FiniteSets

CONSTANTS PoolSize, AllowExcess,
          Heap,     \* bound: addresses outside of the pool
          MaxThrows \* bound: constructors that throw

ObjectPoolAssumption ==
  /\ PoolSize \in Nat /\ AllowExcess \in BOOLEAN /\ MaxThrows \in Nat
  /\ Heap \cap 1..PoolSize = {}

VARIABLES available, \* myAvailable, the top last
          inUse,     \* what the client holds
          thrown,    \* constructors that have thrown in a slot
          state      \* "alive", "destroyed", or "leak" when the destructor's assert failed

vars == <<available, inUse, thrown, state>>

Slots == 1..PoolSize
Top == available[Len(available)]

\* Faulty variant, for mutation: top() without pop().
NotPopped(stack) == stack

Popped(stack) == SubSeq(stack, 1, Len(stack) - 1)

\* A slot from the stack.  It is off the stack before the constructor runs: when
\* that throws, nobody has it any more.
GetItem ==
  /\ state = "alive" /\ available # <<>>
  /\ available' = Popped(available)
  /\ \/ inUse' = inUse \cup {Top} /\ UNCHANGED thrown
     \/ thrown < MaxThrows /\ thrown' = thrown + 1 /\ UNCHANGED inUse
  /\ UNCHANGED state

\* The stack is empty: an object from the heap, or nullptr, which changes nothing.
GetExcess ==
  /\ state = "alive" /\ available = <<>> /\ AllowExcess
  /\ \E object \in Heap \ inUse : inUse' = inUse \cup {object}
  /\ UNCHANGED <<available, thrown, state>>

\* By its address an object goes back to the pool or to the heap.
ReturnItem(object) ==
  /\ state = "alive"
  /\ inUse' = inUse \ {object}
  /\ available' = IF object \in Slots THEN Append(available, object) ELSE available
  /\ UNCHANGED <<thrown, state>>

\* ~ObjectPool asserts that all slots are back ("Memory leak").
Destroy ==
  /\ state = "alive" /\ inUse = {}
  /\ state' = IF Len(available) = PoolSize THEN "destroyed" ELSE "leak"
  /\ UNCHANGED <<available, inUse, thrown>>

Init == /\ available = [i \in 1..PoolSize |-> i]
        /\ inUse = {} /\ thrown = 0 /\ state = "alive"

Next == \/ GetItem \/ GetExcess \/ Destroy
        \/ \E object \in inUse : ReturnItem(object)

Spec == Init /\ [][Next]_vars

\* No slot is handed out twice: each is on the stack once, in use, or lost to a
\* constructor that threw; only then does the destructor find a leak in the hands
\* of a client that returns everything.
EachSlotOnce ==
  /\ \A i, j \in DOMAIN available : available[i] = available[j] => i = j
  /\ \A i \in DOMAIN available : available[i] \in Slots \ inUse
  /\ Len(available) + Cardinality(inUse \cap Slots) + thrown = PoolSize
  /\ state = "leak" => thrown > 0
================================================================================
