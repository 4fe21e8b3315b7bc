---------------------------- MODULE SingleFireEvent ----------------------------
(***************************************************************************)
(* tools/Event.h, SingleFireEvent<...>: one callback, forgotten after it   *)
(* was called.  Fire forgets after the call and not before it, so what a   *)
(* callback does to the event while it runs meets the old one.             *)
(*                                                                         *)
(* The n-th callback that is registered is the number n.                   *)
(***************************************************************************)
EXTENDS Naturals, Sequences, SequencesExt

CONSTANTS MaxCallbacks, \* bound: callbacks registered in a behaviour
          MaxDepth,     \* bound: Fires that run within each other
          InCallback    \* what callbacks do to the event: Register, Fire

SingleFireEventAssumption ==
  /\ MaxCallbacks \in Nat
  /\ MaxDepth \in Nat \ {0}
  /\ InCallback \subseteq {"Register", "Fire"}

None == 0

VARIABLES myCallback,
          registered, \* callbacks registered so far
          stack,      \* the Fires that run, the innermost last: what each calls
          calls,      \* how often each callback was called
          lost        \* those forgotten without having been called

vars == <<myCallback, registered, stack, calls, lost>>

Init ==
  /\ myCallback = None
  /\ registered = 0
  /\ stack = <<>>
  /\ calls = [c \in 1..MaxCallbacks |-> 0]
  /\ lost = {}

MayDo(operation) == stack = <<>> \/ operation \in InCallback

\* The callback takes the place of one that may be waiting: the caller's wish.
Register ==
  /\ MayDo("Register") /\ registered < MaxCallbacks
  /\ registered' = registered + 1
  /\ myCallback' = registered + 1
  /\ UNCHANGED <<stack, calls, lost>>

Fire ==
  /\ MayDo("Fire") /\ myCallback # None /\ Len(stack) < MaxDepth
  /\ stack' = Append(stack, myCallback)
  /\ calls' = [calls EXCEPT ![myCallback] = @ + 1]
  /\ UNCHANGED <<myCallback, registered, lost>>

\* Faulty variant, for mutation: the callback is kept.
Kept == myCallback

\* myCallback when Fire returns.
Forgotten == None

\* `myCallback = nullptr` once the call is over, whatever it is by then.
FireReturns ==
  /\ stack # <<>>
  /\ stack' = Front(stack)
  /\ lost' = IF myCallback # None /\ calls[myCallback] = 0
             THEN lost \cup {myCallback} ELSE lost
  /\ myCallback' = Forgotten
  /\ UNCHANGED <<registered, calls>>

Next == Register \/ Fire \/ FireReturns

Spec == Init /\ [][Next]_vars

-----------------------------------------------------------------------------
(* Properties *)

TypeOK ==
  /\ myCallback \in 0..registered /\ registered \in 0..MaxCallbacks
  /\ stack \in Seq(1..registered) /\ Len(stack) <= MaxDepth
  /\ calls \in [1..MaxCallbacks -> 0..MaxDepth]
  /\ lost \subseteq 1..registered
  /\ myCallback = None \/ stack # <<>> \/ calls[myCallback] = 0

\* "only calls the callback once unless manually re-registered"
\* (DOCUMENTATION.md:26)
CalledOnce == \A c \in 1..MaxCallbacks : calls[c] <= 1

\* "unless manually re-registered" (DOCUMENTATION.md:26): a callback that is
\* registered is called by the next Fire, also when it is registered by the one
\* that is being called.
RegisteredIsKept == lost = {}
================================================================================
