--------------------------------- MODULE Event ---------------------------------
(***************************************************************************)
(* tools/Event.h, Event<...>: callbacks kept in a map by id, each with an  *)
(* EventRegistration that its owner holds and that unregisters it when it  *)
(* is destructed.  Whoever dies first, the event or the registration, must *)
(* tell the other.                                                         *)
(*                                                                         *)
(* Everything runs on one thread, but every operation may be made by a     *)
(* callback while the event is fired: the operations below are enabled     *)
(* outside of any Fire and inside of a running callback.                   *)
(***************************************************************************)
EXTENDS Naturals, Sequences, FiniteSets

CONSTANTS MaxID,     \* bound: registrations in a behaviour
          MaxDepth,  \* bound: Fires that run within each other
          InCallback \* what callbacks do to the event that fires them

Operations == {"Register", "Drop", "Fire", "Destroy"}

EventAssumption ==
  /\ MaxID \in Nat
  /\ MaxDepth \in Nat \ {0}
  /\ InCallback \subseteq Operations

NullEventId == 0
EventID == 1..MaxID

VARIABLES alive,        \* the event has not been destructed
          myCurrentID,
          myCallbacks,  \* the ids in the map
          held,         \* the registrations that exist
          armed,        \* those with a myDeregistraion
          stack,        \* the Fires that run, the innermost last
          failed        \* an assert failed, or a dead event was called

vars == <<alive, myCurrentID, myCallbacks, held, armed, stack, failed>>

Init ==
  /\ alive = TRUE /\ myCurrentID = NullEventId
  /\ myCallbacks = {} /\ held = {} /\ armed = {}
  /\ stack = <<>> /\ failed = FALSE

Top == stack[Len(stack)]

\* The program, or the callback that runs, makes the operation.
MayDo(operation) ==
  /\ ~failed
  /\ stack # <<>> => Top.running # NullEventId /\ operation \in InCallback

NextID == myCurrentID + 1

\* emplace leaves the map alone when the id is there.
Register ==
  /\ MayDo("Register") /\ alive /\ myCurrentID < MaxID
  /\ myCurrentID' = myCurrentID + 1
  /\ myCallbacks' = myCallbacks \cup {NextID}
  /\ held' = held \cup {NextID} /\ armed' = armed \cup {NextID}
  /\ UNCHANGED <<alive, stack, failed>>

\* UnRegister, called through myDeregistraion: its asserts, and the event that
\* the closure refers to.
UnRegister(id) ==
  /\ failed' = (~alive \/ id = NullEventId \/ id \notin myCallbacks)
  /\ myCallbacks' = myCallbacks \ {id}

\* ~EventRegistration
Drop(id) ==
  /\ MayDo("Drop") /\ id \in held
  /\ held' = held \ {id} /\ armed' = armed \ {id}
  /\ IF id \in armed THEN UnRegister(id) ELSE UNCHANGED <<failed, myCallbacks>>
  /\ UNCHANGED <<alive, myCurrentID, stack>>

\* Faulty variant, for mutation: the registrations keep their closures.
StillArmed == armed

\* The registrations that ~Event leaves armed.
ArmedAfterEvent == armed \ myCallbacks

\* ~Event; a Fire that runs goes on with its copies.
Destroy ==
  /\ MayDo("Destroy") /\ alive
  /\ alive' = FALSE
  /\ myCallbacks' = {}
  /\ armed' = ArmedAfterEvent
  /\ failed' = ~(myCallbacks \subseteq armed)
  /\ UNCHANGED <<myCurrentID, held, stack>>

\* Fire copies the callbacks and calls the copies in the order of the map.
Fire ==
  /\ MayDo("Fire") /\ alive /\ Len(stack) < MaxDepth
  /\ stack' = Append(stack, [left |-> myCallbacks, running |-> NullEventId])
  /\ UNCHANGED <<alive, myCurrentID, myCallbacks, held, armed, failed>>

InFire ==
  /\ stack # <<>> /\ ~failed
  /\ UNCHANGED <<alive, myCurrentID, myCallbacks, held, armed, failed>>

Call(id) ==
  /\ InFire
  /\ Top.running = NullEventId /\ id \in Top.left
  /\ stack' = [stack EXCEPT ![Len(stack)] = [left |-> @.left \ {id}, running |-> id]]

CallbackReturns ==
  /\ InFire
  /\ Top.running # NullEventId
  /\ stack' = [stack EXCEPT ![Len(stack)].running = NullEventId]

FireReturns ==
  /\ InFire
  /\ Top.running = NullEventId /\ Top.left = {}
  /\ stack' = SubSeq(stack, 1, Len(stack) - 1)

Next ==
  \/ Register \/ Destroy \/ Fire \/ CallbackReturns \/ FireReturns
  \/ \E id \in EventID : Drop(id) \/ Call(id)

Spec == Init /\ [][Next]_vars

-----------------------------------------------------------------------------
(* Properties *)

TypeOK ==
  /\ alive \in BOOLEAN /\ failed \in BOOLEAN
  /\ myCurrentID \in 0..MaxID
  /\ myCallbacks \subseteq EventID /\ held \subseteq EventID /\ armed \subseteq held
  /\ stack \in Seq([left : SUBSET EventID, running : EventID \cup {NullEventId}])
  /\ Len(stack) <= MaxDepth

\* The event and the registrations know of each other for exactly as long as
\* both exist (Event.h:141-180, Event.cpp:5-9): a callback in the map has a
\* registration that can remove it, and a registration that would call the
\* event finds it alive with its callback in the map.
RegistrationsMatch == armed = myCallbacks /\ (~alive => armed = {})

\* No registration calls an event that is gone, and the asserts of UnRegister
\* hold, whatever callbacks do in the middle of a Fire.
NoStaleUnRegister == ~failed

\* The three together, which every action preserves.
IInv == TypeOK /\ RegistrationsMatch /\ NoStaleUnRegister

\* "Returns an `EventReg` handle, destruct this to unregister"
\* (DOCUMENTATION.md:13): a callback whose registration has been destructed is
\* not called any more.
UnregisteredIsNotCalled ==
  [][\A id \in EventID : Call(id) => id \in held]_vars
================================================================================
