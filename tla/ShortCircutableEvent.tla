-------------------------- MODULE ShortCircutableEvent --------------------------
(***************************************************************************)
(* tools/Event.h, ShortCircutableEvent<...>: callbacks in a vector, called *)
(* in the order of their registration until one of them answers.           *)
(*                                                                         *)
(* Unlike Event, Fire walks the vector itself and not a copy of it.  A     *)
(* callback that registers, unregisters or destructs the event leaves      *)
(* every Fire that runs with iterators that dangle; what keeps the program *)
(* going is that such a callback answers, and Fire looks no further.       *)
(***************************************************************************)
EXTENDS Naturals, Sequences, SequencesExt

CONSTANTS MaxID,         \* bound: registrations in a behaviour
          MaxDepth,      \* bound: Fires that run within each other
          ChangersAnswer \* whether callbacks that change the event answer

ShortCircutableEventAssumption ==
  /\ MaxID \in Nat
  /\ MaxDepth \in Nat \ {0}
  /\ ChangersAnswer \in BOOLEAN

NullEventId == 0
EventID == 1..MaxID

VARIABLES alive,        \* the event has not been destructed
          myCurrentID,
          myCallbacks,  \* the vector, as the sequence of ids in it
          armed,        \* the registrations with a myDeregistraion
          stack,        \* the Fires that run, the innermost last
          failed        \* an assert failed, or memory that is gone was read

vars == <<alive, myCurrentID, myCallbacks, armed, stack, failed>>

Init ==
  /\ alive = TRUE /\ myCurrentID = NullEventId
  /\ myCallbacks = <<>> /\ armed = {}
  /\ stack = <<>> /\ failed = FALSE

Top == stack[Len(stack)]

\* Operations are made outside of any Fire or by the callback that runs.
MayDo == ~failed /\ (stack # <<>> => Top.running # NullEventId)

\* The iterators of the Fires that run are invalid from now on.
Dangle == stack' = [i \in 1..Len(stack) |-> [stack[i] EXCEPT !.dangling = TRUE]]

PushBack(id) == myCallbacks' = Append(myCallbacks, id)

NextID == myCurrentID + 1

Register ==
  /\ MayDo /\ alive /\ myCurrentID < MaxID
  /\ myCurrentID' = myCurrentID + 1
  /\ PushBack(NextID)
  /\ armed' = armed \cup {NextID}
  /\ Dangle
  /\ UNCHANGED <<alive, failed>>

\* Faulty variant, for mutation: everything behind it goes too.
EraseToEnd(at) == myCallbacks' = SubSeq(myCallbacks, 1, at - 1)
Erase(at) == myCallbacks' = RemoveAt(myCallbacks, at)

\* UnRegister finds the callback by its id.
UnRegister(id) ==
  IF alive /\ id \in ToSet(myCallbacks)
  THEN Erase(CHOOSE i \in 1..Len(myCallbacks) : myCallbacks[i] = id) /\ UNCHANGED failed
  ELSE failed' = TRUE /\ UNCHANGED myCallbacks

\* ~EventRegistration of a registration with a myDeregistraion.
Drop(id) ==
  /\ MayDo /\ id \in armed
  /\ armed' = armed \ {id}
  /\ UnRegister(id)
  /\ Dangle
  /\ UNCHANGED <<alive, myCurrentID>>

\* Faulty variant, for mutation: the registrations keep their closures.
StillArmed == armed

\* The registrations that ~ShortCircutableEvent leaves armed.
ArmedAfterEvent == armed \ ToSet(myCallbacks)

Destroy ==
  /\ MayDo /\ alive
  /\ alive' = FALSE /\ myCallbacks' = <<>> /\ armed' = ArmedAfterEvent
  /\ failed' = ~(ToSet(myCallbacks) \subseteq armed)
  /\ Dangle
  /\ UNCHANGED myCurrentID

Fire ==
  /\ MayDo /\ alive /\ Len(stack) < MaxDepth
  /\ stack' = Append(stack, [called   |-> <<>>,
                             running  |-> NullEventId,
                             dangling |-> FALSE,
                             began    |-> armed])
  /\ UNCHANGED <<alive, myCurrentID, myCallbacks, armed, failed>>

\* The loop copies the registration that its iterator points to and calls it.
Call ==
  /\ stack # <<>> /\ ~failed /\ Top.running = NullEventId
  /\ Top.dangling \/ Len(Top.called) < Len(myCallbacks)
  /\ IF Top.dangling
     THEN failed' = TRUE /\ UNCHANGED stack
     ELSE LET id == myCallbacks[Len(Top.called) + 1]
          IN /\ stack' = [stack EXCEPT ![Len(stack)].called = Append(@, id),
                                       ![Len(stack)].running = id]
             /\ UNCHANGED failed
  /\ UNCHANGED <<alive, myCurrentID, myCallbacks, armed>>

\* The callback has no answer, the loop goes on.
CallbackPasses ==
  /\ stack # <<>> /\ ~failed /\ Top.running # NullEventId
  /\ ~(ChangersAnswer /\ Top.dangling)
  /\ stack' = [stack EXCEPT ![Len(stack)].running = NullEventId]
  /\ UNCHANGED <<alive, myCurrentID, myCallbacks, armed, failed>>

Pop == stack' = Front(stack) /\ UNCHANGED <<alive, myCurrentID, myCallbacks, armed, failed>>

CallbackAnswers == stack # <<>> /\ ~failed /\ Top.running # NullEventId /\ Pop

NobodyAnswers ==
  /\ stack # <<>> /\ ~failed /\ Top.running = NullEventId
  /\ ~Top.dangling /\ Len(Top.called) = Len(myCallbacks)
  /\ Pop

Next ==
  \/ Register \/ Destroy \/ Fire \/ Call
  \/ CallbackPasses \/ CallbackAnswers \/ NobodyAnswers
  \/ \E id \in EventID : Drop(id)

Spec == Init /\ [][Next]_vars

-----------------------------------------------------------------------------
(* Properties *)

TypeOK ==
  /\ alive \in BOOLEAN /\ failed \in BOOLEAN
  /\ myCurrentID \in 0..MaxID
  /\ myCallbacks \in Seq(EventID) /\ armed \subseteq EventID
  /\ Len(stack) <= MaxDepth
  /\ \A i \in 1..Len(stack) :
       /\ stack[i].called \in Seq(EventID) /\ stack[i].began \subseteq EventID
       /\ stack[i].running \in EventID \cup {NullEventId}
       /\ stack[i].dangling \in BOOLEAN

\* The event and the registrations know of each other for exactly as long as
\* both exist (Event.h:197-224, 241-254).
RegistrationsMatch == IsInjective(myCallbacks) /\ armed = ToSet(myCallbacks)

\* Fire never goes on with an iterator into a vector that has changed
\* (Event.h:229), and UnRegister finds what it looks for.
NoDanglingIterator == ~failed

\* The first one registered is asked first and nobody is passed over: a Fire has
\* called the oldest of the callbacks that were registered when it began.  An
\* endpoint that was mapped first therefore has the first say (http/Server.cpp).
OldestFirst ==
  \A i \in 1..Len(stack) :
    LET called == stack[i].called
    IN /\ ToSet(called) \subseteq stack[i].began
       /\ \A k \in 1..Len(called) : \A id \in stack[i].began :
            id < called[k] => \E j \in 1..(k - 1) : called[j] = id

\* Fire returns without an answer only if it has asked everybody (Event.h:237).
NothingOnlyIfAllPassed ==
  [][NobodyAnswers => ToSet(Top.called) = Top.began]_vars
================================================================================
