------------------------------ MODULE LockedResource ------------------------------
(***************************************************************************)
(* tools/LockedResource.h: guards that lock a std::mutex as long as they   *)
(* exist and move it on when they are moved.                               *)
(*                                                                         *)
(* A thread makes a guard only while it has none that holds the mutex, and *)
(* destroys it itself, as std::mutex asks for; Get through a guard that    *)
(* was moved from is left to nobody.                                       *)
(***************************************************************************)
EXTENDS FiniteSets

CONSTANTS Threads, Guards

VARIABLES locked,  \* the mutex
          myMutex, \* the guards that have a pointer to the mutex
          owner    \* for every guard that exists, its thread

vars == <<locked, myMutex, owner>>

Exists == DOMAIN owner
Free == Guards \ Exists
HasMutex(t) == \E g \in myMutex : owner[g] = t

With(g, t) == [h \in Exists \cup {g} |-> IF h = g THEN t ELSE owner[h]]

\* LockedResource(std::mutex&, Type&), which waits for the mutex.
Lock(t, g) ==
  /\ g \in Free /\ ~HasMutex(t) /\ ~locked
  /\ locked' = TRUE
  /\ myMutex' = myMutex \cup {g}
  /\ owner' = With(g, t)

\* Faulty variant, for mutation: the other guard keeps its pointer.
StillThere(g, other) == IF other \in myMutex THEN myMutex \cup {g} ELSE myMutex

MovedOn(g, other) == IF other \in myMutex THEN (myMutex \ {other}) \cup {g} ELSE myMutex

\* LockedResource(LockedResource&&)
Move(g, other) ==
  /\ g \in Free /\ other \in Exists
  /\ myMutex' = MovedOn(g, other)
  /\ owner' = With(g, owner[other])
  /\ UNCHANGED locked

\* ~LockedResource
Unlock(g) ==
  /\ g \in Exists
  /\ locked' = (locked /\ g \notin myMutex)
  /\ myMutex' = myMutex \ {g}
  /\ owner' = [h \in Exists \ {g} |-> owner[h]]

Init == locked = FALSE /\ myMutex = {} /\ owner = [g \in {} |-> Threads]

Next == \E g \in Guards : \/ \E t \in Threads : Lock(t, g)
                          \/ \E other \in Guards : Move(g, other)
                          \/ Unlock(g)

Spec == Init /\ [][Next]_vars

TypeOK == /\ locked \in BOOLEAN
          /\ myMutex \subseteq Exists /\ Exists \subseteq Guards
          /\ owner \in [Exists -> Threads]

\* Through however many moves: the mutex is locked while one guard has it, no two
\* guards ever have it, and it is free again when that one is gone.
OneGuardHolds ==
  /\ TypeOK
  /\ locked <=> myMutex # {}
  /\ \A g, h \in myMutex : g = h
================================================================================
