---------------------------------- MODULE Trace ----------------------------------
(***************************************************************************)
(* tools/Trace.cpp: the tree of traces that the PerformanceTracers of all  *)
(* threads share, and the pointers they keep into it.                      *)
(*                                                                         *)
(* A trace is named by its path: the thread, then the tags of the scopes   *)
(* down to it.  Each trace holds its children in a std::vector<Trace>.     *)
(* When that vector grows out of its capacity the children move to another *)
(* buffer, and pointers to them dangle; what the children's own vectors    *)
(* hold stays where it is, for a Trace is moved, not copied.  A pointer is *)
(* the path it was made for and the capacity the vector had then.          *)
(*                                                                         *)
(* Following a dangling pointer is undefined: `undefined` says that it     *)
(* happened, and nothing more.                                             *)
(***************************************************************************)
EXTENDS Integers, Sequences, FiniteSets, SequencesExt

CONSTANTS Threads,
          Tags,
          MaxDepth,  \* bound: scopes inside each other
          MaxTraced  \* bound: how often one trace is completed

TraceAssumption == MaxDepth \in Nat /\ MaxTraced \in Nat

VARIABLES tree,          \* the paths in it
          myTimesTraced, \* for each path
          myCurrentScope,\* for each thread that has a tracer, a pointer
          myActive,      \* for each of them, a stack of ActiveTraces
          undefined

vars == <<tree, myTimesTraced, myCurrentScope, myActive, undefined>>

\* The threads in ourInstances.
Instances == DOMAIN myCurrentScope

\* How many traces the vector of the trace at `path` holds, in the tree T.
Size(T, path) == Cardinality({p \in T : Len(p) = Len(path) + 1 /\ Front(p) = path})

\* The capacity of a vector that has grown to n elements: it starts with one
\* and doubles.
Capacity(n) == IF n = 0 THEN 0 ELSE CHOOSE c \in {2 ^ k : k \in 0..n} : n <= c /\ c < 2 * n

\* A pointer that has just been taken, and whether one still points to its trace.
PointerTo(T, path) == [to |-> path, at |-> Capacity(Size(T, Front(path)))]
Dangles(pointer) == pointer # PointerTo(tree, pointer.to)

\* PerformanceTracer::myRoot, which nobody but the constructor uses.
IsRoot(pointer) == Len(pointer.to) = 1

\* A map with one more entry; the key's own stays if it has one.
With(map, key, value) == [k \in DOMAIN map \cup {key} |-> IF k \in DOMAIN map THEN map[k] ELSE value]

-----------------------------------------------------------------------------

Init ==
  /\ tree = {} /\ myTimesTraced = <<>>
  /\ myCurrentScope = <<>> /\ myActive = <<>>
  /\ undefined = FALSE

\* GetInstance of a thread that has no tracer: the constructor adds the thread
\* to the root under ourRootMutex.
GetInstance(t) ==
  /\ t \notin Instances
  /\ tree' = tree \cup {<<t>>}
  /\ myTimesTraced' = With(myTimesTraced, <<t>>, 0)
  /\ myCurrentScope' = With(myCurrentScope, t, PointerTo(tree', <<t>>))
  /\ myActive' = With(myActive, t, <<>>)
  /\ UNCHANGED undefined

\* Faulty variant, for mutation: a scope is added to the thread, not to the scope
\* it is in.
ScopeOfRoot(t) == <<t>>

\* Where BeginInternal looks for the trace of the new scope.
Scope(t) == myCurrentScope[t].to

\* FindOrMake looks at the children of the current scope.
BeginInternal(t, tag) ==
  LET path == Append(Scope(t), tag)
  IN /\ t \in Instances
     /\ Len(myActive[t]) < MaxDepth
     /\ ~Dangles(myCurrentScope[t])
     /\ tree' = tree \cup {path}
     /\ myTimesTraced' = With(myTimesTraced, path, 0)
     /\ myCurrentScope' = [myCurrentScope EXCEPT ![t] = PointerTo(tree', path)]
     /\ myActive' = [myActive EXCEPT ![t] =
          Append(@, [myTrace |-> PointerTo(tree', path), myOldTrace |-> myCurrentScope[t]])]
     /\ UNCHANGED undefined

\* What ActiveTrace::Apply returns.
Applied(active) == active.myOldTrace

\* The ScopeHandle is destructed.
End(t) ==
  /\ t \in Instances
  /\ myActive[t] # <<>>
  /\ ~Dangles(Last(myActive[t]).myTrace)
  /\ myTimesTraced[Last(myActive[t]).myTrace.to] < MaxTraced
  /\ myTimesTraced' = [myTimesTraced EXCEPT ![Last(myActive[t]).myTrace.to] = @ + 1]
  /\ myCurrentScope' = [myCurrentScope EXCEPT ![t] = Applied(Last(myActive[t]))]
  /\ myActive' = [myActive EXCEPT ![t] = Front(@)]
  /\ UNCHANGED <<tree, undefined>>

\* FindOrMake or Apply on freed memory.
Undefined(t) ==
  /\ t \in Instances
  /\ \/ Dangles(myCurrentScope[t])
     \/ myActive[t] # <<>> /\ Dangles(Last(myActive[t]).myTrace)
  /\ undefined' = TRUE
  /\ UNCHANGED <<tree, myTimesTraced, myCurrentScope, myActive>>

Next ==
  /\ ~undefined
  /\ \E t \in Threads :
       \/ GetInstance(t)
       \/ \E tag \in Tags : BeginInternal(t, tag)
       \/ End(t)
       \/ Undefined(t)

Spec == Init /\ [][Next]_vars

-----------------------------------------------------------------------------
(* Properties *)

TypeOK ==
  /\ \A p \in tree : p[1] \in Threads /\ \A i \in 2..Len(p) : p[i] \in Tags
  /\ DOMAIN myTimesTraced = tree
  /\ Instances \subseteq Threads /\ DOMAIN myActive = Instances
  /\ undefined \in BOOLEAN

\* The vectors grow while pointers into the tree are held.  A pointer to a scope
\* never dangles, whatever is traced in it and by other threads; the pointer to
\* a thread's own trace does, when another thread has come after it.  With one
\* thread nothing is ever undefined.
OnlyRootsDangle ==
  /\ \A t \in Instances :
       /\ Dangles(myCurrentScope[t]) => IsRoot(myCurrentScope[t])
       /\ \A i \in DOMAIN myActive[t] :
            /\ ~Dangles(myActive[t][i].myTrace)
            /\ Dangles(myActive[t][i].myOldTrace) => IsRoot(myActive[t][i].myOldTrace)
  /\ Cardinality(Instances) <= 1 =>
       ~undefined /\ \A t \in Instances : ~Dangles(myCurrentScope[t])

\* The stack of a thread is the path to its current scope, one tag per scope, and
\* what is traced inside of a scope is completed before it: a trace that was
\* completed has a parent that was completed or is still active.
ScopesNest ==
  /\ TypeOK
  /\ \A t \in Instances :
       LET depth == Len(myActive[t])
       IN /\ myCurrentScope[t].to[1] = t /\ Len(myCurrentScope[t].to) = depth + 1
          /\ \A i \in 1..depth :
               /\ myActive[t][i].myTrace.to = SubSeq(myCurrentScope[t].to, 1, i + 1)
               /\ myActive[t][i].myOldTrace.to = SubSeq(myCurrentScope[t].to, 1, i)
  /\ \A p \in tree : Len(p) > 2 /\ myTimesTraced[p] > 0 =>
       \/ myTimesTraced[Front(p)] > 0
       \/ \E i \in DOMAIN myActive[p[1]] : myActive[p[1]][i].myTrace.to = Front(p)
================================================================================
