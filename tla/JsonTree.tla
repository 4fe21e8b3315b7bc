-------------------------------- MODULE JsonTree --------------------------------
(***************************************************************************)
(* tools/Json.h, tools/Json.cpp: the tree of Json objects, and the         *)
(* references to them that its operations return and a client keeps.       *)
(*                                                                         *)
(* A Json is a node, an address; a container maps names, or indices from 0 *)
(* on, to the nodes it owns.  A number, a string and a boolean are scalars.*)
(* What Parse makes is a shape: a scalar or a container of scalars; when   *)
(* it fails it leaves one of these behind as well, or what was there.      *)
(***************************************************************************)
EXTENDS Integers, Sequences, SequencesExt, FiniteSetsExt

CONSTANTS Keys,          \* names, none of which is an integer
          MaxNodes,      \* bound: nodes at a time
          MaxPath,       \* bound: how deep a reference that is kept may be
          ParsesAnywhere \* whether clients parse into the NullObject, too

JsonTreeAssumption == /\ MaxNodes \in Nat \ {0} /\ MaxPath \in Nat
                      /\ Keys \cap 0..MaxNodes = {} /\ ParsesAnywhere \in BOOLEAN

VARIABLES nodes,   \* the nodes that exist: their type and children
          held,    \* the references that are kept, and the way each was found
          dangling \* whether an operation has returned one to what is gone

vars == <<nodes, held, dangling>>

NullObject == 0
Root == 1
Indices == 0..MaxNodes

Leaf(type) == [type |-> type, children |-> <<>>]

\* The types and the names of what Parse and AddChild bring along.
Shapes == {[type |-> type, names |-> {}] : type \in {"null", "scalar", "array", "object"}}
          \cup {[type |-> "array", names |-> {0}]} \cup {[type |-> "object", names |-> {k}] : k \in Keys}

Scalar == [type |-> "scalar", names |-> {}]
Empty(type) == [type |-> type, names |-> {}]

ChildrenOf(n) == LET c == nodes[n].children IN {c[k] : k \in DOMAIN c}

\* A node and all it owns, directly or not: what its destructor frees.
Closed(S) == \A m \in S : ChildrenOf(m) \subseteq S
Owned(n) == {c \in DOMAIN nodes : \A S \in SUBSET DOMAIN nodes : n \in S /\ Closed(S) => c \in S}

\* `tree` with a node n of that shape, its scalars in memory that is free.
Grown(tree, n, shape) ==
  LET free == 2..MaxNodes \ (DOMAIN tree \cup {n})
      at   == CHOOSE f \in [shape.names -> free] : \A j, k \in shape.names : j # k => f[j] # f[k]
      new  == {at[k] : k \in shape.names}
  IN [m \in DOMAIN tree \cup {n} \cup new |->
        IF m = n THEN [type |-> shape.type, children |-> at]
        ELSE IF m \in new THEN Leaf("scalar") ELSE tree[m]]

Without(gone) == [m \in DOMAIN nodes \ gone |-> nodes[m]]

\* A container's children with n under k.
Put(children, k, n) == [j \in DOMAIN children \cup {k} |-> IF j = k THEN n ELSE children[j]]

Room(gone, more) == Cardinality(DOMAIN nodes \ gone) + more <= MaxNodes + 1

-----------------------------------------------------------------------------
(* Navigation *)

\* operator[]: a name of an object, an index of an array, or the NullObject.
Child(n, k) == IF k \in DOMAIN nodes[n].children THEN nodes[n].children[k] ELSE NullObject

Navigate(path) ==
  LET at[i \in 0..Len(path)] == IF i = 0 THEN Root ELSE Child(at[i - 1], path[i])
  IN at[Len(path)]

\* Where a client may call: through a reference it keeps, or where a chain of
\* accesses failed.
References == held \cup {[node |-> NullObject, path |-> <<>>]}

\* operator[] gives a reference to a child.
Access(ref, k) ==
  /\ Child(ref.node, k) # NullObject /\ Len(ref.path) < MaxPath
  /\ held' = held \cup {[node |-> Child(ref.node, k), path |-> Append(ref.path, k)]}
  /\ UNCHANGED <<nodes, dangling>>

\* IterateObject and IterateArray, from begin() to end(): a reference to every child,
\* and none if the Json is not such a container.
Iterate(ref) ==
  /\ ChildrenOf(ref.node) # {} /\ Len(ref.path) < MaxPath
  /\ held' = held \cup {[node |-> nodes[ref.node].children[k], path |-> Append(ref.path, k)] :
                          k \in DOMAIN nodes[ref.node].children}
  /\ UNCHANGED <<nodes, dangling>>

\* The client forgets a reference.
Forget(ref) ==
  /\ ref.path # <<>>
  /\ held' = held \ {ref}
  /\ UNCHANGED <<nodes, dangling>>

-----------------------------------------------------------------------------
(* Modification *)

\* Faulty variant, for mutation: the test against NullObject is forgotten.
AnyNode(n) == TRUE

MayChange(n) == n # NullObject

\* References below `path` are gone with what they refer to.
Outlive(path) == {h \in held : ~IsStrictPrefix(path, h.path)}

\* A new value for a node: what its container owned is freed.
Overwrite(ref, shape) ==
  LET gone == Owned(ref.node) \ {ref.node}
  IN /\ Room(gone, Cardinality(shape.names))
     /\ nodes' = Grown(Without(gone), ref.node, shape)
     /\ held' = Outlive(ref.path)
     /\ UNCHANGED dangling

\* operator=
Assign(ref) ==
  /\ MayChange(ref.node)
  /\ Overwrite(ref, Scalar)

\* Parse has no test against NullObject.
Parse(ref, shape) ==
  /\ ParsesAnywhere \/ ref.node # NullObject
  /\ Overwrite(ref, shape)

\* ConvertToArray
ConvertToArray(ref) ==
  /\ MayChange(ref.node) /\ nodes[ref.node].type = "null"
  /\ nodes' = [nodes EXCEPT ![ref.node] = Leaf("array")]
  /\ UNCHANGED <<held, dangling>>

\* A child of that shape under k, in a Json that is such a container or null;
\* what was under k is freed when the child is there.  The reference that
\* is returned is kept.  On a Json of another type AddChild and PushChild change
\* nothing and return the NullObject.
Place(ref, container, k, shape, outlive) ==
  LET n    == ref.node
      gone == IF k \in DOMAIN nodes[n].children THEN Owned(nodes[n].children[k]) ELSE {}
      new  == Min(2..MaxNodes \ DOMAIN nodes)
      all  == Grown(nodes, new, shape)
  IN /\ MayChange(n) /\ nodes[n].type \in {"null", container}
     /\ Room({}, 1 + Cardinality(shape.names))
     /\ nodes' = [[m \in DOMAIN all \ gone |-> all[m]] EXCEPT
                    ![n] = [type |-> container, children |-> Put(@.children, k, new)]]
     /\ held' = outlive \cup IF Len(ref.path) < MaxPath
                             THEN {[node |-> new, path |-> Append(ref.path, k)]} ELSE {}
     /\ UNCHANGED dangling

\* AddValue and PushValue on a Json of another type: AddChild and PushChild free the
\* child they are given, and yet the reference returned is to that child.  A client
\* that does not look at the type of the Json cannot tell; this one uses it no more.
ValueRefused(ref, container) ==
  /\ MayChange(ref.node) /\ nodes[ref.node].type \notin {"null", container}
  /\ dangling' = TRUE
  /\ UNCHANGED <<nodes, held>>

\* AddChild, and AddValue with a scalar.
AddChild(ref, k, shape) ==
  Place(ref, "object", k, shape, {h \in held : ~IsPrefix(Append(ref.path, k), h.path)})

\* Faulty variant, for mutation: the last child is replaced.
LastOf(children) == IF children = <<>> THEN 0 ELSE Max(DOMAIN children)

BehindLast(children) == Cardinality(DOMAIN children)

\* PushChild, and PushValue with a scalar: behind the last child.
PushChild(ref, shape) == Place(ref, "array", BehindLast(nodes[ref.node].children), shape, held)

-----------------------------------------------------------------------------

Init == /\ nodes = [n \in {NullObject, Root} |-> Leaf("null")]
        /\ held = {[node |-> Root, path |-> <<>>]}
        /\ dangling = FALSE

Next ==
  \E ref \in References :
    \/ \E k \in Keys \cup Indices : Access(ref, k)
    \/ Iterate(ref)
    \/ Forget(ref)
    \/ Assign(ref)
    \/ ConvertToArray(ref)
    \/ \E container \in {"array", "object"} : ValueRefused(ref, container)
    \/ \E shape \in Shapes : \/ Parse(ref, shape)
                             \/ PushChild(ref, shape)
                             \/ \E k \in Keys : AddChild(ref, k, shape)

Spec == Init /\ [][Next]_vars

-----------------------------------------------------------------------------
(* Properties *)

\* The NullObject "cannot be modified" (DOCUMENTATION.md:332) and is in no tree,
\* through whatever reference a client calls; every other node has one owner.
NullObjectIsNull ==
  /\ nodes[NullObject] = Leaf("null")
  /\ \A c \in DOMAIN nodes \ {NullObject, Root} :
       Cardinality({e \in (DOMAIN nodes) \X (Keys \cup Indices) : Child(e[1], e[2]) = c}) = 1
  /\ \A n \in DOMAIN nodes : {NullObject, Root} \cap ChildrenOf(n) = {}

\* A reference that an operation returned and that was good then stays good while
\* containers grow around it and until something above it is given another value: the
\* node is there and the accesses that found it find it again.
ReferencesStay == \A h \in held : h.node \in DOMAIN nodes /\ Navigate(h.path) = h.node

\* "Returns a reference to the newly created child or the NullObject if failed"
\* (DOCUMENTATION.md:256, 266), which AddValue and PushValue do not.
ReturnedReferencesAreGood == ~dangling
================================================================================
