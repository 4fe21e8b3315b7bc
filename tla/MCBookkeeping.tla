------------------------------ MODULE MCBookkeeping ------------------------------
(***************************************************************************)
(* Bookkeeping for TLC.                                                    *)
(*                                                                         *)
(* The events: three registrations, and up to three Fires within each      *)
(* other.                                                                  *)
(* Trace: two threads, so that the vector of threads moves once, two       *)
(* tags, so that the vector of a scope moves while scopes are open around  *)
(* it, and scopes two deep.  Logger: three types and two files, so that    *)
(* types share a file and are mapped in one call and in several.           *)
(* JsonTree: trees of four nodes, references two deep.  The pool: two      *)
(* slots and as many objects from the heap; the arena: two blocks of two;  *)
(* the guards: two threads, three guards.                                  *)
(***************************************************************************)
EXTENDS Bookkeeping

MCMaxID == 3
MCEventMaxDepth == 3
MCShortMaxDepth == 2
MCMaxCallbacks == 5
MCAnything == {"Register", "Drop", "Fire", "Destroy"}
MCRegister == {"Register"}
MCThreads == 1..2
MCTags == {"a", "b"}
MCMaxDepth == 2
MCMaxTraced == 1
MCSystemInfo == 0
MCSystemError == 1
MCOthers == {6}
MCFiles == {"log", "errors"}
CONSTANT name
MCKeys == {name}
MCHeap == {11, 12}
MCGuards == {"g1", "g2", "g3"}
================================================================================
