------------------------------ MODULE Bookkeeping ------------------------------
(***************************************************************************)
(* The parts that keep track of callbacks, memory, files and locks, next   *)
(* to each other: a behaviour is one of the three events, Trace, Logger,   *)
(* JsonTree, ObjectPool, ArenaAllocator or LockedResource.  None of them   *)
(* uses another, so that one at a time is all there is to see.             *)
(***************************************************************************)
EXTENDS Integers

CONSTANTS MaxID, EventMaxDepth, InCallback, ShortMaxDepth,
          MaxCallbacks, SingleInCallback,
          Tags, MaxDepth, MaxTraced,
          SystemError, SystemInfo, Others, Files,
          Keys, MaxNodes, MaxPath, ParsesAnywhere,
          PoolSize, AllowExcess, Heap, MaxThrows,
          PerBlock, MaxBlocks,
          Threads, Guards

VARIABLES subject,
          alive, myCurrentID, myCallbacks, registrations, armed, stack, failed,
          sAlive, sMyCurrentID, sMyCallbacks, sArmed, sStack, sFailed,
          fMyCallback, fRegistered, fStack, fCalls, fLost,
          tree, myTimesTraced, myCurrentScope, myActive, undefined,
          Filter, Halting, FileMapping, OpenFiles, running, bits, aOutputFile, shutDown,
          nodes, held, dangling, available, inUse, thrown, state, blocks, live, spent, freed,
          locked, myMutex, owner

eventVars == <<alive, myCurrentID, myCallbacks, registrations, armed, stack, failed>>
shortVars == <<sAlive, sMyCurrentID, sMyCallbacks, sArmed, sStack, sFailed>>
singleVars == <<fMyCallback, fRegistered, fStack, fCalls, fLost>>
eventsVars == <<eventVars, shortVars, singleVars>>
traceVars == <<tree, myTimesTraced, myCurrentScope, myActive, undefined>>
loggerVars == <<Filter, Halting, FileMapping, OpenFiles, running, bits, aOutputFile, shutDown>>
jsonVars == <<nodes, held, dangling>>
poolVars == <<available, inUse, thrown, state>>
arenaVars == <<blocks, live, spent, freed>>
guardVars == <<locked, myMutex, owner>>
allVars == <<subject, guardVars, eventsVars, traceVars, loggerVars, jsonVars, poolVars, arenaVars>>

Plain == INSTANCE Event WITH MaxDepth <- EventMaxDepth, held <- registrations

Short == INSTANCE ShortCircutableEvent
           WITH MaxDepth <- ShortMaxDepth, ChangersAnswer <- TRUE,
                alive <- sAlive, myCurrentID <- sMyCurrentID, myCallbacks <- sMyCallbacks,
                armed <- sArmed, stack <- sStack, failed <- sFailed

Single == INSTANCE SingleFireEvent
            WITH MaxDepth <- EventMaxDepth, InCallback <- SingleInCallback,
                 myCallback <- fMyCallback, registered <- fRegistered, stack <- fStack,
                 calls <- fCalls, lost <- fLost

Tracer == INSTANCE Trace
Log == INSTANCE Logger
Json == INSTANCE JsonTree
Pool == INSTANCE ObjectPool
Arena == INSTANCE ArenaAllocator
Guard == INSTANCE LockedResource

ASSUME BookkeepingAssumption ==
       /\ Plain!EventAssumption /\ Short!ShortCircutableEventAssumption /\ Single!SingleFireEventAssumption
       /\ Tracer!TraceAssumption /\ Log!LoggerAssumption /\ Json!JsonTreeAssumption
       /\ Pool!ObjectPoolAssumption /\ Arena!ArenaAssumption

Init == /\ subject \in {"Event", "ShortCircutableEvent", "SingleFireEvent", "Trace", "Logger", "JsonTree", "ObjectPool",
                         "ArenaAllocator", "LockedResource"}
          /\ Plain!Init /\ Short!Init /\ Single!Init
          /\ Guard!Init /\ Tracer!Init /\ Log!Init /\ Json!Init /\ Pool!Init /\ Arena!Init

Resting(others) == UNCHANGED <<subject, others>>

Next ==
  \/ subject = "Event" /\ Plain!Next
       /\ Resting(<<shortVars, singleVars, traceVars, loggerVars, jsonVars, poolVars, arenaVars, guardVars>>)
  \/ subject = "ShortCircutableEvent" /\ Short!Next
       /\ Resting(<<eventVars, singleVars, traceVars, loggerVars, jsonVars, poolVars, arenaVars, guardVars>>)
  \/ subject = "SingleFireEvent" /\ Single!Next
       /\ Resting(<<eventVars, shortVars, traceVars, loggerVars, jsonVars, poolVars, arenaVars, guardVars>>)
  \/ subject = "Trace" /\ Tracer!Next
       /\ Resting(<<eventsVars, loggerVars, jsonVars, poolVars, arenaVars, guardVars>>)
  \/ subject = "Logger" /\ Log!Next
       /\ Resting(<<eventsVars, traceVars, jsonVars, poolVars, arenaVars, guardVars>>)
  \/ subject = "JsonTree" /\ Json!Next
       /\ Resting(<<eventsVars, traceVars, loggerVars, poolVars, arenaVars, guardVars>>)
  \/ subject = "ObjectPool" /\ Pool!Next
       /\ Resting(<<eventsVars, traceVars, loggerVars, jsonVars, arenaVars, guardVars>>)
  \/ subject = "ArenaAllocator" /\ Arena!Next
       /\ Resting(<<eventsVars, traceVars, loggerVars, jsonVars, poolVars, guardVars>>)
  \/ subject = "LockedResource" /\ Guard!Next
       /\ Resting(<<eventsVars, traceVars, loggerVars, jsonVars, poolVars, arenaVars>>)

Spec == Init /\ [][Next]_allVars

\* An event and its registrations know of each other exactly while both exist, so
\* that UnRegister finds what it looks for and nobody calls what is gone
\* (Event.h:141-180, 197-254), and ShortCircutableEvent::Fire never goes on with
\* an iterator into a vector that has changed (Event.h:229).
RegistrationsAreKnown ==
  /\ Plain!IInv
  /\ Short!TypeOK /\ Short!NoDanglingIterator /\ Short!RegistrationsMatch

\* ShortCircutableEvent::Fire returns without an answer only if it has asked
\* everybody (Event.h:237).
NothingOnlyIfAllPassed == Short!NothingOnlyIfAllPassed

\* Of a ShortCircutableEvent the first one registered is asked first and nobody is
\* passed over; a SingleFireEvent whose callbacks register others "only calls the
\* callback once unless manually re-registered" (DOCUMENTATION.md:26).
CalledInOrderAndOnce == Short!OldestFirst /\ Single!TypeOK /\ Single!CalledOnce

\* Until Shutdown has been called on Windows (Logger.cpp:336-350), a file is kept open
\* for exactly as long as a type is mapped to it, however many types share it and
\* wherever Map and UnMap leave their loops, and no message is written to a stream that
\* was never opened.  Afterwards only this remains: no file outlives its types, and
\* what halts is shown as well ("not encompassed completely by filter", Logger.cpp:221).
FilesMatchMappings == Log!FilesMatchMappings

\* The NullObject stays null and outside of all trees ("cannot be modified",
\* DOCUMENTATION.md:332) while clients add and assign through it; every other
\* Json has one owner.
NullObjectIsNull == Json!NullObjectIsNull

\* A reference to a Json that was good when an operation returned it, as all are but
\* those of an AddValue or PushValue that failed (Json.h:154, 167), stays good, and the
\* accesses that found it find it again, until something above it is given another value.
ReferencesStay == Json!ReferencesStay

\* Neither the pool nor the arena gives out memory that somebody still has, and
\* the pool finds a leak only if a constructor threw ("Memory leak",
\* ObjectPool.h:47).
PlacesAreApart == Pool!EachSlotOnce /\ Arena!PlacesAreApart

\* However the vectors of the tree grow, the pointers to scopes stay good, only
\* the one to a thread's own trace dangles, and the scopes of a thread nest.
OnlyRootsDangle == Tracer!OnlyRootsDangle /\ Tracer!ScopesNest

\* Through however many moves: the mutex is locked while one guard has it, no two
\* guards ever have it, and it is free again when that one is gone.
OneGuardHolds == Guard!OneGuardHolds
================================================================================
