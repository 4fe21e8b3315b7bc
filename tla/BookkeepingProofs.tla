--------------------------- MODULE BookkeepingProofs ---------------------------
(***************************************************************************)
(* Proofs about the parts of Bookkeeping, for every value of the           *)
(* constants: the events, the logger, the guards, the pool, the arena, the *)
(* tree of traces and the trees of Json.  Each part has an invariant that  *)
(* its own steps keep and the steps of the others do not touch.            *)
(***************************************************************************)
EXTENDS Bookkeeping, SequenceTheorems, FiniteSetTheorems, WellFoundedInduction, TLAPS

-----------------------------------------------------------------------------
(* One part at a time: a step is a step of every part, or leaves it alone *)

LEMMA PartsSteps ==
  ASSUME [Next]_allVars
  PROVE  /\ [Plain!Next]_eventVars /\ [Short!Next]_shortVars /\ [Single!Next]_singleVars
         /\ [Tracer!Next]_traceVars /\ [Log!Next]_loggerVars /\ [Json!Next]_jsonVars
         /\ [Pool!Next]_poolVars /\ [Arena!Next]_arenaVars /\ [Guard!Next]_guardVars
<1>1. CASE UNCHANGED allVars
  BY <1>1 DEF allVars, eventsVars
<1>2. CASE Next
  BY <1>2 DEF Next, Resting, eventsVars
<1>3. QED
  BY <1>1, <1>2

-----------------------------------------------------------------------------
(* Event *)

EventCopy == [left : SUBSET Plain!EventID, running : Plain!EventID \cup {Plain!NullEventId}]

LEMMA EventInit ==
  ASSUME Plain!EventAssumption
  PROVE  Plain!Init => Plain!IInv
<1> SUFFICES ASSUME Plain!Init PROVE Plain!IInv
  OBVIOUS
<1>1. stack \in Seq(EventCopy) /\ Len(stack) = 0
  BY EmptySeq DEF Plain!Init
<1>2. Plain!TypeOK
  <2>1. 0 <= EventMaxDepth /\ Plain!NullEventId \in 0..MaxID
    BY DEF Plain!EventAssumption, Plain!NullEventId
  <2>2. QED
    BY <1>1, <2>1 DEF Plain!Init, Plain!TypeOK, EventCopy
<1>3. Plain!RegistrationsMatch /\ Plain!NoStaleUnRegister
  BY DEF Plain!Init, Plain!RegistrationsMatch, Plain!NoStaleUnRegister
<1>4. QED
  BY <1>2, <1>3 DEF Plain!IInv

-----------------------------------------------------------------------------
(* The operations, made by the program or by a callback *)

\* The next id is fresh, but nothing needs it to be: emplace and the registration
\* agree on it.
LEMMA RegisterInvariant ==
  ASSUME Plain!EventAssumption, Plain!IInv, Plain!Register
  PROVE  Plain!IInv'
<1>1. Plain!NextID \in Plain!EventID /\ myCurrentID' \in 0..MaxID
  BY DEF Plain!EventAssumption, Plain!IInv, Plain!TypeOK, Plain!Register, Plain!NextID, Plain!EventID
<1>2. Plain!TypeOK'
  BY <1>1 DEF Plain!IInv, Plain!TypeOK, Plain!Register
<1>3. Plain!RegistrationsMatch' /\ Plain!NoStaleUnRegister'
  BY DEF Plain!IInv, Plain!RegistrationsMatch, Plain!NoStaleUnRegister, Plain!Register
<1>4. QED
  BY <1>2, <1>3 DEF Plain!IInv

\* A registration that has its closure finds the event alive and itself in the map.
LEMMA DropInvariant ==
  ASSUME Plain!IInv, NEW id \in Plain!EventID, Plain!Drop(id)
  PROVE  Plain!IInv'
<1>1. CASE id \in armed
  <2>1. alive /\ id # Plain!NullEventId /\ id \in myCallbacks
    BY <1>1 DEF Plain!IInv, Plain!RegistrationsMatch, Plain!EventID, Plain!NullEventId
  <2>2. failed' = FALSE /\ myCallbacks' = myCallbacks \ {id} /\ armed' = armed \ {id}
    BY <1>1, <2>1 DEF Plain!Drop, Plain!UnRegister
  <2>3. Plain!TypeOK'
    BY <1>1, <2>2 DEF Plain!IInv, Plain!TypeOK, Plain!Drop
  <2>4. Plain!RegistrationsMatch' /\ Plain!NoStaleUnRegister'
    BY <2>1, <2>2 DEF Plain!IInv, Plain!RegistrationsMatch, Plain!NoStaleUnRegister, Plain!Drop
  <2>5. QED
    BY <2>3, <2>4 DEF Plain!IInv
<1>2. CASE id \notin armed
  <2>1. armed' = armed /\ myCallbacks' = myCallbacks /\ failed' = failed
    BY <1>2 DEF Plain!Drop
  <2>2. Plain!TypeOK'
    BY <1>2, <2>1 DEF Plain!IInv, Plain!TypeOK, Plain!Drop
  <2>3. Plain!RegistrationsMatch' /\ Plain!NoStaleUnRegister'
    BY <2>1 DEF Plain!IInv, Plain!RegistrationsMatch, Plain!NoStaleUnRegister, Plain!Drop
  <2>4. QED
    BY <2>2, <2>3 DEF Plain!IInv
<1>3. QED
  BY <1>1, <1>2

\* ~Event takes the closure of every registration: all that are armed are in its map.
LEMMA DestroyInvariant ==
  ASSUME Plain!IInv, Plain!Destroy
  PROVE  Plain!IInv'
<1>1. armed' = {} /\ myCallbacks' = {} /\ failed' = FALSE /\ ~alive'
  BY DEF Plain!IInv, Plain!RegistrationsMatch, Plain!Destroy, Plain!ArmedAfterEvent
<1>2. Plain!TypeOK'
  BY <1>1 DEF Plain!IInv, Plain!TypeOK, Plain!Destroy
<1>3. Plain!RegistrationsMatch' /\ Plain!NoStaleUnRegister'
  BY <1>1 DEF Plain!RegistrationsMatch, Plain!NoStaleUnRegister
<1>4. QED
  BY <1>2, <1>3 DEF Plain!IInv

\* Fires touch nothing but their copies, so it is the type of the stack that matters.
LEMMA StackInvariant ==
  ASSUME Plain!IInv, stack' \in Seq(EventCopy), Len(stack') <= EventMaxDepth,
         UNCHANGED <<alive, myCurrentID, myCallbacks, registrations, armed, failed>>
  PROVE  Plain!IInv'
BY DEF Plain!IInv, Plain!TypeOK, EventCopy, Plain!RegistrationsMatch, Plain!NoStaleUnRegister

-----------------------------------------------------------------------------
(* Fire *)

LEMMA StackType ==
  ASSUME Plain!IInv
  PROVE  stack \in Seq(EventCopy) /\ Len(stack) \in Nat /\ Len(stack) <= EventMaxDepth
BY DEF Plain!IInv, Plain!TypeOK, EventCopy

LEMMA FireInvariant ==
  ASSUME Plain!EventAssumption, Plain!IInv, Plain!Fire
  PROVE  Plain!IInv'
<1> DEFINE copy == [left |-> myCallbacks, running |-> Plain!NullEventId]
<1>1. copy \in EventCopy
  BY DEF Plain!IInv, Plain!TypeOK, EventCopy
<1>2. stack' = Append(stack, copy) /\ Len(stack) < EventMaxDepth
  BY DEF Plain!Fire
<1>3. stack' \in Seq(EventCopy) /\ Len(stack') = Len(stack) + 1
  BY <1>1, <1>2, StackType
<1>4. Len(stack') <= EventMaxDepth
  BY <1>2, <1>3, StackType DEF Plain!EventAssumption
<1>5. QED
  BY <1>3, <1>4, StackInvariant DEF Plain!Fire

\* A step of the innermost Fire puts another copy in place of its own.
LEMMA TopInvariant ==
  ASSUME Plain!IInv, Plain!InFire, NEW copy \in EventCopy, stack' = [stack EXCEPT ![Len(stack)] = copy]
  PROVE  Plain!IInv'
<1>1. Len(stack) \in 1..Len(stack)
  BY StackType, EmptySeq DEF Plain!InFire
<1>2. stack' \in Seq(EventCopy) /\ Len(stack') = Len(stack)
  BY <1>1, StackType, ExceptSeq
<1>3. QED
  BY <1>2, StackType, StackInvariant DEF Plain!InFire

LEMMA TopType ==
  ASSUME Plain!IInv, Plain!InFire
  PROVE  Plain!Top \in EventCopy
BY StackType, EmptySeq DEF Plain!InFire, Plain!Top

LEMMA CallInvariant ==
  ASSUME Plain!IInv, NEW id \in Plain!EventID, Plain!Call(id)
  PROVE  Plain!IInv'
<1> DEFINE copy == [left |-> Plain!Top.left \ {id}, running |-> id]
<1>1. Plain!InFire
  BY DEF Plain!Call
<1>2. copy \in EventCopy
  BY <1>1, TopType DEF EventCopy
<1>3. stack' = [stack EXCEPT ![Len(stack)] = copy]
  BY DEF Plain!Call, Plain!Top
<1>4. QED
  BY <1>1, <1>2, <1>3, TopInvariant

LEMMA CallbackReturnsInvariant ==
  ASSUME Plain!IInv, Plain!CallbackReturns
  PROVE  Plain!IInv'
<1> DEFINE copy == [Plain!Top EXCEPT !.running = Plain!NullEventId]
<1>1. Plain!InFire
  BY DEF Plain!CallbackReturns
<1>2. copy \in EventCopy
  BY <1>1, TopType DEF EventCopy
<1>3. stack' = [stack EXCEPT ![Len(stack)] = copy]
  BY DEF Plain!CallbackReturns, Plain!Top
<1>4. QED
  BY <1>1, <1>2, <1>3, TopInvariant

LEMMA FireReturnsInvariant ==
  ASSUME Plain!EventAssumption, Plain!IInv, Plain!FireReturns
  PROVE  Plain!IInv'
<1>1. Plain!InFire /\ stack' = SubSeq(stack, 1, Len(stack) - 1)
  BY DEF Plain!FireReturns
<1>2. Len(stack) # 0
  BY <1>1, StackType, EmptySeq DEF Plain!InFire
<1>3. \A i \in 1..(Len(stack) - 1) : stack[i] \in EventCopy
  BY StackType
<1>4. /\ SubSeq(stack, 1, Len(stack) - 1) \in Seq(EventCopy)
      /\ Len(SubSeq(stack, 1, Len(stack) - 1)) = IF 1 <= Len(stack) - 1 THEN Len(stack) - 1 - 1 + 1 ELSE 0
  <2>1. 1 \in Int /\ Len(stack) - 1 \in Int
    BY StackType
  <2>2. QED
    BY <1>3, <2>1, SubSeqProperties
<1>5. stack' \in Seq(EventCopy) /\ Len(stack') <= EventMaxDepth
  BY <1>1, <1>2, <1>4, StackType DEF Plain!EventAssumption
<1>6. QED
  BY <1>1, <1>5, StackInvariant DEF Plain!InFire

-----------------------------------------------------------------------------

LEMMA EventStep ==
  ASSUME Plain!EventAssumption
  PROVE  Plain!IInv /\ [Plain!Next]_eventVars => Plain!IInv'
<1> SUFFICES ASSUME Plain!IInv, [Plain!Next]_eventVars PROVE Plain!IInv'
  OBVIOUS
<1>1. CASE Plain!Register
  BY <1>1, RegisterInvariant
<1>2. CASE Plain!Destroy
  BY <1>2, DestroyInvariant
<1>3. CASE Plain!Fire
  BY <1>3, FireInvariant
<1>4. CASE Plain!CallbackReturns
  BY <1>4, CallbackReturnsInvariant
<1>5. CASE Plain!FireReturns
  BY <1>5, FireReturnsInvariant
<1>6. ASSUME NEW id \in Plain!EventID, Plain!Drop(id) PROVE Plain!IInv'
  BY <1>6, DropInvariant
<1>7. ASSUME NEW id \in Plain!EventID, Plain!Call(id) PROVE Plain!IInv'
  BY <1>7, CallInvariant
<1>8. CASE UNCHANGED eventVars
  BY <1>8, StackType, StackInvariant DEF eventVars
<1>9. QED
  BY <1>1, <1>2, <1>3, <1>4, <1>5, <1>6, <1>7, <1>8 DEF Plain!Next

-----------------------------------------------------------------------------
(* Logger *)

\* What the functions rely on: the first part is about the streams alone, before and
\* after Shutdown.
Streams(mapping, open, gone) ==
  /\ DOMAIN mapping \subseteq Log!Types /\ Log!Range(mapping) \subseteq Files
  /\ DOMAIN open \subseteq Log!Range(mapping)
  /\ Log!Range(open) \subseteq {"open", "bad", "closed"}
  /\ ~gone => Log!Range(mapping) \subseteq DOMAIN open /\ "closed" \notin Log!Range(open)

LEMMA StreamsMatch ==
  ASSUME Log!FilesMatchMappings
  PROVE  Streams(FileMapping, OpenFiles, shutDown)
BY DEF Log!FilesMatchMappings, Log!TypeOK, Streams

LEMMA StreamsThen ==
  ASSUME NEW mapping, NEW open, Streams(mapping, open, shutDown),
         FileMapping' = mapping, OpenFiles' = open, UNCHANGED shutDown
  PROVE  Streams(FileMapping, OpenFiles, shutDown)'
BY DEF Streams

\* A type that is mapped has a stream until Shutdown, so that a message makes one only
\* afterwards, for a file that a type is mapped to.
LEMMA LoggedStreams ==
  ASSUME NEW mapping, NEW open, NEW gone, Streams(mapping, open, gone), NEW type
  PROVE  Streams(mapping, Log!Logged(mapping, open, type), gone)
<1> DEFINE logged == Log!Logged(mapping, open, type)
<1>1. CASE type \in DOMAIN mapping
  <2>1. mapping[type] \in Log!Range(mapping)
    BY <1>1 DEF Log!Range
  <2>2. logged = Log!With(open, mapping[type], "closed")
    BY <1>1 DEF Log!Logged
  <2>3. /\ DOMAIN logged = DOMAIN open \cup {mapping[type]}
        /\ \A f \in DOMAIN logged : logged[f] = IF f \in DOMAIN open THEN open[f] ELSE "closed"
    BY <2>2 DEF Log!With
  <2>4. Log!Range(logged) \subseteq Log!Range(open) \cup {"closed"}
    BY <2>3 DEF Log!Range
  <2>5. ~gone => DOMAIN logged = DOMAIN open /\ Log!Range(logged) \subseteq Log!Range(open)
    BY <2>1, <2>3 DEF Streams, Log!Range
  <2>6. QED
    BY <2>1, <2>3, <2>4, <2>5 DEF Streams
<1>2. CASE type \notin DOMAIN mapping
  BY <1>2 DEF Log!Logged
<1>3. QED
  BY <1>1, <1>2

\* A message leaves everything in order, whatever else happens to the filters.
LEMMA LogInvariant ==
  ASSUME Log!FilesMatchMappings, NEW type, Log!Log(type), UNCHANGED <<FileMapping, shutDown>>
  PROVE  Streams(FileMapping, OpenFiles, shutDown)'
BY StreamsMatch, LoggedStreams DEF Log!Log, Streams

\* Every nonempty set of bits has a lowest one.
LEMMA LowestIsABit ==
  ASSUME Log!LoggerAssumption, bits \subseteq Log!Types, bits # {}
  PROVE  Log!Lowest \in bits
<1>1. bits \subseteq Nat
  BY DEF Log!LoggerAssumption, Log!Types
<1>2. PICK least \in bits : \A other \in bits : <<other, least>> \notin OpToRel(<, Nat)
  BY <1>1, NatLessThanWellFounded, WFMin, Zenon
<1>3. ASSUME NEW other \in bits PROVE least <= other
  <2>1. least \in Nat /\ other \in Nat
    BY <1>1
  <2>2. ~(other < least)
    BY <1>2, <2>1, Zenon DEF OpToRel
  <2>3. QED
    BY <2>1, <2>2
<1>4. QED
  BY <1>3 DEF Log!Lowest

-----------------------------------------------------------------------------
(* The steps that map a type and take one from its file *)

\* FileMapping[type] = file, and the stream of the file, a new one or one that
\* other types use.
LEMMA MappedStreams ==
  ASSUME Streams(FileMapping, OpenFiles, shutDown),
         NEW type \in Log!Types, type \notin DOMAIN FileMapping, NEW file \in Files, NEW open,
         DOMAIN open = DOMAIN OpenFiles \cup {file},
         Log!Range(open) \subseteq Log!Range(OpenFiles) \cup {"open", "bad"}
  PROVE  Streams(Log!With(FileMapping, type, file), open, shutDown)
<1> DEFINE mapping == Log!With(FileMapping, type, file)
<1>1. /\ DOMAIN mapping = DOMAIN FileMapping \cup {type} /\ mapping[type] = file
      /\ \A t \in DOMAIN FileMapping : mapping[t] = FileMapping[t]
  BY DEF Log!With
<1>2. Log!Range(mapping) = Log!Range(FileMapping) \cup {file}
  BY <1>1 DEF Log!Range
<1>3. ~shutDown => "closed" \notin Log!Range(open)
  <2>1. "closed" \notin {"open", "bad"}
    OBVIOUS
  <2>2. QED
    BY <2>1 DEF Streams
<1>4. QED
  BY <1>1, <1>2, <1>3 DEF Streams

\* The stream of a file that had none.
LEMMA NewStream ==
  ASSUME NEW file, NEW kind \in {"open", "bad"}
  PROVE  /\ DOMAIN Log!With(OpenFiles, file, kind) = DOMAIN OpenFiles \cup {file}
         /\ Log!Range(Log!With(OpenFiles, file, kind)) \subseteq Log!Range(OpenFiles) \cup {"open", "bad"}
<1> DEFINE open == Log!With(OpenFiles, file, kind)
<1>1. /\ DOMAIN open = DOMAIN OpenFiles \cup {file}
      /\ \A f \in DOMAIN open : open[f] = IF f \in DOMAIN OpenFiles THEN OpenFiles[f] ELSE kind
  BY DEF Log!With
<1>2. QED
  BY <1>1 DEF Log!Range

\* Without the type, its file is used by the others that are mapped to it, or by
\* none, and then its stream goes as well.
LEMMA UnmappedStreams ==
  ASSUME NEW open, Streams(FileMapping, open, shutDown), NEW type \in DOMAIN FileMapping
  PROVE  LET file == FileMapping[type]
             rest == Log!Restrict(FileMapping, DOMAIN FileMapping \ {type})
         IN Streams(rest, IF Log!Unused(rest, file) THEN Log!Restrict(open, DOMAIN open \ {file}) ELSE open,
                    shutDown)
<1> DEFINE file == FileMapping[type]
           rest == Log!Restrict(FileMapping, DOMAIN FileMapping \ {type})
           left == Log!Restrict(open, DOMAIN open \ {file})
<1>1. /\ DOMAIN rest = DOMAIN FileMapping \ {type}
      /\ \A t \in DOMAIN rest : rest[t] = FileMapping[t]
  BY DEF Log!Restrict
<1>2. Log!Range(FileMapping) = Log!Range(rest) \cup {file}
  BY <1>1 DEF Log!Range
<1>3. /\ DOMAIN left = DOMAIN open \ {file}
      /\ \A f \in DOMAIN left : left[f] = open[f]
  BY DEF Log!Restrict
<1>4. Log!Range(left) \subseteq Log!Range(open)
  BY <1>3 DEF Log!Range
<1>5. CASE Log!Unused(rest, file)
  BY <1>1, <1>2, <1>3, <1>4, <1>5 DEF Streams, Log!Unused
<1>6. CASE ~Log!Unused(rest, file)
  BY <1>1, <1>2, <1>6 DEF Streams, Log!Unused
<1>7. QED
  BY <1>5, <1>6

-----------------------------------------------------------------------------
(* The invariant *)

\* What is left to show of a step: the filters and the loop's own variables.
LoopType ==
  /\ bits \subseteq Log!Types /\ running \in {"none", "Map", "UnMap"} /\ aOutputFile \in Files
  /\ bits = {} <=> running = "none"
  /\ shutDown \in BOOLEAN

FilterType == Filter \subseteq Log!Types /\ Halting \subseteq Filter

LEMMA Parts ==
  Log!FilesMatchMappings <=> Streams(FileMapping, OpenFiles, shutDown) /\ LoopType /\ FilterType
<1>1. ASSUME DOMAIN OpenFiles \subseteq Log!Range(FileMapping), Log!Range(FileMapping) \subseteq Files
      PROVE  DOMAIN OpenFiles \subseteq Files
  BY <1>1
<1>2. QED
  BY <1>1 DEF Log!FilesMatchMappings, Log!TypeOK, Streams, LoopType, FilterType

LEMMA PartsNext ==
  ASSUME Streams(FileMapping, OpenFiles, shutDown)', LoopType', FilterType'
  PROVE  Log!FilesMatchMappings'
<1>1. (DOMAIN OpenFiles \subseteq Files)'
  BY DEF Streams
<1>2. QED
  BY <1>1 DEF Log!FilesMatchMappings, Log!TypeOK, Streams, LoopType, FilterType

\* The bit that a running loop looks at, and its going on.
LEMMA Running ==
  ASSUME Log!LoggerAssumption, Log!FilesMatchMappings, running # "none"
  PROVE  Log!Lowest \in Log!Types
BY LowestIsABit DEF Log!FilesMatchMappings, Log!TypeOK

LEMMA LoopGoesOn ==
  ASSUME Log!FilesMatchMappings, running # "none", Log!GoOn \/ Log!Leave,
         UNCHANGED <<aOutputFile, shutDown>>
  PROVE  LoopType'
BY DEF Log!FilesMatchMappings, Log!TypeOK, LoopType, Log!GoOn, Log!Leave

LEMMA FiltersStay ==
  ASSUME Log!FilesMatchMappings, UNCHANGED <<Filter, Halting>>
  PROVE  FilterType'
BY DEF Log!FilesMatchMappings, Log!TypeOK, FilterType

LEMMA LoopStays ==
  ASSUME Log!FilesMatchMappings, UNCHANGED <<running, bits, aOutputFile, shutDown>>
  PROVE  LoopType'
BY DEF Log!FilesMatchMappings, Log!TypeOK, LoopType

LEMMA StreamsStay ==
  ASSUME Log!FilesMatchMappings, UNCHANGED <<FileMapping, OpenFiles, shutDown>>
  PROVE  Streams(FileMapping, OpenFiles, shutDown)'
BY StreamsMatch DEF Streams

LEMMA RapportInvariant ==
  ASSUME Log!FilesMatchMappings, NEW types, Log!Rapport(types)
  PROVE  Log!FilesMatchMappings'
<1>1. \E type : Log!Log(type)
  <2>1. CASE Cardinality(types) = 1
    BY <2>1 DEF Log!Rapport
  <2>2. CASE Cardinality(types) # 1
    BY <2>2 DEF Log!Rapport
  <2>3. QED
    BY <2>1, <2>2
<1>2. Streams(FileMapping, OpenFiles, shutDown)'
  BY <1>1, LogInvariant DEF Log!Rapport
<1>3. QED
  BY <1>2, FiltersStay, LoopStays, PartsNext DEF Log!Rapport

LEMMA SetFilterInvariant ==
  ASSUME Log!FilesMatchMappings, NEW types \in SUBSET Log!Types, Log!SetFilter(types)
  PROVE  Log!FilesMatchMappings'
<1>1. Streams(FileMapping, OpenFiles, shutDown)'
  BY LogInvariant, StreamsStay DEF Log!SetFilter
<1>2. FilterType'
  BY DEF Log!FilesMatchMappings, Log!TypeOK, FilterType, Log!SetFilter, Log!Encompasses
<1>3. QED
  BY <1>1, <1>2, LoopStays, PartsNext DEF Log!SetFilter

LEMMA SetHaltingInvariant ==
  ASSUME Log!FilesMatchMappings, NEW types \in SUBSET Log!Types, Log!SetHalting(types)
  PROVE  Log!FilesMatchMappings'
<1>1. Streams(FileMapping, OpenFiles, shutDown)'
  BY LogInvariant, StreamsStay DEF Log!SetHalting
<1>2. FilterType'
  BY DEF Log!FilesMatchMappings, Log!TypeOK, FilterType, Log!SetHalting, Log!Encompasses
<1>3. QED
  BY <1>1, <1>2, LoopStays, PartsNext DEF Log!SetHalting

LEMMA StartInvariant ==
  ASSUME Log!FilesMatchMappings, NEW types \in (SUBSET Log!Types) \ {{}}, NEW file \in Files,
         Log!Map(types, file) \/ Log!UnMap(types)
  PROVE  Log!FilesMatchMappings'
<1>1. Streams(FileMapping, OpenFiles, shutDown)'
  BY StreamsStay DEF Log!Map, Log!UnMap
<1>2. /\ bits' = types /\ types # {} /\ types \subseteq Log!Types
      /\ running' = "Map" \/ running' = "UnMap"
      /\ aOutputFile' = file \/ aOutputFile' = aOutputFile
      /\ UNCHANGED shutDown
  BY DEF Log!Map, Log!UnMap
<1>3. LoopType'
  BY <1>2 DEF Log!FilesMatchMappings, Log!TypeOK, LoopType
<1>4. QED
  BY <1>1, <1>3, FiltersStay, PartsNext DEF Log!Map, Log!UnMap

\* Both errors of the loops are only logged.
LEMMA ErrorInvariant ==
  ASSUME Log!FilesMatchMappings, Log!AlreadyMapped \/ Log!NotMapped
  PROVE  Log!FilesMatchMappings'
<1>1. Log!Log(SystemError) /\ UNCHANGED <<FileMapping, shutDown>>
  BY DEF Log!AlreadyMapped, Log!NotMapped
<1>2. Streams(FileMapping, OpenFiles, shutDown)'
  BY <1>1, LogInvariant
<1>3. running # "none" /\ (Log!GoOn \/ Log!Leave) /\ UNCHANGED <<aOutputFile, shutDown, Filter, Halting>>
  BY DEF Log!AlreadyMapped, Log!NotMapped
<1>4. QED
  BY <1>2, <1>3, FiltersStay, LoopGoesOn, PartsNext

LEMMA MapBitInvariant ==
  ASSUME Log!LoggerAssumption, Log!FilesMatchMappings, Log!MapBit
  PROVE  Log!FilesMatchMappings'
<1>1. Log!Lowest \in Log!Types /\ Log!Lowest \notin DOMAIN FileMapping
  BY Running DEF Log!MapBit
<1>2. aOutputFile \in Files
  BY DEF Log!FilesMatchMappings, Log!TypeOK
<1> DEFINE mapping == Log!With(FileMapping, Log!Lowest, aOutputFile)
<1>3. FileMapping' = mapping /\ UNCHANGED shutDown
  BY DEF Log!MapBit
<1>4. Streams(FileMapping, OpenFiles, shutDown)'
  <2>1. CASE aOutputFile \in DOMAIN OpenFiles /\ UNCHANGED OpenFiles
    <3>1. Streams(mapping, OpenFiles, shutDown)
      BY <1>1, <1>2, <2>1, StreamsMatch, MappedStreams
    <3>2. QED
      BY <1>3, <2>1, <3>1, StreamsThen
  <2>2. CASE OpenFiles' = Log!With(OpenFiles, aOutputFile, "open")
    <3>1. Streams(mapping, Log!With(OpenFiles, aOutputFile, "open"), shutDown)
      BY <1>1, <1>2, NewStream, StreamsMatch, MappedStreams
    <3>2. QED
      BY <1>3, <2>2, <3>1, StreamsThen
  <2>3. CASE OpenFiles' = Log!Logged(mapping, Log!With(OpenFiles, aOutputFile, "bad"), SystemError)
    <3>1. Streams(mapping, Log!With(OpenFiles, aOutputFile, "bad"), shutDown)
      BY <1>1, <1>2, NewStream, StreamsMatch, MappedStreams
    <3>2. Streams(mapping, OpenFiles', shutDown)
      BY <2>3, <3>1, LoggedStreams
    <3>3. QED
      BY <1>3, <3>2, StreamsThen
  <2>4. QED
    BY <2>1, <2>2, <2>3 DEF Log!MapBit
<1>5. LoopType' /\ FilterType'
  BY LoopGoesOn, FiltersStay DEF Log!MapBit
<1>6. QED
  BY <1>4, <1>5, PartsNext

LEMMA UnMapBitInvariant ==
  ASSUME Log!FilesMatchMappings, Log!UnMapBit
  PROVE  Log!FilesMatchMappings'
<1> DEFINE file == FileMapping[Log!Lowest]
           rest == Log!Restrict(FileMapping, DOMAIN FileMapping \ {Log!Lowest})
           open == Log!Logged(FileMapping, OpenFiles, SystemInfo)
<1>1. Log!Lowest \in DOMAIN FileMapping /\ FileMapping' = rest /\ UNCHANGED shutDown
  BY DEF Log!UnMapBit
<1>2. Streams(FileMapping, open, shutDown)
  BY StreamsMatch, LoggedStreams
<1>3. OpenFiles' = IF Log!Unused(rest, file) THEN Log!Restrict(open, DOMAIN open \ {file}) ELSE open
  BY DEF Log!UnMapBit, Log!Log
<1>4. Streams(rest, IF Log!Unused(rest, file) THEN Log!Restrict(open, DOMAIN open \ {file}) ELSE open,
              shutDown)
  BY <1>1, <1>2, UnmappedStreams
<1>5. Streams(FileMapping, OpenFiles, shutDown)'
  BY <1>1, <1>3, <1>4 DEF Streams
<1>6. LoopType' /\ FilterType'
  BY LoopGoesOn, FiltersStay DEF Log!UnMapBit
<1>7. QED
  BY <1>5, <1>6, PartsNext

\* Without streams nothing can outlive its types.
LEMMA ShutdownInvariant ==
  ASSUME Log!FilesMatchMappings, Log!Shutdown
  PROVE  Log!FilesMatchMappings'
<1>1. DOMAIN OpenFiles' = {} /\ Log!Range(OpenFiles') = {} /\ shutDown' = TRUE
  BY DEF Log!Shutdown, Log!Range
<1>2. Streams(FileMapping, OpenFiles, shutDown)'
  <2>1. UNCHANGED FileMapping
    BY DEF Log!Shutdown
  <2>2. Streams(FileMapping, OpenFiles', shutDown')
    BY <1>1, StreamsMatch DEF Streams
  <2>3. QED
    BY <2>1, <2>2 DEF Streams
<1>3. LoopType'
  BY <1>1 DEF Log!Shutdown, Log!FilesMatchMappings, Log!TypeOK, LoopType
<1>4. QED
  BY <1>2, <1>3, FiltersStay, PartsNext DEF Log!Shutdown

LEMMA LoggerStep ==
  ASSUME Log!LoggerAssumption
  PROVE  Log!FilesMatchMappings /\ [Log!Next]_loggerVars => Log!FilesMatchMappings'
<1> SUFFICES ASSUME Log!FilesMatchMappings, [Log!Next]_loggerVars PROVE Log!FilesMatchMappings'
  OBVIOUS
<1>1. ASSUME NEW types \in (SUBSET Log!Types) \ {{}}, Log!Rapport(types) PROVE Log!FilesMatchMappings'
  BY <1>1, RapportInvariant
<1>2. ASSUME NEW types \in (SUBSET Log!Types) \ {{}}, NEW file \in Files, Log!Map(types, file) PROVE Log!FilesMatchMappings'
  BY <1>2, StartInvariant
<1>3. ASSUME NEW types \in (SUBSET Log!Types) \ {{}}, Log!UnMap(types) PROVE Log!FilesMatchMappings'
  <2>1. aOutputFile \in Files
    BY DEF Log!FilesMatchMappings, Log!TypeOK
  <2>2. QED
    BY <1>3, <2>1, StartInvariant
<1>4. ASSUME NEW types \in SUBSET Log!Types, Log!SetFilter(types) PROVE Log!FilesMatchMappings'
  BY <1>4, SetFilterInvariant
<1>5. ASSUME NEW types \in SUBSET Log!Types, Log!SetHalting(types) PROVE Log!FilesMatchMappings'
  BY <1>5, SetHaltingInvariant
<1>6. CASE Log!AlreadyMapped \/ Log!NotMapped
  BY <1>6, ErrorInvariant
<1>7. CASE Log!MapBit
  BY <1>7, MapBitInvariant
<1>8. CASE Log!UnMapBit
  BY <1>8, UnMapBitInvariant
<1>9. CASE Log!Shutdown
  BY <1>9, ShutdownInvariant
<1>10. CASE UNCHANGED loggerVars
  BY <1>10, StreamsStay, LoopStays, FiltersStay, PartsNext DEF loggerVars
<1>11. QED
  BY <1>1, <1>2, <1>3, <1>4, <1>5, <1>6, <1>7, <1>8, <1>9, <1>10 DEF Log!Next

LEMMA LoggerInit == Log!Init => Log!FilesMatchMappings
<1> SUFFICES ASSUME Log!Init PROVE Log!FilesMatchMappings
  OBVIOUS
<1>1. DOMAIN FileMapping = {} /\ DOMAIN OpenFiles = {}
  BY DEF Log!Init
<1>2. Log!Range(FileMapping) = {} /\ Log!Range(OpenFiles) = {}
  BY <1>1 DEF Log!Range
<1>3. QED
  BY <1>1, <1>2 DEF Log!Init, Log!FilesMatchMappings, Log!TypeOK

-----------------------------------------------------------------------------
(* LockedResource *)

\* A guard that is new comes with its thread, and the others keep theirs.
LEMMA WithAnother ==
  ASSUME Guard!TypeOK, NEW g \in Guards, NEW t \in Threads, owner' = Guard!With(g, t)
  PROVE  /\ Guard!Exists' = Guard!Exists \cup {g}
         /\ Guard!Exists' \subseteq Guards
         /\ owner' \in [Guard!Exists' -> Threads]
<1>1. Guard!Exists' = Guard!Exists \cup {g}
  BY DEF Guard!With, Guard!Exists
<1>2. \A h \in Guard!Exists : owner[h] \in Threads
  BY DEF Guard!TypeOK
<1>3. owner' \in [Guard!Exists \cup {g} -> Threads]
  BY <1>2 DEF Guard!With
<1>4. QED
  BY <1>1, <1>3 DEF Guard!TypeOK

\* Moving a guard moves the mutex with it, if it had one.
LEMMA MoveKeepsTheMutex ==
  ASSUME Guard!OneGuardHolds, NEW g \in Guards, NEW other \in Guards, Guard!Move(g, other)
  PROVE  Guard!OneGuardHolds'
<1>1. owner[other] \in Threads
  BY DEF Guard!Move, Guard!OneGuardHolds, Guard!TypeOK
<1>2. /\ Guard!Exists' = Guard!Exists \cup {g} /\ Guard!Exists' \subseteq Guards
      /\ owner' \in [Guard!Exists' -> Threads]
  BY <1>1, WithAnother DEF Guard!Move, Guard!OneGuardHolds
<1>3. CASE other \in myMutex
  <2>1. myMutex = {other}
    BY <1>3 DEF Guard!OneGuardHolds
  <2>2. myMutex' = {g}
    BY <1>3, <2>1 DEF Guard!Move, Guard!MovedOn
  <2>3. locked' = TRUE
    BY <1>3 DEF Guard!Move, Guard!OneGuardHolds, Guard!TypeOK
  <2>4. QED
    BY <1>2, <2>2, <2>3 DEF Guard!OneGuardHolds, Guard!TypeOK
<1>4. CASE other \notin myMutex
  <2>1. myMutex' = myMutex /\ locked' = locked
    BY <1>4 DEF Guard!Move, Guard!MovedOn
  <2>2. QED
    BY <1>2, <2>1 DEF Guard!OneGuardHolds, Guard!TypeOK
<1>5. QED
  BY <1>3, <1>4

\* The guard that is destroyed gives the mutex back, if it is the one that has it.
LEMMA UnlockGivesBack ==
  ASSUME Guard!OneGuardHolds, NEW g \in Guards, Guard!Unlock(g)
  PROVE  Guard!OneGuardHolds'
<1>1. Guard!Exists' = Guard!Exists \ {g} /\ owner' \in [Guard!Exists' -> Threads]
  BY DEF Guard!Unlock, Guard!Exists, Guard!OneGuardHolds, Guard!TypeOK
<1>2. CASE g \in myMutex
  <2>1. myMutex' = {} /\ locked' = FALSE
    BY <1>2 DEF Guard!Unlock, Guard!OneGuardHolds
  <2>2. QED
    BY <1>1, <2>1 DEF Guard!OneGuardHolds, Guard!TypeOK
<1>3. CASE g \notin myMutex
  <2>1. myMutex' = myMutex /\ locked' = locked
    BY <1>3 DEF Guard!Unlock, Guard!OneGuardHolds, Guard!TypeOK
  <2>2. QED
    BY <1>1, <1>3, <2>1 DEF Guard!OneGuardHolds, Guard!TypeOK
<1>4. QED
  BY <1>2, <1>3

\* Every step preserves the invariant.
LEMMA OneGuardInductive == Guard!OneGuardHolds /\ [Guard!Next]_guardVars => Guard!OneGuardHolds'
<1> SUFFICES ASSUME Guard!OneGuardHolds, [Guard!Next]_guardVars
             PROVE  Guard!OneGuardHolds'
  OBVIOUS
<1>1. ASSUME NEW g \in Guards, NEW t \in Threads, Guard!Lock(t, g)
      PROVE  Guard!OneGuardHolds'
  <2>1. myMutex = {} /\ myMutex' = {g} /\ locked' = TRUE
    BY <1>1 DEF Guard!Lock, Guard!OneGuardHolds
  <2>2. /\ Guard!Exists' = Guard!Exists \cup {g} /\ Guard!Exists' \subseteq Guards
        /\ owner' \in [Guard!Exists' -> Threads]
    BY <1>1, WithAnother DEF Guard!Lock, Guard!OneGuardHolds
  <2>3. QED
    BY <2>1, <2>2 DEF Guard!OneGuardHolds, Guard!TypeOK
<1>2. ASSUME NEW g \in Guards, NEW other \in Guards, Guard!Move(g, other)
      PROVE  Guard!OneGuardHolds'
  BY <1>2, MoveKeepsTheMutex
<1>3. ASSUME NEW g \in Guards, Guard!Unlock(g)
      PROVE  Guard!OneGuardHolds'
  BY <1>3, UnlockGivesBack
<1>4. CASE UNCHANGED guardVars
  BY <1>4 DEF guardVars, Guard!OneGuardHolds, Guard!TypeOK, Guard!Exists
<1>5. QED
  BY <1>1, <1>2, <1>3, <1>4 DEF Guard!Next

-----------------------------------------------------------------------------
(* Sequences without a piece *)

\* Sequences of anything, without their last element.
LEMMA WithoutLast ==
  ASSUME NEW S, NEW s \in Seq(S), s # <<>>
  PROVE  /\ Len(s) \in Nat \ {0}
         /\ SubSeq(s, 1, Len(s) - 1) \in Seq(S)
         /\ Len(SubSeq(s, 1, Len(s) - 1)) = Len(s) - 1
         /\ \A i \in 1..(Len(s) - 1) : SubSeq(s, 1, Len(s) - 1)[i] = s[i]
<1>1. Len(s) \in Nat \ {0} /\ \A i \in 1..(Len(s) - 1) : s[i] \in S
  BY EmptySeq, ElementOfSeq
<1>2. 1 \in Int /\ Len(s) - 1 \in Int /\ Len(s) - 1 - 1 + 1 = Len(s) - 1
  BY <1>1
<1>3. /\ SubSeq(s, 1, Len(s) - 1) \in Seq(S)
      /\ Len(SubSeq(s, 1, Len(s) - 1)) = IF 1 <= Len(s) - 1 THEN Len(s) - 1 - 1 + 1 ELSE 0
      /\ \A i \in 1..(Len(s) - 1 - 1 + 1) : SubSeq(s, 1, Len(s) - 1)[i] = s[1 + i - 1]
  BY <1>1, <1>2, SubSeqProperties
<1>4. QED
  BY <1>1, <1>2, <1>3

\* The pieces before and behind the element at `at`.
LEMMA WithoutOne ==
  ASSUME NEW S, NEW s \in Seq(S), NEW at \in 1..Len(s)
  PROVE  LET rest == SubSeq(s, 1, at - 1) \o SubSeq(s, at + 1, Len(s))
         IN /\ rest \in Seq(S) /\ Len(rest) = Len(s) - 1
            /\ \A i \in 1..Len(rest) : rest[i] = s[IF i < at THEN i ELSE i + 1]
<1> DEFINE before == SubSeq(s, 1, at - 1)
           behind == SubSeq(s, at + 1, Len(s))
<1>1. at \in Nat \ {0} /\ Len(s) \in Nat /\ at <= Len(s) /\ \A i \in 1..Len(s) : s[i] \in S
  BY ElementOfSeq
<1>2. /\ before \in Seq(S) /\ Len(before) = at - 1
      /\ \A i \in 1..(at - 1) : before[i] = s[i]
  <2>1. 1 \in Int /\ at - 1 \in Int /\ at - 1 - 1 + 1 = at - 1 /\ \A i \in 1..(at - 1) : s[i] \in S
    BY <1>1
  <2>2. /\ before \in Seq(S)
        /\ Len(before) = IF 1 <= at - 1 THEN at - 1 - 1 + 1 ELSE 0
        /\ \A i \in 1..(at - 1 - 1 + 1) : before[i] = s[1 + i - 1]
    BY <2>1, SubSeqProperties
  <2>3. QED
    BY <1>1, <2>1, <2>2
<1>3. /\ behind \in Seq(S) /\ Len(behind) = Len(s) - at
      /\ \A i \in 1..(Len(s) - at) : behind[i] = s[at + i]
  <2>1. /\ at + 1 \in Int /\ Len(s) \in Int /\ Len(s) - (at + 1) + 1 = Len(s) - at
        /\ \A i \in (at + 1)..Len(s) : s[i] \in S
    BY <1>1
  <2>2. /\ behind \in Seq(S)
        /\ Len(behind) = IF at + 1 <= Len(s) THEN Len(s) - (at + 1) + 1 ELSE 0
        /\ \A i \in 1..(Len(s) - (at + 1) + 1) : behind[i] = s[at + 1 + i - 1]
    BY <2>1, SubSeqProperties
  <2>3. Len(behind) = Len(s) - at
    BY <1>1, <2>2
  <2>4. ASSUME NEW i \in 1..(Len(s) - at) PROVE behind[i] = s[at + i]
    <3>1. behind[i] = s[at + 1 + i - 1]
      BY <2>1, <2>2
    <3>2. at + 1 + i - 1 = at + i
      BY <1>1
    <3>3. QED
      BY <3>1, <3>2
  <2>5. QED
    BY <2>2, <2>3, <2>4
<1> HIDE DEF before, behind
<1>4. /\ before \o behind \in Seq(S) /\ Len(before \o behind) = Len(before) + Len(behind)
      /\ \A i \in 1..(Len(before) + Len(behind)) :
           (before \o behind)[i] = IF i <= Len(before) THEN before[i] ELSE behind[i - Len(before)]
  BY <1>2, <1>3, ConcatProperties
<1>5. Len(before) + Len(behind) = Len(s) - 1
  BY <1>1, <1>2, <1>3
<1>6. ASSUME NEW i \in 1..(Len(s) - 1)
      PROVE  (before \o behind)[i] = s[IF i < at THEN i ELSE i + 1]
  <2>1. CASE i < at
    <3>1. i <= at - 1 /\ i \in 1..(at - 1)
      BY <1>1, <2>1
    <3>2. QED
      BY <1>2, <1>4, <1>5, <2>1, <3>1
  <2>2. CASE ~(i < at)
    <3>1. ~(i <= at - 1) /\ i - (at - 1) \in 1..(Len(s) - at) /\ at + (i - (at - 1)) = i + 1
      BY <1>1, <2>2
    <3>2. (before \o behind)[i] = behind[i - (at - 1)]
      BY <1>2, <1>4, <1>5, <3>1
    <3>3. QED
      BY <1>3, <2>2, <3>1, <3>2
  <2>3. QED
    BY <2>1, <2>2
<1>7. QED
  BY <1>4, <1>5, <1>6 DEF before, behind

-----------------------------------------------------------------------------
(* ObjectPool *)

PoolInv ==
  /\ available \in Seq(Pool!Slots) /\ thrown \in Nat
  /\ Pool!EachSlotOnce

LEMMA SlotsInUse ==
  /\ PoolSize \in Nat
  /\ \A S : IsFiniteSet(S \cap Pool!Slots)
  /\ \A S : Pool!Cardinality(S) = Cardinality(S)
<1>1. PoolSize \in Nat
  BY BookkeepingAssumption DEF Pool!ObjectPoolAssumption
<1>2. IsFiniteSet(Pool!Slots)
  BY <1>1, FS_Interval DEF Pool!Slots
<1>3. ASSUME NEW S PROVE IsFiniteSet(S \cap Pool!Slots)
  BY <1>2, FS_Subset
<1>4. QED
  BY <1>1, <1>3 DEF Pool!Cardinality, Cardinality

LEMMA PoolInit == Pool!Init => PoolInv
<1> SUFFICES ASSUME Pool!Init PROVE PoolInv
  OBVIOUS
<1>1. /\ available \in Seq(Pool!Slots) /\ Len(available) = PoolSize
      /\ DOMAIN available = 1..PoolSize /\ \A i \in 1..PoolSize : available[i] = i
  BY SlotsInUse DEF Pool!Init, Pool!Slots
<1>2. Cardinality(inUse \cap Pool!Slots) = 0
  BY FS_EmptySet DEF Pool!Init
<1>3. QED
  BY <1>1, <1>2, SlotsInUse DEF Pool!Init, PoolInv, Pool!EachSlotOnce, Pool!Slots

\* The slot on the top is in use, or the constructor has thrown.
LEMMA GetItemInvariant == ASSUME PoolInv, Pool!GetItem PROVE PoolInv'
<1> DEFINE n == Len(available)
<1>1. /\ n \in Nat \ {0} /\ available' \in Seq(Pool!Slots) /\ Len(available') = n - 1
      /\ \A i \in 1..(n - 1) : available'[i] = available[i]
  BY WithoutLast DEF PoolInv, Pool!GetItem, Pool!Popped
<1>2. DOMAIN available = 1..n /\ DOMAIN available' = 1..(n - 1)
  BY <1>1, LenProperties DEF PoolInv
<1>3. Pool!Top \in Pool!Slots \ inUse /\ \A i \in 1..(n - 1) : available[i] # Pool!Top
  BY <1>1, <1>2 DEF PoolInv, Pool!EachSlotOnce, Pool!Top
<1>4. /\ \A i, j \in DOMAIN available' : available'[i] = available'[j] => i = j
      /\ \A i \in DOMAIN available' : available'[i] \in Pool!Slots \ inUse'
  BY <1>1, <1>2, <1>3 DEF PoolInv, Pool!EachSlotOnce, Pool!GetItem
<1>5. n + Cardinality(inUse \cap Pool!Slots) + thrown = PoolSize
  BY SlotsInUse DEF PoolInv, Pool!EachSlotOnce
<1>6. /\ thrown' \in Nat
      /\ n - 1 + Cardinality(inUse' \cap Pool!Slots) + thrown' = PoolSize
  <2>1. IsFiniteSet(inUse \cap Pool!Slots) /\ Cardinality(inUse \cap Pool!Slots) \in Nat
    BY SlotsInUse, FS_CardinalityType
  <2>2. CASE inUse' = inUse \cup {Pool!Top} /\ UNCHANGED thrown
    <3>1. inUse' \cap Pool!Slots = (inUse \cap Pool!Slots) \cup {Pool!Top}
      BY <1>3, <2>2
    <3>2. Cardinality(inUse' \cap Pool!Slots) = Cardinality(inUse \cap Pool!Slots) + 1
      BY <1>3, <2>1, <3>1, FS_AddElement
    <3>3. QED
      BY <1>1, <1>5, <2>1, <2>2, <3>2, SlotsInUse DEF PoolInv
  <2>3. CASE thrown' = thrown + 1 /\ UNCHANGED inUse
    BY <1>1, <1>5, <2>1, <2>3, SlotsInUse DEF PoolInv
  <2>4. QED
    BY <2>2, <2>3 DEF Pool!GetItem
<1>7. QED
  BY <1>1, <1>4, <1>6, SlotsInUse DEF PoolInv, Pool!EachSlotOnce, Pool!GetItem

\* An object from the heap is no slot.
LEMMA GetExcessInvariant == ASSUME PoolInv, Pool!GetExcess PROVE PoolInv'
<1>1. PICK object \in Heap \ inUse : inUse' = inUse \cup {object}
  BY DEF Pool!GetExcess
<1>2. object \notin Pool!Slots
  BY <1>1, BookkeepingAssumption DEF Pool!ObjectPoolAssumption, Pool!Slots
<1>3. inUse' \cap Pool!Slots = inUse \cap Pool!Slots
  BY <1>1, <1>2
<1>4. \A i \in DOMAIN available : available[i] \in Pool!Slots \ inUse'
  BY <1>3 DEF PoolInv, Pool!EachSlotOnce
<1>5. QED
  BY <1>3, <1>4 DEF PoolInv, Pool!EachSlotOnce, Pool!GetExcess, Pool!Slots

LEMMA ReturnItemInvariant ==
  ASSUME PoolInv, NEW object \in inUse, Pool!ReturnItem(object)
  PROVE  PoolInv'
<1> DEFINE n == Len(available)
<1>1. n \in Nat /\ DOMAIN available = 1..n
  BY LenProperties DEF PoolInv
<1>2. inUse' = inUse \ {object} /\ UNCHANGED <<thrown, state>>
  BY DEF Pool!ReturnItem
<1>3. CASE object \in Pool!Slots
  <2>1. /\ available' \in Seq(Pool!Slots) /\ Len(available') = n + 1 /\ DOMAIN available' = 1..(n + 1)
        /\ \A i \in 1..n : available'[i] = available[i]
        /\ available'[n + 1] = object
    BY <1>1, <1>3, AppendProperties, LenProperties DEF PoolInv, Pool!ReturnItem
  <2>2. \A i \in 1..n : available[i] # object
    BY <1>1 DEF PoolInv, Pool!EachSlotOnce
  <2>3. \A i \in 1..(n + 1) : i \in 1..n \/ i = n + 1
    BY <1>1
  <2>4. /\ \A i, j \in DOMAIN available' : available'[i] = available'[j] => i = j
        /\ \A i \in DOMAIN available' : available'[i] \in Pool!Slots \ inUse'
    BY <1>1, <1>2, <1>3, <2>1, <2>2, <2>3 DEF PoolInv, Pool!EachSlotOnce
  <2>5. inUse' \cap Pool!Slots = (inUse \cap Pool!Slots) \ {object}
    BY <1>2
  <2>6. IsFiniteSet(inUse \cap Pool!Slots) /\ object \in inUse \cap Pool!Slots
    BY <1>3, SlotsInUse
  <2>7. /\ Cardinality(inUse \cap Pool!Slots) \in Nat
        /\ Cardinality(inUse' \cap Pool!Slots) = Cardinality(inUse \cap Pool!Slots) - 1
    BY <2>5, <2>6, FS_RemoveElement, FS_CardinalityType
  <2>8. n + Cardinality(inUse \cap Pool!Slots) + thrown = PoolSize
    BY SlotsInUse DEF PoolInv, Pool!EachSlotOnce
  <2>9. n + 1 + Cardinality(inUse' \cap Pool!Slots) + thrown = PoolSize
    BY <1>1, <2>7, <2>8, SlotsInUse DEF PoolInv
  <2>10. QED
    BY <1>2, <2>1, <2>4, <2>9, SlotsInUse DEF PoolInv, Pool!EachSlotOnce, Pool!Slots
<1>4. CASE object \notin Pool!Slots
  <2>1. available' = available /\ inUse' \cap Pool!Slots = inUse \cap Pool!Slots
    BY <1>2, <1>4 DEF Pool!ReturnItem
  <2>2. QED
    BY <1>2, <2>1 DEF PoolInv, Pool!EachSlotOnce, Pool!Slots
<1>5. QED
  BY <1>3, <1>4

\* Nothing is in use: what the stack lacks are the slots of constructors that threw.
LEMMA PoolDestroyInvariant == ASSUME PoolInv, Pool!Destroy PROVE PoolInv'
<1>1. Cardinality(inUse \cap Pool!Slots) = 0
  BY FS_EmptySet DEF Pool!Destroy
<1>2. Len(available) \in Nat /\ Len(available) + thrown = PoolSize
  BY <1>1, SlotsInUse, LenProperties DEF PoolInv, Pool!EachSlotOnce
<1>3. state' = "leak" => thrown > 0
  BY <1>2, SlotsInUse DEF Pool!Destroy, PoolInv
<1>4. QED
  BY <1>3 DEF PoolInv, Pool!EachSlotOnce, Pool!Destroy, Pool!Slots

LEMMA PoolStep == PoolInv /\ [Pool!Next]_poolVars => PoolInv'
<1> SUFFICES ASSUME PoolInv, [Pool!Next]_poolVars PROVE PoolInv'
  OBVIOUS
<1>1. ASSUME NEW object \in inUse, Pool!ReturnItem(object) PROVE PoolInv'
  BY <1>1, ReturnItemInvariant
<1>2. CASE UNCHANGED poolVars
  BY <1>2 DEF poolVars, PoolInv, Pool!EachSlotOnce, Pool!Slots
<1>3. QED
  BY <1>1, <1>2, GetItemInvariant, GetExcessInvariant, PoolDestroyInvariant DEF Pool!Next

-----------------------------------------------------------------------------
(* ArenaAllocator *)

\* The places of all blocks that have been used.
Used == {p \in (1..Len(blocks)) \X (0..(PerBlock - 1)) : p[2] < blocks[p[1]]}

ArenaInv ==
  /\ freed \in BOOLEAN
  /\ ~freed => blocks \in Seq(0..PerBlock) /\ Len(blocks) > 0
  /\ Arena!PlacesAreApart

\* The place that New takes is behind those that have been used.
LEMMA NewInvariant ==
  ASSUME ArenaInv, NEW throws \in BOOLEAN, Arena!New(throws)
  PROVE  ArenaInv'
<1> DEFINE chain == IF Arena!Full(Arena!NewestAt) THEN Append(blocks, 0) ELSE blocks
           last == Len(chain)
           place == <<last, chain[last]>>
<1>1. PerBlock \in Nat \ {0} /\ 0 \in 0..PerBlock
  BY BookkeepingAssumption DEF Arena!ArenaAssumption
<1>2. freed = FALSE /\ freed' = FALSE /\ blocks \in Seq(0..PerBlock) /\ Len(blocks) \in Nat \ {0}
  BY LenProperties DEF ArenaInv, Arena!New
<1>3. /\ chain \in Seq(0..PerBlock) /\ last \in Nat \ {0} /\ last >= Len(blocks)
      /\ chain[last] \in 0..(PerBlock - 1)
  <2>1. CASE Arena!Full(Arena!NewestAt)
    BY <1>1, <1>2, <2>1, AppendProperties
  <2>2. CASE ~Arena!Full(Arena!NewestAt)
    <3>1. chain = blocks /\ blocks[Len(blocks)] # PerBlock
      BY <2>2 DEF Arena!Full, Arena!NewestAt
    <3>2. blocks[Len(blocks)] \in 0..PerBlock
      <4>1. Len(blocks) \in 1..Len(blocks)
        BY <1>2
      <4>2. QED
        BY <1>2, <4>1, ElementOfSeq
    <3>3. QED
      BY <1>1, <1>2, <3>1, <3>2
  <2>3. QED
    BY <2>1, <2>2
<1>4. Used = {p \in (1..last) \X (0..(PerBlock - 1)) : p[2] < chain[p[1]]}
  <2>1. CASE Arena!Full(Arena!NewestAt)
    <3>1. last = Len(blocks) + 1 /\ chain[last] = 0 /\ \A b \in 1..Len(blocks) : chain[b] = blocks[b]
      BY <1>1, <1>2, <2>1, AppendProperties
    <3>2. \A b \in 1..last : b \in 1..Len(blocks) \/ b = last
      BY <1>2, <3>1
    <3>3. QED
      BY <1>1, <1>2, <3>1, <3>2 DEF Used
  <2>2. CASE ~Arena!Full(Arena!NewestAt)
    BY <2>2 DEF Used
  <2>3. QED
    BY <2>1, <2>2
<1>5. /\ blocks' = [chain EXCEPT ![last] = @ + 1]
      /\ live' = IF throws THEN live ELSE live \cup {place}
      /\ spent' = IF throws THEN spent \cup {place} ELSE spent
  BY DEF Arena!New
<1>6. last \in 1..last /\ last = Len(chain) /\ chain[last] + 1 \in 0..PerBlock
  BY <1>1, <1>3
<1> HIDE DEF chain, last
<1>7. /\ blocks' \in Seq(0..PerBlock) /\ Len(blocks') = last
      /\ \A b \in 1..last : blocks'[b] = IF b = last THEN chain[last] + 1 ELSE chain[b]
  BY <1>3, <1>5, <1>6, ExceptSeq
<1>8. Used' = Used \cup {place}
  <2>1. ASSUME NEW b \in 1..last, NEW i \in 0..(PerBlock - 1)
        PROVE  i < blocks'[b] <=> i < chain[b] \/ (b = last /\ i = chain[last])
    <3>1. CASE b = last
      BY <1>3, <1>7, <3>1
    <3>2. CASE b # last
      BY <1>7, <3>2
    <3>3. QED
      BY <3>1, <3>2
  <2>2. Used' = {p \in (1..last) \X (0..(PerBlock - 1)) : p[2] < blocks'[p[1]]}
    BY <1>7 DEF Used
  <2>3. place \in (1..last) \X (0..(PerBlock - 1))
    BY <1>3, <1>6
  <2>4. ASSUME NEW p \in (1..last) \X (0..(PerBlock - 1))
        PROVE  p \in Used' <=> p \in Used \cup {place}
    <3>1. p[1] \in 1..last /\ p[2] \in 0..(PerBlock - 1) /\ p = <<p[1], p[2]>>
      OBVIOUS
    <3>2. p = place <=> p[1] = last /\ p[2] = chain[last]
      BY <3>1
    <3>3. QED
      BY <1>4, <2>1, <2>2, <3>1, <3>2
  <2>5. QED
    BY <1>4, <2>2, <2>3, <2>4
<1>9. place \notin Used
  BY <1>3, <1>4
<1>10. live \cap spent = {} /\ live \cup spent = Used
  BY <1>2 DEF ArenaInv, Arena!PlacesAreApart, Used
<1>11. live' \cap spent' = {} /\ live' \cup spent' = Used'
  BY <1>5, <1>8, <1>9, <1>10
<1>12. Arena!PlacesAreApart'
  BY <1>2, <1>11 DEF Arena!PlacesAreApart, Used
<1>13. blocks' \in Seq(0..PerBlock) /\ Len(blocks') > 0
  BY <1>3, <1>7
<1>14. QED
  BY <1>2, <1>12, <1>13 DEF ArenaInv

LEMMA ArenaStep == ArenaInv /\ [Arena!Next]_arenaVars => ArenaInv'
<1> SUFFICES ASSUME ArenaInv, [Arena!Next]_arenaVars PROVE ArenaInv'
  OBVIOUS
<1>1. ASSUME NEW throws \in BOOLEAN, Arena!New(throws) PROVE ArenaInv'
  BY <1>1, NewInvariant
<1>2. ASSUME NEW place \in live, Arena!Delete(place) PROVE ArenaInv'
  BY <1>2 DEF ArenaInv, Arena!Delete, Arena!PlacesAreApart
<1>3. CASE Arena!Destroy
  BY <1>3 DEF ArenaInv, Arena!Destroy, Arena!PlacesAreApart
<1>4. CASE UNCHANGED arenaVars
  BY <1>4 DEF arenaVars, ArenaInv, Arena!PlacesAreApart
<1>5. QED
  BY <1>1, <1>2, <1>3, <1>4 DEF Arena!Next

LEMMA ArenaInit == Arena!Init => ArenaInv
<1> SUFFICES ASSUME Arena!Init PROVE ArenaInv
  OBVIOUS
<1>1. PerBlock \in Nat \ {0} /\ 0 \in 0..PerBlock
  BY BookkeepingAssumption DEF Arena!ArenaAssumption
<1>2. blocks \in Seq(0..PerBlock) /\ Len(blocks) = 1 /\ blocks[1] = 0
  BY <1>1 DEF Arena!Init
<1>3. Used = {}
  BY <1>1, <1>2 DEF Used
<1>4. freed = FALSE /\ live = {} /\ spent = {}
  BY DEF Arena!Init
<1>5. Arena!PlacesAreApart
  BY <1>3, <1>4 DEF Arena!PlacesAreApart, Used
<1>6. Len(blocks) = 1
  BY <1>2, Zenon
<1>7. Len(blocks) > 0
  BY <1>6
<1>8. freed \in BOOLEAN
  BY <1>4
<1>9. QED
  BY <1>2, <1>5, <1>7, <1>8 DEF ArenaInv

-----------------------------------------------------------------------------
(* SingleFireEvent, whose callbacks register others but do not fire it: a    *)
(* Fire within a Fire calls the same callback once more.                     *)

OnlyRegisters == SingleInCallback \subseteq {"Register"}

\* What was never registered was never called.
SingleInv ==
  /\ Single!TypeOK /\ Single!CalledOnce
  /\ \A c \in 1..MaxCallbacks : c > fRegistered => fCalls[c] = 0

LEMMA SingleInit == Single!Init => SingleInv
<1> SUFFICES ASSUME Single!Init PROVE SingleInv
  OBVIOUS
<1>1. MaxCallbacks \in Nat /\ EventMaxDepth \in Nat \ {0}
  BY BookkeepingAssumption DEF Single!SingleFireEventAssumption
<1>2. fStack = <<>> /\ fStack \in Seq(1..fRegistered) /\ Len(fStack) <= EventMaxDepth
  BY <1>1, EmptySeq DEF Single!Init
<1>3. fCalls \in [1..MaxCallbacks -> 0..EventMaxDepth] /\ \A c \in 1..MaxCallbacks : fCalls[c] = 0
  BY <1>1 DEF Single!Init
<1>4. Single!TypeOK
  BY <1>1, <1>2, <1>3 DEF Single!Init, Single!TypeOK, Single!None
<1>5. QED
  BY <1>3, <1>4 DEF SingleInv, Single!CalledOnce

LEMMA SingleRegisterInvariant == ASSUME SingleInv, Single!Register PROVE SingleInv'
<1>1. /\ MaxCallbacks \in Nat /\ fRegistered \in Nat /\ fRegistered < MaxCallbacks
      /\ fRegistered' = fRegistered + 1 /\ fMyCallback' = fRegistered'
      /\ UNCHANGED <<fStack, fCalls, fLost>>
  BY BookkeepingAssumption DEF Single!SingleFireEventAssumption, SingleInv, Single!TypeOK, Single!Register
<1>2. 1..fRegistered \subseteq 1..fRegistered' /\ fRegistered' \in 1..MaxCallbacks
  BY <1>1
<1>3. fStack' \in Seq(1..fRegistered')
  BY <1>1, <1>2, SeqMonotonic DEF SingleInv, Single!TypeOK
<1>4. fCalls'[fMyCallback'] = 0
  BY <1>1, <1>2 DEF SingleInv
<1>5. Single!TypeOK'
  BY <1>1, <1>2, <1>3, <1>4 DEF SingleInv, Single!TypeOK
<1>6. \A c \in 1..MaxCallbacks : c > fRegistered' => fCalls'[c] = 0
  BY <1>1 DEF SingleInv
<1>7. QED
  BY <1>1, <1>5, <1>6 DEF SingleInv, Single!CalledOnce

\* The callback that waits has not been called: another Fire would have forgotten it.
LEMMA SingleFireInvariant == ASSUME OnlyRegisters, SingleInv, Single!Fire PROVE SingleInv'
<1>1. fStack = <<>> /\ fMyCallback # Single!None
  BY DEF OnlyRegisters, Single!Fire, Single!MayDo
<1>2. /\ MaxCallbacks \in Nat /\ EventMaxDepth \in Nat \ {0}
      /\ fRegistered \in 0..MaxCallbacks /\ fMyCallback \in 1..fRegistered
  BY <1>1, BookkeepingAssumption
  DEF Single!SingleFireEventAssumption, SingleInv, Single!TypeOK, Single!None
<1>3. fMyCallback \in 1..MaxCallbacks /\ fCalls[fMyCallback] = 0
  BY <1>1, <1>2 DEF SingleInv, Single!TypeOK
<1>4. fStack' = Append(fStack, fMyCallback) /\ UNCHANGED <<fMyCallback, fRegistered, fLost>>
  BY DEF Single!Fire
<1>5. fStack' \in Seq(1..fRegistered) /\ Len(fStack') = 1 /\ fStack' # <<>>
  <2>1. fStack \in Seq(1..fRegistered) /\ Len(fStack) = 0
    BY <1>1, EmptySeq DEF SingleInv, Single!TypeOK
  <2>2. fStack' \in Seq(1..fRegistered) /\ Len(fStack') = Len(fStack) + 1
    BY <1>2, <1>4, <2>1, AppendProperties
  <2>3. Len(<<>>) = 0 /\ Len(fStack') = 1
    BY <2>1, <2>2, EmptySeq
  <2>4. fStack' # <<>>
    <3>1. Len(<<>>) # Len(fStack')
      BY <2>3
    <3>2. QED
      BY <3>1, Zenon
  <2>5. QED
    BY <2>2, <2>3, <2>4
<1>6. /\ fCalls' \in [1..MaxCallbacks -> 0..EventMaxDepth]
      /\ \A c \in 1..MaxCallbacks : fCalls'[c] = IF c = fMyCallback THEN 1 ELSE fCalls[c]
  <2>1. fCalls' = [fCalls EXCEPT ![fMyCallback] = fCalls[fMyCallback] + 1]
    BY DEF Single!Fire
  <2>2. fCalls' = [fCalls EXCEPT ![fMyCallback] = 1] /\ 1 \in 0..EventMaxDepth
    BY <1>2, <1>3, <2>1
  <2>3. QED
    BY <1>3, <2>2 DEF SingleInv, Single!TypeOK
<1>7. Single!TypeOK'
  <2>1. Len(fStack') <= EventMaxDepth
    BY <1>2, <1>5
  <2>2. fStack' \in Seq(1..fRegistered')
    BY <1>4, <1>5
  <2>3. /\ fMyCallback' \in 0..fRegistered' /\ fRegistered' \in 0..MaxCallbacks
        /\ fLost' \subseteq 1..fRegistered'
    BY <1>2, <1>4 DEF SingleInv, Single!TypeOK
  <2>4. QED
    BY <1>5, <1>6, <2>1, <2>2, <2>3 DEF Single!TypeOK
<1>8. Single!CalledOnce'
  BY <1>6 DEF SingleInv, Single!CalledOnce
<1>9. \A c \in 1..MaxCallbacks : c > fRegistered' => fCalls'[c] = 0
  BY <1>2, <1>4, <1>6 DEF SingleInv
<1>10. QED
  BY <1>7, <1>8, <1>9 DEF SingleInv

LEMMA SingleReturnsInvariant == ASSUME SingleInv, Single!FireReturns PROVE SingleInv'
<1>1. /\ fStack' \in Seq(1..fRegistered) /\ Len(fStack') = Len(fStack) - 1 /\ Len(fStack) \in Nat
  BY WithoutLast DEF SingleInv, Single!TypeOK, Single!FireReturns, Single!Front
<1>2. EventMaxDepth \in Nat /\ Len(fStack') <= EventMaxDepth
  BY <1>1, BookkeepingAssumption DEF Single!SingleFireEventAssumption, SingleInv, Single!TypeOK
<1>3. fLost' \subseteq 1..fRegistered
  BY DEF SingleInv, Single!TypeOK, Single!FireReturns, Single!None
<1>4. fMyCallback' = Single!None /\ UNCHANGED <<fRegistered, fCalls>>
  BY DEF Single!FireReturns, Single!Forgotten
<1>5. fMyCallback' \in 0..fRegistered
  BY <1>4 DEF SingleInv, Single!TypeOK, Single!None
<1>6. Single!TypeOK'
  BY <1>1, <1>2, <1>3, <1>4, <1>5 DEF SingleInv, Single!TypeOK
<1>7. QED
  BY <1>4, <1>6 DEF SingleInv, Single!CalledOnce

LEMMA SingleStep == OnlyRegisters /\ SingleInv /\ [Single!Next]_singleVars => SingleInv'
<1> SUFFICES ASSUME OnlyRegisters, SingleInv, [Single!Next]_singleVars PROVE SingleInv'
  OBVIOUS
<1>1. CASE UNCHANGED singleVars
  BY <1>1 DEF singleVars, SingleInv, Single!TypeOK, Single!CalledOnce
<1>2. QED
  BY <1>1, SingleRegisterInvariant, SingleFireInvariant, SingleReturnsInvariant DEF Single!Next

-----------------------------------------------------------------------------
(* ShortCircutableEvent *)

\* The callbacks are in the order of their registration.
Ordered ==
  /\ \A i \in 1..Len(sMyCallbacks) : sMyCallbacks[i] <= sMyCurrentID
  /\ \A i, j \in 1..Len(sMyCallbacks) : i < j => sMyCallbacks[i] < sMyCallbacks[j]

Frames == [called : Seq(Short!EventID), running : Short!EventID \cup {Short!NullEventId},
           dangling : BOOLEAN, began : SUBSET Short!EventID]

\* The property of each Fire.
Oldest(frame) ==
  /\ \A k \in 1..Len(frame.called) : frame.called[k] \in frame.began
  /\ \A k \in 1..Len(frame.called) : \A id \in frame.began :
       id < frame.called[k] => \E j \in 1..(k - 1) : frame.called[j] = id

\* What it has called is the beginning of the vector, which has not changed.
InStep(frame) ==
  /\ frame.began = sArmed
  /\ Len(frame.called) <= Len(sMyCallbacks)
  /\ \A k \in 1..Len(frame.called) : frame.called[k] = sMyCallbacks[k]

\* While its iterators dangle, its callback has still to answer.
FrameOK(frame) ==
  /\ Oldest(frame)
  /\ frame.dangling => frame.running # Short!NullEventId
  /\ ~frame.dangling => InStep(frame)

\* Every Fire but the innermost is in the callback that made the next one.
StackOK ==
  /\ sStack \in Seq(Frames) /\ Len(sStack) <= ShortMaxDepth
  /\ \A i \in 1..Len(sStack) : FrameOK(sStack[i])
  /\ \A i \in 1..(Len(sStack) - 1) : sStack[i].running # Short!NullEventId

VectorOK ==
  /\ sAlive \in BOOLEAN /\ sFailed = FALSE
  /\ sMyCurrentID \in 0..MaxID
  /\ sMyCallbacks \in Seq(Short!EventID)
  /\ sArmed = {sMyCallbacks[i] : i \in 1..Len(sMyCallbacks)}
  /\ Ordered
  /\ sAlive \/ sMyCallbacks = <<>>

ShortInv == VectorOK /\ StackOK

ShortProperties ==
  Short!TypeOK /\ Short!NoDanglingIterator /\ Short!RegistrationsMatch /\ Short!OldestFirst

LEMMA ShortInvIsEnough == ShortInv => ShortProperties
<1> SUFFICES ASSUME ShortInv PROVE ShortProperties
  OBVIOUS
<1>1. \A i \in 1..Len(sStack) : sStack[i] \in Frames
  BY ElementOfSeq DEF ShortInv, StackOK
<1>2. \A i \in 1..Len(sMyCallbacks) : sMyCallbacks[i] \in Short!EventID
  BY ElementOfSeq DEF ShortInv, VectorOK
<1>3. Len(sMyCallbacks) \in Nat /\ DOMAIN sMyCallbacks = 1..Len(sMyCallbacks)
  BY LenProperties DEF ShortInv, VectorOK
<1>4. Short!TypeOK
  BY <1>1, <1>2 DEF ShortInv, VectorOK, StackOK, Frames, Short!TypeOK
<1>5. Short!RegistrationsMatch
  <2>1. ASSUME NEW a \in 1..Len(sMyCallbacks), NEW b \in 1..Len(sMyCallbacks), sMyCallbacks[a] = sMyCallbacks[b]
        PROVE  a = b
    <3>1. sMyCallbacks[a] \in Int /\ ~(a < b) /\ ~(b < a)
      BY <1>2, <1>3, <2>1 DEF ShortInv, VectorOK, Ordered, Short!EventID
    <3>2. QED
      BY <1>3, <3>1
  <2>2. QED
    BY <1>3, <2>1 DEF ShortInv, VectorOK, Short!RegistrationsMatch, Short!IsInjective, Short!ToSet
<1>6. Short!OldestFirst
  <2>1. ASSUME NEW i \in 1..Len(sStack)
        PROVE  /\ Short!ToSet(sStack[i].called) \subseteq sStack[i].began
               /\ \A k \in 1..Len(sStack[i].called) : \A id \in sStack[i].began :
                    id < sStack[i].called[k] => \E j \in 1..(k - 1) : sStack[i].called[j] = id
    <3>1. sStack[i].called \in Seq(Short!EventID) /\ Oldest(sStack[i])
      BY <1>1 DEF Frames, ShortInv, StackOK, FrameOK
    <3>2. DOMAIN sStack[i].called = 1..Len(sStack[i].called)
      BY <3>1, LenProperties
    <3>3. QED
      BY <3>1, <3>2 DEF Oldest, Short!ToSet
  <2>2. QED
    BY <2>1 DEF Short!OldestFirst
<1>7. QED
  BY <1>4, <1>5, <1>6 DEF ShortProperties, ShortInv, VectorOK, Short!NoDanglingIterator

LEMMA ShortInit == Short!Init => ShortInv
<1> SUFFICES ASSUME Short!Init PROVE ShortInv
  OBVIOUS
<1>1. MaxID \in Nat /\ ShortMaxDepth \in Nat
  BY BookkeepingAssumption DEF Short!ShortCircutableEventAssumption
<1>2. /\ sStack \in Seq(Frames) /\ Len(sStack) = 0
      /\ sMyCallbacks \in Seq(Short!EventID) /\ Len(sMyCallbacks) = 0
  BY EmptySeq DEF Short!Init
<1>3. VectorOK
  BY <1>1, <1>2 DEF Short!Init, VectorOK, Ordered, Short!NullEventId
<1>4. StackOK
  BY <1>1, <1>2 DEF StackOK
<1>5. QED
  BY <1>3, <1>4 DEF ShortInv

LEMMA Ids ==
  ASSUME VectorOK
  PROVE  \A i \in 1..Len(sMyCallbacks) : sMyCallbacks[i] \in Short!EventID /\ sMyCallbacks[i] \in Nat
<1>1. MaxID \in Nat
  BY BookkeepingAssumption DEF Short!ShortCircutableEventAssumption
<1>2. \A id \in Short!EventID : id \in Nat
  BY <1>1 DEF Short!EventID
<1>3. QED
  BY <1>2, ElementOfSeq DEF VectorOK

\* A beginning of the vector has the oldest of the callbacks in it.
LEMMA BeginningIsOldest ==
  ASSUME VectorOK, NEW frame \in Frames, InStep(frame)
  PROVE  Oldest(frame)
<1>1. Len(sMyCallbacks) \in Nat /\ Len(frame.called) \in Nat
  BY LenProperties DEF VectorOK, Frames
<1>2. \A i \in 1..Len(sMyCallbacks) : sMyCallbacks[i] \in Nat
  BY Ids
<1>3. ASSUME NEW k \in 1..Len(frame.called)
      PROVE  frame.called[k] \in frame.began
  BY <1>1, <1>3 DEF VectorOK, InStep
<1>4. ASSUME NEW k \in 1..Len(frame.called), NEW id \in frame.began, id < frame.called[k]
      PROVE  \E j \in 1..(k - 1) : frame.called[j] = id
  <2>1. PICK j \in 1..Len(sMyCallbacks) : sMyCallbacks[j] = id
    BY DEF VectorOK, InStep
  <2>2. k \in 1..Len(sMyCallbacks) /\ frame.called[k] = sMyCallbacks[k]
    BY <1>1 DEF InStep
  <2>3. ~(k < j) /\ k # j
    BY <1>2, <1>4, <2>1, <2>2 DEF VectorOK, Ordered
  <2>4. j \in 1..(k - 1) /\ j \in 1..Len(frame.called)
    BY <1>1, <2>2, <2>3
  <2>5. QED
    BY <2>1, <2>4 DEF InStep
<1>5. QED
  BY <1>3, <1>4 DEF Oldest

-----------------------------------------------------------------------------
(* The steps that change the vector *)

LEMMA OldestStays ==
  ASSUME NEW frame, NEW other, Oldest(frame), other.called = frame.called, other.began = frame.began
  PROVE  Oldest(other)
BY DEF Oldest

LEMMA InCallbacks ==
  ASSUME StackOK, Short!MayDo
  PROVE  \A i \in 1..Len(sStack) : sStack[i] \in Frames /\ sStack[i].running # Short!NullEventId
<1>1. Len(sStack) \in Nat /\ \A i \in 1..Len(sStack) : sStack[i] \in Frames
  BY LenProperties, ElementOfSeq DEF StackOK
<1>2. ASSUME NEW i \in 1..Len(sStack) PROVE sStack[i].running # Short!NullEventId
  <2>1. sStack # <<>>
    BY <1>1, <1>2, EmptySeq
  <2>2. i \in 1..(Len(sStack) - 1) \/ i = Len(sStack)
    BY <1>1
  <2>3. QED
    BY <2>1, <2>2 DEF StackOK, Short!MayDo, Short!Top
<1>3. QED
  BY <1>1, <1>2

LEMMA DangleInvariant ==
  ASSUME StackOK, Short!MayDo, Short!Dangle
  PROVE  StackOK'
<1>1. /\ Len(sStack) \in Nat
      /\ sStack' = [i \in 1..Len(sStack) |-> [sStack[i] EXCEPT !.dangling = TRUE]]
  BY LenProperties DEF StackOK, Short!Dangle
<1>2. ASSUME NEW i \in 1..Len(sStack)
      PROVE  /\ sStack'[i] \in Frames /\ sStack'[i].dangling = TRUE
             /\ sStack'[i].running = sStack[i].running
             /\ sStack'[i].called = sStack[i].called /\ sStack'[i].began = sStack[i].began
  BY <1>1, InCallbacks DEF Frames
<1>3. sStack' \in Seq(Frames) /\ Len(sStack') = Len(sStack)
  <2>1. \A i \in 1..Len(sStack) : [sStack[i] EXCEPT !.dangling = TRUE] \in Frames
    BY <1>1, <1>2
  <2>2. QED
    BY <1>1, <2>1
<1>4. ASSUME NEW i \in 1..Len(sStack)
      PROVE  FrameOK(sStack[i])'
  <2>1. Oldest(sStack[i])
    BY DEF StackOK, FrameOK
  <2>2. Oldest(sStack'[i])
    BY <1>2, <2>1, OldestStays
  <2>3. QED
    BY <1>2, <2>2, InCallbacks DEF FrameOK
<1>5. QED
  BY <1>1, <1>2, <1>3, <1>4, InCallbacks DEF StackOK

LEMMA ShortRegisterInvariant == ASSUME ShortInv, Short!Register PROVE ShortInv'
<1> DEFINE n == Len(sMyCallbacks)
<1>1. MaxID \in Nat /\ Short!NextID \in Short!EventID /\ sMyCurrentID \in Nat
      /\ Short!NextID = sMyCurrentID + 1 /\ sMyCurrentID' = sMyCurrentID + 1 /\ sMyCurrentID' \in 0..MaxID
  BY BookkeepingAssumption
  DEF Short!ShortCircutableEventAssumption, ShortInv, VectorOK, Short!Register, Short!NextID, Short!EventID
<1>2. /\ n \in Nat /\ sMyCallbacks' \in Seq(Short!EventID) /\ Len(sMyCallbacks') = n + 1
      /\ \A i \in 1..n : sMyCallbacks'[i] = sMyCallbacks[i]
      /\ sMyCallbacks'[n + 1] = Short!NextID
  BY <1>1, AppendProperties, LenProperties DEF ShortInv, VectorOK, Short!Register, Short!PushBack
<1>3. \A i \in 1..(n + 1) : i \in 1..n \/ i = n + 1
  BY <1>2
<1>4. \A i \in 1..n : sMyCallbacks[i] \in Nat /\ sMyCallbacks[i] <= sMyCurrentID
  BY Ids DEF ShortInv, VectorOK, Ordered
<1>5. Ordered'
  <2>1. ASSUME NEW i \in 1..(n + 1) PROVE sMyCallbacks'[i] <= sMyCurrentID'
    BY <1>1, <1>2, <1>3, <1>4
  <2>2. ASSUME NEW i \in 1..(n + 1), NEW j \in 1..(n + 1), i < j
        PROVE  sMyCallbacks'[i] < sMyCallbacks'[j]
    <3>1. i \in 1..n
      BY <1>2, <2>2
    <3>2. CASE j \in 1..n
      BY <1>2, <2>2, <3>1, <3>2 DEF ShortInv, VectorOK, Ordered
    <3>3. CASE j = n + 1
      BY <1>1, <1>2, <1>4, <3>1, <3>3
    <3>4. QED
      BY <1>3, <3>2, <3>3
  <2>3. QED
    BY <1>2, <2>1, <2>2 DEF Ordered
<1>6. sArmed' = {sMyCallbacks'[i] : i \in 1..Len(sMyCallbacks')}
  <2>1. sArmed' = sArmed \cup {Short!NextID}
    BY DEF Short!Register
  <2>2. n + 1 \in 1..(n + 1) /\ 1..n \subseteq 1..(n + 1)
    BY <1>2
  <2>3. QED
    BY <1>2, <1>3, <2>1, <2>2 DEF ShortInv, VectorOK
<1>7. UNCHANGED <<sAlive, sFailed>> /\ sAlive
  BY DEF Short!Register
<1>8. VectorOK'
  BY <1>1, <1>2, <1>5, <1>6, <1>7 DEF ShortInv, VectorOK
<1>9. QED
  BY <1>8, DangleInvariant DEF ShortInv, Short!Register

\* The registration finds its callback in the vector of an event that is alive.
LEMMA ShortDropInvariant ==
  ASSUME ShortInv, NEW id \in Short!EventID, Short!Drop(id)
  PROVE  ShortInv'
<1> DEFINE n == Len(sMyCallbacks)
           at == CHOOSE i \in 1..n : sMyCallbacks[i] = id
<1>1. n \in Nat /\ DOMAIN sMyCallbacks = 1..n /\ \A i \in 1..n : sMyCallbacks[i] \in Nat
  BY LenProperties, Ids DEF ShortInv, VectorOK
<1>2. id \in sArmed /\ \E i \in 1..n : sMyCallbacks[i] = id
  BY DEF ShortInv, VectorOK, Short!Drop
<1>3. at \in 1..n /\ sMyCallbacks[at] = id
  BY <1>2
<1>4. sAlive /\ id \in Short!ToSet(sMyCallbacks)
  <2>1. sMyCallbacks # <<>>
    BY <1>1, <1>3, EmptySeq
  <2>2. QED
    BY <1>1, <1>2, <2>1 DEF ShortInv, VectorOK, Short!ToSet
<1>5. /\ sMyCallbacks' = SubSeq(sMyCallbacks, 1, at - 1) \o SubSeq(sMyCallbacks, at + 1, Len(sMyCallbacks))
      /\ UNCHANGED <<sAlive, sFailed, sMyCurrentID>>
      /\ sArmed' = sArmed \ {id}
  BY <1>4 DEF Short!Drop, Short!UnRegister, Short!Erase, Short!RemoveAt
<1> HIDE DEF at
<1>6. /\ sMyCallbacks' \in Seq(Short!EventID) /\ Len(sMyCallbacks') = n - 1
      /\ \A i \in 1..(n - 1) : sMyCallbacks'[i] = sMyCallbacks[IF i < at THEN i ELSE i + 1]
  BY ZenonT(40), <1>3, <1>5, WithoutOne DEF ShortInv, VectorOK
<1>7. Ordered'
  <2>1. ASSUME NEW i \in 1..(n - 1) PROVE sMyCallbacks'[i] <= sMyCurrentID'
    <3>1. (IF i < at THEN i ELSE i + 1) \in 1..n
      BY <1>1, <1>3
    <3>2. QED
      BY <1>5, <1>6, <3>1 DEF ShortInv, VectorOK, Ordered
  <2>2. ASSUME NEW i \in 1..(n - 1), NEW j \in 1..(n - 1), i < j
        PROVE  sMyCallbacks'[i] < sMyCallbacks'[j]
    <3>1. /\ (IF i < at THEN i ELSE i + 1) \in 1..n /\ (IF j < at THEN j ELSE j + 1) \in 1..n
          /\ (IF i < at THEN i ELSE i + 1) < (IF j < at THEN j ELSE j + 1)
      BY <1>1, <1>3, <2>2
    <3>2. QED
      BY <1>6, <3>1 DEF ShortInv, VectorOK, Ordered
  <2>3. QED
    BY <1>6, <2>1, <2>2 DEF Ordered
<1>8. sArmed' = {sMyCallbacks'[i] : i \in 1..Len(sMyCallbacks')}
  <2>1. ASSUME NEW i \in 1..(n - 1) PROVE sMyCallbacks'[i] \in sArmed'
    <3>1. (IF i < at THEN i ELSE i + 1) \in 1..n /\ (IF i < at THEN i ELSE i + 1) # at
      BY <1>1, <1>3
    <3>2. \A k \in 1..n : k # at => sMyCallbacks[k] # id
      <4>1. ASSUME NEW k \in 1..n, k # at PROVE sMyCallbacks[k] # sMyCallbacks[at]
        <5>1. sMyCallbacks[k] < sMyCallbacks[at] \/ sMyCallbacks[at] < sMyCallbacks[k]
          <6>1. k < at \/ at < k
            BY <1>1, <1>3, <4>1
          <6>2. QED
            BY <1>3, <6>1 DEF ShortInv, VectorOK, Ordered
        <5>2. QED
          BY <1>1, <1>3, <5>1
      <4>2. QED
        BY <1>3, <4>1
    <3>3. QED
      BY <1>5, <1>6, <3>1, <3>2 DEF ShortInv, VectorOK
  <2>2. ASSUME NEW k \in 1..n, sMyCallbacks[k] # id
        PROVE  \E i \in 1..(n - 1) : sMyCallbacks'[i] = sMyCallbacks[k]
    <3>1. k # at
      BY <1>3, <2>2
    <3>2. PICK i \in 1..(n - 1) : (IF i < at THEN i ELSE i + 1) = k
      <4>1. CASE k < at
        <5>1. k \in 1..(n - 1)
          BY <1>1, <1>3, <4>1
        <5>2. QED
          BY <4>1, <5>1
      <4>2. CASE at < k
        <5>1. k - 1 \in 1..(n - 1) /\ ~(k - 1 < at) /\ k - 1 + 1 = k
          BY <1>1, <1>3, <4>2
        <5>2. QED
          BY <5>1
      <4>3. QED
        BY <1>1, <1>3, <3>1, <4>1, <4>2
    <3>3. QED
      BY <1>6, <3>2
  <2>3. ASSUME NEW other \in sArmed' PROVE \E i \in 1..(n - 1) : other = sMyCallbacks'[i]
    <3>1. PICK k \in 1..n : sMyCallbacks[k] = other /\ other # id
      BY <1>5 DEF ShortInv, VectorOK
    <3>2. QED
      BY <2>2, <3>1
  <2>4. QED
    BY <1>6, <2>1, <2>3
<1>9. VectorOK'
  BY <1>4, <1>5, <1>6, <1>7, <1>8 DEF ShortInv, VectorOK
<1>10. QED
  BY <1>9, DangleInvariant DEF ShortInv, Short!Drop

LEMMA ShortDestroyInvariant == ASSUME ShortInv, Short!Destroy PROVE ShortInv'
<1>1. DOMAIN sMyCallbacks = 1..Len(sMyCallbacks)
  BY LenProperties DEF ShortInv, VectorOK
<1>2. sArmed = Short!ToSet(sMyCallbacks)
  BY <1>1 DEF ShortInv, VectorOK, Short!ToSet
<1>3. /\ sAlive' = FALSE /\ sMyCallbacks' = <<>> /\ sArmed' = {} /\ sFailed' = FALSE
      /\ UNCHANGED sMyCurrentID
  BY <1>2 DEF Short!Destroy, Short!ArmedAfterEvent
<1>4. sMyCallbacks' \in Seq(Short!EventID) /\ Len(sMyCallbacks') = 0
  BY <1>3, EmptySeq
<1>5. Ordered' /\ sArmed' = {sMyCallbacks'[i] : i \in 1..Len(sMyCallbacks')}
  BY <1>3, <1>4 DEF Ordered
<1>6. VectorOK'
  BY <1>3, <1>4, <1>5 DEF ShortInv, VectorOK
<1>7. QED
  BY <1>6, DangleInvariant DEF ShortInv, Short!Destroy

-----------------------------------------------------------------------------
(* The steps of Fire, which leave the vector alone *)

VectorStays == UNCHANGED <<sAlive, sMyCurrentID, sMyCallbacks, sArmed, sFailed>>

LEMMA VectorInvariant == ASSUME VectorOK, VectorStays PROVE VectorOK'
BY DEF VectorStays, VectorOK, Ordered

LEMMA FramesInvariant ==
  ASSUME ShortInv, VectorStays,
         sStack' \in Seq(Frames), Len(sStack') <= ShortMaxDepth,
         \A i \in 1..Len(sStack') : FrameOK(sStack'[i]),
         \A i \in 1..(Len(sStack') - 1) : sStack'[i].running # Short!NullEventId
  PROVE  ShortInv'
<1>1. VectorOK'
  BY VectorInvariant DEF ShortInv
<1>2. ASSUME NEW i \in 1..Len(sStack') PROVE FrameOK(sStack[i])'
  BY DEF FrameOK, Oldest, InStep, VectorStays
<1>3. QED
  BY <1>1, <1>2 DEF ShortInv, StackOK

LEMMA ShortFireInvariant == ASSUME ShortInv, Short!Fire PROVE ShortInv'
<1> DEFINE n == Len(sStack)
           frame == [called |-> <<>>, running |-> Short!NullEventId, dangling |-> FALSE, began |-> sArmed]
<1>1. ShortMaxDepth \in Nat /\ n \in Nat /\ n < ShortMaxDepth /\ Short!MayDo
  BY BookkeepingAssumption, LenProperties
  DEF Short!ShortCircutableEventAssumption, ShortInv, StackOK, Short!Fire
<1>2. frame \in Frames /\ FrameOK(frame)
  <2>1. <<>> \in Seq(Short!EventID) /\ Len(<<>>) = 0
    BY EmptySeq
  <2>2. sArmed \subseteq Short!EventID /\ Len(sMyCallbacks) \in Nat
    BY LenProperties, ElementOfSeq DEF ShortInv, VectorOK
  <2>3. QED
    BY <2>1, <2>2 DEF Frames, FrameOK, Oldest, InStep
<1>3. /\ sStack' \in Seq(Frames) /\ Len(sStack') = n + 1 /\ sStack'[n + 1] = frame
      /\ \A i \in 1..n : sStack'[i] = sStack[i]
  BY <1>1, <1>2, AppendProperties DEF ShortInv, StackOK, Short!Fire
<1>4. \A i \in 1..(n + 1) : i \in 1..n \/ i = n + 1
  BY <1>1
<1>5. \A i \in 1..(n + 1) : FrameOK(sStack'[i])
  BY <1>2, <1>3, <1>4 DEF ShortInv, StackOK
<1>6. \A i \in 1..n : sStack'[i].running # Short!NullEventId
  BY <1>1, <1>3, InCallbacks DEF ShortInv
<1>7. n + 1 - 1 = n /\ n + 1 <= ShortMaxDepth
  BY <1>1
<1>8. VectorStays
  BY DEF Short!Fire, VectorStays
<1>9. QED
  BY <1>3, <1>5, <1>6, <1>7, <1>8, FramesInvariant

\* Another frame for the innermost Fire.
LEMMA ShortTopInvariant ==
  ASSUME ShortInv, VectorStays, sStack # <<>>, NEW frame \in Frames, FrameOK(frame),
         sStack' = [sStack EXCEPT ![Len(sStack)] = frame]
  PROVE  ShortInv'
<1>1. Len(sStack) \in Nat \ {0} /\ Len(sStack) \in 1..Len(sStack)
  BY EmptySeq DEF ShortInv, StackOK
<1>2. /\ sStack' \in Seq(Frames) /\ Len(sStack') = Len(sStack)
      /\ \A i \in 1..Len(sStack) : sStack'[i] = IF i = Len(sStack) THEN frame ELSE sStack[i]
  BY <1>1, ExceptSeq DEF ShortInv, StackOK
<1>3. \A i \in 1..(Len(sStack) - 1) : i \in 1..Len(sStack) /\ i # Len(sStack)
  BY <1>1
<1>4. QED
  BY <1>2, <1>3, FramesInvariant DEF ShortInv, StackOK

LEMMA TopFrame ==
  ASSUME ShortInv, sStack # <<>>
  PROVE  /\ Len(sStack) \in 1..Len(sStack)
         /\ Short!Top \in Frames /\ FrameOK(Short!Top) /\ Short!Top = sStack[Len(sStack)]
<1>1. Len(sStack) \in 1..Len(sStack)
  BY EmptySeq DEF ShortInv, StackOK
<1>2. QED
  BY <1>1, ElementOfSeq DEF ShortInv, StackOK, Short!Top

LEMMA ShortCallInvariant == ASSUME ShortInv, Short!Call PROVE ShortInv'
<1> DEFINE top == Short!Top
           id == sMyCallbacks[Len(top.called) + 1]
           frame == [top EXCEPT !.called = Append(top.called, id), !.running = id]
<1>1. sStack # <<>> /\ top.running = Short!NullEventId
  BY DEF Short!Call
<1>2. top \in Frames /\ ~top.dangling /\ InStep(top) /\ top = sStack[Len(sStack)]
  BY <1>1, TopFrame DEF FrameOK, Frames
<1>3. Len(top.called) < Len(sMyCallbacks) /\ Len(top.called) \in Nat /\ Len(sMyCallbacks) \in Nat
  BY <1>2, LenProperties DEF Short!Call, Frames, ShortInv, VectorOK
<1>4. id \in Short!EventID
  <2>1. Len(top.called) + 1 \in 1..Len(sMyCallbacks)
    BY <1>3
  <2>2. QED
    BY <2>1, ElementOfSeq DEF ShortInv, VectorOK
<1>5. /\ sStack' = [sStack EXCEPT ![Len(sStack)] = frame]
      /\ UNCHANGED sFailed
  <2>1. sStack' = [sStack EXCEPT ![Len(sStack)].called = Append(@, id), ![Len(sStack)].running = id]
    BY <1>2 DEF Short!Call
  <2>2. QED
    BY <1>2, <2>1, TopFrame, <1>1 DEF Short!Call, Frames, ShortInv, StackOK
<1>6. /\ Append(top.called, id) \in Seq(Short!EventID)
      /\ Len(Append(top.called, id)) = Len(top.called) + 1
      /\ \A k \in 1..Len(top.called) : Append(top.called, id)[k] = top.called[k]
      /\ Append(top.called, id)[Len(top.called) + 1] = id
  BY <1>2, <1>4, AppendProperties DEF Frames
<1>7. /\ frame \in Frames /\ frame.called = Append(top.called, id) /\ frame.running = id
      /\ frame.dangling = top.dangling /\ frame.began = top.began
  BY <1>2, <1>4, <1>6 DEF Frames
<1>8. InStep(frame)
  <2>1. Len(frame.called) <= Len(sMyCallbacks)
    BY <1>3, <1>6, <1>7
  <2>2. \A k \in 1..(Len(top.called) + 1) : k \in 1..Len(top.called) \/ k = Len(top.called) + 1
    BY <1>3
  <2>3. QED
    BY <1>2, <1>6, <1>7, <2>1, <2>2 DEF InStep
<1>9. FrameOK(frame)
  BY <1>2, <1>7, <1>8, BeginningIsOldest DEF FrameOK, ShortInv
<1>10. VectorStays
  BY <1>5 DEF Short!Call, VectorStays
<1>11. QED
  BY <1>1, <1>5, <1>7, <1>9, <1>10, ShortTopInvariant

LEMMA CallbackPassesInvariant == ASSUME ShortInv, Short!CallbackPasses PROVE ShortInv'
<1> DEFINE top == Short!Top
           frame == [top EXCEPT !.running = Short!NullEventId]
<1>1. sStack # <<>> /\ ~top.dangling
  BY DEF Short!CallbackPasses
<1>2. top \in Frames /\ FrameOK(top) /\ top = sStack[Len(sStack)]
  BY <1>1, TopFrame
<1>3. /\ frame \in Frames /\ frame.called = top.called
      /\ frame.dangling = top.dangling /\ frame.began = top.began
  BY <1>2 DEF Frames
<1>4. FrameOK(frame)
  BY <1>1, <1>2, <1>3 DEF FrameOK, Oldest, InStep
<1>5. sStack' = [sStack EXCEPT ![Len(sStack)] = frame] /\ VectorStays
  BY <1>2 DEF Short!CallbackPasses, VectorStays
<1>6. QED
  BY <1>1, <1>3, <1>4, <1>5, ShortTopInvariant

LEMMA PopInvariant == ASSUME ShortInv, sStack # <<>>, Short!Pop PROVE ShortInv'
<1> DEFINE n == Len(sStack)
<1>1. /\ n \in Nat \ {0} /\ sStack' \in Seq(Frames) /\ Len(sStack') = n - 1
      /\ \A i \in 1..(n - 1) : sStack'[i] = sStack[i]
  BY WithoutLast DEF ShortInv, StackOK, Short!Pop, Short!Front
<1>2. VectorStays
  BY DEF Short!Pop, VectorStays
<1>3. ShortMaxDepth \in Nat /\ n - 1 <= ShortMaxDepth
  BY <1>1, BookkeepingAssumption DEF Short!ShortCircutableEventAssumption, ShortInv, StackOK
<1>4. \A i \in 1..(n - 1) : i \in 1..n
  BY <1>1
<1>5. \A i \in 1..(n - 1 - 1) : i \in 1..(n - 1)
  BY <1>1
<1>6. \A i \in 1..(n - 1) : FrameOK(sStack'[i]) /\ sStack'[i].running # Short!NullEventId
  BY <1>1, <1>4 DEF ShortInv, StackOK
<1>7. QED
  BY <1>1, <1>2, <1>3, <1>5, <1>6, FramesInvariant

LEMMA ShortStep == ShortInv /\ [Short!Next]_shortVars => ShortInv'
<1> SUFFICES ASSUME ShortInv, [Short!Next]_shortVars PROVE ShortInv'
  OBVIOUS
<1>1. ASSUME NEW id \in Short!EventID, Short!Drop(id) PROVE ShortInv'
  BY <1>1, ShortDropInvariant
<1>2. CASE Short!Register \/ Short!Destroy \/ Short!Fire \/ Short!Call
  BY <1>2, ShortRegisterInvariant, ShortDestroyInvariant, ShortFireInvariant, ShortCallInvariant
<1>3. CASE Short!CallbackPasses
  BY <1>3, CallbackPassesInvariant
<1>4. CASE Short!CallbackAnswers \/ Short!NobodyAnswers
  BY <1>4, PopInvariant DEF Short!CallbackAnswers, Short!NobodyAnswers
<1>5. CASE UNCHANGED shortVars
  BY <1>5 DEF shortVars, ShortInv, VectorOK, Ordered, StackOK, FrameOK, Oldest, InStep
<1>6. QED
  BY <1>1, <1>2, <1>3, <1>4, <1>5 DEF Short!Next

\* Without a change of the vector, asking everybody in it is asking everybody.
LEMMA AllPassed ==
  ASSUME ShortInv, Short!NobodyAnswers
  PROVE  Short!ToSet(Short!Top.called) = Short!Top.began
<1>1. Short!Top \in Frames /\ InStep(Short!Top) /\ Len(Short!Top.called) = Len(sMyCallbacks)
  BY TopFrame DEF Short!NobodyAnswers, FrameOK
<1>2. DOMAIN Short!Top.called = 1..Len(sMyCallbacks)
  BY <1>1, LenProperties DEF Frames
<1>3. QED
  BY <1>1, <1>2 DEF InStep, ShortInv, VectorOK, Short!ToSet

-----------------------------------------------------------------------------
(* Trace: paths *)

Path == Seq(Threads \cup Tags)

LEMMA Beginning ==
  ASSUME NEW p \in Path, NEW i \in 0..Len(p)
  PROVE  /\ SubSeq(p, 1, i) \in Path /\ Len(SubSeq(p, 1, i)) = i
         /\ \A j \in 1..i : SubSeq(p, 1, i)[j] = p[j]
<1>1. Len(p) \in Nat /\ i \in Nat /\ i <= Len(p) /\ 1 \in Int /\ i \in Int /\ i - 1 + 1 = i
  BY LenProperties DEF Path
<1>2. \A j \in 1..i : p[j] \in Threads \cup Tags
  BY <1>1, ElementOfSeq DEF Path
<1>3. /\ SubSeq(p, 1, i) \in Seq(Threads \cup Tags)
      /\ Len(SubSeq(p, 1, i)) = IF 1 <= i THEN i - 1 + 1 ELSE 0
      /\ \A j \in 1..(i - 1 + 1) : SubSeq(p, 1, i)[j] = p[1 + j - 1]
  BY <1>1, <1>2, SubSeqProperties
<1>4. \A j \in 1..i : 1 + j - 1 = j
  BY <1>1
<1>5. QED
  BY <1>1, <1>3, <1>4 DEF Path

LEMMA BeginningOfBeginning ==
  ASSUME NEW p \in Path, NEW k \in 0..Len(p), NEW i \in 0..k
  PROVE  SubSeq(SubSeq(p, 1, k), 1, i) = SubSeq(p, 1, i)
<1>1. Len(p) \in Nat /\ i \in 0..Len(p)
  BY LenProperties DEF Path
<1>2. SubSeq(p, 1, k) \in Path /\ Len(SubSeq(p, 1, k)) = k /\ \A j \in 1..k : SubSeq(p, 1, k)[j] = p[j]
  BY Beginning
<1>3. /\ SubSeq(SubSeq(p, 1, k), 1, i) \in Path /\ Len(SubSeq(SubSeq(p, 1, k), 1, i)) = i
      /\ \A j \in 1..i : SubSeq(SubSeq(p, 1, k), 1, i)[j] = SubSeq(p, 1, k)[j]
  BY <1>2, Beginning
<1>4. /\ SubSeq(p, 1, i) \in Path /\ Len(SubSeq(p, 1, i)) = i
      /\ \A j \in 1..i : SubSeq(p, 1, i)[j] = p[j]
  BY <1>1, Beginning
<1>5. \A j \in 1..i : j \in 1..k
  BY <1>1
<1>6. \A j \in 1..i : SubSeq(SubSeq(p, 1, k), 1, i)[j] = SubSeq(p, 1, i)[j]
  BY <1>2, <1>3, <1>4, <1>5
<1>7. QED
  BY <1>3, <1>4, <1>6, SeqEqual DEF Path

\* The parent of a path, and of its beginnings.
LEMMA Parent ==
  ASSUME NEW p \in Path, NEW k \in 1..Len(p)
  PROVE  /\ Tracer!Front(SubSeq(p, 1, k)) = SubSeq(p, 1, k - 1)
         /\ SubSeq(p, 1, Len(p)) = p
<1>1. Len(p) \in Nat /\ k \in 0..Len(p) /\ k - 1 \in 0..k
  BY LenProperties DEF Path
<1>2. Len(SubSeq(p, 1, k)) = k
  BY <1>1, Beginning
<1>3. SubSeq(SubSeq(p, 1, k), 1, k - 1) = SubSeq(p, 1, k - 1)
  BY <1>1, BeginningOfBeginning
<1>4. QED
  BY <1>2, <1>3, SubSeqFull DEF Tracer!Front, Path

LEMMA Longer ==
  ASSUME NEW p \in Path, NEW x \in Threads \cup Tags
  PROVE  /\ Append(p, x) \in Path /\ Len(Append(p, x)) = Len(p) + 1
         /\ \A j \in 1..Len(p) : Append(p, x)[j] = p[j]
         /\ Append(p, x)[Len(p) + 1] = x
         /\ \A i \in 0..Len(p) : SubSeq(Append(p, x), 1, i) = SubSeq(p, 1, i)
         /\ SubSeq(Append(p, x), 1, Len(p) + 1) = Append(p, x)
         /\ Tracer!Front(Append(p, x)) = p
<1> DEFINE q == Append(p, x)
<1>1. Len(p) \in Nat
  BY LenProperties DEF Path
<1>2. q \in Path /\ Len(q) = Len(p) + 1 /\ (\A j \in 1..Len(p) : q[j] = p[j]) /\ q[Len(p) + 1] = x
  BY <1>1, AppendProperties DEF Path
<1> HIDE DEF q
<1>3. ASSUME NEW i \in 0..Len(p) PROVE SubSeq(q, 1, i) = SubSeq(p, 1, i)
  <2>1. i \in 0..Len(q)
    BY <1>1, <1>2
  <2>2. /\ SubSeq(q, 1, i) \in Path /\ Len(SubSeq(q, 1, i)) = i
        /\ \A j \in 1..i : SubSeq(q, 1, i)[j] = q[j]
    BY <1>2, <2>1, Beginning
  <2>3. /\ SubSeq(p, 1, i) \in Path /\ Len(SubSeq(p, 1, i)) = i
        /\ \A j \in 1..i : SubSeq(p, 1, i)[j] = p[j]
    BY Beginning
  <2>4. \A j \in 1..i : j \in 1..Len(p)
    BY <1>1
  <2>5. QED
    BY <1>2, <2>2, <2>3, <2>4, SeqEqual DEF Path
<1>4. SubSeq(q, 1, Len(q)) = q
  BY <1>2, SubSeqFull DEF Path
<1>5. Tracer!Front(q) = p
  <2>1. Len(q) - 1 = Len(p) /\ Len(p) \in 0..Len(p)
    BY <1>1, <1>2
  <2>2. SubSeq(p, 1, Len(p)) = p
    BY SubSeqFull DEF Path
  <2>3. QED
    BY <1>3, <2>1, <2>2 DEF Tracer!Front
<1>6. QED
  BY <1>2, <1>3, <1>4, <1>5 DEF q

-----------------------------------------------------------------------------
(* Trace: the invariant *)

\* What a pointer may say about the vector it points into.
Capacities == {Tracer!Capacity(Tracer!Size(T, p)) : T \in SUBSET Path, p \in Path}
Pointers == [to : Path, at : Capacities]
Actives == [myTrace : Pointers, myOldTrace : Pointers]

\* The scopes of a thread nest, and the tree has them.
Nested(t) ==
  LET scope == myCurrentScope[t].to
      depth == Len(myActive[t])
  IN /\ myCurrentScope[t] \in Pointers /\ myActive[t] \in Seq(Actives)
     /\ Len(scope) = depth + 1 /\ scope[1] = t /\ scope \in tree
     /\ \A i \in 1..depth :
          /\ myActive[t][i].myTrace.to = SubSeq(scope, 1, i + 1)
          /\ myActive[t][i].myOldTrace.to = SubSeq(scope, 1, i)

\* A pointer into the tree T that dangles is one to the trace of a thread, and
\* there are others.
Fresh(T, pointer) == pointer = Tracer!PointerTo(T, pointer.to)
Good(T, threads, pointer) == Fresh(T, pointer) \/ (Len(pointer.to) = 1 /\ Cardinality(threads) > 1)

PointersGood(t) ==
  /\ Good(tree, Tracer!Instances, myCurrentScope[t])
  /\ \A i \in 1..Len(myActive[t]) : /\ Fresh(tree, myActive[t][i].myTrace)
                                    /\ Good(tree, Tracer!Instances, myActive[t][i].myOldTrace)

\* The tree has the parents of its traces.
TreeOK ==
  /\ tree \subseteq Path
  /\ \A p \in tree : /\ Len(p) > 0 /\ p[1] \in Tracer!Instances
                     /\ \A i \in 2..Len(p) : p[i] \in Tags
                     /\ Len(p) > 1 => Tracer!Front(p) \in tree
  /\ myTimesTraced \in [tree -> Nat]

\* What is traced inside of a scope is completed before it.
Completed ==
  \A p \in tree : Len(p) > 2 /\ myTimesTraced[p] > 0 =>
    \/ myTimesTraced[Tracer!Front(p)] > 0
    \/ \E i \in 1..Len(myActive[p[1]]) : myActive[p[1]][i].myTrace.to = Tracer!Front(p)

Tracers == /\ Tracer!Instances \subseteq Threads /\ IsFiniteSet(Tracer!Instances)
           /\ DOMAIN myActive = Tracer!Instances
           /\ undefined \in BOOLEAN /\ (undefined => Cardinality(Tracer!Instances) > 1)

TraceInv ==
  /\ Tracers /\ TreeOK /\ Completed
  /\ \A t \in Tracer!Instances : Nested(t) /\ PointersGood(t)

LEMMA TraceInvIsEnough == TraceInv => Tracer!OnlyRootsDangle /\ Tracer!ScopesNest
<1> SUFFICES ASSUME TraceInv PROVE Tracer!OnlyRootsDangle /\ Tracer!ScopesNest
  OBVIOUS
<1>1. \A t \in Tracer!Instances : DOMAIN myActive[t] = 1..Len(myActive[t])
  BY LenProperties DEF TraceInv, Nested
<1>2. Tracer!Cardinality(Tracer!Instances) = Cardinality(Tracer!Instances)
      /\ Cardinality(Tracer!Instances) \in Nat
  BY FS_CardinalityType DEF Tracer!Cardinality, Cardinality, TraceInv, Tracers
<1>3. Tracer!OnlyRootsDangle
  BY <1>1, <1>2 DEF TraceInv, Tracers, PointersGood, Good, Fresh, Tracer!Dangles, Tracer!OnlyRootsDangle, Tracer!IsRoot
<1>4. Tracer!TypeOK
  BY DEF TraceInv, Tracers, TreeOK, Tracer!TypeOK
<1>5. ASSUME NEW p \in tree, Len(p) > 2 /\ myTimesTraced[p] > 0
      PROVE  \/ myTimesTraced[Tracer!Front(p)] > 0
             \/ \E i \in DOMAIN myActive[p[1]] : myActive[p[1]][i].myTrace.to = Tracer!Front(p)
  BY <1>1, <1>5 DEF TraceInv, TreeOK, Completed
<1>6. Tracer!ScopesNest
  BY <1>4, <1>5 DEF TraceInv, Nested, Tracer!ScopesNest
<1>7. QED
  BY <1>3, <1>6

LEMMA TraceInit == Tracer!Init => TraceInv
<1> SUFFICES ASSUME Tracer!Init PROVE TraceInv
  OBVIOUS
<1>1. Tracer!Instances = {} /\ DOMAIN myActive = {} /\ DOMAIN myTimesTraced = {} /\ tree = {}
  BY DEF Tracer!Init, Tracer!Instances
<1>2. myTimesTraced \in [tree -> Nat]
  BY <1>1 DEF Tracer!Init
<1>3. QED
  BY <1>1, <1>2, FS_EmptySet DEF Tracer!Init, TraceInv, Tracers, TreeOK, Completed

-----------------------------------------------------------------------------
(* Trace: one more trace in the tree *)

\* Only the vector that it is added to may move.
LEMMA OthersStay ==
  ASSUME NEW T, NEW q, NEW pointer, Tracer!Front(pointer.to) # Tracer!Front(q)
  PROVE  Fresh(T \cup {q}, pointer) <=> Fresh(T, pointer)
<1> DEFINE parent == Tracer!Front(pointer.to)
<1>1. {p \in T \cup {q} : Len(p) = Len(parent) + 1 /\ Tracer!Front(p) = parent}
        = {p \in T : Len(p) = Len(parent) + 1 /\ Tracer!Front(p) = parent}
  OBVIOUS
<1>2. Tracer!Size(T \cup {q}, parent) = Tracer!Size(T, parent)
  BY <1>1 DEF Tracer!Size
<1>3. QED
  BY <1>2 DEF Fresh, Tracer!PointerTo

LEMMA NewPointer ==
  ASSUME NEW T \in SUBSET Path, NEW p \in Path, Len(p) > 0
  PROVE  /\ Tracer!PointerTo(T, p) \in Pointers /\ Tracer!PointerTo(T, p).to = p
         /\ Fresh(T, Tracer!PointerTo(T, p))
<1>1. Tracer!Front(p) \in Path
  <2>1. Len(p) \in Nat /\ Len(p) - 1 \in 0..Len(p)
    BY LenProperties DEF Path
  <2>2. QED
    BY <2>1, Beginning DEF Tracer!Front
<1>2. QED
  BY <1>1 DEF Fresh, Tracer!PointerTo, Pointers, Capacities

\* The scopes around a thread's current one, and those of other threads, are in
\* other vectors than what is added to the current one.
LEMMA OtherVectors ==
  ASSUME NEW t, NEW u, Nested(t), Nested(u), NEW k \in 1..Len(myCurrentScope[u].to)
  PROVE  Tracer!Front(SubSeq(myCurrentScope[u].to, 1, k)) # myCurrentScope[t].to
<1> DEFINE scope == myCurrentScope[t].to
           other == myCurrentScope[u].to
<1>1. /\ scope \in Path /\ Len(scope) \in Nat /\ scope[1] = t /\ Len(scope) > 0
      /\ other \in Path /\ Len(other) \in Nat /\ other[1] = u
  BY LenProperties DEF Nested, Pointers, Path
<1>2. k - 1 \in 0..Len(other) /\ Tracer!Front(SubSeq(other, 1, k)) = SubSeq(other, 1, k - 1)
  BY <1>1, Parent
<1>3. Len(SubSeq(other, 1, k - 1)) = k - 1 /\ \A j \in 1..(k - 1) : SubSeq(other, 1, k - 1)[j] = other[j]
  BY <1>1, <1>2, Beginning
<1>4. CASE t = u
  BY <1>1, <1>2, <1>3, <1>4
<1>5. CASE t # u /\ k = 1
  BY <1>1, <1>2, <1>3, <1>5
<1>6. CASE t # u /\ k > 1
  <2>1. 1 \in 1..(k - 1)
    BY <1>1, <1>6
  <2>2. SubSeq(other, 1, k - 1)[1] = u
    BY <1>1, <1>3, <2>1
  <2>3. QED
    BY <1>1, <1>2, <1>6, <2>2
<1>7. QED
  BY <1>1, <1>4, <1>5, <1>6

-----------------------------------------------------------------------------
(* Trace: BeginInternal *)

LEMMA Scopes ==
  ASSUME NEW u, Nested(u)
  PROVE  /\ myCurrentScope[u].to \in Path /\ Len(myCurrentScope[u].to) \in Nat \ {0}
         /\ Len(myActive[u]) \in Nat
         /\ Len(myCurrentScope[u].to) = Len(myActive[u]) + 1
         /\ SubSeq(myCurrentScope[u].to, 1, Len(myCurrentScope[u].to)) = myCurrentScope[u].to
<1>1. myCurrentScope[u].to \in Path
  BY DEF Nested, Pointers
<1>2. QED
  BY <1>1, LenProperties, SubSeqFull DEF Nested, Path

\* No pointer that a thread has dangles because another scope opens.
LEMMA PointersStay ==
  ASSUME NEW t, NEW u, Nested(t), Nested(u), PointersGood(u),
         NEW q, Tracer!Front(q) = myCurrentScope[t].to
  PROVE  /\ Good(tree \cup {q}, Tracer!Instances, myCurrentScope[u])
         /\ \A i \in 1..Len(myActive[u]) :
              /\ Fresh(tree \cup {q}, myActive[u][i].myTrace)
              /\ Good(tree \cup {q}, Tracer!Instances, myActive[u][i].myOldTrace)
<1> DEFINE scope == myCurrentScope[u].to
<1>1. /\ Len(scope) \in 1..Len(scope) /\ SubSeq(scope, 1, Len(scope)) = scope
      /\ Len(scope) = Len(myActive[u]) + 1 /\ Len(myActive[u]) \in Nat
  BY Scopes
<1>2. Good(tree \cup {q}, Tracer!Instances, myCurrentScope[u])
  <2>1. Tracer!Front(scope) # Tracer!Front(q)
    BY <1>1, OtherVectors
  <2>2. QED
    BY <2>1, OthersStay DEF PointersGood, Good
<1>3. ASSUME NEW i \in 1..Len(myActive[u])
      PROVE  /\ Fresh(tree \cup {q}, myActive[u][i].myTrace)
             /\ Good(tree \cup {q}, Tracer!Instances, myActive[u][i].myOldTrace)
  <2>1. i \in 1..Len(scope) /\ i + 1 \in 1..Len(scope)
    BY <1>1
  <2>2. /\ myActive[u][i].myTrace.to = SubSeq(scope, 1, i + 1)
        /\ myActive[u][i].myOldTrace.to = SubSeq(scope, 1, i)
    BY DEF Nested
  <2>3. /\ Tracer!Front(SubSeq(scope, 1, i + 1)) # Tracer!Front(q)
        /\ Tracer!Front(SubSeq(scope, 1, i)) # Tracer!Front(q)
    BY <2>1, OtherVectors
  <2>4. QED
    BY <2>2, <2>3, OthersStay DEF PointersGood, Good
<1>4. QED
  BY <1>2, <1>3

\* What a step of one thread leaves of another's.
LEMMA OtherThread ==
  ASSUME NEW u, Nested(u), tree \subseteq tree',
         myCurrentScope'[u] = myCurrentScope[u], myActive'[u] = myActive[u]
  PROVE  Nested(u)'
BY DEF Nested

\* A trace that is new has not been completed, and no scope is closed.
LEMMA CompletedStays ==
  ASSUME Tracers, TreeOK, Completed, NEW q, tree' = tree \cup {q},
         myTimesTraced' = Tracer!With(myTimesTraced, q, 0),
         \A u \in Tracer!Instances : \A i \in 1..Len(myActive[u]) :
           i \in 1..Len(myActive'[u]) /\ myActive'[u][i] = myActive[u][i]
  PROVE  Completed' /\ myTimesTraced' \in [tree' -> Nat]
<1>1. /\ DOMAIN myTimesTraced = tree
      /\ \A p \in tree : myTimesTraced'[p] = myTimesTraced[p] /\ myTimesTraced[p] \in Nat
      /\ myTimesTraced' \in [tree' -> Nat]
      /\ q \notin tree => myTimesTraced'[q] = 0
  BY DEF TreeOK, Tracer!With
<1>2. ASSUME NEW p \in tree', Len(p) > 2, myTimesTraced'[p] > 0
      PROVE  \/ myTimesTraced'[Tracer!Front(p)] > 0
             \/ \E i \in 1..Len(myActive'[p[1]]) : myActive'[p[1]][i].myTrace.to = Tracer!Front(p)
  <2>1. p \in tree
    BY <1>1, <1>2
  <2>2. Len(p) \in Nat /\ p[1] \in Tracer!Instances
    BY <2>1, LenProperties DEF TreeOK, Path
  <2>3. Tracer!Front(p) \in tree
    BY <1>2, <2>1, <2>2 DEF TreeOK
  <2>4. \/ myTimesTraced[Tracer!Front(p)] > 0
        \/ \E i \in 1..Len(myActive[p[1]]) : myActive[p[1]][i].myTrace.to = Tracer!Front(p)
    BY <1>1, <1>2, <2>1 DEF Completed
  <2>5. QED
    BY <1>1, <2>2, <2>3, <2>4
<1>3. QED
  BY <1>1, <1>2 DEF Completed

LEMMA BeginInvariant ==
  ASSUME TraceInv, NEW t \in Threads, NEW tag \in Tags, Tracer!BeginInternal(t, tag), ~undefined
  PROVE  TraceInv'
<1> DEFINE scope == myCurrentScope[t].to
           q == Append(scope, tag)
           new == Tracer!PointerTo(tree', q)
           n == Len(myActive[t])
<1>1. /\ t \in Tracer!Instances /\ Nested(t) /\ PointersGood(t)
      /\ Fresh(tree, myCurrentScope[t])
      /\ tree' = tree \cup {q}
      /\ myTimesTraced' = Tracer!With(myTimesTraced, q, 0)
      /\ myCurrentScope' = [myCurrentScope EXCEPT ![t] = new]
      /\ myActive' = [myActive EXCEPT ![t] = Append(myActive[t], [myTrace |-> new, myOldTrace |-> myCurrentScope[t]])]
      /\ undefined' = undefined
  BY DEF TraceInv, Tracer!BeginInternal, Tracer!Scope, Tracer!Dangles, Fresh
<1>2. Tracer!Instances' = Tracer!Instances /\ DOMAIN myActive' = DOMAIN myActive
  BY <1>1 DEF Tracer!Instances
<1>3. Tracers'
  BY <1>1, <1>2 DEF TraceInv, Tracers
<1>4. /\ scope \in Path /\ Len(scope) \in Nat \ {0} /\ n \in Nat /\ Len(scope) = n + 1 /\ scope[1] = t
      /\ scope \in tree /\ SubSeq(scope, 1, Len(scope)) = scope
  BY <1>1, Scopes DEF Nested
<1>5. /\ q \in Path /\ Len(q) = n + 2 /\ q[n + 2] = tag /\ Tracer!Front(q) = scope
      /\ \A j \in 1..Len(scope) : q[j] = scope[j]
      /\ \A i \in 0..Len(scope) : SubSeq(q, 1, i) = SubSeq(scope, 1, i)
      /\ SubSeq(q, 1, n + 2) = q
  <2>1. Len(scope) + 1 = n + 2 /\ tag \in Threads \cup Tags
    BY <1>4
  <2>2. /\ q \in Path /\ Len(q) = Len(scope) + 1 /\ q[Len(scope) + 1] = tag /\ Tracer!Front(q) = scope
        /\ \A j \in 1..Len(scope) : q[j] = scope[j]
        /\ \A i \in 0..Len(scope) : SubSeq(q, 1, i) = SubSeq(scope, 1, i)
        /\ SubSeq(q, 1, Len(scope) + 1) = q
    BY <1>4, <2>1, Longer
  <2>3. QED
    BY <2>1, <2>2
<1> HIDE DEF q
<1>6. TreeOK' /\ Completed'
  <2>1. ASSUME NEW u \in Tracer!Instances, NEW i \in 1..Len(myActive[u])
        PROVE  i \in 1..Len(myActive'[u]) /\ myActive'[u][i] = myActive[u][i]
    <3>1. CASE u = t
      <4>1. [myTrace |-> new, myOldTrace |-> myCurrentScope[t]] \in {[myTrace |-> new, myOldTrace |-> myCurrentScope[t]]} \cup Actives
        OBVIOUS
      <4>2. myActive[t] \in Seq({[myTrace |-> new, myOldTrace |-> myCurrentScope[t]]} \cup Actives)
        BY <1>1, SeqMonotonic DEF Nested
      <4>3. /\ Len(myActive'[t]) = n + 1
            /\ \A j \in 1..n : myActive'[t][j] = myActive[t][j]
        BY <1>1, <4>1, <4>2, AppendProperties DEF TraceInv, Tracers
      <4>4. QED
        BY <1>4, <3>1, <4>3
    <3>2. CASE u # t
      BY <1>1, <3>2
    <3>3. QED
      BY <3>1, <3>2
  <2>2. Completed' /\ myTimesTraced' \in [tree' -> Nat]
    BY <1>1, <2>1, CompletedStays DEF TraceInv
  <2>3. Len(q) > 0 /\ q[1] \in Tracer!Instances /\ Tracer!Front(q) \in tree
    <3>1. 1 \in 1..Len(scope) /\ n + 2 > 0
      BY <1>4
    <3>2. QED
      BY <1>1, <1>4, <1>5, <3>1
  <2>4. ASSUME NEW i \in 2..Len(q) PROVE q[i] \in Tags
    <3>1. i \in 2..Len(scope) \/ i = n + 2
      BY <1>4, <1>5
    <3>2. CASE i \in 2..Len(scope)
      <4>1. i \in 1..Len(scope)
        BY <3>2
      <4>2. QED
        BY <1>4, <1>5, <3>2, <4>1 DEF TraceInv, TreeOK
    <3>3. QED
      BY <1>5, <3>1, <3>2
  <2>5. \A p \in tree' : p \in tree \/ p = q
    BY <1>1
  <2>6. QED
    BY <1>1, <1>2, <1>5, <2>2, <2>3, <2>4, <2>5 DEF TraceInv, TreeOK
<1>7. /\ new \in Pointers /\ new.to = q /\ Fresh(tree', new)
  <2>1. tree' \in SUBSET Path /\ Len(q) > 0
    BY <1>1, <1>4, <1>5 DEF TraceInv, TreeOK
  <2>2. QED
    BY <1>5, <2>1, NewPointer
<1> HIDE DEF new
<1>8. ASSUME NEW u \in Tracer!Instances
      PROVE  Nested(u)' /\ PointersGood(u)'
  <2>1. Nested(u) /\ PointersGood(u)
    BY DEF TraceInv
  <2>2. /\ Good(tree', Tracer!Instances', myCurrentScope[u])
        /\ \A i \in 1..Len(myActive[u]) :
             /\ Fresh(tree', myActive[u][i].myTrace)
             /\ Good(tree', Tracer!Instances', myActive[u][i].myOldTrace)
    BY <1>1, <1>2, <1>5, <2>1, PointersStay
  <2>3. CASE u # t
    <3>1. myCurrentScope'[u] = myCurrentScope[u] /\ myActive'[u] = myActive[u]
      BY <1>1, <2>3 DEF Tracer!Instances, TraceInv, Tracers
    <3>2. Nested(u)'
      BY <1>1, <2>1, <3>1, OtherThread
    <3>3. QED
      BY <2>2, <3>1, <3>2 DEF PointersGood
  <2>4. CASE u = t
    <3> DEFINE active == [myTrace |-> new, myOldTrace |-> myCurrentScope[t]]
    <3>1. active \in Actives /\ myActive[t] \in Seq(Actives)
      BY <1>1, <1>7 DEF Actives, Nested
    <3>2. /\ myCurrentScope'[t] = new /\ myActive'[t] = Append(myActive[t], active)
      BY <1>1 DEF Tracer!Instances, TraceInv, Tracers
    <3>3. /\ myActive'[t] \in Seq(Actives) /\ Len(myActive'[t]) = n + 1 /\ myActive'[t][n + 1] = active
          /\ \A i \in 1..n : myActive'[t][i] = myActive[t][i]
      BY <3>1, <3>2, AppendProperties
    <3>4. active.myTrace = new /\ active.myOldTrace = myCurrentScope[t]
      OBVIOUS
    <3> HIDE DEF active
    <3>5. \A i \in 1..(n + 1) : i \in 1..n \/ i = n + 1
      BY <1>4
    <3>6. PointersGood(t)'
      <4>1. Good(tree', Tracer!Instances', myCurrentScope[t])
        BY <2>2, <2>4
      <4>2. Good(tree', Tracer!Instances', new)
        BY <1>7 DEF Good
      <4>3. QED
        BY <1>7, <2>2, <2>4, <3>2, <3>3, <3>4, <3>5, <4>1, <4>2 DEF PointersGood
    <3>7. ASSUME NEW i \in 1..(n + 1)
          PROVE  /\ myActive'[t][i].myTrace.to = SubSeq(q, 1, i + 1)
                 /\ myActive'[t][i].myOldTrace.to = SubSeq(q, 1, i)
      <4>1. CASE i \in 1..n
        <5>1. i \in 0..Len(scope) /\ i + 1 \in 0..Len(scope)
          BY <1>4, <4>1
        <5>2. QED
          BY <1>1, <1>5, <3>3, <4>1, <5>1 DEF Nested
      <4>2. CASE i = n + 1
        <5>1. i = Len(scope) /\ i \in 0..Len(scope) /\ i + 1 = n + 2
          BY <1>4, <4>2
        <5>2. QED
          BY <1>4, <1>5, <1>7, <3>3, <3>4, <4>2, <5>1
      <4>3. QED
        BY <3>5, <4>1, <4>2
    <3>8. q[1] = t /\ q \in tree' /\ Len(q) = n + 1 + 1
      <4>1. 1 \in 1..Len(scope) /\ n + 2 = n + 1 + 1
        BY <1>4
      <4>2. QED
        BY <1>1, <1>4, <1>5, <4>1
    <3>9. Nested(t)'
      BY <1>7, <3>2, <3>3, <3>7, <3>8 DEF Nested
    <3>10. QED
      BY <2>4, <3>6, <3>9
  <2>5. QED
    BY <2>3, <2>4
<1>9. QED
  BY <1>2, <1>3, <1>6, <1>8 DEF TraceInv

-----------------------------------------------------------------------------
(* Trace: End, GetInstance, and what is undefined *)

\* The trace that is completed is the current scope's, and the scope it returns to
\* is that scope's parent.
LEMMA EndInvariant ==
  ASSUME TraceInv, NEW t \in Threads, Tracer!End(t), ~undefined
  PROVE  TraceInv'
<1> DEFINE scope == myCurrentScope[t].to
           n == Len(myActive[t])
           last == myActive[t][n]
<1>1. /\ t \in Tracer!Instances /\ Nested(t) /\ PointersGood(t) /\ myActive[t] # <<>>
      /\ tree' = tree /\ undefined' = undefined
  BY DEF TraceInv, Tracer!End
<1>2. /\ n \in Nat \ {0} /\ n \in 1..n /\ last \in Actives
      /\ scope \in Path /\ Len(scope) = n + 1 /\ scope[1] = t /\ scope \in tree
      /\ SubSeq(scope, 1, Len(scope)) = scope
  <2>1. n \in Nat \ {0}
    BY <1>1, EmptySeq DEF Nested
  <2>2. last \in Actives
    BY <1>1, <2>1, ElementOfSeq DEF Nested
  <2>3. Len(scope) = n + 1 /\ scope[1] = t /\ scope \in tree /\ scope \in Path
    BY <1>1, Scopes DEF Nested
  <2>4. SubSeq(scope, 1, Len(scope)) = scope
    BY <1>1, Scopes
  <2>5. QED
    BY ONLY <2>1, <2>2, <2>3, <2>4
<1>3. last.myTrace.to = scope /\ last.myOldTrace.to = SubSeq(scope, 1, n)
  BY <1>1, <1>2 DEF Nested
<1>4. /\ myTimesTraced' = [myTimesTraced EXCEPT ![scope] = @ + 1]
      /\ myCurrentScope' = [myCurrentScope EXCEPT ![t] = last.myOldTrace]
      /\ myActive' = [myActive EXCEPT ![t] = Tracer!Front(myActive[t])]
  BY <1>3 DEF Tracer!End, Tracer!Last, Tracer!Applied
<1>5. /\ Tracer!Instances' = Tracer!Instances /\ DOMAIN myActive' = DOMAIN myActive
      /\ DOMAIN myCurrentScope = Tracer!Instances /\ DOMAIN myActive = Tracer!Instances
  BY <1>4 DEF Tracer!Instances, TraceInv, Tracers
<1>6. Tracers'
  BY <1>1, <1>5 DEF TraceInv, Tracers
<1>7. /\ myActive'[t] \in Seq(Actives) /\ Len(myActive'[t]) = n - 1
      /\ \A i \in 1..(n - 1) : myActive'[t][i] = myActive[t][i] /\ i \in 1..n
      /\ myCurrentScope'[t] = last.myOldTrace
      /\ \A u \in Tracer!Instances : u # t => myCurrentScope'[u] = myCurrentScope[u] /\ myActive'[u] = myActive[u]
  <2>1. myActive'[t] = SubSeq(myActive[t], 1, n - 1) /\ myCurrentScope'[t] = last.myOldTrace
    BY <1>1, <1>4, <1>5 DEF Tracer!Front
  <2>2. /\ SubSeq(myActive[t], 1, n - 1) \in Seq(Actives) /\ Len(SubSeq(myActive[t], 1, n - 1)) = n - 1
        /\ \A i \in 1..(n - 1) : SubSeq(myActive[t], 1, n - 1)[i] = myActive[t][i]
    BY <1>1, WithoutLast DEF Nested
  <2>3. \A i \in 1..(n - 1) : i \in 1..n
    BY <1>2
  <2>4. QED
    BY <1>4, <1>5, <2>1, <2>2, <2>3
<1>8. /\ myTimesTraced' \in [tree -> Nat] /\ myTimesTraced'[scope] > 0
      /\ \A p \in tree : p # scope => myTimesTraced'[p] = myTimesTraced[p]
  BY <1>2, <1>4 DEF TraceInv, TreeOK
<1>9. TreeOK'
  BY <1>1, <1>5, <1>8 DEF TraceInv, TreeOK
<1>10. Len(scope) > 1 /\ Tracer!Front(scope) = SubSeq(scope, 1, n)
  BY <1>2 DEF Tracer!Front
<1>11. Completed'
  <2>1. ASSUME NEW p \in tree, Len(p) > 2, myTimesTraced'[p] > 0
        PROVE  \/ myTimesTraced'[Tracer!Front(p)] > 0
               \/ \E i \in 1..Len(myActive'[p[1]]) : myActive'[p[1]][i].myTrace.to = Tracer!Front(p)
    <3>1. Len(p) \in Nat /\ p[1] \in Tracer!Instances /\ Tracer!Front(p) \in tree
      BY <2>1, LenProperties DEF TraceInv, TreeOK, Path
    <3>2. CASE p = scope
      <4>1. n - 1 \in 1..(n - 1) /\ n - 1 \in 1..n /\ n - 1 + 1 = n
        BY <1>2, <2>1, <3>2
      <4>2. myActive'[t][n - 1].myTrace.to = SubSeq(scope, 1, n)
        BY <1>1, <1>7, <4>1 DEF Nested
      <4>3. QED
        BY <1>2, <1>7, <1>10, <3>2, <4>1, <4>2
    <3>3. CASE p # scope
      <4>1. \/ myTimesTraced[Tracer!Front(p)] > 0
            \/ \E i \in 1..Len(myActive[p[1]]) : myActive[p[1]][i].myTrace.to = Tracer!Front(p)
        BY <1>8, <2>1, <3>3 DEF TraceInv, Completed
      <4>2. CASE myTimesTraced[Tracer!Front(p)] > 0
        BY <1>8, <3>1, <4>2
      <4>3. ASSUME NEW i \in 1..Len(myActive[p[1]]), myActive[p[1]][i].myTrace.to = Tracer!Front(p)
            PROVE  \/ myTimesTraced'[Tracer!Front(p)] > 0
                   \/ \E j \in 1..Len(myActive'[p[1]]) : myActive'[p[1]][j].myTrace.to = Tracer!Front(p)
        <5>1. CASE p[1] # t
          BY <1>7, <3>1, <4>3, <5>1
        <5>2. CASE p[1] = t /\ i = n
          BY <1>3, <1>8, <4>3, <5>2
        <5>3. CASE p[1] = t /\ i # n
          <6>1. i \in 1..(n - 1)
            BY <1>2, <5>3
          <6>2. QED
            BY <1>7, <4>3, <5>3, <6>1
        <5>4. QED
          BY <5>1, <5>2, <5>3
      <4>4. QED
        BY <4>1, <4>2, <4>3
    <3>4. QED
      BY <3>2, <3>3
  <2>2. QED
    BY <1>1, <2>1 DEF Completed
<1>12. ASSUME NEW u \in Tracer!Instances
       PROVE  Nested(u)' /\ PointersGood(u)'
  <2>1. Nested(u) /\ PointersGood(u)
    BY DEF TraceInv
  <2>2. CASE u # t
    <3>1. myCurrentScope'[u] = myCurrentScope[u] /\ myActive'[u] = myActive[u]
      BY <1>7, <2>2
    <3>2. Nested(u)'
      BY <1>1, <2>1, <3>1, OtherThread
    <3>3. QED
      BY <1>1, <1>5, <2>1, <3>1, <3>2 DEF PointersGood
  <2>3. CASE u = t
    <3>1. PointersGood(t)'
      BY <1>1, <1>2, <1>5, <1>7 DEF PointersGood
    <3>2. n \in 0..Len(scope) /\ 1 \in 1..n
      BY <1>2
    <3>3. /\ SubSeq(scope, 1, n) \in Path /\ Len(SubSeq(scope, 1, n)) = n
          /\ SubSeq(scope, 1, n)[1] = t
      BY <1>2, <3>2, Beginning
    <3>4. SubSeq(scope, 1, n) \in tree
      BY <1>2, <1>10 DEF TraceInv, TreeOK
    <3>5. ASSUME NEW i \in 1..(n - 1)
          PROVE  /\ myActive'[t][i].myTrace.to = SubSeq(SubSeq(scope, 1, n), 1, i + 1)
                 /\ myActive'[t][i].myOldTrace.to = SubSeq(SubSeq(scope, 1, n), 1, i)
      <4>1. i \in 1..n /\ i \in 0..n /\ i + 1 \in 0..n
        BY <1>2
      <4>2. /\ SubSeq(SubSeq(scope, 1, n), 1, i) = SubSeq(scope, 1, i)
            /\ SubSeq(SubSeq(scope, 1, n), 1, i + 1) = SubSeq(scope, 1, i + 1)
        BY <1>2, <3>2, <4>1, BeginningOfBeginning
      <4>3. QED
        BY <1>1, <1>7, <4>1, <4>2 DEF Nested
    <3>6. myCurrentScope'[t] \in Pointers /\ myCurrentScope'[t].to = SubSeq(scope, 1, n)
      BY <1>2, <1>3, <1>7 DEF Actives
    <3>7. n = n - 1 + 1
      BY <1>2
    <3>8. Nested(t)'
      BY <1>1, <1>7, <3>3, <3>4, <3>5, <3>6, <3>7 DEF Nested
    <3>9. QED
      BY <2>3, <3>1, <3>8
  <2>4. QED
    BY <2>2, <2>3
<1>13. QED
  BY <1>5, <1>6, <1>9, <1>11, <1>12 DEF TraceInv

\* The vector of the threads may move: there is another thread then, if anybody has
\* a pointer into it.
LEMMA GetInstanceInvariant ==
  ASSUME TraceInv, NEW t \in Threads, Tracer!GetInstance(t), ~undefined
  PROVE  TraceInv'
<1> DEFINE threads == Tracer!Instances
           root == <<t>>
           new == Tracer!PointerTo(tree', root)
<1>1. /\ t \notin threads /\ tree' = tree \cup {root}
      /\ myTimesTraced' = Tracer!With(myTimesTraced, root, 0)
      /\ myCurrentScope' = Tracer!With(myCurrentScope, t, new)
      /\ myActive' = Tracer!With(myActive, t, <<>>)
      /\ undefined' = undefined
  BY DEF Tracer!GetInstance
<1>2. /\ Tracer!Instances' = threads \cup {t} /\ DOMAIN myActive' = threads \cup {t}
      /\ myCurrentScope'[t] = new /\ myActive'[t] = <<>>
      /\ \A u \in threads : myCurrentScope'[u] = myCurrentScope[u] /\ myActive'[u] = myActive[u]
  BY <1>1 DEF Tracer!Instances, Tracer!With, TraceInv, Tracers
<1>3. IsFiniteSet(threads) /\ Cardinality(threads) \in Nat
  BY FS_CardinalityType DEF TraceInv, Tracers
<1>4. IsFiniteSet(threads \cup {t}) /\ Cardinality(threads \cup {t}) = Cardinality(threads) + 1
  BY <1>1, <1>3, FS_AddElement
<1>5. Tracers'
  BY <1>1, <1>2, <1>4 DEF TraceInv, Tracers
<1>6. /\ root \in Path /\ Len(root) = 1 /\ root[1] = t /\ Tracer!Front(root) = <<>>
      /\ SubSeq(root, 1, 1) = root
  <2>1. root \in Path /\ Len(root) = 1 /\ root[1] = t
    BY DEF Path
  <2> HIDE DEF root
  <2>2. SubSeq(root, 1, 0) = <<>>
    BY SubSeqEmpty
  <2>3. SubSeq(root, 1, 1) = root
    BY <2>1, SubSeqFull DEF Path
  <2>4. Len(root) - 1 = 0
    BY <2>1
  <2>5. QED
    BY <2>1, <2>2, <2>3, <2>4 DEF Tracer!Front
<1> HIDE DEF root
<1>7. Completed' /\ myTimesTraced' \in [tree' -> Nat]
  BY <1>1, <1>2, CompletedStays DEF TraceInv
<1>8. TreeOK'
  <2>1. \A i \in 2..Len(root) : root[i] \in Tags
    BY <1>6
  <2>2. ASSUME NEW p \in tree'
        PROVE  /\ p \in Path /\ Len(p) > 0 /\ p[1] \in threads \cup {t}
               /\ \A i \in 2..Len(p) : p[i] \in Tags
               /\ Len(p) > 1 => Tracer!Front(p) \in tree'
    <3>1. CASE p \in tree
      BY <1>1, <3>1 DEF TraceInv, TreeOK
    <3>2. CASE p = root
      <4>1. Len(root) > 0 /\ ~(Len(root) > 1)
        BY <1>6
      <4>2. QED
        BY <1>6, <2>1, <3>2, <4>1
    <3>3. QED
      BY <1>1, <3>1, <3>2
  <2>3. QED
    BY <1>2, <1>7, <2>2 DEF TreeOK
<1>9. new \in Pointers /\ new.to = root /\ Fresh(tree', new)
  <2>1. tree' \in SUBSET Path
    BY <1>8 DEF TreeOK
  <2>2. QED
    BY <1>6, <2>1, NewPointer
<1> HIDE DEF new
<1>10. Nested(t)' /\ PointersGood(t)'
  <2>1. <<>> \in Seq(Actives) /\ Len(<<>>) = 0
    BY EmptySeq
  <2>2. Len(myActive'[t]) = 0 /\ Len(root) = Len(myActive'[t]) + 1 /\ \A i \in 1..Len(myActive'[t]) : FALSE
    BY <1>2, <1>6, <2>1
  <2>3. root \in tree'
    BY <1>1
  <2>4. Nested(t)'
    BY <1>2, <1>6, <1>9, <2>1, <2>2, <2>3 DEF Nested
  <2>5. PointersGood(t)'
    BY <1>2, <1>9, <2>2 DEF PointersGood, Good
  <2>6. QED
    BY <2>4, <2>5
<1>11. ASSUME NEW u \in threads
       PROVE  Nested(u)' /\ PointersGood(u)'
  <2> DEFINE scope == myCurrentScope[u].to
  <2>1. Nested(u) /\ PointersGood(u)
    BY DEF TraceInv
  <2>2. Nested(u)'
    BY <1>1, <1>2, <2>1, OtherThread
  <2>3. Cardinality(threads \cup {t}) > 1
    <3>1. Cardinality(threads) # 0
      BY <1>3, FS_EmptySet
    <3>2. QED
      BY <1>3, <1>4, <3>1
  <2>4. /\ scope \in Path /\ Len(scope) \in Nat \ {0} /\ Len(myActive[u]) \in Nat
        /\ Len(scope) = Len(myActive[u]) + 1 /\ SubSeq(scope, 1, Len(scope)) = scope
    BY <2>1, Scopes
  <2>5. ASSUME NEW k \in 1..Len(scope), NEW pointer, pointer.to = SubSeq(scope, 1, k)
        PROVE  /\ Good(tree, threads, pointer) => Good(tree', threads \cup {t}, pointer)
               /\ Fresh(tree, pointer) /\ k > 1 => Fresh(tree', pointer)
    <3>1. CASE k = 1
      <4>1. 1 \in 0..Len(scope) /\ Len(pointer.to) = 1
        BY <2>4, <2>5, <3>1, Beginning
      <4>2. QED
        BY <2>3, <3>1, <4>1 DEF Good
    <3>2. CASE k > 1
      <4>1. k - 1 \in 0..Len(scope) /\ k - 1 > 0
        BY <2>4, <3>2
      <4>2. Tracer!Front(pointer.to) = SubSeq(scope, 1, k - 1) /\ Len(SubSeq(scope, 1, k - 1)) = k - 1
        BY <2>4, <2>5, <4>1, Parent, Beginning
      <4>3. Tracer!Front(pointer.to) # <<>>
        <5>1. Len(<<>>) = 0
          BY EmptySeq
        <5>2. Len(Tracer!Front(pointer.to)) # Len(<<>>)
          BY <4>1, <4>2, <5>1
        <5>3. QED
          BY <5>2, Zenon
      <4>4. Fresh(tree', pointer) <=> Fresh(tree, pointer)
        BY <1>1, <1>6, <4>3, OthersStay
      <4>5. QED
        BY <2>3, <4>4 DEF Good
    <3>3. QED
      BY <2>4, <3>1, <3>2
  <2>6. Good(tree', threads \cup {t}, myCurrentScope[u])
    <3>1. Len(scope) \in 1..Len(scope)
      BY <2>4
    <3>2. QED
      BY <2>1, <2>4, <2>5, <3>1 DEF PointersGood
  <2>7. ASSUME NEW i \in 1..Len(myActive[u])
        PROVE  /\ Fresh(tree', myActive[u][i].myTrace)
               /\ Good(tree', threads \cup {t}, myActive[u][i].myOldTrace)
    <3>1. i \in 1..Len(scope) /\ i + 1 \in 1..Len(scope) /\ i + 1 > 1
      BY <2>4
    <3>2. /\ myActive[u][i].myTrace.to = SubSeq(scope, 1, i + 1)
          /\ myActive[u][i].myOldTrace.to = SubSeq(scope, 1, i)
          /\ Fresh(tree, myActive[u][i].myTrace)
          /\ Good(tree, threads, myActive[u][i].myOldTrace)
      BY <2>1 DEF Nested, PointersGood
    <3>3. QED
      BY <2>5, <3>1, <3>2
  <2>8. QED
    BY <1>2, <2>2, <2>6, <2>7 DEF PointersGood
<1>12. QED
  BY <1>2, <1>5, <1>7, <1>8, <1>10, <1>11 DEF TraceInv

\* Only with other threads can a step be undefined.
LEMMA UndefinedInvariant ==
  ASSUME TraceInv, NEW t \in Threads, Tracer!Undefined(t)
  PROVE  TraceInv'
<1>1. /\ t \in Tracer!Instances /\ Nested(t) /\ PointersGood(t)
      /\ Tracer!Dangles(myCurrentScope[t])
           \/ (myActive[t] # <<>> /\ Tracer!Dangles(Tracer!Last(myActive[t]).myTrace))
  BY DEF TraceInv, Tracer!Undefined
<1>2. myActive[t] # <<>> => Len(myActive[t]) \in 1..Len(myActive[t])
  BY <1>1, EmptySeq DEF Nested
<1>3. Cardinality(Tracer!Instances) > 1
  BY <1>1, <1>2 DEF PointersGood, Good, Fresh, Tracer!Dangles, Tracer!Last
<1>4. /\ undefined' = TRUE /\ UNCHANGED <<tree, myTimesTraced, myCurrentScope, myActive>>
      /\ Tracer!Instances' = Tracer!Instances
  BY DEF Tracer!Undefined, Tracer!Instances
<1>5. Tracers' /\ TreeOK' /\ Completed'
  BY <1>3, <1>4 DEF TraceInv, Tracers, TreeOK, Completed
<1>6. \A u \in Tracer!Instances : Nested(u)' /\ PointersGood(u)'
  BY <1>4 DEF TraceInv, Nested, PointersGood
<1>7. QED
  BY <1>4, <1>5, <1>6 DEF TraceInv

LEMMA TraceStep == TraceInv /\ [Tracer!Next]_traceVars => TraceInv'
<1> SUFFICES ASSUME TraceInv, [Tracer!Next]_traceVars PROVE TraceInv'
  OBVIOUS
<1>1. CASE UNCHANGED traceVars
  <2>1. Tracer!Instances' = Tracer!Instances
    BY <1>1 DEF traceVars, Tracer!Instances
  <2>2. Tracers' /\ TreeOK' /\ Completed'
    BY <1>1, <2>1 DEF traceVars, TraceInv, Tracers, TreeOK, Completed
  <2>3. \A u \in Tracer!Instances : Nested(u)' /\ PointersGood(u)'
    BY <1>1, <2>1 DEF traceVars, TraceInv, Nested, PointersGood
  <2>4. QED
    BY <2>1, <2>2, <2>3 DEF TraceInv
<1>2. CASE Tracer!Next
  BY <1>2, BeginInvariant, EndInvariant, GetInstanceInvariant, UndefinedInvariant DEF Tracer!Next
<1>3. QED
  BY <1>1, <1>2

-----------------------------------------------------------------------------
(* JsonTree: trees *)

\* The least of some numbers; here, the first step at which a way is lost.
LEMMA LeastOf ==
  ASSUME NEW bad, bad \subseteq Nat, bad # {}
  PROVE  \E n \in bad : \A m \in bad : n <= m
<1>1. PICK n \in bad : \A m \in bad : <<m, n>> \notin OpToRel(<, Nat)
  BY NatLessThanWellFounded, WFMin, Zenon
<1>2. ASSUME NEW m \in bad PROVE n <= m
  <2>1. n \in Nat /\ m \in Nat
    OBVIOUS
  <2>2. ~(m < n)
    BY <1>1, <2>1, Zenon DEF OpToRel
  <2>3. QED
    BY <2>1, <2>2
<1>3. QED
  BY <1>2

\* The Cardinality of the instance is the one that the library knows.
LEMMA JsonCounts == \A S : Json!Cardinality(S) = Cardinality(S)
BY DEF Json!Cardinality, Cardinality

\* The node m has the node c as its child k.
Holds(T, m, k, c) == m \in DOMAIN T /\ k \in DOMAIN T[m].children /\ T[m].children[k] = c

\* Whoever is in S has all its children there.
Within(T, S) == \A m \in S : \A k, c : Holds(T, m, k, c) => c \in S

IsNode(node) ==
  /\ node.type \in {"null", "scalar", "array", "object"}
  /\ node.type \in {"null", "scalar"} => DOMAIN node.children = {}
  /\ node.type = "array" => \E n \in Nat : DOMAIN node.children = 0..(n - 1)
  /\ node.type = "object" => DOMAIN node.children \subseteq Keys

\* Every child is there and has one owner, and all but the NullObject are found from
\* the root: a set that has the root and all children of its members has them all.
IsTree(T) ==
  /\ {Json!NullObject, Json!Root} \subseteq DOMAIN T /\ DOMAIN T \subseteq 0..MaxNodes
  /\ T[Json!NullObject] = Json!Leaf("null")
  /\ \A m \in DOMAIN T : IsNode(T[m])
  /\ \A m, k, c : Holds(T, m, k, c) => c \in DOMAIN T /\ c # Json!NullObject /\ c # Json!Root
  /\ \A m, n, j, k, c : Holds(T, m, j, c) /\ Holds(T, n, k, c) => m = n /\ j = k
  /\ \A S \in SUBSET DOMAIN T :
       Json!Root \in S /\ Within(T, S) => \A m \in DOMAIN T : m = Json!NullObject \/ m \in S

\* U is T with the nodes of G freed, which only n had children in, and with others, new,
\* below n.
Replaced(T, U, n, G, new) ==
  /\ n \in DOMAIN T /\ n # Json!NullObject /\ n \notin G
  /\ G \subseteq DOMAIN T /\ Json!NullObject \notin G /\ Json!Root \notin G
  /\ new \subseteq 2..MaxNodes /\ new \cap (DOMAIN T \ G) = {}
  /\ DOMAIN U = (DOMAIN T \ G) \cup new
  /\ Within(T, G)
  /\ \A m, k, c : Holds(T, m, k, c) /\ c \in G => m = n \/ m \in G
  /\ \A m \in DOMAIN T \ G : m # n => U[m] = T[m]
  /\ IsNode(U[n]) /\ \A m \in new : IsNode(U[m])
  /\ \A k, c : Holds(U, n, k, c) => c \in new \/ (Holds(T, n, k, c) /\ c \notin G)
  /\ \A k, c : Holds(T, n, k, c) /\ c \notin G => Holds(U, n, k, c)
  /\ \A m \in new : \A k, c : Holds(U, m, k, c) => c \in new
  /\ \A l, m, j, k, c : c \in new /\ Holds(U, l, j, c) /\ Holds(U, m, k, c) => l = m /\ j = k
  /\ \A S \in SUBSET DOMAIN U : n \in S /\ Within(U, S) => new \subseteq S

LEMMA ReplacedHolds ==
  ASSUME NEW T, NEW U, NEW n, NEW G, NEW new, IsTree(T), Replaced(T, U, n, G, new)
  PROVE  /\ \A m, k, c : Holds(U, m, k, c) =>
              c \in new \/ (Holds(T, m, k, c) /\ m \notin G /\ c \notin G)
         /\ \A m, k, c : Holds(T, m, k, c) /\ m \notin G /\ c \notin G => Holds(U, m, k, c)
<1>1. ASSUME NEW m, NEW k, NEW c, Holds(U, m, k, c), c \notin new
      PROVE  Holds(T, m, k, c) /\ m \notin G /\ c \notin G
  <2>1. m \in DOMAIN U /\ m \notin new
    <3>1. m \notin new
      BY <1>1 DEF Replaced
    <3>2. QED
      BY <1>1, <3>1 DEF Holds
  <2>2. m \in DOMAIN T /\ m \notin G
    BY <2>1 DEF Replaced
  <2>3. CASE m = n
    BY <1>1, <2>2, <2>3 DEF Replaced
  <2>4. CASE m # n
    <3>1. U[m] = T[m]
      BY <2>2, <2>4 DEF Replaced
    <3>2. Holds(T, m, k, c)
      BY <1>1, <2>2, <3>1 DEF Holds
    <3>3. QED
      BY <2>2, <2>4, <3>2 DEF Replaced
  <2>5. QED
    BY <2>3, <2>4
<1>2. ASSUME NEW m, NEW k, NEW c, Holds(T, m, k, c), m \notin G, c \notin G
      PROVE  Holds(U, m, k, c)
  <2>1. m \in DOMAIN T /\ m \in DOMAIN U
    BY <1>2 DEF Replaced, Holds
  <2>2. CASE m = n
    BY <1>2, <2>2 DEF Replaced
  <2>3. CASE m # n
    <3>1. U[m] = T[m]
      BY <1>2, <2>1, <2>3 DEF Replaced
    <3>2. QED
      BY <1>2, <2>1, <3>1 DEF Holds
  <2>4. QED
    BY <2>2, <2>3
<1>3. QED
  BY <1>1, <1>2

LEMMA ReplacedIsTree ==
  ASSUME NEW T, NEW U, NEW n, NEW G, NEW new, IsTree(T), Replaced(T, U, n, G, new),
         MaxNodes \in Nat
  PROVE  IsTree(U)
<1>0. Json!NullObject = 0 /\ Json!Root = 1
  BY DEF Json!NullObject, Json!Root
<1>1. Json!NullObject \notin new /\ Json!Root \notin new
  BY <1>0 DEF Replaced
<1>2. /\ {Json!NullObject, Json!Root} \subseteq DOMAIN U /\ DOMAIN U \subseteq 0..MaxNodes
  <2>1. DOMAIN U = (DOMAIN T \ G) \cup new /\ Json!NullObject \notin G /\ Json!Root \notin G /\ new \subseteq 2..MaxNodes
    BY DEF Replaced
  <2>2. {Json!NullObject, Json!Root} \subseteq DOMAIN T /\ DOMAIN T \subseteq 0..MaxNodes
    BY DEF IsTree
  <2>3. new \subseteq 0..MaxNodes
    BY <2>1
  <2>4. QED
    BY <2>1, <2>2, <2>3
<1>3. U[Json!NullObject] = Json!Leaf("null")
  BY DEF Replaced, IsTree
<1>4. ASSUME NEW m \in DOMAIN U PROVE IsNode(U[m])
  <2>1. m \in new \/ m = n \/ (m \in DOMAIN T \ G /\ m # n)
    BY DEF Replaced
  <2>2. CASE m \in DOMAIN T \ G /\ m # n
    BY <2>2 DEF Replaced, IsTree
  <2>3. QED
    BY <2>1, <2>2 DEF Replaced
<1>5. ASSUME NEW m, NEW k, NEW c, Holds(U, m, k, c)
      PROVE  c \in DOMAIN U /\ c # Json!NullObject /\ c # Json!Root
  <2>1. CASE c \in new
    BY <1>1, <2>1 DEF Replaced
  <2>2. CASE Holds(T, m, k, c) /\ c \notin G
    BY <2>2 DEF Replaced, IsTree
  <2>3. QED
    BY <1>5, <2>1, <2>2, ReplacedHolds
<1>6. ASSUME NEW m, NEW l, NEW j, NEW k, NEW c, Holds(U, m, j, c), Holds(U, l, k, c)
      PROVE  m = l /\ j = k
  <2>1. CASE c \in new
    BY <1>6, <2>1 DEF Replaced
  <2>2. CASE c \notin new
    <3>1. Holds(T, m, j, c) /\ Holds(T, l, k, c)
      BY <1>6, <2>2, ReplacedHolds
    <3>2. QED
      BY <3>1 DEF IsTree
  <2>3. QED
    BY <2>1, <2>2
<1>7. ASSUME NEW S \in SUBSET DOMAIN U, Json!Root \in S, Within(U, S), NEW m \in DOMAIN U
      PROVE  m = Json!NullObject \/ m \in S
  <2> DEFINE old == (S \ new) \cup G
  <2>1. old \subseteq DOMAIN T /\ Json!Root \in old
    BY <1>1, <1>7 DEF Replaced
  <2>2. ASSUME NEW l \in old, NEW k, NEW c, Holds(T, l, k, c) PROVE c \in old
    <3>1. CASE l \in G
      BY <2>2, <3>1 DEF Replaced, Within
    <3>2. CASE l \notin G
      <4>1. CASE c \in G
        BY <4>1
      <4>2. CASE c \notin G
        <5>1. Holds(U, l, k, c) /\ l \in S
          BY <2>2, <3>2, <4>2, ReplacedHolds
        <5>2. c \in S
          BY <1>7, <5>1 DEF Within
        <5>3. c \in DOMAIN T
          BY <2>2 DEF IsTree
        <5>4. c \notin new
          BY <4>2, <5>3 DEF Replaced
        <5>5. QED
          BY <5>2, <5>4
      <4>3. QED
        BY <4>1, <4>2
    <3>3. QED
      BY <3>1, <3>2
  <2>3. Within(T, old)
    BY <2>2 DEF Within
  <2>4. \A l \in DOMAIN T : l = Json!NullObject \/ l \in old
    BY <2>1, <2>3 DEF IsTree
  <2>5. n \in S
    BY <2>4 DEF Replaced
  <2>6. new \subseteq S
    BY <1>7, <2>5 DEF Replaced
  <2>7. CASE m \in new
    BY <2>6, <2>7
  <2>8. CASE m \notin new
    <3>1. m \in DOMAIN T /\ m \notin G
      BY <2>8 DEF Replaced
    <3>2. QED
      BY <2>4, <3>1
  <2>9. QED
    BY <2>7, <2>8
<1>8. QED
  BY <1>2, <1>3, <1>4, <1>5, <1>6, <1>7 DEF IsTree

-----------------------------------------------------------------------------
(* JsonTree: what a node owns *)

\* The nodes that only n's destructor frees.
LEMMA OwnedIs ==
  ASSUME IsTree(nodes), NEW n \in DOMAIN nodes
  PROVE  /\ n \in Json!Owned(n) /\ Json!Owned(n) \subseteq DOMAIN nodes /\ Within(nodes, Json!Owned(n))
         /\ \A m, k, c : Holds(nodes, m, k, c) /\ c \in Json!Owned(n) /\ c # n => m \in Json!Owned(n)
         /\ \A c \in Json!Owned(n) : c # n => \E m \in Json!Owned(n) : \E k : Holds(nodes, m, k, c)
<1>1. ASSUME NEW S \in SUBSET DOMAIN nodes PROVE Json!Closed(S) <=> Within(nodes, S)
  BY DEF Json!Closed, Json!ChildrenOf, Within, Holds
<1>2. Within(nodes, DOMAIN nodes)
  BY DEF Within, IsTree
<1>3. \A c : c \in Json!Owned(n) <=>
           c \in DOMAIN nodes /\ \A S \in SUBSET DOMAIN nodes : n \in S /\ Within(nodes, S) => c \in S
  BY <1>1 DEF Json!Owned
<1>4. n \in Json!Owned(n) /\ Json!Owned(n) \subseteq DOMAIN nodes
  BY <1>3
<1>5. Within(nodes, Json!Owned(n))
  <2> SUFFICES ASSUME NEW m \in Json!Owned(n), NEW k, NEW c, Holds(nodes, m, k, c) PROVE c \in Json!Owned(n)
    BY DEF Within
  <2>1. c \in DOMAIN nodes
    BY DEF IsTree
  <2>2. ASSUME NEW S \in SUBSET DOMAIN nodes, n \in S, Within(nodes, S) PROVE c \in S
    <3>1. m \in S
      BY <1>3, <2>2
    <3>2. QED
      BY <2>2, <3>1 DEF Within
  <2>3. QED
    BY <1>3, <2>1, <2>2
<1>6. ASSUME NEW c \in Json!Owned(n), c # n PROVE \E m \in Json!Owned(n) : \E k : Holds(nodes, m, k, c)
  <2>1. SUFFICES ASSUME ~\E m \in Json!Owned(n) : \E k : Holds(nodes, m, k, c) PROVE FALSE
    OBVIOUS
  <2> DEFINE S == Json!Owned(n) \ {c}
  <2>2. S \in SUBSET DOMAIN nodes /\ n \in S
    BY <1>4, <1>6
  <2>3. Within(nodes, S)
    BY <1>5, <2>1 DEF Within
  <2>4. c \in S
    BY <1>3, <2>2, <2>3
  <2>5. QED
    BY <2>4
<1>7. ASSUME NEW m, NEW k, NEW c, Holds(nodes, m, k, c), c \in Json!Owned(n), c # n PROVE m \in Json!Owned(n)
  <2>1. PICK l \in Json!Owned(n) : \E j : Holds(nodes, l, j, c)
    BY <1>6, <1>7
  <2>2. PICK j : Holds(nodes, l, j, c)
    BY <2>1
  <2>3. l = m
    BY <1>7, <2>2 DEF IsTree
  <2>4. QED
    BY <2>1, <2>3
<1>8. QED
  BY <1>4, <1>5, <1>6, <1>7

\* Nobody is owned by what it owns, and the root and the NullObject by nobody.
LEMMA OwnedIsBelow ==
  ASSUME IsTree(nodes), NEW n \in DOMAIN nodes, n # Json!NullObject
  PROVE  /\ \A m, k : Holds(nodes, m, k, n) => m \notin Json!Owned(n)
         /\ \A c \in Json!Owned(n) : c # n => c # Json!NullObject /\ c # Json!Root
<1>1. /\ n \in Json!Owned(n) /\ Json!Owned(n) \subseteq DOMAIN nodes /\ Within(nodes, Json!Owned(n))
      /\ \A m, k, c : Holds(nodes, m, k, c) /\ c \in Json!Owned(n) /\ c # n => m \in Json!Owned(n)
      /\ \A c \in Json!Owned(n) : c # n => \E m \in Json!Owned(n) : \E k : Holds(nodes, m, k, c)
  BY OwnedIs
<1>2. \A c \in Json!Owned(n) : c # n => c # Json!NullObject /\ c # Json!Root
  BY <1>1 DEF IsTree
<1>3. ASSUME NEW m, NEW k, Holds(nodes, m, k, n), m \in Json!Owned(n) PROVE FALSE
  <2> DEFINE S == DOMAIN nodes \ Json!Owned(n)
  <2>1. n # Json!Root
    BY <1>3 DEF IsTree
  <2>2. Json!Root \in S
    BY <1>2, <2>1 DEF IsTree
  <2>3. ASSUME NEW l \in S, NEW j, NEW c, Holds(nodes, l, j, c) PROVE c \in S
    <3>1. c \in DOMAIN nodes
      BY <2>3 DEF IsTree
    <3>2. CASE c = n
      <4>1. l = m
        BY <1>3, <2>3, <3>2 DEF IsTree
      <4>2. QED
        BY <1>3, <4>1
    <3>3. CASE c # n /\ c \in Json!Owned(n)
      BY <1>1, <2>3, <3>3
    <3>4. QED
      BY <3>1, <3>2, <3>3
  <2>4. Within(nodes, S)
    BY <2>3 DEF Within
  <2>5. n \in S
    BY <2>2, <2>4 DEF IsTree
  <2>6. QED
    BY <1>1, <2>5
<1>4. QED
  BY <1>2, <1>3

-----------------------------------------------------------------------------
(* JsonTree: the ways to a node *)

Names == Keys \cup Nat

\* The nodes that are met on the way from the root.
IsWay(T, path, f) ==
  /\ path \in Seq(Names) /\ f[0] = Json!Root
  /\ \A i \in 1..Len(path) : Holds(T, f[i - 1], path[i], f[i])

Leads(T, path, n) == \E f : IsWay(T, path, f) /\ f[Len(path)] = n

LEMMA NodesOfWay ==
  ASSUME NEW T, IsTree(T), NEW path, NEW f, IsWay(T, path, f), NEW i \in 0..Len(path)
  PROVE  f[i] \in DOMAIN T /\ f[i] # Json!NullObject
<1>1. Len(path) \in Nat
  BY DEF IsWay
<1>2. CASE i = 0
  BY <1>2 DEF IsWay, IsTree, Json!NullObject, Json!Root
<1>3. CASE i # 0
  <2>1. i \in 1..Len(path)
    BY <1>1, <1>3
  <2>2. Holds(T, f[i - 1], path[i], f[i])
    BY <2>1 DEF IsWay
  <2>3. QED
    BY <2>2 DEF IsTree
<1>4. QED
  BY <1>2, <1>3

\* Only one way leads to a node.
LEMMA OneWay ==
  ASSUME NEW T, IsTree(T), NEW p, NEW q, NEW f, NEW g, IsWay(T, p, f), IsWay(T, q, g),
         NEW i \in 0..Len(p), NEW j \in 0..Len(q), f[i] = g[j]
  PROVE  i = j /\ \A l \in 1..i : p[l] = q[l]
<1> DEFINE Same(a, b) == a = b /\ \A l \in 1..a : p[l] = q[l]
           Bad == {a \in Nat : a <= Len(p) /\ \E b \in 0..Len(q) : f[a] = g[b] /\ ~Same(a, b)}
<1>1. Len(p) \in Nat /\ Len(q) \in Nat
  BY DEF IsWay
<1>2. ASSUME Bad # {} PROVE FALSE
  <2>1. PICK n \in Bad : \A m \in Bad : n <= m
    BY <1>2, LeastOf
  <2>2. PICK b \in 0..Len(q) : f[n] = g[b] /\ ~Same(n, b)
    BY <2>1
  <2>3. n \in Nat /\ n <= Len(p)
    BY <2>1
  <2>4. f[0] = Json!Root /\ g[0] = Json!Root
    BY DEF IsWay
  <2>5. \A a \in 1..Len(p) : Holds(T, f[a - 1], p[a], f[a]) /\ f[a] # Json!Root
    BY DEF IsWay, IsTree
  <2>6. \A a \in 1..Len(q) : Holds(T, g[a - 1], q[a], g[a]) /\ g[a] # Json!Root
    BY DEF IsWay, IsTree
  <2>7. CASE n = 0
    <3>1. b = 0
      BY <1>1, <2>2, <2>4, <2>6, <2>7
    <3>2. QED
      BY <2>2, <2>7, <3>1
  <2>8. CASE n # 0
    <3>1. n \in 1..Len(p) /\ n - 1 \in Nat /\ n - 1 <= Len(p) /\ ~(n <= n - 1)
      BY <1>1, <2>3, <2>8
    <3>2. b # 0
      BY <2>2, <2>4, <2>5, <3>1
    <3>3. b \in 1..Len(q) /\ b - 1 \in 0..Len(q)
      BY <1>1, <3>2
    <3>4. f[n - 1] = g[b - 1] /\ p[n] = q[b]
      <4>1. Holds(T, f[n - 1], p[n], f[n])
        BY <2>5, <3>1
      <4>2. Holds(T, g[b - 1], q[b], f[n])
        BY <2>2, <2>6, <3>3
      <4>3. QED
        BY <4>1, <4>2 DEF IsTree
    <3>5. n - 1 \notin Bad
      BY <2>1, <3>1
    <3>6. Same(n - 1, b - 1)
      BY <3>1, <3>3, <3>4, <3>5
    <3>7. n = b
      BY <2>3, <3>3, <3>6
    <3>8. \A l \in 1..n : l = n \/ l \in 1..(n - 1)
      BY <2>3
    <3>9. Same(n, b)
      BY <3>4, <3>6, <3>7, <3>8
    <3>10. QED
      BY <2>2, <3>9
  <2>9. QED
    BY <2>7, <2>8
<1>3. i \in Nat /\ i <= Len(p)
  BY <1>1
<1>4. QED
  BY <1>2, <1>3

\* One child further.
LEMMA WayExtended ==
  ASSUME NEW T, NEW path, NEW n, Leads(T, path, n), NEW k \in Names, NEW c, Holds(T, n, k, c)
  PROVE  Leads(T, Append(path, k), c)
<1>1. PICK f : IsWay(T, path, f) /\ f[Len(path)] = n
  BY DEF Leads
<1> DEFINE more == Append(path, k)
           g == [i \in 0..(Len(path) + 1) |-> IF i = Len(path) + 1 THEN c ELSE f[i]]
<1>2. /\ Len(path) \in Nat /\ more \in Seq(Names) /\ Len(more) = Len(path) + 1
      /\ more[Len(path) + 1] = k /\ \A i \in 1..Len(path) : more[i] = path[i]
  BY <1>1 DEF IsWay
<1>3. /\ g[0] = f[0] /\ g[Len(path) + 1] = c
      /\ \A i \in 0..Len(path) : g[i] = f[i]
  BY <1>2
<1> HIDE DEF more, g
<1>4. ASSUME NEW i \in 1..Len(more) PROVE Holds(T, g[i - 1], more[i], g[i])
  <2>1. CASE i = Len(path) + 1
    <3>1. i - 1 = Len(path) /\ Len(path) \in 0..Len(path)
      BY <1>2, <2>1
    <3>2. g[i - 1] = n
      BY <1>1, <1>3, <3>1
    <3>3. QED
      BY <1>2, <1>3, <2>1, <3>2
  <2>2. CASE i # Len(path) + 1
    <3>1. i \in 1..Len(path) /\ i \in 0..Len(path) /\ i - 1 \in 0..Len(path)
      BY <1>2, <2>2
    <3>2. Holds(T, f[i - 1], path[i], f[i])
      BY <1>1, <3>1 DEF IsWay
    <3>3. QED
      BY <1>2, <1>3, <3>1, <3>2
  <2>3. QED
    BY <2>1, <2>2
<1>5. IsWay(T, more, g)
  BY <1>1, <1>2, <1>3, <1>4 DEF IsWay
<1>6. QED
  BY <1>2, <1>3, <1>5 DEF Leads, more

\* A way stays that does not go over what has been freed.
LEMMA WayKept ==
  ASSUME NEW T, NEW U, NEW n, NEW G, NEW new, IsTree(T), Replaced(T, U, n, G, new),
         NEW path, NEW f, IsWay(T, path, f),
         \A i \in 1..Len(path) : f[i - 1] = n => f[i] \notin G
  PROVE  IsWay(U, path, f)
<1> DEFINE Bad == {i \in Nat : i <= Len(path) /\ f[i] \in G}
<1>1. Len(path) \in Nat /\ f[0] = Json!Root
  BY DEF IsWay
<1>2. ASSUME Bad # {} PROVE FALSE
  <2>1. PICK i \in Bad : \A m \in Bad : i <= m
    BY <1>2, LeastOf
  <2>2. i \in Nat /\ i <= Len(path) /\ f[i] \in G
    BY <2>1
  <2>3. i # 0
    BY <1>1, <2>2 DEF Replaced
  <2>4. i \in 1..Len(path) /\ i - 1 \in Nat /\ i - 1 <= Len(path) /\ ~(i <= i - 1)
    BY <1>1, <2>2, <2>3
  <2>5. f[i - 1] \notin G
    BY <2>1, <2>4
  <2>6. Holds(T, f[i - 1], path[i], f[i])
    BY <2>4 DEF IsWay
  <2>7. f[i - 1] = n
    BY <2>2, <2>5, <2>6 DEF Replaced
  <2>8. QED
    BY <2>2, <2>4, <2>7
<1>3. ASSUME NEW i \in 1..Len(path) PROVE Holds(U, f[i - 1], path[i], f[i])
  <2>1. i \in Nat /\ i - 1 \in Nat /\ i <= Len(path) /\ i - 1 <= Len(path)
    BY <1>1
  <2>2. f[i] \notin G /\ f[i - 1] \notin G
    BY <1>2, <2>1
  <2>3. Holds(T, f[i - 1], path[i], f[i])
    BY DEF IsWay
  <2>4. QED
    BY <2>2, <2>3, ReplacedHolds
<1>4. QED
  BY <1>3 DEF IsWay

\* The accesses go the way.
LEMMA NavigateIs ==
  ASSUME IsTree(nodes), NEW path, NEW n, Leads(nodes, path, n)
  PROVE  Json!Navigate(path) = n
<1>1. PICK f : IsWay(nodes, path, f) /\ f[Len(path)] = n
  BY DEF Leads
<1>2. Len(path) \in Nat
  BY <1>1 DEF IsWay
<1>3. ASSUME NEW i \in 1..Len(path) PROVE f[i] = Json!Child(f[i - 1], path[i])
  <2>1. Holds(nodes, f[i - 1], path[i], f[i])
    BY <1>1 DEF IsWay
  <2>2. QED
    BY <2>1 DEF Holds, Json!Child
<1> DEFINE step(g) == [i \in 0..Len(path) |-> IF i = 0 THEN Json!Root ELSE Json!Child(g[i - 1], path[i])]
           way == [i \in 0..Len(path) |-> f[i]]
           at == CHOOSE g : g = step(g)
<1>4. way = step(way)
  <2>1. ASSUME NEW i \in 0..Len(path)
        PROVE  way[i] = IF i = 0 THEN Json!Root ELSE Json!Child(way[i - 1], path[i])
    <3>1. CASE i = 0
      BY <1>1, <3>1 DEF IsWay
    <3>2. CASE i # 0
      <4>1. i \in 1..Len(path) /\ i - 1 \in 0..Len(path)
        BY <1>2, <3>2
      <4>2. way[i - 1] = f[i - 1] /\ way[i] = f[i]
        BY <4>1
      <4>3. QED
        BY <1>3, <3>2, <4>1, <4>2
    <3>3. QED
      BY <3>1, <3>2
  <2>2. QED
    BY <2>1
<1>5. at = step(at)
  BY <1>4
<1>6. Json!Navigate(path) = at[Len(path)]
  BY DEF Json!Navigate
<1>7. \A i \in 0..Len(path) : at[i] = IF i = 0 THEN Json!Root ELSE Json!Child(at[i - 1], path[i])
  BY <1>5
<1> HIDE DEF at, step, way
<1> DEFINE Bad == {i \in Nat : i <= Len(path) /\ at[i] # f[i]}
<1>8. ASSUME Bad # {} PROVE FALSE
  <2>1. PICK i \in Bad : \A m \in Bad : i <= m
    BY <1>8, LeastOf
  <2>2. i \in Nat /\ i <= Len(path) /\ at[i] # f[i] /\ i \in 0..Len(path)
    BY <1>2, <2>1
  <2>3. i # 0
    BY <1>1, <1>7, <2>2 DEF IsWay
  <2>4. i \in 1..Len(path) /\ i - 1 \in Nat /\ i - 1 <= Len(path) /\ ~(i <= i - 1)
    BY <1>2, <2>2, <2>3
  <2>5. at[i - 1] = f[i - 1]
    BY <2>1, <2>4
  <2>6. QED
    BY <1>3, <1>7, <2>2, <2>3, <2>4, <2>5
<1>9. at[Len(path)] = f[Len(path)]
  BY <1>2, <1>8
<1>10. QED
  BY <1>1, <1>6, <1>9

-----------------------------------------------------------------------------
(* JsonTree: the invariant *)

IsHeld(ref) == Leads(nodes, ref.path, ref.node)

JsonInv == IsTree(nodes) /\ \A ref \in held : IsHeld(ref)

\* Where there is room, there is a node that is free.
LEMMA FreeNode ==
  ASSUME Json!JsonTreeAssumption, NEW S, S \subseteq 0..MaxNodes, Json!NullObject \in S, Json!Root \in S,
         Cardinality(S) <= MaxNodes
  PROVE  \E n \in 2..MaxNodes : n \notin S
<1>1. MaxNodes \in Nat /\ Json!NullObject = 0 /\ Json!Root = 1
  BY DEF Json!JsonTreeAssumption, Json!NullObject, Json!Root
<1>2. IsFiniteSet(0..MaxNodes) /\ Cardinality(0..MaxNodes) = MaxNodes + 1
  BY <1>1, FS_Interval
<1>3. S # 0..MaxNodes
  BY <1>1, <1>2
<1>4. PICK n \in 0..MaxNodes : n \notin S
  BY <1>3
<1>5. n \in 2..MaxNodes
  BY <1>1, <1>4
<1>6. QED
  BY <1>4, <1>5

\* No shape has more than one child.
LEMMA ShapeIs ==
  ASSUME NEW shape \in Json!Shapes
  PROVE  /\ shape.type \in {"null", "scalar", "array", "object"}
         /\ \/ shape.names = {}
            \/ shape.type = "array" /\ shape.names = {0}
            \/ shape.type = "object" /\ \E k \in Keys : shape.names = {k}
BY DEF Json!Shapes

LEMMA LeafIsNode ==
  ASSUME NEW type \in {"null", "scalar", "array"}
  PROVE  IsNode(Json!Leaf(type)) /\ DOMAIN Json!Leaf(type).children = {} /\ Json!Leaf(type).type = type
<1>1. DOMAIN Json!Leaf(type).children = {} /\ Json!Leaf(type).type = type
  BY DEF Json!Leaf
<1>2. 0 \in Nat /\ 0..(0 - 1) = {}
  OBVIOUS
<1>3. QED
  BY <1>1, <1>2 DEF IsNode

\* U is T with that shape at n, its scalars in memory that was free.
GrownAs(T, n, shape, U, at) ==
  LET new == {at[k] : k \in shape.names}
  IN /\ new \subseteq 2..MaxNodes \ (DOMAIN T \cup {n})
     /\ DOMAIN at = shape.names
     /\ \A j, k \in shape.names : at[j] = at[k] => j = k
     /\ DOMAIN U = DOMAIN T \cup {n} \cup new
     /\ U[n] = [type |-> shape.type, children |-> at] /\ IsNode(U[n])
     /\ \A m \in new : U[m] = Json!Leaf("scalar")
     /\ \A m \in DOMAIN T : m # n => U[m] = T[m]

LEMMA GrownIs ==
  ASSUME NEW T, NEW n, NEW shape \in Json!Shapes,
         shape.names # {} => \E m \in 2..MaxNodes : m \notin DOMAIN T /\ m # n
  PROVE  \E at : GrownAs(T, n, shape, Json!Grown(T, n, shape), at)
<1> DEFINE free == 2..MaxNodes \ (DOMAIN T \cup {n})
           Apart(f) == \A j, k \in shape.names : j # k => f[j] # f[k]
           at == CHOOSE f \in [shape.names -> free] : Apart(f)
           new == {at[k] : k \in shape.names}
           U == Json!Grown(T, n, shape)
<1>1. \A j, k \in shape.names : j = k
  BY ShapeIs
<1>2. \E f \in [shape.names -> free] : Apart(f)
  <2>1. CASE shape.names = {}
    <3>1. [k \in shape.names |-> 0] \in [shape.names -> free]
      BY <2>1
    <3>2. QED
      BY <2>1, <3>1
  <2>2. CASE shape.names # {}
    <3>1. PICK m \in free : TRUE
      BY <2>2
    <3>2. [k \in shape.names |-> m] \in [shape.names -> free]
      BY <3>1
    <3>3. QED
      BY <1>1, <3>2
  <2>3. QED
    BY <2>1, <2>2
<1>3. at \in [shape.names -> free]
  <2> HIDE DEF Apart, free
  <2>1. QED
    BY <1>2
<1>4. U = [m \in DOMAIN T \cup {n} \cup new |->
             IF m = n THEN [type |-> shape.type, children |-> at]
             ELSE IF m \in new THEN Json!Leaf("scalar") ELSE T[m]]
  BY DEF Json!Grown
<1> HIDE DEF at, U
<1>5. new \subseteq free /\ n \notin new /\ DOMAIN at = shape.names
  BY <1>3
<1>6. /\ DOMAIN U = DOMAIN T \cup {n} \cup new
      /\ U[n] = [type |-> shape.type, children |-> at]
      /\ \A m \in new : U[m] = Json!Leaf("scalar")
      /\ \A m \in DOMAIN T : m # n => U[m] = T[m]
  <2> HIDE DEF new
  <2>1. \A m \in DOMAIN T : m \notin new
    BY <1>5
  <2>2. QED
    BY <1>4, <1>5, <2>1
<1>7. IsNode([type |-> shape.type, children |-> at])
  <2> DEFINE node == [type |-> shape.type, children |-> at]
  <2>1. node.type = shape.type /\ DOMAIN node.children = shape.names
    BY <1>5
  <2> HIDE DEF node
  <2>2. 0..(0 - 1) = {} /\ 0..(1 - 1) = {0}
    OBVIOUS
  <2>3. shape.type = "array" => \E a \in Nat : shape.names = 0..(a - 1)
    BY <2>2, ShapeIs
  <2>4. shape.type \in {"null", "scalar"} => shape.names = {}
    BY ShapeIs
  <2>5. shape.type = "object" => shape.names \subseteq Keys
    BY ShapeIs
  <2>6. IsNode(node)
    BY <2>1, <2>3, <2>4, <2>5, ShapeIs DEF IsNode
  <2>7. QED
    BY <2>6 DEF node
<1>8. GrownAs(T, n, shape, U, at)
  BY <1>1, <1>5, <1>6, <1>7 DEF GrownAs
<1>9. QED
  BY <1>8 DEF U

\* A new value: everything that n owned is freed.
LEMMA OverwriteReplaces ==
  ASSUME Json!JsonTreeAssumption, IsTree(nodes), NEW ref, ref.node \in DOMAIN nodes, ref.node # Json!NullObject,
         NEW shape \in Json!Shapes, Json!Overwrite(ref, shape)
  PROVE  \E new : Replaced(nodes, nodes', ref.node, Json!Owned(ref.node) \ {ref.node}, new)
<1> DEFINE n == ref.node
           G == Json!Owned(n) \ {n}
           kept == DOMAIN nodes \ G
           T == Json!Without(G)
           U == nodes'
<1>1. n \in DOMAIN nodes /\ n # Json!NullObject /\ MaxNodes \in Nat
  BY DEF Json!JsonTreeAssumption
<1>2. U = Json!Grown(T, n, shape) /\ Json!Room(G, Json!Cardinality(shape.names))
  BY DEF Json!Overwrite
<1>3. /\ n \in Json!Owned(n) /\ Json!Owned(n) \subseteq DOMAIN nodes /\ Within(nodes, Json!Owned(n))
      /\ \A m, k, c : Holds(nodes, m, k, c) /\ c \in Json!Owned(n) /\ c # n => m \in Json!Owned(n)
  BY <1>1, OwnedIs
<1>4. /\ \A m, k : Holds(nodes, m, k, n) => m \notin Json!Owned(n)
      /\ \A c \in Json!Owned(n) : c # n => c # Json!NullObject /\ c # Json!Root
  BY <1>1, OwnedIsBelow
<1>5. DOMAIN T = kept /\ \A m \in kept : T[m] = nodes[m]
  BY DEF Json!Without
<1>6. Json!NullObject \in kept /\ Json!Root \in kept /\ n \in kept /\ kept \subseteq 0..MaxNodes
  <2>1. Json!NullObject \in DOMAIN nodes /\ Json!Root \in DOMAIN nodes /\ DOMAIN nodes \subseteq 0..MaxNodes
    BY DEF IsTree
  <2>2. QED
    BY <1>1, <1>4, <2>1
<1>7. shape.names # {} => \E m \in 2..MaxNodes : m \notin DOMAIN T /\ m # n
  <2> SUFFICES ASSUME shape.names # {} PROVE \E m \in 2..MaxNodes : m \notin DOMAIN T /\ m # n
    OBVIOUS
  <2>1. PICK k : shape.names = {k}
    BY ShapeIs
  <2>2. Cardinality(shape.names) = 1
    BY <2>1, FS_Singleton
  <2>3. IsFiniteSet(kept) /\ Cardinality(kept) \in Nat
    <3>1. IsFiniteSet(0..MaxNodes)
      BY <1>1, FS_Interval
    <3>2. QED
      BY <1>6, <3>1, FS_Subset, FS_CardinalityType
  <2>4. Cardinality(kept) <= MaxNodes
    <3>1. Cardinality(kept) + 1 <= MaxNodes + 1
      BY <1>2, <2>2, JsonCounts DEF Json!Room
    <3>2. QED
      BY <1>1, <2>3, <3>1
  <2>5. QED
    BY <1>5, <1>6, <2>4, FreeNode
<1> HIDE DEF G, T, U
<1>8. PICK at : GrownAs(T, n, shape, U, at)
  BY <1>2, <1>7, GrownIs
<1> DEFINE new == {at[k] : k \in shape.names}
<1>9. /\ new \subseteq 2..MaxNodes /\ new \cap kept = {} /\ DOMAIN U = kept \cup new
      /\ \A m \in kept : m # n => U[m] = nodes[m]
      /\ IsNode(U[n]) /\ \A m \in new : U[m] = Json!Leaf("scalar")
  BY <1>5, <1>6, <1>8 DEF GrownAs
<1>10. \A k, c : Holds(U, n, k, c) <=> k \in shape.names /\ c = at[k]
  BY <1>6, <1>8, <1>9 DEF Holds, GrownAs
<1>11. \A m \in new : IsNode(U[m]) /\ \A k, c : ~Holds(U, m, k, c)
  BY <1>9, LeafIsNode DEF Holds
<1>12. \A k, c : Holds(nodes, n, k, c) => c \in G
  <2>1. ASSUME NEW k, NEW c, Holds(nodes, n, k, c) PROVE c \in G
    <3>1. c \in Json!Owned(n)
      BY <1>3, <2>1 DEF Within
    <3>2. c # n
      BY <1>3, <1>4, <2>1
    <3>3. QED
      BY <3>1, <3>2 DEF G
  <2>2. QED
    BY <2>1
<1>13. Within(nodes, G)
  <2> SUFFICES ASSUME NEW m \in G, NEW k, NEW c, Holds(nodes, m, k, c) PROVE c \in G
    BY DEF Within
  <2>1. c \in Json!Owned(n)
    BY <1>3 DEF Within, G
  <2>2. c # n
    BY <1>4 DEF G
  <2>3. QED
    BY <2>1, <2>2 DEF G
<1>14. \A m, k, c : Holds(nodes, m, k, c) /\ c \in G => m = n \/ m \in G
  BY <1>3 DEF G
<1>15. ASSUME NEW l, NEW j, NEW c \in new, Holds(U, l, j, c) PROVE l = n
  <2>1. l \in kept
    BY <1>9, <1>11, <1>15 DEF Holds
  <2>2. SUFFICES ASSUME l # n PROVE FALSE
    OBVIOUS
  <2>3. Holds(nodes, l, j, c)
    BY <1>9, <1>15, <2>1, <2>2 DEF Holds
  <2>4. c \in G
    BY <1>9, <2>3 DEF IsTree
  <2>5. QED
    BY <1>14, <2>1, <2>2, <2>3, <2>4
<1>16. ASSUME NEW l, NEW m, NEW j, NEW k, NEW c, c \in new, Holds(U, l, j, c), Holds(U, m, k, c)
       PROVE  l = m /\ j = k
  <2>1. l = n /\ m = n
    BY <1>15, <1>16
  <2>2. QED
    BY <1>8, <1>10, <1>16, <2>1 DEF GrownAs
<1>17. ASSUME NEW S \in SUBSET DOMAIN U, n \in S, Within(U, S) PROVE new \subseteq S
  <2> SUFFICES ASSUME NEW k \in shape.names PROVE at[k] \in S
    OBVIOUS
  <2>1. Holds(U, n, k, at[k])
    BY <1>10
  <2>2. QED
    BY <1>17, <2>1 DEF Within
<1>18. G \subseteq DOMAIN nodes /\ n \notin G /\ Json!NullObject \notin G /\ Json!Root \notin G
  BY <1>3, <1>6 DEF G
<1>19. \A k, c : Holds(U, n, k, c) => c \in new
  BY <1>10
<1> HIDE DEF new
<1>20. Replaced(nodes, U, n, G, new)
  BY <1>1, <1>9, <1>11, <1>12, <1>13, <1>14, <1>16, <1>17, <1>18, <1>19, Zenon DEF Replaced
<1>21. QED
  BY <1>20 DEF U, G

\* What is freed when n gets another child under k.
Displaced(n, k) == IF k \in DOMAIN nodes[n].children THEN Json!Owned(nodes[n].children[k]) ELSE {}

\* It is below n, and what n's other children own stays.
LEMMA DisplacedIs ==
  ASSUME IsTree(nodes), NEW n \in DOMAIN nodes, NEW k
  PROVE  /\ Displaced(n, k) \subseteq DOMAIN nodes /\ Within(nodes, Displaced(n, k))
         /\ n \notin Displaced(n, k) /\ Json!NullObject \notin Displaced(n, k) /\ Json!Root \notin Displaced(n, k)
         /\ \A m, j, c : Holds(nodes, m, j, c) /\ c \in Displaced(n, k) /\ m \notin Displaced(n, k)
                           => m = n /\ j = k
         /\ \A c : Holds(nodes, n, k, c) => c \in Displaced(n, k)
<1>1. CASE k \notin DOMAIN nodes[n].children
  BY <1>1 DEF Displaced, Within, Holds
<1>2. CASE k \in DOMAIN nodes[n].children
  <2> DEFINE d == nodes[n].children[k]
             G == Json!Owned(d)
  <2>1. Holds(nodes, n, k, d) /\ Displaced(n, k) = G
    BY <1>2 DEF Holds, Displaced
  <2> HIDE DEF d
  <2>2. d \in DOMAIN nodes /\ d # Json!NullObject /\ d # Json!Root
    BY <2>1 DEF IsTree
  <2>3. /\ d \in G /\ G \subseteq DOMAIN nodes /\ Within(nodes, G)
        /\ \A m, j, c : Holds(nodes, m, j, c) /\ c \in G /\ c # d => m \in G
    BY <2>2, OwnedIs
  <2>4. /\ n \notin G
        /\ \A c \in G : c # d => c # Json!NullObject /\ c # Json!Root
    BY <2>1, <2>2, OwnedIsBelow
  <2> HIDE DEF G
  <2>5. ASSUME NEW m, NEW j, NEW c, Holds(nodes, m, j, c), c \in G, m \notin G PROVE m = n /\ j = k
    <3>1. c = d
      BY <2>3, <2>5
    <3>2. QED
      BY <2>1, <2>5, <3>1 DEF IsTree
  <2>6. ASSUME NEW c, Holds(nodes, n, k, c) PROVE c \in G
    BY <2>1, <2>3, <2>6 DEF Holds
  <2>7. QED
    BY <2>1, <2>2, <2>3, <2>4, <2>5, <2>6
<1>3. QED
  BY <1>1, <1>2

LEMMA LeastNode ==
  ASSUME NEW S, S \subseteq Nat, S # {}
  PROVE  Json!Min(S) \in S
<1>1. \E n \in S : \A m \in S : n <= m
  BY LeastOf
<1>2. QED
  BY <1>1 DEF Json!Min

\* A child more, or another one: what was under k is freed.
LEMMA PlaceReplaces ==
  ASSUME Json!JsonTreeAssumption, IsTree(nodes), NEW ref, ref.node \in DOMAIN nodes,
         NEW container, NEW k, NEW shape \in Json!Shapes, NEW outlive,
         Json!Place(ref, container, k, shape, outlive),
         ASSUME NEW node, DOMAIN node.children = DOMAIN nodes[ref.node].children \cup {k},
                node.type = container
         PROVE  IsNode(node)
  PROVE  \E new, c : /\ Replaced(nodes, nodes', ref.node, Displaced(ref.node, k), new)
                     /\ Holds(nodes', ref.node, k, c)
                     /\ held' \subseteq outlive \cup {[node |-> c, path |-> Append(ref.path, k)]}
<1> DEFINE n == ref.node
           G == Displaced(n, k)
           kept == DOMAIN nodes \ G
           first == Json!Min(2..MaxNodes \ DOMAIN nodes)
           all == Json!Grown(nodes, first, shape)
           U == nodes'
<1>1. n \in DOMAIN nodes /\ n # Json!NullObject /\ MaxNodes \in Nat /\ Cardinality(DOMAIN nodes) \in Nat
      /\ Json!NullObject \in DOMAIN nodes /\ Json!Root \in DOMAIN nodes /\ DOMAIN nodes \subseteq 0..MaxNodes
  <2>1. MaxNodes \in Nat /\ DOMAIN nodes \subseteq 0..MaxNodes
    BY DEF Json!JsonTreeAssumption, IsTree
  <2>2. Cardinality(DOMAIN nodes) \in Nat
    <3>1. IsFiniteSet(0..MaxNodes)
      BY <2>1, FS_Interval
    <3>2. QED
      BY <2>1, <3>1, FS_Subset, FS_CardinalityType
  <2>3. QED
    BY <2>1, <2>2 DEF Json!Place, Json!MayChange, IsTree
<1>2. /\ G \subseteq DOMAIN nodes /\ Within(nodes, G) /\ n \notin G /\ Json!NullObject \notin G /\ Json!Root \notin G
      /\ \A m, j, c : Holds(nodes, m, j, c) /\ c \in G /\ m \notin G => m = n /\ j = k
      /\ \A c : Holds(nodes, n, k, c) => c \in G
  BY <1>1, DisplacedIs
<1>3. /\ Json!Room({}, 1 + Json!Cardinality(shape.names))
      /\ U = [[m \in DOMAIN all \ G |-> all[m]] EXCEPT
                ![n] = [type |-> container, children |-> Json!Put(@.children, k, first)]]
      /\ held' \subseteq outlive \cup {[node |-> first, path |-> Append(ref.path, k)]}
  BY DEF Json!Place, Displaced
<1>4. Cardinality(DOMAIN nodes) + (1 + Cardinality(shape.names)) <= MaxNodes + 1
  <2>1. DOMAIN nodes \ {} = DOMAIN nodes
    OBVIOUS
  <2>2. QED
    BY <1>3, <2>1, JsonCounts DEF Json!Room
<1>5. IsFiniteSet(shape.names) /\ Cardinality(shape.names) \in Nat
      /\ (shape.names # {} => Cardinality(shape.names) = 1)
  <2>1. CASE shape.names = {}
    BY <2>1, FS_EmptySet
  <2>2. CASE shape.names # {}
    <3>1. PICK a : shape.names = {a}
      BY <2>2, ShapeIs
    <3>2. IsFiniteSet({a}) /\ Cardinality({a}) = 1
      BY FS_Singleton
    <3>3. QED
      BY <3>1, <3>2
  <2>3. QED
    BY <2>1, <2>2
<1>6. first \in 2..MaxNodes /\ first \notin DOMAIN nodes
  <2>1. Cardinality(DOMAIN nodes) <= MaxNodes
    BY <1>1, <1>4, <1>5
  <2>2. 2..MaxNodes \ DOMAIN nodes # {}
    BY <1>1, <2>1, FreeNode
  <2>3. 2..MaxNodes \ DOMAIN nodes \subseteq Nat
    OBVIOUS
  <2>4. QED
    BY <2>2, <2>3, LeastNode
<1>7. shape.names # {} => \E m \in 2..MaxNodes : m \notin DOMAIN nodes /\ m # first
  <2> SUFFICES ASSUME shape.names # {} PROVE \E m \in 2..MaxNodes : m \notin DOMAIN nodes /\ m # first
    OBVIOUS
  <2> DEFINE S == DOMAIN nodes \cup {first}
  <2>1. IsFiniteSet(DOMAIN nodes)
    <3>1. MaxNodes \in Int /\ 0 \in Int
      BY <1>1
    <3>2. IsFiniteSet(0..MaxNodes)
      BY <3>1, FS_Interval
    <3>3. DOMAIN nodes \subseteq 0..MaxNodes
      BY <1>1 DEF IsTree
    <3>4. QED
      BY <3>2, <3>3, FS_Subset
  <2>2. Cardinality(S) = Cardinality(DOMAIN nodes) + 1
    BY <1>6, <2>1, FS_AddElement
  <2>3. Cardinality(S) <= MaxNodes
    BY <1>1, <1>4, <1>5, <2>2
  <2>4. S \subseteq 0..MaxNodes /\ Json!NullObject \in S /\ Json!Root \in S
    BY <1>1, <1>6
  <2>5. PICK m \in 2..MaxNodes : m \notin S
    BY <2>3, <2>4, FreeNode
  <2>6. QED
    BY <2>5
<1> HIDE DEF G, first, all, U
<1>8. PICK at : GrownAs(nodes, first, shape, all, at)
  BY <1>7, GrownIs DEF all
<1> DEFINE scalars == {at[j] : j \in shape.names}
           new == {first} \cup scalars
<1>9. /\ scalars \subseteq 2..MaxNodes \ (DOMAIN nodes \cup {first}) /\ DOMAIN at = shape.names
      /\ \A i, j \in shape.names : at[i] = at[j] => i = j
      /\ DOMAIN all = DOMAIN nodes \cup {first} \cup scalars
      /\ all[first] = [type |-> shape.type, children |-> at] /\ IsNode(all[first])
      /\ \A m \in scalars : all[m] = Json!Leaf("scalar")
      /\ \A m \in DOMAIN nodes : m # first => all[m] = nodes[m]
  BY <1>8 DEF GrownAs
<1>10. /\ new \subseteq 2..MaxNodes /\ new \cap DOMAIN nodes = {} /\ new \cap G = {}
       /\ n \notin new /\ first \notin scalars
  BY <1>1, <1>2, <1>6, <1>9
<1>11. DOMAIN all \ G = kept \cup new /\ n \in kept
  BY <1>1, <1>2, <1>9, <1>10
<1>12. /\ DOMAIN U = kept \cup new
       /\ U[n] = [type |-> container, children |-> Json!Put(nodes[n].children, k, first)]
       /\ \A m \in kept : m # n => U[m] = nodes[m]
       /\ U[first] = [type |-> shape.type, children |-> at] /\ IsNode(U[first])
       /\ \A m \in scalars : U[m] = Json!Leaf("scalar")
  <2> DEFINE V == [m \in DOMAIN all \ G |-> all[m]]
  <2>1. DOMAIN V = kept \cup new /\ \A m \in kept \cup new : V[m] = all[m]
    BY <1>11
  <2>2. U = [V EXCEPT ![n] = [type |-> container, children |-> Json!Put(V[n].children, k, first)]]
    BY <1>3
  <2>3. \A m \in kept : all[m] = nodes[m]
    BY <1>6, <1>9
  <2> HIDE DEF V
  <2>4. DOMAIN U = kept \cup new /\ \A m \in kept \cup new : m # n => U[m] = all[m]
    BY <2>1, <2>2
  <2>5. U[n] = [type |-> container, children |-> Json!Put(nodes[n].children, k, first)]
    BY <1>11, <2>1, <2>2, <2>3
  <2>6. U[first] = all[first] /\ \A m \in scalars : U[m] = all[m]
    BY <1>10, <2>4
  <2>7. QED
    BY <1>9, <2>3, <2>4, <2>5, <2>6
<1>13. /\ DOMAIN U[n].children = DOMAIN nodes[n].children \cup {k} /\ U[n].children[k] = first
       /\ \A j \in DOMAIN nodes[n].children : j # k => U[n].children[j] = nodes[n].children[j]
       /\ IsNode(U[n])
  <2>1. U[n].children = Json!Put(nodes[n].children, k, first) /\ U[n].type = container
    BY <1>12
  <2>2. /\ DOMAIN U[n].children = DOMAIN nodes[n].children \cup {k} /\ U[n].children[k] = first
        /\ \A j \in DOMAIN nodes[n].children : j # k => U[n].children[j] = nodes[n].children[j]
    BY <2>1 DEF Json!Put
  <2>3. QED
    BY <2>1, <2>2
<1>14. /\ Holds(U, n, k, first)
       /\ \A j, c : Holds(U, n, j, c) /\ j # k => Holds(nodes, n, j, c)
       /\ \A c : Holds(U, n, k, c) => c = first
       /\ \A j, c : Holds(nodes, n, j, c) /\ j # k => Holds(U, n, j, c)
  BY <1>1, <1>11, <1>12, <1>13 DEF Holds
<1>15. /\ \A j, c : Holds(U, first, j, c) <=> j \in shape.names /\ c = at[j]
       /\ \A m \in scalars : \A j, c : ~Holds(U, m, j, c)
  <2>1. first \in DOMAIN U /\ U[first].children = at
    BY <1>12
  <2>2. \A m \in scalars : DOMAIN U[m].children = {}
    BY <1>12, LeafIsNode
  <2>3. QED
    BY <1>9, <2>1, <2>2 DEF Holds
<1>16. \A m \in new : IsNode(U[m])
  BY <1>12, LeafIsNode
<1>17. \A j, c : Holds(nodes, n, j, c) /\ c \notin G => Holds(U, n, j, c)
  BY <1>2, <1>14
<1>18. \A j, c : Holds(U, n, j, c) => c \in new \/ (Holds(nodes, n, j, c) /\ c \notin G)
  BY <1>2, <1>14
<1>19. \A m \in new : \A j, c : Holds(U, m, j, c) => c \in new
  BY <1>15
<1>20. ASSUME NEW m, NEW j, NEW c \in new, Holds(U, m, j, c)
       PROVE  /\ c = first => m = n /\ j = k
              /\ c # first => m = first
  <2>1. m \in kept \/ m \in new
    BY <1>12, <1>20 DEF Holds
  <2>2. CASE m \in kept
    <3>1. ASSUME m # n \/ j # k PROVE FALSE
      <4>1. Holds(nodes, m, j, c)
        <5>1. CASE m = n
          BY <1>14, <1>20, <3>1, <5>1
        <5>2. CASE m # n
          BY <1>12, <1>20, <2>2, <5>2 DEF Holds
        <5>3. QED
          BY <5>1, <5>2
      <4>2. c \in DOMAIN nodes
        BY <4>1 DEF IsTree
      <4>3. QED
        BY <1>10, <4>2
    <3>2. c = first
      BY <1>14, <1>20, <3>1
    <3>3. QED
      BY <3>1, <3>2
  <2>3. CASE m \in new
    <3>1. m = first /\ c \in scalars
      BY <1>15, <1>20, <2>3
    <3>2. QED
      BY <1>10, <3>1
  <2>4. QED
    BY <2>1, <2>2, <2>3
<1>21. ASSUME NEW l, NEW m, NEW i, NEW j, NEW c, c \in new, Holds(U, l, i, c), Holds(U, m, j, c)
       PROVE  l = m /\ i = j
  <2>1. CASE c = first
    BY <1>20, <1>21, <2>1
  <2>2. CASE c # first
    <3>1. l = first /\ m = first
      BY <1>20, <1>21, <2>2
    <3>2. QED
      BY <1>9, <1>15, <1>21, <3>1
  <2>3. QED
    BY <2>1, <2>2
<1>22. ASSUME NEW S \in SUBSET DOMAIN U, n \in S, Within(U, S) PROVE new \subseteq S
  <2>1. first \in S
    BY <1>14, <1>22 DEF Within
  <2>2. ASSUME NEW j \in shape.names PROVE at[j] \in S
    <3>1. Holds(U, first, j, at[j])
      BY <1>15
    <3>2. QED
      BY <1>22, <2>1, <3>1 DEF Within
  <2>3. QED
    BY <2>1, <2>2
<1>23. /\ DOMAIN U = kept \cup new /\ IsNode(U[n]) /\ new \cap kept = {} /\ new \subseteq 2..MaxNodes
       /\ \A m \in kept : m # n => U[m] = nodes[m]
       /\ \A m, j, c : Holds(nodes, m, j, c) /\ c \in G => m = n \/ m \in G
  BY <1>2, <1>10, <1>12, <1>13
<1> HIDE DEF new
<1>24. Replaced(nodes, U, n, G, new)
  BY <1>1, <1>2, <1>16, <1>17, <1>18, <1>19, <1>21, <1>22, <1>23, Zenon DEF Replaced
<1>25. QED
  BY <1>3, <1>14, <1>24 DEF U, G

-----------------------------------------------------------------------------
(* JsonTree: the steps *)

LEMMA JsonInit ==
  ASSUME Json!JsonTreeAssumption, Json!Init
  PROVE  JsonInv
<1>1. MaxNodes \in Nat /\ MaxNodes # 0 /\ Json!NullObject = 0 /\ Json!Root = 1
  BY DEF Json!JsonTreeAssumption, Json!NullObject, Json!Root
<1>2. DOMAIN nodes = {Json!NullObject, Json!Root} /\ \A m \in DOMAIN nodes : nodes[m] = Json!Leaf("null")
  BY DEF Json!Init
<1>3. \A m, k, c : ~Holds(nodes, m, k, c)
  BY <1>2, LeafIsNode DEF Holds
<1>4. \A m \in DOMAIN nodes : IsNode(nodes[m])
  BY <1>2, LeafIsNode
<1>5. IsTree(nodes)
  <2>1. {Json!NullObject, Json!Root} \subseteq DOMAIN nodes /\ DOMAIN nodes \subseteq 0..MaxNodes
    BY <1>1, <1>2
  <2>2. QED
    BY <1>2, <1>3, <1>4, <2>1 DEF IsTree
<1>6. ASSUME NEW ref \in held PROVE IsHeld(ref)
  <2>1. ref.path = <<>> /\ ref.node = Json!Root
    BY DEF Json!Init
  <2> DEFINE f == [i \in {0} |-> Json!Root]
  <2>2. IsWay(nodes, <<>>, f) /\ f[Len(<<>>)] = Json!Root
    BY EmptySeq DEF IsWay
  <2>3. QED
    BY <2>1, <2>2 DEF IsHeld, Leads
<1>7. QED
  BY <1>5, <1>6 DEF JsonInv

\* What a client may call through, but for the NullObject, is a node.
LEMMA ReferenceIs ==
  ASSUME JsonInv, NEW ref \in Json!References
  PROVE  \/ ref \in held /\ IsHeld(ref) /\ ref.node \in DOMAIN nodes /\ ref.node # Json!NullObject
         \/ ref.node = Json!NullObject /\ \A k : k \notin DOMAIN nodes[ref.node].children
<1>1. CASE ref \in held
  <2>1. PICK f : IsWay(nodes, ref.path, f) /\ f[Len(ref.path)] = ref.node
    BY <1>1 DEF JsonInv, IsHeld, Leads
  <2>2. Len(ref.path) \in 0..Len(ref.path)
    BY <2>1 DEF IsWay
  <2>3. ref.node \in DOMAIN nodes /\ ref.node # Json!NullObject
    BY <2>1, <2>2, NodesOfWay DEF JsonInv
  <2>4. QED
    BY <1>1, <2>3 DEF JsonInv
<1>2. CASE ref \notin held
  <2>1. ref.node = Json!NullObject
    BY <1>2 DEF Json!References
  <2>2. nodes[Json!NullObject] = Json!Leaf("null")
    BY DEF JsonInv, IsTree
  <2>3. QED
    BY <2>1, <2>2, LeafIsNode
<1>3. QED
  BY <1>1, <1>2

\* A reference stays whose way does not go over what is freed.
LEMMA StaysHeld ==
  ASSUME NEW n, NEW G, NEW new, IsTree(nodes), Replaced(nodes, nodes', n, G, new),
         NEW h, IsHeld(h),
         \A f : IsWay(nodes, h.path, f) =>
                  \A i \in 1..Len(h.path) : f[i - 1] = n => f[i] \notin G
  PROVE  Leads(nodes', h.path, h.node)
<1>1. PICK f : IsWay(nodes, h.path, f) /\ f[Len(h.path)] = h.node
  BY DEF IsHeld, Leads
<1>2. IsWay(nodes', h.path, f)
  BY <1>1, WayKept
<1>3. QED
  BY <1>1, <1>2 DEF Leads

\* Where a way comes to a node, it is the way that led to it, so far.
LEMMA SameBeginning ==
  ASSUME IsTree(nodes), NEW ref, IsHeld(ref), NEW path, NEW f, IsWay(nodes, path, f),
         NEW i \in 1..Len(path), f[i - 1] = ref.node
  PROVE  /\ i - 1 = Len(ref.path) /\ ref.path \in Seq(Names) /\ path \in Seq(Names)
         /\ \A l \in 1..Len(ref.path) : path[l] = ref.path[l]
<1>1. PICK g : IsWay(nodes, ref.path, g) /\ g[Len(ref.path)] = ref.node
  BY DEF IsHeld, Leads
<1>2. ref.path \in Seq(Names) /\ path \in Seq(Names)
  BY <1>1 DEF IsWay
<1>3. i - 1 \in 0..Len(path) /\ Len(ref.path) \in 0..Len(ref.path)
  BY <1>2
<1>4. i - 1 = Len(ref.path) /\ \A l \in 1..(i - 1) : path[l] = ref.path[l]
  BY <1>1, <1>3, OneWay
<1>5. QED
  BY <1>2, <1>4

LEMMA PrefixIs ==
  ASSUME NEW S, NEW p \in Seq(S), NEW q \in Seq(S), Len(p) <= Len(q),
         \A l \in 1..Len(p) : q[l] = p[l]
  PROVE  Json!IsPrefix(p, q)
<1> DEFINE a == SubSeq(p, 1, Len(p))
           b == SubSeq(q, 1, Len(p))
<1>1. Len(p) \in Nat /\ Len(q) \in Nat
  OBVIOUS
<1>2. a \in Seq(S) /\ Len(a) = Len(p) /\ \A l \in 1..Len(p) : a[l] = p[l]
  BY <1>1
<1>3. b \in Seq(S) /\ Len(b) = Len(p) /\ \A l \in 1..Len(p) : b[l] = q[l]
  BY <1>1
<1> HIDE DEF a, b
<1>4. a = b
  <2>1. \A l \in 1..Len(a) : a[l] = b[l]
    BY <1>2, <1>3
  <2>2. QED
    BY <1>2, <1>3, <2>1, SeqEqual
<1>5. QED
  BY <1>4 DEF Json!IsPrefix, a, b

LEMMA OverwriteKeeps ==
  ASSUME Json!JsonTreeAssumption, JsonInv, NEW ref \in Json!References, ref.node # Json!NullObject,
         NEW shape \in Json!Shapes, Json!Overwrite(ref, shape)
  PROVE  JsonInv'
<1> DEFINE n == ref.node
           G == Json!Owned(n) \ {n}
<1>1. ref \in held /\ IsHeld(ref) /\ n \in DOMAIN nodes /\ IsTree(nodes) /\ MaxNodes \in Nat
  BY ReferenceIs DEF JsonInv, Json!JsonTreeAssumption
<1>2. PICK new : Replaced(nodes, nodes', n, G, new)
  BY <1>1, OverwriteReplaces
<1> HIDE DEF G
<1>3. IsTree(nodes')
  BY <1>1, <1>2, ReplacedIsTree
<1>4. ASSUME NEW h \in held' PROVE Leads(nodes', h.path, h.node)
  <2>1. h \in held /\ ~Json!IsStrictPrefix(ref.path, h.path)
    BY DEF Json!Overwrite, Json!Outlive
  <2>2. ASSUME NEW f, IsWay(nodes, h.path, f), NEW i \in 1..Len(h.path), f[i - 1] = n PROVE FALSE
    <3>1. /\ i - 1 = Len(ref.path) /\ ref.path \in Seq(Names) /\ h.path \in Seq(Names)
          /\ \A l \in 1..Len(ref.path) : h.path[l] = ref.path[l]
      BY <1>1, <2>2, SameBeginning
    <3>2. Len(ref.path) < Len(h.path) /\ Len(ref.path) <= Len(h.path)
      BY <3>1
    <3>3. Json!IsPrefix(ref.path, h.path)
      BY <3>1, <3>2, PrefixIs
    <3>4. ref.path # h.path
      BY <3>1, <3>2
    <3>5. QED
      BY <2>1, <3>3, <3>4 DEF Json!IsStrictPrefix
  <2>3. IsHeld(h)
    BY <2>1 DEF JsonInv
  <2>4. QED
    BY <1>1, <1>2, <2>2, <2>3, StaysHeld
<1>5. QED
  BY <1>3, <1>4 DEF JsonInv, IsHeld

LEMMA PlaceKeeps ==
  ASSUME Json!JsonTreeAssumption, JsonInv, NEW ref \in Json!References,
         NEW container, NEW k \in Names, NEW shape \in Json!Shapes, NEW outlive,
         Json!Place(ref, container, k, shape, outlive),
         ASSUME NEW node, DOMAIN node.children = DOMAIN nodes[ref.node].children \cup {k},
                node.type = container
         PROVE  IsNode(node),
         \A h \in outlive : h \in held /\ (~Json!IsPrefix(Append(ref.path, k), h.path)
                                           \/ k \notin DOMAIN nodes[ref.node].children)
  PROVE  JsonInv'
<1> DEFINE n == ref.node
           G == Displaced(n, k)
<1>1. /\ ref \in held /\ IsHeld(ref) /\ n \in DOMAIN nodes /\ IsTree(nodes) /\ MaxNodes \in Nat
  <2>1. ref.node # Json!NullObject
    BY DEF Json!Place, Json!MayChange
  <2>2. QED
    BY <2>1, ReferenceIs DEF JsonInv, Json!JsonTreeAssumption
<1>2. PICK new, c : /\ Replaced(nodes, nodes', n, G, new)
                    /\ Holds(nodes', n, k, c)
                    /\ held' \subseteq outlive \cup {[node |-> c, path |-> Append(ref.path, k)]}
  BY <1>1, PlaceReplaces
<1>3. IsTree(nodes')
  BY <1>1, <1>2, ReplacedIsTree
<1>4. ASSUME NEW h \in held,
             ~Json!IsPrefix(Append(ref.path, k), h.path) \/ k \notin DOMAIN nodes[ref.node].children
      PROVE  Leads(nodes', h.path, h.node)
  <2>1. ASSUME NEW f, IsWay(nodes, h.path, f), NEW i \in 1..Len(h.path), f[i - 1] = n, f[i] \in G
        PROVE FALSE
    <3>1. /\ i - 1 = Len(ref.path) /\ ref.path \in Seq(Names) /\ h.path \in Seq(Names)
          /\ \A l \in 1..Len(ref.path) : h.path[l] = ref.path[l]
      BY <1>1, <2>1, SameBeginning
    <3>2. Holds(nodes, n, h.path[i], f[i]) /\ n \notin G
      BY <1>1, <2>1, DisplacedIs DEF IsWay
    <3>3. h.path[i] = k
      BY <1>1, <2>1, <3>2, DisplacedIs
    <3>4. k \in DOMAIN nodes[n].children
      BY <3>2, <3>3 DEF Holds
    <3> DEFINE p == Append(ref.path, k)
    <3>5. /\ p \in Seq(Names) /\ Len(p) = Len(ref.path) + 1 /\ Len(ref.path) \in Nat
          /\ p[Len(ref.path) + 1] = k /\ \A l \in 1..Len(ref.path) : p[l] = ref.path[l]
      BY <3>1
    <3> HIDE DEF p
    <3>6. Len(p) <= Len(h.path)
      BY <3>1, <3>5
    <3>7. \A l \in 1..Len(p) : h.path[l] = p[l]
      <4> TAKE l \in 1..Len(p)
      <4>1. l = Len(ref.path) + 1 \/ l \in 1..Len(ref.path)
        BY <3>5
      <4>2. Len(ref.path) + 1 = i
        BY <3>1, <3>5
      <4>3. QED
        BY <3>1, <3>3, <3>5, <4>1, <4>2
    <3>8. Json!IsPrefix(p, h.path)
      BY <3>1, <3>5, <3>6, <3>7, PrefixIs
    <3>9. QED
      BY <1>4, <3>4, <3>8 DEF p
  <2>2. IsHeld(h)
    BY DEF JsonInv
  <2>3. QED
    BY <1>1, <1>2, <2>1, <2>2, StaysHeld
<1>5. Leads(nodes', ref.path, n)
  <2>1. PICK f : IsWay(nodes, ref.path, f) /\ f[Len(ref.path)] = n
    BY <1>1 DEF IsHeld, Leads
  <2>2. ref.path \in Seq(Names)
    BY <2>1 DEF IsWay
  <2>3. ~Json!IsPrefix(Append(ref.path, k), ref.path)
    <3>1. ~(Len(Append(ref.path, k)) <= Len(ref.path))
      BY <2>2
    <3>2. QED
      BY <3>1 DEF Json!IsPrefix
  <2>4. QED
    BY <1>1, <1>4, <2>3
<1>6. Leads(nodes', Append(ref.path, k), c)
  BY <1>2, <1>5, WayExtended
<1>7. ASSUME NEW h \in held' PROVE Leads(nodes', h.path, h.node)
  <2>1. CASE h \in outlive
    BY <1>4, <2>1
  <2>2. CASE h = [node |-> c, path |-> Append(ref.path, k)]
    BY <1>6, <2>2
  <2>3. QED
    BY <1>2, <2>1, <2>2
<1>8. QED
  BY <1>3, <1>7 DEF JsonInv, IsHeld

LEMMA AddChildKeeps ==
  ASSUME Json!JsonTreeAssumption, JsonInv, NEW ref \in Json!References, NEW k \in Keys,
         NEW shape \in Json!Shapes, Json!AddChild(ref, k, shape)
  PROVE  JsonInv'
<1> DEFINE outlive == {h \in held : ~Json!IsPrefix(Append(ref.path, k), h.path)}
<1>1. Json!Place(ref, "object", k, shape, outlive)
  BY DEF Json!AddChild
<1>2. ref.node \in DOMAIN nodes /\ nodes[ref.node].type \in {"null", "object"}
  BY <1>1, ReferenceIs DEF Json!Place, Json!MayChange
<1>3. DOMAIN nodes[ref.node].children \subseteq Keys
  BY <1>2 DEF JsonInv, IsTree, IsNode
<1>4. ASSUME NEW node, DOMAIN node.children = DOMAIN nodes[ref.node].children \cup {k},
             node.type = "object"
      PROVE  IsNode(node)
  BY <1>3, <1>4 DEF IsNode
<1>5. k \in Names
  BY DEF Names
<1>6. \A h \in outlive : h \in held /\ (~Json!IsPrefix(Append(ref.path, k), h.path)
                                         \/ k \notin DOMAIN nodes[ref.node].children)
  OBVIOUS
<1> HIDE DEF outlive
<1>7. QED
  BY <1>1, <1>4, <1>5, <1>6, PlaceKeeps

LEMMA PushChildKeeps ==
  ASSUME Json!JsonTreeAssumption, JsonInv, NEW ref \in Json!References,
         NEW shape \in Json!Shapes, Json!PushChild(ref, shape)
  PROVE  JsonInv'
<1> DEFINE k == Json!BehindLast(nodes[ref.node].children)
<1>1. Json!Place(ref, "array", k, shape, held)
  BY DEF Json!PushChild
<1>2. ref.node \in DOMAIN nodes /\ nodes[ref.node].type \in {"null", "array"}
  BY <1>1, ReferenceIs DEF Json!Place, Json!MayChange
<1>3. IsNode(nodes[ref.node])
  BY <1>2 DEF JsonInv, IsTree
<1>4. PICK a \in Nat : DOMAIN nodes[ref.node].children = 0..(a - 1)
  <2>1. CASE nodes[ref.node].type = "null"
    <3>1. DOMAIN nodes[ref.node].children = {} /\ 0..(0 - 1) = {} /\ 0 \in Nat
      BY <1>3, <2>1 DEF IsNode
    <3>2. QED
      BY <3>1
  <2>2. CASE nodes[ref.node].type = "array"
    BY <1>3, <2>2 DEF IsNode
  <2>3. QED
    BY <1>2, <2>1, <2>2
<1>5. k = a
  <2>1. Cardinality(0..(a - 1)) = a
    <3>1. 0 \in Int /\ a - 1 \in Int
      OBVIOUS
    <3>2. Cardinality(0..(a - 1)) = IF 0 > a - 1 THEN 0 ELSE (a - 1) - 0 + 1
      BY <3>1, FS_Interval
    <3>3. QED
      BY <3>2
  <2>2. QED
    BY <1>4, <2>1, JsonCounts DEF Json!BehindLast
<1>6. k \notin DOMAIN nodes[ref.node].children /\ k \in Names
      /\ DOMAIN nodes[ref.node].children \cup {k} = 0..((a + 1) - 1) /\ a + 1 \in Nat
  BY <1>4, <1>5 DEF Names
<1> HIDE DEF k
<1>7. ASSUME NEW node, DOMAIN node.children = DOMAIN nodes[ref.node].children \cup {k},
             node.type = "array"
      PROVE  IsNode(node)
  <2>1. \E n \in Nat : DOMAIN node.children = 0..(n - 1)
    BY <1>6, <1>7
  <2>2. QED
    BY <1>7, <2>1 DEF IsNode
<1>8. QED
  BY <1>1, <1>6, <1>7, PlaceKeeps

LEMMA ConvertKeeps ==
  ASSUME Json!JsonTreeAssumption, JsonInv, NEW ref \in Json!References, Json!ConvertToArray(ref)
  PROVE  JsonInv'
<1> DEFINE n == ref.node
<1>1. n \in DOMAIN nodes /\ n # Json!NullObject /\ IsTree(nodes) /\ MaxNodes \in Nat
  BY ReferenceIs DEF Json!ConvertToArray, Json!MayChange, JsonInv, Json!JsonTreeAssumption
<1>2. /\ DOMAIN nodes' = DOMAIN nodes /\ nodes'[n] = Json!Leaf("array")
      /\ \A m \in DOMAIN nodes : m # n => nodes'[m] = nodes[m]
      /\ nodes[n].type = "null" /\ held' = held
  BY <1>1 DEF Json!ConvertToArray
<1>3. DOMAIN nodes[n].children = {}
  BY <1>1, <1>2 DEF IsTree, IsNode
<1>4. IsNode(nodes'[n]) /\ DOMAIN nodes'[n].children = {}
  BY <1>2, LeafIsNode
<1>5. /\ \A k, c : ~Holds(nodes, n, k, c)
      /\ \A k, c : ~Holds(nodes', n, k, c)
  BY <1>3, <1>4 DEF Holds
<1>6. /\ {} \subseteq 2..MaxNodes /\ {} \cap (DOMAIN nodes \ {}) = {} /\ n \notin {} /\ {} \subseteq DOMAIN nodes
      /\ Json!NullObject \notin {} /\ Json!Root \notin {}
      /\ DOMAIN nodes' = (DOMAIN nodes \ {}) \cup {} /\ Within(nodes, {})
      /\ \A m \in DOMAIN nodes \ {} : m # n => nodes'[m] = nodes[m]
  BY <1>2 DEF Within
<1>7. Replaced(nodes, nodes', n, {}, {})
  BY <1>1, <1>4, <1>5, <1>6 DEF Replaced
<1>8. IsTree(nodes')
  BY <1>1, <1>7, ReplacedIsTree
<1>9. ASSUME NEW h \in held' PROVE Leads(nodes', h.path, h.node)
  <2>1. IsHeld(h)
    BY <1>2 DEF JsonInv
  <2>2. \A f : IsWay(nodes, h.path, f) => \A i \in 1..Len(h.path) : f[i - 1] = n => f[i] \notin {}
    OBVIOUS
  <2>3. QED
    BY <1>1, <1>7, <2>1, <2>2, StaysHeld
<1>10. QED
  BY <1>8, <1>9 DEF JsonInv, IsHeld

\* The names of children.
LEMMA NameIs ==
  ASSUME IsTree(nodes), NEW m \in DOMAIN nodes, NEW k \in DOMAIN nodes[m].children
  PROVE  k \in Names
<1>1. IsNode(nodes[m])
  BY DEF IsTree
<1>2. CASE nodes[m].type = "array"
  <2>1. PICK a \in Nat : DOMAIN nodes[m].children = 0..(a - 1)
    BY <1>1, <1>2 DEF IsNode
  <2>2. QED
    BY <2>1 DEF Names
<1>3. CASE nodes[m].type # "array"
  BY <1>1, <1>3 DEF IsNode, Names
<1>4. QED
  BY <1>2, <1>3

\* The steps that find and forget references.
LEMMA ChildIs ==
  ASSUME IsTree(nodes), NEW m, NEW k, Json!Child(m, k) # Json!NullObject, m \in DOMAIN nodes
  PROVE  Holds(nodes, m, k, Json!Child(m, k)) /\ k \in Names
<1>1. k \in DOMAIN nodes[m].children
  BY DEF Json!Child
<1>2. Holds(nodes, m, k, Json!Child(m, k))
  BY <1>1 DEF Json!Child, Holds
<1>3. QED
  BY <1>1, <1>2, NameIs

LEMMA AccessKeeps ==
  ASSUME JsonInv, NEW ref \in Json!References, NEW k, Json!Access(ref, k)
  PROVE  JsonInv'
<1> DEFINE c == Json!Child(ref.node, k)
<1>1. ref \in held /\ IsHeld(ref) /\ ref.node \in DOMAIN nodes /\ IsTree(nodes)
  <2>1. k \in DOMAIN nodes[ref.node].children
    BY DEF Json!Access, Json!Child
  <2>2. QED
    BY <2>1, ReferenceIs DEF JsonInv
<1>2. Holds(nodes, ref.node, k, c) /\ k \in Names
  BY <1>1, ChildIs DEF Json!Access
<1>3. Leads(nodes, Append(ref.path, k), c)
  BY <1>1, <1>2, WayExtended DEF IsHeld
<1>4. nodes' = nodes /\ held' = held \cup {[node |-> c, path |-> Append(ref.path, k)]}
  BY DEF Json!Access
<1> HIDE DEF c
<1>5. ASSUME NEW h \in held' PROVE Leads(nodes', h.path, h.node)
  <2>1. CASE h \in held
    BY <1>4, <2>1 DEF JsonInv, IsHeld
  <2>2. CASE h = [node |-> c, path |-> Append(ref.path, k)]
    BY <1>3, <1>4, <2>2
  <2>3. QED
    BY <1>4, <2>1, <2>2
<1>6. QED
  BY <1>1, <1>4, <1>5 DEF JsonInv, IsHeld

LEMMA IterateKeeps ==
  ASSUME JsonInv, NEW ref \in Json!References, Json!Iterate(ref)
  PROVE  JsonInv'
<1>1. nodes' = nodes /\ IsTree(nodes)
  BY DEF Json!Iterate, JsonInv
<1>2. ASSUME NEW h \in held' PROVE Leads(nodes', h.path, h.node)
  <2>1. CASE h \in held
    BY <1>1, <2>1 DEF JsonInv, IsHeld
  <2>2. CASE h \notin held
    <3>1. PICK k \in DOMAIN nodes[ref.node].children :
            h = [node |-> nodes[ref.node].children[k], path |-> Append(ref.path, k)]
      BY <2>2 DEF Json!Iterate
    <3>2. IsHeld(ref) /\ ref.node \in DOMAIN nodes
      BY <3>1, ReferenceIs
    <3>3. Holds(nodes, ref.node, k, nodes[ref.node].children[k]) /\ k \in Names
      BY <1>1, <3>2, NameIs DEF Holds
    <3>4. Leads(nodes, Append(ref.path, k), nodes[ref.node].children[k])
      BY <3>2, <3>3, WayExtended DEF IsHeld
    <3>5. QED
      BY <1>1, <3>1, <3>4
  <2>3. QED
    BY <2>1, <2>2
<1>3. QED
  BY <1>1, <1>2 DEF JsonInv, IsHeld

\* As long as clients do not parse into the NullObject.
LEMMA JsonStep ==
  ASSUME Json!JsonTreeAssumption, ~ParsesAnywhere, JsonInv, [Json!Next]_jsonVars
  PROVE  JsonInv'
<1>1. CASE UNCHANGED jsonVars
  BY <1>1 DEF jsonVars, JsonInv, IsHeld
<1>2. CASE Json!Next
  <2>1. PICK ref \in Json!References :
          \/ \E k \in Keys \cup Json!Indices : Json!Access(ref, k)
          \/ Json!Iterate(ref)
          \/ Json!Forget(ref)
          \/ Json!Assign(ref)
          \/ Json!ConvertToArray(ref)
          \/ \E container \in {"array", "object"} : Json!ValueRefused(ref, container)
          \/ \E shape \in Json!Shapes : \/ Json!Parse(ref, shape)
                                   \/ Json!PushChild(ref, shape)
                                   \/ \E k \in Keys : Json!AddChild(ref, k, shape)
    BY <1>2, Zenon DEF Json!Next
  <2>2. CASE \E k \in Keys \cup Json!Indices : Json!Access(ref, k)
    BY <2>2, AccessKeeps
  <2>3. CASE Json!Iterate(ref)
    BY <2>3, IterateKeeps
  <2>4. CASE Json!Forget(ref)
    BY <2>4 DEF Json!Forget, JsonInv, IsHeld
  <2>5. CASE Json!Assign(ref)
    <3>1. Json!Scalar \in Json!Shapes
      BY DEF Json!Scalar, Json!Shapes
    <3>2. QED
      BY <2>5, <3>1, OverwriteKeeps DEF Json!Assign, Json!MayChange
  <2>6. CASE Json!ConvertToArray(ref)
    BY <2>6, ConvertKeeps
  <2>7. ASSUME NEW shape \in Json!Shapes, Json!Parse(ref, shape) PROVE JsonInv'
    BY <2>7, OverwriteKeeps DEF Json!Parse
  <2>8. ASSUME NEW shape \in Json!Shapes, Json!PushChild(ref, shape) PROVE JsonInv'
    BY <2>8, PushChildKeeps
  <2>9. ASSUME NEW shape \in Json!Shapes, NEW k \in Keys, Json!AddChild(ref, k, shape) PROVE JsonInv'
    BY <2>9, AddChildKeeps
  <2>10. ASSUME NEW container, Json!ValueRefused(ref, container) PROVE JsonInv'
    BY <2>10 DEF Json!ValueRefused, JsonInv, IsHeld
  <2>11. QED
    BY <2>1, <2>2, <2>3, <2>4, <2>5, <2>6, <2>7, <2>8, <2>9, <2>10, Zenon
<1>3. QED
  BY <1>1, <1>2

-----------------------------------------------------------------------------
(* JsonTree: what follows *)

\* Who is not the root and not the NullObject has an owner.
LEMMA HasOwner ==
  ASSUME IsTree(nodes), NEW c \in DOMAIN nodes, c # Json!NullObject, c # Json!Root
  PROVE  \E m, k : Holds(nodes, m, k, c)
<1> SUFFICES ASSUME ~\E m, k : Holds(nodes, m, k, c) PROVE FALSE
  OBVIOUS
<1> DEFINE S == DOMAIN nodes \ {c}
<1>1. Json!Root \in S
  BY DEF IsTree
<1>2. Within(nodes, S)
  BY DEF Within, IsTree
<1>3. QED
  BY <1>1, <1>2 DEF IsTree

\* An array has no more children than there are nodes.
LEMMA IndexIs ==
  ASSUME Json!JsonTreeAssumption, IsTree(nodes), NEW m \in DOMAIN nodes, NEW k \in DOMAIN nodes[m].children
  PROVE  k \in Keys \cup Json!Indices
<1>1. IsNode(nodes[m]) /\ MaxNodes \in Nat
  BY DEF IsTree, Json!JsonTreeAssumption
<1>2. CASE nodes[m].type # "array"
  BY <1>1, <1>2 DEF IsNode
<1>3. CASE nodes[m].type = "array"
  <2>1. PICK a \in Nat : DOMAIN nodes[m].children = 0..(a - 1)
    BY <1>1, <1>3 DEF IsNode
  <2> DEFINE f == [j \in 0..(a - 1) |-> nodes[m].children[j]]
  <2>2. \A j \in 0..(a - 1) : Holds(nodes, m, j, f[j])
    BY <2>1 DEF Holds
  <2>3. f \in [0..(a - 1) -> 0..MaxNodes]
    BY <2>2 DEF IsTree
  <2>4. \A i, j \in 0..(a - 1) : f[i] = f[j] => i = j
    <3> HIDE DEF f
    <3>1. QED
      BY <2>2 DEF IsTree
  <2> HIDE DEF f
  <2>5. f \in Injection(0..(a - 1), 0..MaxNodes)
    BY <2>3, <2>4 DEF Injection, IsInjective
  <2>6. IsFiniteSet(0..MaxNodes) /\ Cardinality(0..MaxNodes) = MaxNodes + 1
    BY <1>1, FS_Interval
  <2>7. Cardinality(0..(a - 1)) <= MaxNodes + 1
    BY <2>5, <2>6, FS_Injection
  <2>8. Cardinality(0..(a - 1)) = a
    <3>1. 0 \in Int /\ a - 1 \in Int
      OBVIOUS
    <3>2. Cardinality(0..(a - 1)) = IF 0 > a - 1 THEN 0 ELSE (a - 1) - 0 + 1
      BY <3>1, FS_Interval
    <3>3. QED
      BY <3>2
  <2>9. k \in 0..(a - 1) /\ a <= MaxNodes + 1
    BY <2>1, <2>7, <2>8
  <2>10. QED
    BY <1>1, <2>9 DEF Json!Indices
<1>4. QED
  BY <1>2, <1>3

LEMMA TreeIsNull ==
  ASSUME Json!JsonTreeAssumption, JsonInv
  PROVE  Json!NullObjectIsNull
<1>1. IsTree(nodes)
  BY DEF JsonInv
<1>2. ASSUME NEW c \in DOMAIN nodes \ {Json!NullObject, Json!Root}
      PROVE  Cardinality({e \in (DOMAIN nodes) \X (Keys \cup Json!Indices) : Json!Child(e[1], e[2]) = c}) = 1
  <2> DEFINE owners == {e \in (DOMAIN nodes) \X (Keys \cup Json!Indices) : Json!Child(e[1], e[2]) = c}
  <2>1. PICK m, k : Holds(nodes, m, k, c)
    BY <1>1, HasOwner
  <2>2. m \in DOMAIN nodes /\ k \in Keys \cup Json!Indices /\ Json!Child(m, k) = c
    BY <1>1, <2>1, IndexIs DEF Holds, Json!Child
  <2>3. <<m, k>> \in owners
    BY <2>2
  <2>4. ASSUME NEW e \in owners PROVE e = <<m, k>>
    <3>1. e[1] \in DOMAIN nodes /\ Json!Child(e[1], e[2]) = c /\ e = <<e[1], e[2]>>
      OBVIOUS
    <3>2. Holds(nodes, e[1], e[2], c)
      BY <1>1, <3>1, ChildIs
    <3>3. e[1] = m /\ e[2] = k
      BY <1>1, <2>1, <3>2 DEF IsTree
    <3>4. QED
      BY <3>1, <3>3
  <2>5. owners = {<<m, k>>}
    BY <2>3, <2>4
  <2>6. QED
    BY <2>5, FS_Singleton
<1>3. \A m \in DOMAIN nodes : {Json!NullObject, Json!Root} \cap Json!ChildrenOf(m) = {}
  <2> SUFFICES ASSUME NEW m \in DOMAIN nodes, NEW c \in Json!ChildrenOf(m) PROVE c # Json!NullObject /\ c # Json!Root
    OBVIOUS
  <2>1. PICK k \in DOMAIN nodes[m].children : c = nodes[m].children[k]
    BY DEF Json!ChildrenOf
  <2>2. Holds(nodes, m, k, c)
    BY <2>1 DEF Holds
  <2>3. QED
    BY <1>1, <2>2 DEF IsTree
<1>4. nodes[Json!NullObject] = Json!Leaf("null")
  BY <1>1 DEF IsTree
<1>5. QED
  BY <1>2, <1>3, <1>4, JsonCounts DEF Json!NullObjectIsNull

LEMMA HeldIsFound ==
  ASSUME JsonInv
  PROVE  Json!ReferencesStay
<1> SUFFICES ASSUME NEW h \in held PROVE h.node \in DOMAIN nodes /\ Json!Navigate(h.path) = h.node
  BY DEF Json!ReferencesStay
<1>1. Leads(nodes, h.path, h.node) /\ IsTree(nodes)
  BY DEF JsonInv, IsHeld
<1>2. Json!Navigate(h.path) = h.node
  BY <1>1, NavigateIs
<1>3. h \in Json!References
  BY DEF Json!References
<1>4. h.node \in DOMAIN nodes
  <2>1. Json!NullObject \in DOMAIN nodes
    BY <1>1 DEF IsTree
  <2>2. QED
    BY <1>3, <2>1, ReferenceIs
<1>5. QED
  BY <1>2, <1>4

-----------------------------------------------------------------------------
(* The theorems *)

\* Every part of Bookkeeping has its own steps, and keeps its invariant in those of
\* the others.
LEMMA PartsStart ==
  ASSUME Init
  PROVE  Plain!IInv /\ ShortInv /\ SingleInv /\ TraceInv /\ Log!FilesMatchMappings
         /\ PoolInv /\ ArenaInv /\ Guard!OneGuardHolds
<1>1. Guard!Init => Guard!OneGuardHolds
  BY DEF Guard!Init, Guard!OneGuardHolds, Guard!TypeOK, Guard!Exists
<1>2. QED
  BY <1>1, BookkeepingAssumption, EventInit, ShortInit, SingleInit, TraceInit, LoggerInit, PoolInit, ArenaInit
  DEF Init

\* The inductive invariant of Event: however deep Fires run within each other and
\* whatever their callbacks register, drop or destruct, the armed registrations are
\* those in the map, none when the event is gone, and the asserts of UnRegister and
\* ~Event hold (Event.h:141-180, Event.cpp:5-9).
THEOREM Invariance == Spec => []Plain!IInv
<1>1. Init => Plain!IInv
  BY PartsStart
<1>2. Plain!IInv /\ [Next]_allVars => Plain!IInv'
  BY PartsSteps, EventStep, BookkeepingAssumption
<1>3. QED
  BY <1>1, <1>2, PTL DEF Spec

\* The inductive invariant of ShortCircutableEvent: the iterators of a Fire dangle
\* only while its callback has still to answer (Event.h:226-254).
THEOREM ShortInvariance == Spec => []ShortInv
<1>1. Init => ShortInv
  BY PartsStart
<1>2. ShortInv /\ [Next]_allVars => ShortInv'
  BY PartsSteps, ShortStep
<1>3. QED
  BY <1>1, <1>2, PTL DEF Spec

\* Whichever of an event and its registrations is destructed first, and wherever a
\* callback does it, each finds what it looks for in the other, and a Fire never goes
\* on with an iterator that dangles.
THEOREM NeverStale == Spec => []RegistrationsAreKnown
<1>1. Plain!IInv /\ ShortInv => RegistrationsAreKnown
  BY ShortInvIsEnough DEF RegistrationsAreKnown, ShortProperties
<1>2. QED
  BY <1>1, Invariance, ShortInvariance, PTL

\* ShortCircutableEvent::Fire returns without an answer only if it has asked
\* everybody (Event.h:237).
THEOREM NobodyIsPassedOver == Spec => NothingOnlyIfAllPassed
<1>1. ShortInv /\ [Next]_allVars => [Short!NobodyAnswers => Short!ToSet(Short!Top.called) = Short!Top.began]_shortVars
  BY AllPassed
<1>2. QED
  BY <1>1, ShortInvariance, PTL DEF Spec, NothingOnlyIfAllPassed, Short!NothingOnlyIfAllPassed, Short!vars, shortVars

\* The first registered is asked first and nobody is passed over; a SingleFireEvent
\* whose callbacks only register others calls each once (Event.h:122-133, 226-238).
THEOREM InOrderAndOnce == OnlyRegisters => (Spec => []CalledInOrderAndOnce)
<1> SUFFICES ASSUME OnlyRegisters PROVE Spec => []CalledInOrderAndOnce
  OBVIOUS
<1>1. Init => SingleInv
  BY PartsStart
<1>2. SingleInv /\ [Next]_allVars => SingleInv'
  BY PartsSteps, SingleStep
<1>3. SingleInv /\ ShortInv => CalledInOrderAndOnce
  BY ShortInvIsEnough DEF CalledInOrderAndOnce, ShortProperties, SingleInv
<1>4. QED
  BY <1>1, <1>2, <1>3, ShortInvariance, PTL DEF Spec

\* However many threads trace, as deep as they like, and wherever the vectors of the
\* tree move: a pointer to a scope never dangles, one to a thread's own trace only
\* when another thread came after it, with one thread nothing is undefined, and
\* scopes nest (Trace.cpp:22-132).
THEOREM PointersIntoTheTree == Spec => []OnlyRootsDangle
<1>1. Init => TraceInv
  BY PartsStart
<1>2. TraceInv /\ [Next]_allVars => TraceInv'
  BY PartsSteps, TraceStep
<1>3. TraceInv => OnlyRootsDangle
  BY TraceInvIsEnough DEF OnlyRootsDangle
<1>4. QED
  BY <1>1, <1>2, <1>3, PTL DEF Spec

\* For any types and files, whichever of them share, and wherever Map and UnMap
\* leave their loops: until Shutdown is called on Windows a file is kept open for
\* exactly as long as a type is mapped to it, and no message makes a stream of its own
\* (Logger.cpp:158-163, 226-290); afterwards types may be mapped to files that are not
\* open (Logger.cpp:336-350), but still no file outlives its types.
THEOREM FilesFollowTypes == Spec => []FilesMatchMappings
<1>1. Init => Log!FilesMatchMappings
  BY PartsStart
<1>2. Log!FilesMatchMappings /\ [Next]_allVars => Log!FilesMatchMappings'
  BY PartsSteps, LoggerStep, BookkeepingAssumption
<1>3. QED
  BY <1>1, <1>2, PTL DEF Spec, FilesMatchMappings

\* The assumption of the next two theorems, which the code leaves to its clients:
\* Parse does not ask whether it is called on the NullObject (Json.cpp:129-133), so
\* that whoever parses into the answer of an access that failed changes it for all.
ParsesIntoTrees == ~ParsesAnywhere

\* Whatever is parsed, assigned, added, pushed or iterated through whichever
\* references: the NullObject "cannot be modified" (DOCUMENTATION.md:332) and is in
\* no tree, and every node but the root has exactly one owner, the unique_ptr in its
\* container (Json.h:85-86).
THEOREM NullStaysNull == ParsesIntoTrees => (Spec => []NullObjectIsNull)
<1> SUFFICES ASSUME ~ParsesAnywhere PROVE Spec => []NullObjectIsNull
  BY DEF ParsesIntoTrees
<1>1. Init => JsonInv
  BY JsonInit, BookkeepingAssumption DEF Init
<1>2. JsonInv /\ [Next]_allVars => JsonInv'
  BY PartsSteps, JsonStep, BookkeepingAssumption
<1>3. JsonInv => NullObjectIsNull
  BY TreeIsNull, BookkeepingAssumption DEF NullObjectIsNull
<1>4. QED
  BY <1>1, <1>2, <1>3, PTL DEF Spec

\* A reference that was good when Json.h returned it, which is every one but that of an
\* AddValue or PushValue to a Json of another type (Json.h:154, 167), refers to a Json
\* that exists, and the accesses that found it find it again, until something above it
\* is given another value: containers of any size and depth may grow around it.
THEOREM ReferencesAreGood == ParsesIntoTrees => (Spec => []ReferencesStay)
<1> SUFFICES ASSUME ~ParsesAnywhere PROVE Spec => []ReferencesStay
  BY DEF ParsesIntoTrees
<1>1. Init => JsonInv
  BY JsonInit, BookkeepingAssumption DEF Init
<1>2. JsonInv /\ [Next]_allVars => JsonInv'
  BY PartsSteps, JsonStep, BookkeepingAssumption
<1>3. JsonInv => ReferencesStay
  BY HeldIsFound DEF ReferencesStay
<1>4. QED
  BY <1>1, <1>2, <1>3, PTL DEF Spec

\* Neither the pool nor the arena gives out memory that somebody has, of any size
\* and whatever constructors throw (ObjectPool.h:36-108, ArenaAllocator.h).
THEOREM MemoryIsApart == Spec => []PlacesAreApart
<1>1. Init => PoolInv /\ ArenaInv
  BY PartsStart
<1>2. PoolInv /\ ArenaInv /\ [Next]_allVars => PoolInv' /\ ArenaInv'
  BY PartsSteps, PoolStep, ArenaStep
<1>3. PoolInv /\ ArenaInv => PlacesAreApart
  BY DEF PlacesAreApart, PoolInv, ArenaInv
<1>4. QED
  BY <1>1, <1>2, <1>3, PTL DEF Spec

\* The mutex is locked exactly while one guard has it, for any number of threads
\* and guards and through any number of moves (LockedResource.h:13-31).
THEOREM OneGuard == Spec => []OneGuardHolds
<1>1. Init => Guard!OneGuardHolds
  BY PartsStart
<1>2. Guard!OneGuardHolds /\ [Next]_allVars => Guard!OneGuardHolds'
  BY PartsSteps, OneGuardInductive
<1>3. QED
  BY <1>1, <1>2, PTL DEF Spec, OneGuardHolds

\* What a thread waits for in Lock is another guard: while no guard has the mutex,
\* Lock does not wait (LockedResource.h:20-25).
COROLLARY FreeWhenNobodyHolds == Spec => [](myMutex = {} => ~locked)
<1>1. OneGuardHolds => (myMutex = {} => ~locked)
  BY DEF OneGuardHolds, Guard!OneGuardHolds
<1>2. QED
  BY <1>1, OneGuard, PTL
================================================================================
