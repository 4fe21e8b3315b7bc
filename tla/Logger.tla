--------------------------------- MODULE Logger ---------------------------------
(***************************************************************************)
(* tools/Logger.cpp: the filters, the files that types are mapped to, and  *)
(* the messages that the functions log about themselves.                   *)
(*                                                                         *)
(* A LoggerType is a set of bits.  Map and UnMap go over the bits of their *)
(* argument in order, one action per bit that is set.  They and the        *)
(* setters take no lock, so that only one thread calls them here; Log has  *)
(* the lock.  The counts of Rapport and the ImGui log are never read and   *)
(* left out, and so are the colours.  What is not built for Windows makes  *)
(* the same steps but for Shutdown, which does nothing there.              *)
(***************************************************************************)
EXTENDS Integers, FiniteSets, Functions

CONSTANTS SystemError, SystemInfo, \* the bits the logger uses itself,
          Others,                  \* and bits above them
          Files                    \* the names of files in logs/

Types == Others \cup {SystemError, SystemInfo}

LoggerAssumption == Others \subseteq Nat /\ SystemError \in Nat /\ SystemInfo \in Nat

VARIABLES Filter, Halting,
          FileMapping,  \* from the types that are mapped to their files
          OpenFiles,    \* from files to the state of their ofstream
          running,      \* the function that goes over bits, or "none"
          bits,         \* the bits it has still to look at
          aOutputFile,  \* Map's argument
          shutDown      \* whether Shutdown has been called, on Windows

vars == <<Filter, Halting, FileMapping, OpenFiles, running, bits, aOutputFile, shutDown>>

\* operator[] of a std::map: an entry that is there stays.
With(map, key, value) == [k \in DOMAIN map \cup {key} |-> IF k \in DOMAIN map THEN map[k] ELSE value]

\* Log: the message goes to OpenFiles[FileMapping[type]], which makes a stream,
\* a closed one, if there is none.
Logged(mapping, files, type) ==
  IF type \in DOMAIN mapping THEN With(files, mapping[type], "closed") ELSE files

Log(type) == OpenFiles' = Logged(FileMapping, OpenFiles, type)

\* LOG(types, ...): several types in one are an error of their own.
Rapport(types) ==
  /\ running = "none"
  /\ IF Cardinality(types) = 1 THEN \E type \in types : Log(type) ELSE Log(SystemError)
  /\ UNCHANGED <<Filter, Halting, FileMapping, running, bits, aOutputFile, shutDown>>

Encompasses(filter, types) == types \subseteq filter

SetFilter(aFilter) ==
  /\ running = "none"
  /\ IF Encompasses(aFilter, Halting)
     THEN Filter' = aFilter /\ UNCHANGED OpenFiles
     ELSE Log(SystemError) /\ UNCHANGED Filter
  /\ UNCHANGED <<Halting, FileMapping, running, bits, aOutputFile, shutDown>>

SetHalting(aFilter) ==
  /\ running = "none"
  /\ IF Encompasses(Filter, aFilter)
     THEN Halting' = aFilter /\ UNCHANGED OpenFiles
     ELSE Log(SystemError) /\ UNCHANGED Halting
  /\ UNCHANGED <<Filter, FileMapping, running, bits, aOutputFile, shutDown>>

-----------------------------------------------------------------------------
(* Map and UnMap *)

Lowest == CHOOSE type \in bits : \A other \in bits : type <= other

\* The loop goes on with the bits above, or the function returns.
GoOn == /\ bits' = bits \ {Lowest}
        /\ running' = IF bits' = {} THEN "none" ELSE running
Leave == bits' = {} /\ running' = "none"

Map(aMessageType, file) ==
  /\ running = "none"
  /\ running' = "Map" /\ bits' = aMessageType /\ aOutputFile' = file
  /\ UNCHANGED <<Filter, Halting, FileMapping, OpenFiles, shutDown>>

\* The bits above stay unmapped.
AlreadyMapped ==
  /\ running = "Map"
  /\ Lowest \in DOMAIN FileMapping
  /\ Log(SystemError)
  /\ Leave
  /\ UNCHANGED <<Filter, Halting, FileMapping, aOutputFile, shutDown>>

\* A file that has no stream is opened.  That may fail, which is logged, perhaps
\* to that very stream; it stays in the map.
MapBit ==
  LET mapping == With(FileMapping, Lowest, aOutputFile)
  IN /\ running = "Map"
     /\ Lowest \notin DOMAIN FileMapping
     /\ FileMapping' = mapping
     /\ \/ aOutputFile \in DOMAIN OpenFiles /\ UNCHANGED OpenFiles
        \/ /\ aOutputFile \notin DOMAIN OpenFiles
           /\ \/ OpenFiles' = With(OpenFiles, aOutputFile, "open")
              \/ OpenFiles' = Logged(mapping, With(OpenFiles, aOutputFile, "bad"), SystemError)
     /\ GoOn
     /\ UNCHANGED <<Filter, Halting, aOutputFile, shutDown>>

UnMap(aMessageType) ==
  /\ running = "none"
  /\ running' = "UnMap" /\ bits' = aMessageType
  /\ UNCHANGED <<Filter, Halting, FileMapping, OpenFiles, aOutputFile, shutDown>>

NotMapped ==
  /\ running = "UnMap"
  /\ Lowest \notin DOMAIN FileMapping
  /\ Log(SystemError)
  /\ GoOn
  /\ UNCHANGED <<Filter, Halting, FileMapping, aOutputFile, shutDown>>

\* Faulty variant, for mutation: the file is closed whoever else is mapped to it.
UnusedAlways(mapping, file) == TRUE

\* No type is mapped to the file.
Unused(mapping, file) == file \notin Range(mapping)

\* Logged while the type is still mapped.  The file is closed with its last
\* type; if there is another, UnMap returns and the bits above stay mapped.
UnMapBit ==
  LET file == FileMapping[Lowest]
      rest == Restrict(FileMapping, DOMAIN FileMapping \ {Lowest})
      logged == Logged(FileMapping, OpenFiles, SystemInfo)
  IN /\ running = "UnMap"
     /\ Lowest \in DOMAIN FileMapping
     /\ FileMapping' = rest
     /\ IF Unused(rest, file)
        THEN /\ OpenFiles' = Restrict(logged, DOMAIN logged \ {file})
             /\ GoOn
        ELSE Log(SystemInfo) /\ Leave
     /\ UNCHANGED <<Filter, Halting, aOutputFile, shutDown>>

-----------------------------------------------------------------------------

\* On Windows all files are closed, "flush all files" (Logger.cpp:347), and the types
\* stay mapped; nothing keeps the program from calling any function afterwards.
Shutdown ==
  /\ running = "none"
  /\ OpenFiles' = <<>> /\ shutDown' = TRUE
  /\ UNCHANGED <<Filter, Halting, FileMapping, running, bits, aOutputFile>>

Init ==
  /\ Filter = Types /\ Halting = {}
  /\ FileMapping = <<>> /\ OpenFiles = <<>>
  /\ running = "none" /\ bits = {} /\ aOutputFile \in Files /\ shutDown = FALSE

Next ==
  \/ \E types \in (SUBSET Types) \ {{}} :
       \/ Rapport(types)
       \/ \E file \in Files : Map(types, file)
       \/ UnMap(types)
  \/ \E types \in SUBSET Types : SetFilter(types) \/ SetHalting(types)
  \/ AlreadyMapped \/ MapBit \/ NotMapped \/ UnMapBit
  \/ Shutdown

Spec == Init /\ [][Next]_vars

-----------------------------------------------------------------------------
(* Properties *)

TypeOK ==
  /\ Filter \subseteq Types /\ Halting \subseteq Types /\ bits \subseteq Types
  /\ DOMAIN FileMapping \subseteq Types /\ Range(FileMapping) \subseteq Files
  /\ DOMAIN OpenFiles \subseteq Files /\ Range(OpenFiles) \subseteq {"open", "bad", "closed"}
  /\ running \in {"none", "Map", "UnMap"} /\ aOutputFile \in Files
  /\ bits = {} <=> running = "none"
  /\ shutDown \in BOOLEAN

\* Until Shutdown has been called on Windows, a file is kept open for exactly as long
\* as a type is mapped to it, however many types share it and wherever Map and UnMap
\* leave their loops, and no message is written to a stream that was never opened.
\* Afterwards both may happen (types are mapped whose files were closed), but no
\* file ever outlives its types.  What halts is always shown as well ("not encompassed
\* completely by filter", Logger.cpp:221).
FilesMatchMappings ==
  /\ TypeOK
  /\ DOMAIN OpenFiles \subseteq Range(FileMapping)
  /\ ~shutDown => /\ Range(FileMapping) \subseteq DOMAIN OpenFiles
                  /\ "closed" \notin Range(OpenFiles)
  /\ Halting \subseteq Filter
================================================================================
