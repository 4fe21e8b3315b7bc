SPECIFICATION Spec
CONSTANTS
  MaxID <- MCMaxID
  EventMaxDepth <- MCEventMaxDepth
  InCallback <- MCAnything
  ShortMaxDepth <- MCShortMaxDepth
  MaxCallbacks <- MCMaxCallbacks
  SingleInCallback <- MCRegister
  Threads <- MCThreads
  Tags <- MCTags
  MaxDepth <- MCMaxDepth
  MaxTraced <- MCMaxTraced
  SystemError <- MCSystemError
  SystemInfo <- MCSystemInfo
  Others <- MCOthers
  Files <- MCFiles
  name = name
  Keys <- MCKeys
  MaxNodes = 4
  MaxPath = 2
  ParsesAnywhere = FALSE
  PoolSize = 2
  AllowExcess = TRUE
  Heap <- MCHeap
  MaxThrows = 1
  PerBlock = 2
  MaxBlocks = 2
  Guards <- MCGuards
INVARIANTS
  RegistrationsAreKnown
  CalledInOrderAndOnce
  OnlyRootsDangle
  FilesMatchMappings
  NullObjectIsNull
  ReferencesStay
  PlacesAreApart
  OneGuardHolds
PROPERTIES
  NothingOnlyIfAllPassed
\* The events may be gone, every trace completed as often as the bound allows.
CHECK_DEADLOCK FALSE
