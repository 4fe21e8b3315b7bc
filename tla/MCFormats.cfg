SPECIFICATION MCSpec
CONSTANTS
  Chunk <- MCChunk
  Base <- MCBase
  SizeWidth <- MCSizeWidth
  Schema <- MCSchema
  Objects <- MCObjects
  Data <- MCData
  Texts <- MCTexts
  HexData <- MCHexData
  HexTexts <- MCHexTexts
  JsonTexts <- MCJsonTexts
  Behind <- MCBehind
  Earlier <- MCEarlier
  Precision <- MCPrecision
INVARIANTS
  ReadAsWritten
  EncodingsPreserveData
  ParsesJson
  ReadsWhatItWrote
PROPERTIES
  WrittenIsRead
\* All objects may have been read, and every encoding and parse ends.
CHECK_DEADLOCK FALSE
