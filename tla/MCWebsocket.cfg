SPECIFICATION FairSpec
CONSTANTS
  ShortMax <- MCShortMax
  WordMax <- MCWordMax
  PeerFrames <- MCFrames
  MaxFrames <- MCFewFrames
  MaxTexts <- MCOneText
INVARIANTS
  HandledInOrder
  WrittenIsReadable
  FragmentsAreTheOpenMessage
PROPERTIES
  FailedIsFinal
  ArrivedIsHandled
\* The peer may have sent all its frames, and the program may be dead.
CHECK_DEADLOCK FALSE
