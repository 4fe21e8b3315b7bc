SPECIFICATION FairStreamsSpec
CONSTANTS
  CHUNK_SIZE <- MCChunkSize
  MaxBytes <- MCMaxBytes
  MaxRequest <- MCMaxRequest
  MaxBytesWritten <- MCMaxBytesWritten
INVARIANTS
  IInv
  LoopsStayOnTheList
  WriteIInv
PROPERTIES
  ImplementsByteStream
  ImplementsWriteBuffer
  AllCallsReturn
\* A Get that found only an empty segment is the end of the program.
CHECK_DEADLOCK FALSE
