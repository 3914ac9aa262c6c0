CONSTANTS
  Streams <- MCStreams
  MaxBuf = 6
SPECIFICATION Spec
INVARIANTS
  TypeOK
  DeliversFilePrefix
  WholeArchiveReadable
PROPERTIES
  NothingAfterFailure
  MisuseOnlyAfterFailure
\* a panic ends the caller
CHECK_DEADLOCK FALSE
