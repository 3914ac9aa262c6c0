CONSTANTS
  Payloads <- MCPayloads
  MaxBuf = 3
SPECIFICATION FairSpec
INVARIANTS
  TypeOK
  CompletePackageReadable
  LinkContentsFollow
PROPERTIES
  ImplementsPayloadFiles
  NothingAfterClose
  DecompressorClosed
\* a failed opening and a panic end the caller
CHECK_DEADLOCK FALSE
