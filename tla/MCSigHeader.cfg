CONSTANTS
  Blocks <- MCBlocks
  SigSizes = {3, 8, 13}
  MaxSigns = 2
SPECIFICATION Spec
INVARIANTS
  TypeOK
  IndexWellFormed
  ReaderStopsAtGeneralHeader
  RoundTrip
  SameSizeWhenItFits
\* the file is not signed again, or could not be read
CHECK_DEADLOCK FALSE
