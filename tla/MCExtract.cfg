CONSTANTS
  Inputs <- MCInputs
  MaxPasses = 2
  CallsFail = TRUE
SPECIFICATION Spec
INVARIANTS
  TypeOK
  OkMeansExtracted
  InsideDest
  ExtractableSucceeds
PROPERTIES
  Terminates
\* Extract ends by returning
CHECK_DEADLOCK FALSE
