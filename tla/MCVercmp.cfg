CONSTANT
  Inputs <- MCInputs
SPECIFICATION Spec
INVARIANTS
  TypeOK
  MatchesOrder
PROPERTIES
  Terminates
\* the comparison ends by returning
CHECK_DEADLOCK FALSE
