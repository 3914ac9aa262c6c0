CONSTANTS
  Signers <- OneSigner
  OutKinds <- FileKinds
  FitChoices <- AnyFit
  FaultPoints = {"body"}
  MaxFaults = 1
  Crashes = FALSE
SPECIFICATION Spec
INVARIANTS
  FailedWriteKeepsOutpath
\* every process ends by returning or being killed
CHECK_DEADLOCK FALSE
