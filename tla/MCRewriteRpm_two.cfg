CONSTANTS
  Signers <- TwoSigners
  OutKinds <- FileKinds
  FitChoices <- SameFit
  FaultPoints <- EarlyCalls
  MaxFaults = 2
  Crashes = TRUE
SPECIFICATION Spec
INVARIANTS
  OkMeansSigned
PROPERTIES
  ReplacesAtomically
\* every process ends by returning or being killed
CHECK_DEADLOCK FALSE
