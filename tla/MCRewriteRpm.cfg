CONSTANTS
  Signers <- OneSigner
  OutKinds <- Kinds
  FitChoices <- AnyFit
  FaultPoints <- Calls
  MaxFaults = 2
  Crashes = TRUE
SPECIFICATION Spec
INVARIANTS
  TypeOK
  OkMeansSigned
  BodyNeverLost
  InputUntouched
  NoTempLeft
PROPERTIES
  Returns
\* every process ends by returning or being killed
CHECK_DEADLOCK FALSE
