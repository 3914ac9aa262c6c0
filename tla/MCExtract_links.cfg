CONSTANTS
 Inputs <- MCInputs
 MaxPasses = 1
 CallsFail = FALSE
SPECIFICATION Spec
INVARIANT EveryFileExists
CHECK_DEADLOCK FALSE
