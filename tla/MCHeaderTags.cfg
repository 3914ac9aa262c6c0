CONSTANTS
  Packages <- MCPackages
  Base = 4
SPECIFICATION Spec
INVARIANTS
  IntsAsBuilt
  StringsAsBuilt
  FilesAsBuilt
  SummaryAsBuilt
\* one question per behaviour
CHECK_DEADLOCK FALSE
