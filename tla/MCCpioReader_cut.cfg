CONSTANTS
  Streams <- CutStreams
  MaxBuf = 6
SPECIFICATION Spec
INVARIANT EofMeansTrailer
\* a panic ends the caller
CHECK_DEADLOCK FALSE
