SPECIFICATION PrintfSpec
\* The call returns: the model ends there.
CHECK_DEADLOCK FALSE
CONSTANTS
  BUFSZ = 6
  BITS <- MCBits
  FORMATS <- Short
  SINKS = {"char", "fct"}
  MAXLENS = {}
  CELLS = 0
INVARIANT
  ReturnCountsWritten
