SPECIFICATION PrintfSpec
\* The call returns: the model ends there.
CHECK_DEADLOCK FALSE
CONSTANTS
  BUFSZ = 6
  BITS <- MCBits
  FORMATS <- LongBinary
  SINKS = {"char"}
  MAXLENS = {}
  CELLS = 0
INVARIANT
  BufferHoldsNumber
