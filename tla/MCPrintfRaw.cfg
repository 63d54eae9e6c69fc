SPECIFICATION ScanSpec
\* The call returns, or leaves its format: the model ends there.
CHECK_DEADLOCK FALSE
CONSTANTS
  BUFSZ = 6
  BITS <- MCBits
  FORMATS <- NothingRead
  SINKS = {"char"}
  MAXLENS = {}
  CELLS = 0
  WRAPS = 0
  CALLS <- RawCalls
INVARIANT
  LeavesFormatExactly
