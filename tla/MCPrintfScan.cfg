SPECIFICATION ScanSpec
\* The call returns: the model ends there.
CHECK_DEADLOCK FALSE
CONSTANTS
  BUFSZ = 6
  BITS <- MCBits
  FORMATS <- NothingRead
  SINKS = {"buffer", "char", "fct", "null"}
  MAXLENS = {0, 1, 2, 4, 6, 12, 4095}
  CELLS = 13
  WRAPS = 1
  CALLS <- SpelledCalls
INVARIANT
  SnprintfContract
PROPERTY
  ImplementsDirectives
