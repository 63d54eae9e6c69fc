SPECIFICATION PrintfSpec
\* The call returns: the model ends there.
CHECK_DEADLOCK FALSE
CONSTANTS
  BUFSZ = 6
  BITS <- MCBits
  FORMATS <- OneDirective
  SINKS = {"null"}
  MAXLENS = {}
  CELLS = 0
INVARIANTS
  PrintfTypeOK
  NtoaBounded
  DepartsExactly
