SPECIFICATION MmSpec
\* pz_mm_init returns to its caller, or panics: the model ends there.
CHECK_DEADLOCK FALSE
CONSTANTS
  PAGESZ = 4
  ENTRIES = 4
  RAM_TOP = 26
  MEM_SIZE = 32
  MEM_ENDS <- MisloadedMemEnds
  STORED = {}
  MEM_START <- MCMemStart
  TEXT_ENDS <- MisloadedTextEnds
  WORD = 512
INVARIANT
  TablesAreATree
PROPERTIES
  MisloadCaught
  EndComesNearer
  ImplementsPageStack
