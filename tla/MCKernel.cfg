SPECIFICATION KernelSpec
\* The machine is off, or hangs in a trap: nothing runs on from there.
CHECK_DEADLOCK FALSE
CONSTANTS
  PAGESZ = 4
  ENTRIES = 4
  RAM_TOP = 26
  MEM_SIZE = 32
  MEM_ENDS <- MCMemEnds
  STORED = {23}
  MEM_START <- MCMemStart
  TEXT_ENDS <- MCTextEnds
  WORD = 512
  MAXCPU = 2
  IMAGES <- MCImages
  STACK_USE = 2
  UART0 = 28
INVARIANTS
  KernelTypeOK
  TrapOnlyForLargeImages
  OnlyFreePagesOut
  ConsoleTellsOutcome
PROPERTIES
  ImplementsUserView
  ReachesUmain
  RunsOrPowersOff
