SPECIFICATION Spec
CONSTANTS
  PAGESZ = 4
  ENTRIES = 2
  RAM_TOP = 6
  MEM_SIZE = 16
  MEM_ENDS <- MCMemEnds
  STORED = {3}
INVARIANTS
  TypeOK
  FreeListSound
  HeadIsFree
  PoolComplete
PROPERTIES
  HeldUntouched
  InitFinishes
  ImplementsPageStack
