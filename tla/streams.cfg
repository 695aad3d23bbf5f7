SPECIFICATION MCSpec
CONSTANTS
  Byte <- MCByte
  Nul <- MCNul
  Garbage <- MCGarbage
  InitialAlloc = 2
  BufferSize = 2
  MaxWrite = 3
  MaxLength = 4
INVARIANTS MemInv LinesExact ThreadsInv
PROPERTIES  CallsReturn
CHECK_DEADLOCK FALSE
