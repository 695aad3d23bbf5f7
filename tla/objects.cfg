SPECIFICATION MCSpec
CONSTANTS
  d1 = d1
  d2 = d2
  null = null
  Handle <- MCHandles
  NoHandle = null
  Chunk = 1
  MaxSerial = 4
  Scripts <- MCScripts
SYMMETRY Symmetry
INVARIANTS BlankInv OutcomeSound  ReferencesInv
CHECK_DEADLOCK FALSE
