SPECIFICATION MCSpec
CONSTANTS
  Engines = {a}
  Fds = {3, 4, 5, 6, 7, 8, 9, 10, 11, 12, 13, 14}
  Calls <- Everything
  MaxData = 5
  MaxAsks = 2
  NoMemory = {"start"}
  None = None
INVARIANTS AssuanInv  GpgInv 
 
CHECK_DEADLOCK FALSE
