SPECIFICATION PairSpec
CONSTANTS
  Engines = {a, b}
  Fds = {3, 4, 5, 6, 7, 8, 9, 10, 11}
  Calls <- Mixed
  MaxData = 2
  MaxAsks = 1
  NoMemory = {}
  None = None
SYMMETRY Perms
INVARIANTS EngineInv QuestionAtHand
