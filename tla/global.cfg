CONSTANTS
  c1 = c1
  c2 = c2
  null = null
  Ctx <- MCCtx
  NoCtx = null
  Chan <- MCTwoChan
  StatusChan = "status"
  CmdChan = "cmd"
  WaitArgs <- MCAll
  MaxOps = 2
  MaxIO = 1
  AsyncCancel = TRUE
  LateCancel = TRUE
  EarlyRelease = FALSE
  OutOfCore = TRUE
SPECIFICATION Spec
INVARIANT LoopInv
PROPERTY EachResultOnce
SYMMETRY Symmetry
CHECK_DEADLOCK FALSE
