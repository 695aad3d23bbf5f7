CONSTANTS
  c1 = c1
  c2 = c2
  null = null
  Ctx <- MCCtx
  NoCtx = null
  Chan <- MCTwoChan
  StatusChan = "status"
  CmdChan = "cmd"
  WaitArgs <- MCCtx
  MaxOps = 1
  MaxIO = 1
  AsyncCancel = TRUE
  LateCancel = FALSE
  EarlyRelease = FALSE
  OutOfCore = FALSE
SPECIFICATION FairSpec
INVARIANT AssertionsHold
PROPERTY WaitReturns
CHECK_DEADLOCK FALSE
