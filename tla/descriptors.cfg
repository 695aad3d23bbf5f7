SPECIFICATION MCSpec
CONSTANTS
  Owners = {o1, o2, o3}
  Fds = {f1, f2, f3}
  NoFd = NoFd
  NoValue = NoValue
  Chunk = 2
INVARIANTS TableSound FilesInv SpawnInv ConfInv
 
CHECK_DEADLOCK FALSE
