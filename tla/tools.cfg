SPECIFICATION MCSpec
CONSTANTS
  MaxRecipients = 2
  MaxWork = 3
  MaxLost = 1
INVARIANTS   InteractorsInv
CHECK_DEADLOCK FALSE
