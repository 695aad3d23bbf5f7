CONSTANTS
  Clients = {"js", "any"}
  JsPosts <- MCJsPosts
  AnySends <- MCAnySends
  Lengths <- MCLengths
  MaxPosts <- MCMaxPosts
  SizeMod = 268435456
SPECIFICATION MCSpec
INVARIANTS MessagingInv RefreshComplete
 
CHECK_DEADLOCK FALSE
