SPECIFICATION FairSpec
CONSTANTS
  None = None
  Listings <- MCListings
CHECK_DEADLOCK FALSE
INVARIANTS   AnswersComplete
PROPERTY NextReturns
