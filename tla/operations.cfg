CONSTANT Scripts <- MCScripts
SPECIFICATION Spec
INVARIANTS SharedBufferIsHarmless KeyOperationsEarned VerdictsKept ValidMeansGood 
CHECK_DEADLOCK FALSE
