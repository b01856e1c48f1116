\* Two processes, a buffer of two blocks.  A failed load is the end.
SPECIFICATION DmaFairSpec
CONSTANTS
    Procs = {p1, p2}
    NBlocks = 2
INVARIANTS DmaNoLostWakeup UndisturbedCopies BuffersOutliveTransfer
    FaultsOnlyEarly
PROPERTIES WaiterReturns
CHECK_DEADLOCK FALSE
