\* One process, one block, any choice of free lines.
SPECIFICATION DmaFairSpec
CONSTANTS
    Procs = {p1}
    NBlocks = 1
PROPERTIES SleeperWoken
CHECK_DEADLOCK FALSE
