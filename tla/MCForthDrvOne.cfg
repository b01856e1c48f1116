\* One process, two keys whose handlers nest.
SPECIFICATION ForthFairSpec
CONSTANTS
    Procs = {p1}
    NKeys = 2
    RequestMayFail = FALSE
INVARIANTS LevelAgrees ReadyReadReturns
PROPERTIES SleeperReturns PollerReturns
