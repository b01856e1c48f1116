\* One process, two keys whose handlers nest.
SPECIFICATION FifthFairSpec
CONSTANTS
    Procs = {p1}
    NKeys = 2
    RequestMayFail = FALSE
INVARIANTS NotifiedOrRead CarefulNeverFaults
PROPERTIES NotifiedReads
