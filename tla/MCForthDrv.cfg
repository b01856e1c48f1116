\* Two processes that poll and read, one key; request_irq may fail.
SPECIFICATION ForthSpec
CONSTANTS
    Procs = {p1, p2}
    NKeys = 1
    RequestMayFail = TRUE
SYMMETRY ProcSymmetry
INVARIANTS IrqsAccounted NoLostWakeup EventHasKey PollerNotStuck
