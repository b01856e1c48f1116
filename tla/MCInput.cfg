\* Two keys, request_irq may fail; as many touch samples as in the code; two mice
\* with one button each, put in twice altogether.  With the mice the kernel
\* stops at a fault.
SPECIFICATION InputFairSpec
CONSTANTS
    NKeys = 2
    RequestMayFail = TRUE
    Samples = 4
    InitMayFail = TRUE
    Mice = {m1, m2}
    NButtons = 1
    MaxPlugs = 2
INVARIANTS LastKeyAgrees FaultsOnlyAfterFailedLoad SampleInArray TouchWatched LiveNeverFaults
    MouseFaultsConfined KeysFollowPackets
PROPERTIES ComesToRest PenUpReported LongPressReported ButtonsReported
CHECK_DEADLOCK FALSE
