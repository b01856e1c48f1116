\* An interrupt between copy_to_user and ev_press = 0.
SPECIFICATION ThirdSpec
CONSTANTS
    Procs = {p1}
    NKeys = 1
    RequestMayFail = FALSE
INVARIANTS SleepOnlyWithoutEvent
