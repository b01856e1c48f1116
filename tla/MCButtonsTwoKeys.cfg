\* Two keys moving within one timer period.
SPECIFICATION ButtonsSpec
CONSTANTS
    NKeys = 2
    RequestMayFail = FALSE
INVARIANTS RepeatsOnlyWhileHeld
