\* Two openers, the first close frees the lines of both.
SPECIFICATION ThirdSpec
CONSTANTS
    Procs = {p1, p2}
    NKeys = 1
    RequestMayFail = FALSE
INVARIANTS SleeperHasIrqs
