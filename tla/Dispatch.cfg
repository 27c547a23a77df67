CONSTANTS
    Starts = {first}
    Resumes = {again}
    Pinned = {again}
    Dispatchers = {d1, d2}
    None = none
    LateGiveUp = FALSE
    MaxOverruns = 1
    MaxFaults = 1
SPECIFICATION FairSpec
INVARIANTS WorkedIsOpen
PROPERTIES RunsOnce RequestsEnd
CHECK_DEADLOCK FALSE
