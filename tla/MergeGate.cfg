SPECIFICATION FairSpec
CONSTANTS
    h1 = h1
    h2 = h2
    Heads = {h1, h2}
    FirstHead = h1
    NoHead = NoHead
    EffectTries = 2
    ActivityTries = 2
    OffPolls = 2
    Grace = 2
    Confirm = 1
    MaxPushes = 1
    MaxStray = 1
    MaxTroubles = 1
INVARIANTS SpentOnce
PROPERTIES MergeIsApproved ApprovedIsUsed WatchEnds
CHECK_DEADLOCK FALSE
