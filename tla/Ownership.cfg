SPECIFICATION FairSpec
CONSTANTS
    NoOne = NoOne
    HealthyNeedsProgress = FALSE
    Loops = {l1}
    Adopter = adopter
    Sweeps = {s1}
    Rollout = "enforce"
    HeartbeatEvery = 2
    UnknownLimit = 1
    HeartbeatLimit = 2
    BackoffPolls = 2
    RefusalLimit = 2
    MaxTroubles = 2
    MaxHead = 2
CHECK_DEADLOCK FALSE
INVARIANTS
    TypeOK
    BeliefIsGranted
    HeadIsRecorded
PROPERTIES
    SilentIsFreed
    BeliefSettles
