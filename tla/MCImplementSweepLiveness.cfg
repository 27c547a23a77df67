CONSTANTS
    incident = incident
    issue = issue
    Slugs <- MCSlugs
    LoopSlugs = {issue}
    MaxSubmits = 1
    MaxPrestart = 1
    Window = 3
    MaxRequeues = 1
    MaxTries = 2
    MaxLoops = 1
    MaxTroubles = 0
    Barren = {issue}
SPECIFICATION FairSweepSpec
PROPERTIES StrandedIsSwept
CHECK_DEADLOCK FALSE
