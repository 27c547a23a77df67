CONSTANTS
    incident = incident
    issue = issue
    Slugs <- MCOne
    LoopSlugs = {issue}
    MaxSubmits = 1
    MaxPrestart = 1
    Window = 3
    MaxRequeues = 1
    MaxTries = 2
    MaxLoops = 2
    MaxTroubles = 2
    Barren = {}
SPECIFICATION SweepSpec
INVARIANTS LossesAreBounded
PROPERTIES LiveLoopIsLeft
CHECK_DEADLOCK FALSE
