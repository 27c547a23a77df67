CONSTANTS
    Passes = {sweep}
    MaxReviewAttempts = 2
    MaxRefusals = 2
    MaxHarness = 1
    InfraMax = 0
    ProbeMax = 1
    UnknownMax = 1
    MaxHead = 1
    Posted = {"request", "approve"}
    MaxPosts = 1
    MaxTroubles = 1
    PersonDecides = {"approved", "changes"}
SPECIFICATION FairSpec
INVARIANTS BlamelessIsFree
PROPERTIES MergesApproved  MergeIsRecorded
CHECK_DEADLOCK FALSE
