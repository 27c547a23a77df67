SPECIFICATION FairRecSpec
CONSTANTS
    p1 = p1
    p2 = p2
    NoOne = NoOne
    Stale = Stale
    Attempts <- OnePod
    Mode = "enforce"
    OwnershipRequired = FALSE
    Faulty = TRUE
    MaxBudgetHandbacks = 2
    MaxPolicyHandbacks = 2
    Humans = TRUE
    Crashes = TRUE
    Fences = TRUE
PROPERTIES
    StrandedIsTriaged
    MergeIsRecorded
CHECK_DEADLOCK FALSE
