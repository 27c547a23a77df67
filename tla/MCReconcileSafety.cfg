SPECIFICATION RecSpec
CONSTANTS
    p1 = p1
    p2 = p2
    NoOne = NoOne
    Stale = Stale
    Attempts <- Pods
    Mode = "enforce"
    OwnershipRequired = TRUE
    Faulty = TRUE
    MaxBudgetHandbacks = 1
    MaxPolicyHandbacks = 1
    Humans = TRUE
    Crashes = TRUE
    Fences = FALSE
SYMMETRY Symmetry
INVARIANTS
    TypeOK
    WorkIsClaimed
    HolderIsRecorded
    GrantAndResultAgree
PROPERTIES
    ResultIsFenced
    EndingWritesAreOwn
    LiveAttemptIsKept
CHECK_DEADLOCK FALSE
