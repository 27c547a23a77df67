SPECIFICATION Spec
CONSTANTS
    a1 = a1
    a2 = a2
    Attempts <- MCAttempts
    MaxTerms = 2
    Lifetime = 0
    Margin = 1
    MaxSkew = 1
    MaxTime = 2
SYMMETRY Symmetry
INVARIANTS
    TypeOK
    ApprovalSpent
    AnswersAreTrue
PROPERTIES
    ImplementsContract
CHECK_DEADLOCK FALSE
