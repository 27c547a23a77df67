SPECIFICATION FairSpec
CONSTANTS
    q1 = q1
    q2 = q2
    Questions <- MCQuestions
    MaxRounds = 2
    MaxLoops = 2
    MaxFaults = 2
    MaxKills = 1
    QueueLimit = 1
INVARIANTS
    AcceptanceKept
    WaitsOnOwnRound
    AnswersReachTheProposal
PROPERTIES
    LoopEnds
CHECK_DEADLOCK FALSE
