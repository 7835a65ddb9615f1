\* One process of each kind in each environment, two requests, one connection.
SPECIFICATION FairSpec
CONSTANTS
    Absent = Absent
    Malformed = Malformed
    Reviewers <- MCReviewers
    RawIds <- MCRawIds
    TrimSpace <- MCTrimSpace
    RawRoles <- MCRawRoles
    TrimRole <- MCTrimRole
    Tokens <- MCTokens
    Requests = {r1, r2}
    Inputs <- MCInputs
    Environments <- MCEnvironments
    ReadTimeout = 2
    WriteTimeout = 2
    MaxConns = 1
CHECK_DEADLOCK FALSE
INVARIANTS
    ConstructorsAccept
    TokensIdentify
    CleanExitComplete
    LostAnswersExplained
    NeverHalfAlive
PROPERTIES
    StopLeadsToExit
    EveryRequestEnds
