CONSTANTS
    HighAmount = 100000
    ExtremeAmount = 500000
    ReviewThreshold = 40
    BlockThreshold = 70
    Amounts <- MCAmounts
    Velocities <- MCVelocities
    Probabilities <- MCProbabilities
    Thresholds <- MCThresholds
SPECIFICATION Spec
INVARIANT ScoreSupportsVerdict
PROPERTY NeverMilder
