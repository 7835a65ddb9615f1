SPECIFICATION Spec
CONSTANTS
    Events = {good}
    Poison = {}
    Unpublishable = {}
    Publishers = {w1}
    RetryMin = 1
    RetryMax = 3
    MaxAttempts = 3
    MaxFaults = 1
    None = None
CHECK_DEADLOCK FALSE
PROPERTIES
    CancellationRollsBack
