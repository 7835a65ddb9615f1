SPECIFICATION FairSpec
CONSTANTS
    Events = {good, bad, huge}
    Poison = {bad}
    Unpublishable = {huge}
    Publishers = {w1, w2}
    RetryMin = 1
    RetryMax = 3
    MaxAttempts = 3
    MaxFaults = 1
    None = None
CHECK_DEADLOCK FALSE
INVARIANTS
    TypeOK
    PublishedWasDelivered
    OnlyPoisonQuarantined
    ClaimsExclusive
PROPERTIES
    TerminalRowsFinal
    EveryEventSettles
