CONSTANTS
    HighAmount = 100000
    ExtremeAmount = 500000
    ReviewThreshold = 40
    BlockThreshold = 70
    e1 = e1 e2 = e2 e3 = e3
    alice = alice phone = phone laptop = laptop home = home abroad = abroad
    p1 = p1 p2 = p2 v1 = v1
    Events = {e1}
    Customers = {alice}
    Devices = {phone, laptop}
    Countries = {home, abroad}
    Payload <- OnePayload
    VelocityWindow = 2
    None = None
    Workers = {w1, w2}
    Partitions = {p1}
    Logs <- RepeatLogs
    Malformed = Malformed
    Terms <- MCTerms
    Versions = {v1}
    Answers <- MCAnswers
    Fallback = Fallback
    MaxFaults = 2
    MaxExpiries = 1
SPECIFICATION FairSpec
INVARIANTS NoInputSkipped OneAnswerPerEvent
CHECK_DEADLOCK FALSE
PROPERTY EveryInputSettles
