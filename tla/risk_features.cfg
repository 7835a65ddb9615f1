CONSTANTS
    HighAmount = 100000
    ExtremeAmount = 500000
    ReviewThreshold = 40
    BlockThreshold = 70
    e1 = e1 e2 = e2 e3 = e3
    alice = alice phone = phone laptop = laptop home = home abroad = abroad
    p1 = p1 p2 = p2 v1 = v1
    Events = {e1, e2, e3}
    Customers = {alice}
    Devices = {phone, laptop}
    Countries = {home, abroad}
    Payload <- MCPayload
    VelocityWindow = 2
    None = None
    Workers = {w1, w2}
    Partitions = {p1, p2}
    Logs <- SpreadLogs
    Malformed = Malformed
    Terms <- MCTerms
    Versions = {v1}
    Answers <- MCAnswers
    Fallback = Fallback
    MaxFaults = 1
    MaxExpiries = 0
SPECIFICATION Spec
SYMMETRY Symmetry
INVARIANTS TypeOK FirstUseFlaggedOnce
PROPERTY VelocityExact
CHECK_DEADLOCK FALSE
