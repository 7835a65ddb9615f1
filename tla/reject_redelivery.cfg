SPECIFICATION FairSpec
CONSTANTS
    pay1 = pay1
    pay2 = pay2
    stranger = stranger
    m1 = m1
    m2 = m2
    r1 = r1
    r2 = r2
    Payments = {pay1}
    Events <- StrayEvents
    Partitions = {"P"}
    MaxRecords = 2
    MaxFaults = 1
    Members = {m1}
    Requests = {}
    None = None
    Malformed = Malformed
    Tombstone = Tombstone
    Unstorable = {}
    AutoOffsetReset = "earliest"
CHECK_DEADLOCK FALSE
PROPERTIES
    EveryRecordSettles
