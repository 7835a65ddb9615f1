SPECIFICATION Spec
CONSTANTS
    pay1 = pay1
    pay2 = pay2
    stranger = stranger
    m1 = m1
    m2 = m2
    r1 = r1
    r2 = r2
    Payments = {pay1, pay2}
    Events <- AllEvents
    Partitions = {"P"}
    MaxRecords = 3
    MaxFaults = 2
    Members = {m1, m2}
    Requests = {}
    None = None
    Malformed = Malformed
    Tombstone = Tombstone
    Unstorable <- Refusable
    AutoOffsetReset = "earliest"
SYMMETRY Symmetry
CHECK_DEADLOCK FALSE
INVARIANTS
    ReconciliationClean
    NoRecordSkipped
    AppliedOnce
PROPERTIES
    ProgressNeverUndone
