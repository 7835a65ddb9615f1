SPECIFICATION DashboardSpec
CONSTANTS
    pay1 = pay1
    pay2 = pay2
    stranger = stranger
    m1 = m1
    m2 = m2
    r1 = r1
    r2 = r2
    Payments = {pay1, pay2}
    Events <- ConflictEvents
    Partitions = {"P", "Q"}
    MaxRecords = 1
    MaxFaults = 0
    Members = {m1, m2}
    Requests = {r1}
    None = None
    Malformed = Malformed
    Tombstone = Tombstone
    Unstorable = {}
    AutoOffsetReset = "latest"
    Order <- NewestEvents
    Limits = {0, 1}
SYMMETRY Symmetry
CHECK_DEADLOCK FALSE
INVARIANTS
    ReceiptsTrue
    DocumentConsistent
    ControlsNotOlder
