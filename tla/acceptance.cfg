SPECIFICATION FairSpec
CONSTANTS
    k1 = k1
    k2 = k2
    coffee = coffee
    book = book
    Attempts = {a1, a2, a3}
    Keys = {k1, k2}
    Contents = {coffee, book}
    Headers <- MCHeaders
    Bodies <- MCBodies
    normalizeIdempotencyKey <- MCKey
    NormalizeAndValidate <- MCContent
    MaxFaults = 2
    Invalid = Invalid
    None = None
CHECK_DEADLOCK FALSE
INVARIANTS
    OnePaymentPerKey
    AnswersDurable
    ConflictJustified
    ReplayFindsOriginal
PROPERTIES
    EveryAttemptAnswered
