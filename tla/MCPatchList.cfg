SPECIFICATION Spec
CONSTANTS
    None = None
    Null = Null
    Ids = {a, b}
    Locks = {x, y}
    Spellings = {lower, mixed}
    Attributes <- MCAttributes
    Held <- MCHeld
    Incoming <- MCIncoming
    Clauses = {1, 2}
    MaxEvaluations = 3
    MaxWriteBytes = 4
    MaxOps = 3
    MaxLen = 4
INVARIANTS
    IndexExact
    OnePrimary
    NoRepeats
    WorkWithinBudget
PROPERTIES
    ImmutableListKept
    LockKept
CHECK_DEADLOCK FALSE
