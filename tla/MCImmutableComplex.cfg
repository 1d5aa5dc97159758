SPECIFICATION Spec
CONSTANTS
    None = None
    Null = Null
    Ids = {a, b}
    Locks = {x, y}
    Spellings = {lower, mixed}
    Attributes <- MCImmutableComplex
    Held <- MCHeld
    Incoming <- MCIncoming
    Clauses = {1}
    MaxEvaluations = 3
    MaxWriteBytes = 3
    MaxOps = 2
    MaxLen = 3
PROPERTIES
    ImmutableListKept
CHECK_DEADLOCK FALSE
