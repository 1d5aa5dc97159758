CONSTANTS
    None = None
    Ids = {r1}
    Foreign = {}
    Kinds <- MCKinds
    References <- MCReferences
    Soft <- MCSoft
    Holder <- MCHolder
    Types <- MCTypes
    Names = {n1}
    Keys <- MCKeys
    Data = {d1, d2}
    MaxTime = 7
    Requests <- ImmutableRequests
    Callers = {c1, c2}
    Readings <- MCReadings
    MaxCalls = 4
SPECIFICATION FairServiceSpec
PROPERTIES ImmutableKept Answered
CHECK_DEADLOCK FALSE
