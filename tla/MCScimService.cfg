CONSTANTS
    None = None
    Ids = {r1, r2}
    Foreign = {}
    Kinds <- MCKinds
    References <- MCReferences
    Soft <- MCSoft
    Holder <- MCHolder
    Types <- MCTypes
    Names = {n1, n2}
    Keys <- MCKeys
    Data = {}
    MaxTime = 7
    Requests <- MCRequests
    Callers = {c1, c2}
    Readings <- MCReadings
    MaxCalls = 4
SPECIFICATION ServiceSpec
INVARIANTS TagIdentifiesRepresentation ConflictsAreReal
PROPERTIES NoLostUpdate IfMatchHonoured Linearizable
SYMMETRY Symmetry
CHECK_DEADLOCK FALSE
