CONSTANTS
    Base = "core"
    Omitted = Omitted
    Attributes <- MCAttributes
    Subs <- MCSubs
    References <- MCReferences
    Definitions <- MCAlways
    Documents <- MCDocuments
    Queries <- MCQueries
    Specified <- MCSpecified
SPECIFICATION ProjectionSpec
INVARIANTS AlwaysReturned
CHECK_DEADLOCK FALSE
