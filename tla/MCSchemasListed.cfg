CONSTANTS
    Base <- MCBase
    Extension <- MCExtension
    Stored <- MCWellListed
    Bodies = {}
    Operations <- Drops
    MaxOps = 1
    MaxRequests = 1
SPECIFICATION Spec
INVARIANT SchemasExact
CHECK_DEADLOCK FALSE
