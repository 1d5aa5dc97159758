CONSTANTS
    Base <- MCBase
    Extension <- MCExtension
    Stored <- MCStored
    Bodies <- MCBodies
    Operations <- MCOperations
    MaxOps = 2
    MaxRequests = 1
SPECIFICATION Spec
INVARIANT EchoIsHarmless
PROPERTIES ReadOnlyKept OnceAssigned ListedForData
CHECK_DEADLOCK FALSE
