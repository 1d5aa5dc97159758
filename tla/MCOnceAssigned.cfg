CONSTANTS
    Base <- MCBase
    Extension <- MCExtension
    Stored <- MCStored
    Bodies <- MCBodies
    Operations <- MCOperations
    MaxOps = 2
    MaxRequests = 1
SPECIFICATION Spec
PROPERTY AssignedForGood
CHECK_DEADLOCK FALSE
