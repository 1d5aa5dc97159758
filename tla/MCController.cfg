CONSTANTS
    Members = {"a", "b"}
    Labels = {"l", "k"}
    Bodies <- MCBodies
    Stamps <- MCStamps
    Configs <- MCConfigs
    Extra <- MCExtra
    Forms = {"tight", "lines", "spaced"}
    Operations <- MCOperations
    MaxTags = 2
    Base = "core"
    Omitted = Omitted
    Attributes <- MCAttributes
    Subs <- MCSubs
    References <- MCReferences
    Definitions <- MCDefinitions
    Documents <- MCDocuments
    Queries <- MCQueries
    Specified <- MCSpecified
SPECIFICATION MCSpec
INVARIANTS IfMatchExact NotModifiedIsFresh NoContentIsPredictable ShowsWhatIsDue FetchSuffices
CHECK_DEADLOCK FALSE
