CONSTANTS
    None = None
    Ids = {r1, r2, r3, f}
    Foreign = {f}
    Kinds <- MCKinds
    References <- MCReferences
    Soft <- MCSoft
    Holder <- MCHolder
    Types <- MCTypes
    Names = {n1, n2}
    Keys <- MCKeys
    Data = {None}
    MaxTime = 3
    Nodes <- MCNodes
    Graphs <- MCGraphs
    RowIds <- MCRowIds
    Rows <- MCRows
    Absent = Absent
    Queries <- MCQueries
    MaxCount = 2
    MaxWrites = 2
SPECIFICATION MCSpec
INVARIANTS UniqueIndexExact InboundExact LinksHeld PointersResolved Acyclic SearchExact WorkBounded  CreatesHideNothing
PROPERTIES VersionFollowsView DeletedIsForgotten
SYMMETRY Symmetry
CHECK_DEADLOCK FALSE
