\* Every order of the calls that set priorities, among them selections that are refused
\* and a selection made before metadata arrives.
SPECIFICATION Spec
CONSTANTS
    PieceLength = 2
    MaxOffset = 15
    MaxDeadline = 1000
    Sizes <- MCSizes
    FileLevels = {0, 7}
    PieceLevels = {0, 7}
    Selections <- MCSelections
    Requests <- MCRequests
    None = None
INVARIANTS
    TypeOK
    EngineFollowsPolicy
    DesiredMatchesEngine
    WindowCoversRequest
    DeadlinesInStep
    Inv
PROPERTIES
    FrozenUnlessRefused
