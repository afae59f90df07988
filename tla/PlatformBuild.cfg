SPECIFICATION FairSpec
CONSTANTS
    None = None
    Names <- MCNames
    Versions <- MCVersions
    SpecLists <- MCSpecLists
    Leftovers <- MCLeftovers
INVARIANTS
    TypeOK
    FatalMeansStuck
    NothingLeftBehind
    FragmentBacked
    StagedIsPackaged
PROPERTIES
    ImplementsOrder
    BuildEnds
CHECK_DEADLOCK FALSE
