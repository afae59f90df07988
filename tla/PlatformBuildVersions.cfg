SPECIFICATION Spec
CONSTANTS
    None = None
    Names <- MCNames
    Versions <- MCVersions
    SpecLists <- MCSpecLists
    Leftovers <- MCLeftovers
INVARIANTS
    EveryRecipePackaged
CHECK_DEADLOCK FALSE
