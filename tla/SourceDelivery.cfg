SPECIFICATION Spec
CONSTANTS
    t1 = t1
    t2 = t2
    r1 = r1
    r2 = r2
    None = None
    Partial = Partial
    Foreign = Foreign
    Trees <- MCTrees
    Revisions <- MCRevisions
    Kinds <- AllKinds
    Attempts = 2
    Patches = 1
    MaxKills = 2
SYMMETRY Symmetry
INVARIANTS
    TypeOK
    DeliveredIsPinned
    RestingTarballWasVerified
PROPERTIES
    FatalHasCause
    FetchFindsThePin
