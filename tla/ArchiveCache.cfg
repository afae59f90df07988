SPECIFICATION FairSpec
CONSTANTS
    p1 = p1
    p2 = p2
    l1 = l1
    l2 = l2
    f1 = f1
    f2 = f2
    None = None
    Procs <- MCProcs
    Releases <- MCReleases
    Files <- MCFiles
    Attempts = 2
    MaxKills = 1
INVARIANTS
    TypeOK
    UndisturbedDeliversPin
    FailsOnlyByInterference
    LeftClean
PROPERTIES
    EveryFetchEnds
