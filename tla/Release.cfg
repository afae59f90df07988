SPECIFICATION Spec
CONSTANTS
    w1 = w1
    w2 = w2
    p1 = p1
    p2 = p2
    r1 = r1
    r2 = r2
    s1 = s1
    s2 = s2
    None = None
    Runs <- MCRuns
    Platforms <- MCPlatforms
    Recipes = {r1, r2}
    Sources = {s1, s2}
    PinsOf <- MCPinsOf
    Seconds = 2
    MaxCommits = 1
    MaxReruns = 1
SYMMETRY Symmetry
INVARIANTS
    TypeOK
    PushedLinesHaveArchives
    LockIsWhole
    SourcesBesideRecipes
PROPERTIES
    ImplementsAtomicRelease
CHECK_DEADLOCK FALSE
