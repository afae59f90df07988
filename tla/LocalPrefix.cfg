SPECIFICATION FairSpec
CONSTANTS
    r1 = r1
    r2 = r2
    l1 = l1
    l2 = l2
    l3 = l3
    None = None
    Recipes <- MCRecipes
    Releases <- MCReleases
    RecipeOf <- MCRecipeOf
    Modes <- MCModes
    Configs <- MCConfigs
    MaxFaults = 2
INVARIANTS
    TypeOK
    ServedArchiveIsCurrent
    PrebuiltServedWhole
    HalfExtractedNeverServed
    SkippedBuildIsCurrent
PROPERTIES
    HalfExtractedHeals
