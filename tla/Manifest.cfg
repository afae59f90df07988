SPECIFICATION Spec
CONSTANTS
    r1 = r1
    r2 = r2
    None = None
    Libraries = {"ogg", "vorbis", "openssl"}
    Sources = {"lv2", "utfcpp"}
    Tools = {"tool"}
    SystemOnly = {"openssl"}
    WithSystem = {"utfcpp"}
    DependsOf <- MCDependsOf
    Recipes = {r1, r2}
    Applications <- MCApplications
    Checkouts <- MCCheckouts
    Locks = {{}, {"ogg"}, {"ogg", "vorbis"}}
    Hosts <- MCHosts
    Attempts = 2
INVARIANTS
    TypeOK
    PinnedIsHandedOver
PROPERTIES
    BuiltAgainstCheckedOut
    ReconfigureChangesNothing
