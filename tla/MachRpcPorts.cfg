SPECIFICATION Spec
CONSTANTS
    t1 = t1
    t2 = t2
    None = None
    Threads = {t1, t2}
    Slices = {"arm64"}
    Subsystems = {"exc"}
    Callers = {"demux", "handler"}
    Headers = {"server_h"}
    Menu <- FewCalls
    Stubs <- MCStubs
    Servers <- MCServers
    NewCounts = {1296}
    MaxCalls = 3
INVARIANTS
    AnswersOwnCall
    NobodyWaitsInVain
PROPERTIES
    ImplementsRemoteCall
    EveryCallReturns
CHECK_DEADLOCK FALSE
