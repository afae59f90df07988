SPECIFICATION Spec
CONSTANTS
    t1 = t1
    t2 = t2
    None = None
    Threads = {t1}
    Slices = {"arm64", "x86_64"}
    Subsystems = {"exc", "mach_exc", "notify", "child_port"}
    Callers = {"demux", "handler"}
    Headers = {"user_h", "server_h"}
    Menu <- AllCalls
    Stubs <- MCStubs
    Servers <- MCServers
    NewCounts = {0, 1, 1296}
    MaxCalls = 1
INVARIANTS
    TypeOK
    StubsAgree
    AnswersAreUnderstood
PROPERTIES
    UnservedIsRefused
CHECK_DEADLOCK FALSE
