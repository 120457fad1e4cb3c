SPECIFICATION Spec
CONSTANTS
    Struct = {s1, s2}
    FD = {f1, f2, f3}
    NoStruct = NoStruct
    NoFd = NoFd
    Main = Main
    MaxAddrs = 2
    MaxPool = 1
    MaxUnsigned = 8
    Requests = {"ip", "domain"}
VIEW View
SYMMETRY Symmetry
CONSTRAINT NotRaced
INVARIANTS
    TypeOK
    RefsExact
    FreeIsUnused
    DescriptorsOwned
    InterestsHandled
    JobsReachTheirOwner
    ResolutionPending
    MetricExact
    LogExact
    ExitQuiescent
    PoolDistinct
    PoolBounded
PROPERTIES
    ImplementsLifetime
