SPECIFICATION FairSpec
CONSTANTS
    Struct = {s1}
    FD = {f1, f2, f3}
    NoStruct = NoStruct
    NoFd = NoFd
    Main = Main
    MaxAddrs = 2
    MaxPool = 1
    MaxUnsigned = 8
    Requests = {"ip", "domain"}
CONSTRAINT NotRaced
PROPERTIES
    ResolutionEnds
    ShutdownCompletes
