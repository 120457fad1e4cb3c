SPECIFICATION Spec
CONSTANTS
    Struct = {s1, s2}
    FD = {f1, f2}
    NoStruct = NoStruct
    NoFd = NoFd
    Main = Main
    MaxAddrs = 0
    MaxPool = 2
    MaxUnsigned = 8
    Requests = {"domain"}
SYMMETRY Symmetry
INVARIANTS
    PooledIsUnused
