SPECIFICATION Spec
CONSTANTS
    Struct = {s1, s2}
    FD = {f1, f2, f3}
    NoStruct = NoStruct
    NoFd = NoFd
    Main = Main
    MaxAddrs = 1
    MaxPool = 2
    MaxUnsigned = 8
    Requests = {"domain"}
SYMMETRY Symmetry
INVARIANTS
    PushedOnce
