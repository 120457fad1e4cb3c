SPECIFICATION FairSpec
CONSTANTS
    Byte = {0, 1, 2, 3}
    Capacity = 2
    MaxBytes = 3
    MaxLeftover = 1
INVARIANTS
    TypeOK
    InterestsFollowBuffers
PROPERTIES
    ImplementsChannels
    EverythingRelayed
