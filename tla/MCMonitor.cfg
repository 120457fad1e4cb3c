SPECIFICATION Spec
CONSTANTS
    Field = {"ann", "bob", "long"}
    Valid = {"ann", "bob"}
    MaxUsers = 1
    NoUser = NoUser
    Session = {a}
    Commands <- AllCommands
    LineMax = 1
    ReadCapacity = 3
    WriteCapacity = 5
    MaxLog = 1
    MaxRecv = 2
INVARIANTS
    TypeOK
    OutputWatched
    FarewellPending
PROPERTY
    StoreChangesAuthorised
