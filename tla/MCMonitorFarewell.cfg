SPECIFICATION Spec
CONSTANTS
    Field = {"ann"}
    Valid = {"ann"}
    MaxUsers = 1
    NoUser = NoUser
    Session = {a}
    Commands <- Changes
    LineMax = 1
    ReadCapacity = 4
    WriteCapacity = 4
    MaxLog = 0
    MaxRecv = 2
PROPERTY
    NothingAfterFarewell
