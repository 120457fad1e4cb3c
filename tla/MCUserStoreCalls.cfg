SPECIFICATION Spec
CONSTANTS
    Field = {ann, bob, cyd, dan, long}
    Valid = {ann, bob, cyd, dan}
    MaxUsers = 3
    NoUser = NoUser
    NoPassword = NoPassword
SYMMETRY Symmetry
INVARIANTS
    TypeOK
    NamesUnique
PROPERTY
    ImplementsDirectory
