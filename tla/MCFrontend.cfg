SPECIFICATION Spec
CONSTANTS
    x = x
    y = y
    s1 = s1
    s2 = s2
    Items = {x, y}
    Sockets = {s1, s2}
    StreamCap = 3
INVARIANTS
    TypeOK
    OneAttempt
    UnpausedConverges
    StatusHonest
PROPERTIES
    FrozenUntilReset
    ComesBack
