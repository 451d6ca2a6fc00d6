SPECIFICATION ReadySpec
CONSTANTS
    u1 = u1
    u2 = u2
    Users = {u1, u2}
    Devices = {d1, d2}
    Owner <- OneFriend
    Workers = {w1}
    Subjects = {u1}
    NoUser = NoUser
    MaxRequests = 1
    MaxMessages = 2
    MaxMoves = 1
    MaxCrashes = 1
    MaxFaults = 1
INVARIANTS NothingSkipped RepeatedOnlyByCrash
PROPERTIES Delivered AlertReaches
CHECK_DEADLOCK FALSE
