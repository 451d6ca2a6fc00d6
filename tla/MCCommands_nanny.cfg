SPECIFICATION FairSpec
CONSTANTS
    Users = {u1, u2}
    Workers = {w1}
    Nanny = Nanny
    Commands = {c1, c2}
    MaxCrashes = 1
    NoUser = NoUser
    NoCommand = NoCommand
INVARIANTS ErrorAskedNobody AskedByFriends
PROPERTY LateArePinged
