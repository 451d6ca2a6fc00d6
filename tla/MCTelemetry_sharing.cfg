SPECIFICATION Spec
CONSTANTS
    Users = {u1, u2}
    Workers = {w1, w2}
    MaxPosts = 2
    MaxChanges = 3
    NoUser = NoUser
INVARIANTS LastWasStored LastIsNewest PushedToFriends ShownByFriends
CHECK_DEADLOCK FALSE
