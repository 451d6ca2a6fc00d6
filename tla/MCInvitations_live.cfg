SPECIFICATION FairSpec
CONSTANTS
    Users = {u1, u2}
    Links = {l1, l2}
    Workers = {w1, w2}
    Keyed = {u1, u2}
    Nobody = Nobody
    NoLink = NoLink
INVARIANTS MutualFriends FriendsConsented NoPhantomMessage FriendsHavePerception
PROPERTIES Answered Implements
CHECK_DEADLOCK FALSE
