SPECIFICATION FairSpec
CONSTANTS
    Phones = {p1, p2}
    MaxConns = 3
    Hasty = {p1}
    Followers = {p2}
    NoPhone = NoPhone
INVARIANTS ServedWhenQuiet NoOrphanQueue OpenIsServed
PROPERTIES ChannelSurvives Settled Evicted NoneStuck
CHECK_DEADLOCK FALSE
