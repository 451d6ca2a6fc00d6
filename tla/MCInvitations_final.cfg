SPECIFICATION Spec
CONSTANTS
    Users = {u1, u2, u3}
    Links = {l1}
    Workers = {w1, w2}
    Keyed = {u1}
    Nobody = Nobody
    NoLink = NoLink
INVARIANT AcceptedIsFinal
CHECK_DEADLOCK FALSE
