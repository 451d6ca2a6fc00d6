SPECIFICATION Spec
CONSTANTS
    Users = {u1, u2}
    Fences = {g1}
    Handlers = {h1, h2}
    MaxChanges = 2
    None = None
SYMMETRY Symmetry
INVARIANTS SessionOwned OnlyFriends KeptUnlessFailed
