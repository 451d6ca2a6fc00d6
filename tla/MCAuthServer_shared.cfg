SPECIFICATION FairSpec
CONSTANTS
    Users = {u1}
    Devices = {d1}
    Codes = {c1}
    Members = {}
    Handlers = {h1, h2}
    None = None
INVARIANT SessionOwned
PROPERTIES Answered AloneIsDone
