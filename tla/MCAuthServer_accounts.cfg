SPECIFICATION Spec
CONSTANTS
    Users = {u1, u2}
    Devices = {d1}
    Codes = {c1, c2}
    Members = {}
    Handlers = {h1, h2}
    None = None
SYMMETRY Symmetry
INVARIANT WholeAccounts
