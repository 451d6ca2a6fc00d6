SPECIFICATION Spec
CONSTANTS
    Users = {u1}
    Devices = {d1, d2}
    Codes = {c1, c2}
    Members = {u1}
    Handlers = {h1, h2}
    None = None
SYMMETRY Symmetry
INVARIANT OneActiveDevice
