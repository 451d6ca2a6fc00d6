SPECIFICATION Spec
CONSTANTS
    Users = {u1, u2}
    Devices = {d1, d2}
    Codes = {c1, c2, c3}
    Members = {}
    Handlers = {h1}
    None = None
SYMMETRY Symmetry
INVARIANTS OneActiveDevice ActiveDeviceHoldsKey WholeAccounts AnswersHold
PROPERTY RequestsAreAtomic
