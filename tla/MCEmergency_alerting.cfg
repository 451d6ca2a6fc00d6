SPECIFICATION EmergencySpec
CONSTANTS
    u2 = u2
    Users = {u1, u2, u3}
    Devices = {d2}
    Owner <- OneDevice
    Workers = {w1, w2}
    Subjects = {u1}
    NoUser = NoUser
    MaxRequests = 3
INVARIANTS HistoryAlternates OneAlertPerChange AlertsInOrder ActsForFriends HistoryNeedsEmergency
CHECK_DEADLOCK FALSE
SYMMETRY Symmetry
