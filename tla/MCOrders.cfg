SPECIFICATION Spec
CONSTANTS
    Cid = {c1, c2, c3}
    OrderId = {v1, v2}
    ClientAssigned = ClientAssigned
    Amount = {0, 1}
    Quantity = {1, 2}
    Time = {0, 1}
    MaxRetired = 2
    Untracked = Untracked
    NoOpen = NoOpen
    NoTime = NoTime
SYMMETRY IdSymmetry
INVARIANTS
    TypeOK
    RetiredWindow
    TrackedNotRetired
PROPERTIES
    FillNeverRegresses
    ForeignOrderRefused
    InFlightUntilAnswered
    RetiredStayRetired
