SPECIFICATION LifecycleSpec
CONSTANTS
    c1 = c1
    c2 = c2
    Cid = {c1, c2}
    OrderId = {c1, c2}
    NameOf <- MCNameOf
    ClientAssigned = ClientAssigned
    Amount = {0, 1, 2}
    Quantity = {1, 2}
    Time = {0}
    MaxRetired = 2
    Settings <- FaultyOrPair
    MaxBacklog = 2
    Untracked = Untracked
    NoOpen = NoOpen
    NoTime = NoTime
    NoAnswer = NoAnswer
    NotRecorded = NotRecorded
INVARIANTS
    LifecycleTypeOK
    RetiredIsOver
    LiveOrdersTracked
    EndedOrdersUntracked
    InFlightIsExplained
    NothingLeftIsUntracked
