CONSTANTS
    opening = opening
    closing = closing
    other = other
    pos1 = pos1
    pos2 = pos2
    v1 = v1
    v2 = v2
    v3 = v3
    Cid = {opening, closing, other}
    Position = {pos1, pos2}
    OrderId = {v1, v2, v3}
    Request <- MCRequest
    MaxRouting = 1
    HashOrders <- MCHashOrders
    Settings <- MCSettings
    None = None
SPECIFICATION Spec
CHECK_DEADLOCK FALSE
INVARIANTS
    RoutingTypeOK
    FillsReachTheirPosition
    EveryFillAccounted
    LiveMapsBounded
PROPERTIES
    FlooredStaysClosed
