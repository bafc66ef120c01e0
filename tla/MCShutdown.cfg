SPECIFICATION FairSpec
CHECK_DEADLOCK FALSE
CONSTANTS
    x1 = x1
    x2 = x2
    r1 = r1
    r2 = r2
    Exchange = {x1, x2}
    Request = {r1, r2}
    Cancel = {r2}
    ExchangeOf <- MCExchangeOf
    Settings <- MCSettings
    ActsOnDisconnect = TRUE
INVARIANTS
    ShutdownTypeOK
    DrainAnswersAll
    DrainDeliversEvents
PROPERTIES
    StopReturns
