SPECIFICATION FairSpec
CONSTANTS
    Thread = {t1, t2}
    Instant <- MCInstants
    Start <- MCStart
    MaxCalls = 2
    NoTime = NoTime
INVARIANTS
    SeqLockTypeOK
PROPERTIES
    KeepsItsPromise
    CallsReturn
