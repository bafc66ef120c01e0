SPECIFICATION Spec
CONSTANTS
    Settings <- SteppingOrLimited
    Overlap = 1
    MaxSkew = 1
    MaxRecent = 1
    MaxDelay = 1
    MaxOpening = 1
    MaxTime = 4
    MaxBreaks = 2
    Unlimited = Unlimited
    NoWatermark = NoWatermark
    NoSample = NoSample
INVARIANTS
    RecoveryTypeOK
    EveryFillDelivered
    NoSilentLoss
    NoFillTwice
