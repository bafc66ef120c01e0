SPECIFICATION Spec
CONSTANTS
    Settings <- PlainOnly
    Overlap = 1
    MaxSkew = 1
    MaxRecent = 3
    MaxDelay = 1
    MaxOpening = 3
    MaxTime = 5
    MaxBreaks = 2
    Unlimited = Unlimited
    NoWatermark = NoWatermark
    NoSample = NoSample
INVARIANTS
    OpeningFillsAreRead
