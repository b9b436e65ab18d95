\* Two keys, two requests at a time, unbounded time.
SPECIFICATION FairSpec
CONSTANTS
    Keys = {k1, k2}
    Requests = {r1, r2}
    MaxAttempts = 2
    Window = 3
    MaxDelay = 1
    None = None
    Limiters <- MCLimiters
INVARIANTS
    IInv
PROPERTIES
    ImplementsTokenBucket
    RefusedRightly
    Forgotten
