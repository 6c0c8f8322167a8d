SPECIFICATION Spec
CONSTANTS
    Email = {e1}
    Client = {c1, here}
    Attempt = {l1, l2}
    Loopback = here
    Unknown = Unknown
    Garbage = Garbage
    NoAttempt = NoAttempt
    Limit <- SmallLimit
    Window <- SmallWindow
    MAX_COUNTERS = 2
    EVICTION_BATCH = 1
    SWEEP_INTERVAL = 2
    Second = 2
    MaxTime = 3
SYMMETRY Slots
INVARIANTS TableBounded WaitIsHonest AttemptsAreCounted ChargedToItsSender
PROPERTIES ImplementsWindow
