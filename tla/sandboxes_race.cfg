SPECIFICATION Spec
CONSTANTS
    Sandbox = {w1, w2}
    Request = {r1, r2}
    NoWorld = NoWorld
    MAX_SANDBOXES = 1
    SANDBOX_TTL = 2
    SANDBOX_CEILING = 3
    SECOND = 1
    MaxTime = 3
    MaxRestarts = 0
SYMMETRY Symmetry
INVARIANTS SlotsBounded NoOrphanRows StandingIsReachable CeilingHolds
PROPERTIES CollectedWhenDue
