SPECIFICATION Spec
CONSTANTS
    Request = {r1, r2, r3}
    MAX_WIND = 2
    MaxEvents = 0
INVARIANTS WindBound
