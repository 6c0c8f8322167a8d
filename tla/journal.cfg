SPECIFICATION Spec
CONSTANTS
    Request = {r1, r2, r3}
    MAX_WIND = 2
    MaxEvents = 2
INVARIANTS EveryEventOnce NoDuplicateKey
PROPERTIES EventuallyRecorded PressesAnswered ImplementsLog
