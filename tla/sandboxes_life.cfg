SPECIFICATION Spec
CONSTANTS
    Sandbox = {w1}
    Request = {r1}
    NoWorld = NoWorld
    MAX_SANDBOXES = 1
    SANDBOX_TTL = 2
    SANDBOX_CEILING = 3
    SECOND = 1
    MaxTime = 4
    MaxRestarts = 1


PROPERTIES CeilingComes GoneLeavesNothing
