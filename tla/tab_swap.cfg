SPECIFICATION Spec
CONSTANTS
    Reads = {r}
    Writes = {}
    None = None
    MaxTokens = 2
    MaxPresses = 0
INVARIANTS NeverSwapped
CHECK_DEADLOCK FALSE
