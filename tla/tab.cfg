SPECIFICATION FairSpec
CONSTANTS
    Reads = {r}
    Writes = {w}
    None = None
    MaxTokens = 3
    MaxPresses = 1
INVARIANTS SpentOnce EachRenewsItsOwn
PROPERTIES SilenceEndsNothing EverybodyGoesOn
CHECK_DEADLOCK FALSE
