SPECIFICATION Spec
CONSTANTS
    Request = {r1, r2}
    Role = {k1}
    Perm = {p1}
    NoRole = NoRole
    PERMISSION_CACHE_TTL = 1
    MaxTime = 2
    MaxVersion = 3
SYMMETRY Symmetry
INVARIANTS TypeOK AnsweredEditsHold StaleAtMostTTL
