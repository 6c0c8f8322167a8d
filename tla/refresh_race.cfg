SPECIFICATION Spec
CONSTANTS
    Token = {t1, t2, t3}
    Request = {r1, r2}
    Family = {f1}
    User = {u1}
    u1 = u1
    Owner <- OneOwner
    NoToken = NoToken
    NoFamily = NoFamily
    GRACE_PERIOD = 0
    TOKEN_TTL = 2
    FAMILY_TTL = 3
    PRUNE_RETENTION = 9
    MaxTime = 2
SYMMETRY Symmetry
INVARIANTS FreshOnce AlarmNeedsEvidence GraceIsBounded FamilyKeepsALeaf
PROPERTIES HistoryIsFinal ImplementsLedger
