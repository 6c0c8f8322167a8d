SPECIFICATION Spec
CONSTANTS
    Token = {t1, t2, t3, t4}
    Request = {r1}
    Family = {f1, f2}
    User = {u1}
    u1 = u1
    Owner <- OneOwner
    NoToken = NoToken
    NoFamily = NoFamily
    GRACE_PERIOD = 0
    TOKEN_TTL = 2
    FAMILY_TTL = 3
    PRUNE_RETENTION = 1
    MaxTime = 3
SYMMETRY Symmetry
INVARIANTS OneLiveTokenPerFamily EndedFamilyStaysDead
PROPERTIES ImplementsSessions
