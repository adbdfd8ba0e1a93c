CONSTANTS
    r1 = r1
    r2 = r2
    l1 = l1
    l2 = l2
    t1 = t1
    t2 = t2
    t3 = t3
    t4 = t4
    None = None
    Requests = {r1, r2}
    Logins = {l1, l2}
    Tokens = {t1, t2, t3, t4}
    SessionTtl = 2
    CallbackTtl = 1
    MaxClock = 2
SPECIFICATION Spec
SYMMETRY Symmetry
INVARIANTS
    OneSessionPerLogin
    LogoutEndsLogin
PROPERTIES
    NoTokenForDisabled
    ImplementsSingleUse
