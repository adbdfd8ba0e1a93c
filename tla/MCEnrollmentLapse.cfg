CONSTANTS
    r1 = r1
    r2 = r2
    s1 = s1
    c1 = c1
    c2 = c2
    k1 = k1
    k2 = k2
    u1 = u1
    None = None
    Requests = {r1, r2}
    Sessions = {s1}
    Codes = {c1, c2}
    Creds = {k1, k2}
    Users = {u1}
    UserOf <- OneUser
    EnrollWindow = 1
    ActivationTtl = 1
    MaxClock = 1
    MaxNonce = 2
SPECIFICATION Spec
SYMMETRY Symmetry
PROPERTIES
    LapsedOfferEnrollsNothing
