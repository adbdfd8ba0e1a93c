CONSTANTS
    c1 = c1
    k1 = k1
    k2 = k2
    u1 = u1
    u2 = u2
    q1 = q1
    q2 = q2
    None = None
    Requests = {q1, q2}
    Challenges = {c1}
    Creds = {k1, k2}
    Users = {u1, u2}
    Subject <- MCSubject
    Owner <- MCOwner
    Counting = {k1}
    MockOtp = TRUE
    ChallengeTtl = 1
    MaxClock = 1
    MaxNonce = 2
    MaxSign = 2
SPECIFICATION Spec
SYMMETRY MCSymmetry
INVARIANTS
    ConsumedWithItsSession
    PassedOnCurrentNonce
    ConfirmsFollowSessions
PROPERTIES
    NoSessionAfterRevoke
    SignCountGrows
    ImplementsSingleUse
