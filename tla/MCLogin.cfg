CONSTANTS
    r1 = r1
    u1 = u1
    None = None
    Requests = {r1}
    Users = {u1}
    MockOtp = FALSE
    UnavailableAction = "REQUIRE_MFA"
SPECIFICATION Spec
INVARIANTS
    TypeOK
    OpenChallengesCanBeAnswered
PROPERTIES
    SignInNeedsStanding
    AlwaysPasskeyIsFloor
    SignInWasAllowed
    OfferFollowsUsualLogin
