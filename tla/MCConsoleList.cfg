CONSTANTS
    platform = platform
    acme = acme
    root = root
    ana = ana
    bob = bob
    None = None
    Tenants = {platform, acme}
    Platform = platform
    Operators = {root, ana, bob}
    HomeOf <- Home
    Readers = {root, ana}
    Writers = {root}
    Ids = {1, 2}
    AnyRow = 1
    MaxUnderWay = 2
SPECIFICATION Spec
PROPERTY
    ListFollowsWrites
