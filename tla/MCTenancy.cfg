CONSTANTS
    r1 = r1
    r2 = r2
    platform = platform
    bank = bank
    tora = tora
    d1 = d1
    d2 = d2
    juan = juan
    diego = diego
    martin = martin
    None = None
    Requests = {r1, r2}
    Tenants = {platform, bank, tora}
    Platform = platform
    Domains = {d1, d2}
    SeedTenantOf <- SeedDomains
    Operators = {juan, diego, martin}
    HomeOf <- Homes
    AtConsole = {juan, diego}
    SeedRights <- Roles
    Asked <- Requested
    MaxChanges = 2
SPECIFICATION Spec
SYMMETRY RequestSymmetry
INVARIANTS
    TypeOK
    HandlersAreEntitled
    PolicyPrecedesTenant
PROPERTIES
    DomainsFollowSaves
