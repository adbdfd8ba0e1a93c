CONSTANTS
    u1 = u1
    r1 = r1
    t1 = t1
    t2 = t2
    adm1 = adm1
    adm2 = adm2
    g1 = g1
    a1 = a1
    a2 = a2
    p1 = p1
    q1 = q1
    q2 = q2
    None = None
    Tenants = {t1, t2}
    Users = {u1}
    Groups = {adm1, adm2, g1}
    Roles = {r1}
    AdminGroup <- MCAdminGroup
    SeededPermissions = {}
    Apps = {a1, a2}
    Permissions = {p1}
    AppOf <- OnePermission
    InitialAppTenant <- MCAppTenant
    Requests = {q1, q2}
SPECIFICATION Spec
SYMMETRY RequestSymmetry
INVARIANTS
    TypeOK
    AccessStaysInTenant
    RoleCarriesOwnApp
PROPERTIES
    NewIdGrantsNothing
