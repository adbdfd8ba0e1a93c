-------------------------- MODULE DirectoryProofs --------------------------
(***************************************************************************)
(* Theorems about Directory, for any number of tenants, users, groups,     *)
(* roles, applications, permissions and requests: its types, that an id    *)
(* which comes back grants nothing, and that access and roles keep to      *)
(* their tenant and their application.                                     *)
(***************************************************************************)
EXTENDS Directory, TLAPS

Step(q) == Checks(q) \/ Writes(q) \/ Fail(q)

\* No row refers to a row that is gone, whichever engine; the admin groups are
\* always there.
RowsHang ==
    /\ \A t \in Tenants : groupTenant[AdminGroup[t]] = t
    /\ \A g \in Groups, u \in Users :
           <<g, u>> \in members => groupTenant[g] # None /\ userTenant[u] # None
    /\ \A g \in Groups, r \in Roles :
           <<g, r>> \in groupRoles => groupTenant[g] # None /\ role[r] # None
    /\ \A r \in Roles, p \in Permissions : <<r, p>> \in rolePermissions => role[r] # None
    /\ \A r \in Roles : role[r] # None => appTenant[role[r].app] = role[r].tenant

\* What a request has checked and no one can undo.
Lasting(o) ==
    /\ o.kind \in {"patchUser", "addMember"} => userTenant[o.user] # None
    /\ o.kind = "deleteGroup" => \A t \in Tenants : o.group # AdminGroup[t]

\* A request is inside a transaction from its checks to its commit; where
\* transactions take turns there is one.
InTurn ==
    /\ \A q \in Requests : request[q] # Idle <=> q \in tx
    /\ serialized => \A q, p \in tx : q = p

\* What a request has checked and relies on when it commits, if nobody else
\* could write in between.
Current(o) ==
    /\ o.kind = "addMember" => groupTenant[o.group] = userTenant[o.user]
    /\ o.kind = "addRole" => /\ role[o.role] # None
                             /\ groupTenant[o.group] = role[o.role].tenant
    /\ o.kind \in {"putPermissions", "permissionsCleared"} =>
           role[o.role] # None /\ \A p \in o.wanted : AppOf[p] = role[o.role].app

\* Rows that refer to one another are of one tenant, and of one application.
RowsAgree ==
    /\ \A g \in Groups, u \in Users : <<g, u>> \in members => groupTenant[g] = userTenant[u]
    /\ \A g \in Groups, r \in Roles : <<g, r>> \in groupRoles => groupTenant[g] = role[r].tenant
    /\ \A r \in Roles, p \in Permissions : <<r, p>> \in rolePermissions => role[r].app = AppOf[p]

KeptApart == serialized => RowsAgree /\ \A q \in Requests : Current(request[q])

Rooted == TypeOK /\ RowsHang /\ \A q \in Requests : Lasting(request[q])

-----------------------------------------------------------------------------
(* Requests, and what a step leaves alone.                                 *)

\* The kind of a request says which fields it has.
LEMMA Fields ==
    ASSUME NEW o \in Request
    PROVE  /\ o.kind = "idle" => o = Idle
           /\ o.kind = "deleteGroup" => o.group \in Groups
           /\ o.kind \in {"addMember", "removeMember"} => o.group \in Groups /\ o.user \in Users
           /\ o.kind \in {"addRole", "removeRole"} => o.group \in Groups /\ o.role \in Roles
           /\ o.kind = "deleteRole" => o.role \in Roles
           /\ o.kind \in {"putPermissions", "permissionsCleared"} =>
                  /\ o.role \in Roles
                  /\ o.wanted \in SUBSET Permissions /\ o.seen \in SUBSET Permissions
                  /\ o \in [kind : {"putPermissions", "permissionsCleared"}, role : Roles,
                            wanted : SUBSET Permissions, seen : SUBSET Permissions]
           /\ o.kind = "patchUser" => o.user \in Users
BY DEF Request, Idle

\* A step of one request leaves the others alone, but for the rows that a
\* DELETE skips, and no step changes the engine.
LEMMA Frame ==
    ASSUME TypeOK, NEW q \in Requests, Step(q)
    PROVE  /\ request' = [p \in Requests |-> request'[p]] /\ serialized' = serialized
           /\ \A p \in Requests : p # q =>
                 /\ p \in tx' <=> p \in tx
                 /\ \/ request'[p] = request[p]
                    \/ /\ request[p].kind = "permissionsCleared"
                       /\ request'[p] = [request[p] EXCEPT !.seen = {}]
<1> USE DEF TypeOK
<1>1. CASE Checks(q)
  BY <1>1 DEF Checks, PatchUserChecks, DeleteGroupChecks, AddMemberChecks, RemoveMemberChecks,
     AddGroupRoleChecks, RemoveGroupRoleChecks, DeleteRoleChecks, PutPermissionsChecks,
     Check, Enter
<1>2. CASE Fail(q)
  BY <1>2 DEF Fail, Commit, Leave
<1>3. CASE PatchUser(q) \/ DeleteGroup(q) \/ AddMember(q) \/ RemoveMember(q)
           \/ AddGroupRole(q) \/ RemoveGroupRole(q)
  BY <1>3 DEF PatchUser, DeleteGroup, AddMember, RemoveMember, AddGroupRole, RemoveGroupRole,
     Commit, Leave
<1>4. CASE DeleteRole(q) \/ SetRolePermissions(q)
  BY <1>4 DEF DeleteRole, SetRolePermissions, OthersSkip, Leave
<1>5. CASE ClearPermissions(q)
  BY <1>5 DEF ClearPermissions, scope
<1> QED BY <1>1, <1>2, <1>3, <1>4, <1>5 DEF Step, Writes

\* Its own record: checked, cleared or done.
LEMMA OwnFrame ==
    ASSUME TypeOK, NEW q \in Requests, Writes(q) \/ Fail(q)
    PROVE  \/ request'[q] = Idle /\ tx' = tx \ {q}
           \/ /\ request[q].kind = "putPermissions" /\ tx' = tx
              /\ request'[q] = [request[q] EXCEPT !.kind = "permissionsCleared",
                                                  !.seen = PermissionsOf(request[q].role)]
<1> USE DEF TypeOK
<1>1. CASE Fail(q)
  BY <1>1 DEF Fail, Commit, Leave
<1>2. CASE PatchUser(q) \/ DeleteGroup(q) \/ AddMember(q) \/ RemoveMember(q)
           \/ AddGroupRole(q) \/ RemoveGroupRole(q)
  BY <1>2 DEF PatchUser, DeleteGroup, AddMember, RemoveMember, AddGroupRole, RemoveGroupRole,
     Commit, Leave
<1>3. CASE DeleteRole(q) \/ SetRolePermissions(q)
  BY <1>3 DEF DeleteRole, SetRolePermissions, OthersSkip, Leave
<1>4. CASE ClearPermissions(q)
  BY <1>4 DEF ClearPermissions, scope
<1> QED BY <1>1, <1>2, <1>3, <1>4 DEF Writes

-----------------------------------------------------------------------------
(* Types                                                                   *)

\* Whether a user's label is set is TRUE or FALSE.
LEMMA IsBoolean == ASSUME NEW x, NEW S PROVE (x \in S) \in BOOLEAN
OBVIOUS

LEMMA PatchIsRequest ==
    ASSUME NEW u \in Users, NEW was \in BOOLEAN, NEW wants \in BOOLEAN
    PROVE  /\ [kind |-> "patchUser", user |-> u, was |-> was, wants |-> wants] \in Request
           /\ [kind |-> "patchUser", user |-> u, was |-> was, wants |-> wants] # Idle
BY DEF Request, Idle

\* The checks of a request write nothing but what it has checked.
LEMMA ChecksFrame ==
    ASSUME TypeOK, NEW q \in Requests, Checks(q)
    PROVE  /\ UNCHANGED tables
           /\ request[q] = Idle /\ MayEnter /\ tx' = tx \cup {q} /\ serialized' = serialized
           /\ request'[q] \in Request /\ request'[q] # Idle
<1> USE DEF TypeOK, Check, Enter
<1>1. ASSUME NEW t \in Tenants, NEW u \in Users, NEW wants \in BOOLEAN,
             PatchUserChecks(q, t, u, wants)
      PROVE  request'[q] \in Request /\ request'[q] # Idle
  <2>1. PICK was \in BOOLEAN : was = (u \in isAdmin)
    BY IsBoolean, Zenon
  <2>2. [kind |-> "patchUser", user |-> u, was |-> u \in isAdmin, wants |-> wants]
          = [kind |-> "patchUser", user |-> u, was |-> was, wants |-> wants]
    BY <2>1, Zenon
  <2>3. request'[q] = [kind |-> "patchUser", user |-> u, was |-> was, wants |-> wants]
    <3>1. request' = [request EXCEPT ![q] =
                         [kind |-> "patchUser", user |-> u, was |-> was, wants |-> wants]]
      BY <1>1, <2>2, Zenon DEF PatchUserChecks
    <3> QED BY <3>1
  <2> QED BY <2>3, PatchIsRequest, Zenon
<1>2. ASSUME NEW t \in Tenants, NEW g \in Groups, DeleteGroupChecks(q, t, g)
      PROVE  request'[q] \in Request /\ request'[q] # Idle
  BY <1>2 DEF DeleteGroupChecks, Request, Idle
<1>3. ASSUME NEW t \in Tenants, NEW g \in Groups, NEW u \in Users,
             AddMemberChecks(q, t, g, u) \/ RemoveMemberChecks(q, t, g, u)
      PROVE  request'[q] \in Request /\ request'[q] # Idle
  BY <1>3 DEF AddMemberChecks, RemoveMemberChecks, Request, Idle
<1>4. ASSUME NEW t \in Tenants, NEW g \in Groups, NEW r \in Roles,
             AddGroupRoleChecks(q, t, g, r) \/ RemoveGroupRoleChecks(q, t, g, r)
      PROVE  request'[q] \in Request /\ request'[q] # Idle
  BY <1>4 DEF AddGroupRoleChecks, RemoveGroupRoleChecks, Request, Idle
<1>5. ASSUME NEW t \in Tenants, NEW r \in Roles, DeleteRoleChecks(q, t, r)
      PROVE  request'[q] \in Request /\ request'[q] # Idle
  BY <1>5 DEF DeleteRoleChecks, Request, Idle
<1>6. ASSUME NEW t \in Tenants, NEW r \in Roles, NEW wanted \in SUBSET Permissions,
             PutPermissionsChecks(q, t, r, wanted)
      PROVE  request'[q] \in Request /\ request'[q] # Idle
  BY <1>6 DEF PutPermissionsChecks, Request, Idle
<1>7. request'[q] \in Request /\ request'[q] # Idle
  BY <1>1, <1>2, <1>3, <1>4, <1>5, <1>6 DEF Checks
<1>8. UNCHANGED tables /\ request[q] = Idle /\ MayEnter /\ tx' = tx \cup {q}
      /\ serialized' = serialized
  BY DEF Checks, PatchUserChecks, DeleteGroupChecks, AddMemberChecks, RemoveMemberChecks,
     AddGroupRoleChecks, RemoveGroupRoleChecks, DeleteRoleChecks, PutPermissionsChecks
<1> QED BY <1>7, <1>8

LEMMA RequestsTyped ==
    ASSUME TypeOK, NEW q \in Requests, Step(q)
    PROVE  request' \in [Requests -> Request]
<1>1. ASSUME NEW o \in Request, o.kind \in {"putPermissions", "permissionsCleared"},
             NEW seen \in SUBSET Permissions
      PROVE  /\ [o EXCEPT !.seen = seen] \in Request
             /\ [o EXCEPT !.kind = "permissionsCleared", !.seen = seen] \in Request
  <2>1. o \in [kind : {"putPermissions", "permissionsCleared"}, role : Roles,
               wanted : SUBSET Permissions, seen : SUBSET Permissions]
    BY <1>1, Fields
  <2>2. /\ [o EXCEPT !.seen = seen]
             \in [kind : {"putPermissions", "permissionsCleared"}, role : Roles,
                  wanted : SUBSET Permissions, seen : SUBSET Permissions]
        /\ [o EXCEPT !.kind = "permissionsCleared", !.seen = seen]
             \in [kind : {"putPermissions", "permissionsCleared"}, role : Roles,
                  wanted : SUBSET Permissions, seen : SUBSET Permissions]
    BY <2>1
  <2> QED BY <2>2, Zenon DEF Request
<1>2. Idle \in Request
  BY DEF Request
<1>3. request'[q] \in Request
  <2>1. CASE Checks(q)
    BY <2>1, ChecksFrame
  <2>2. CASE Writes(q) \/ Fail(q)
    <3>1. PermissionsOf(request[q].role) \in SUBSET Permissions /\ request[q] \in Request
      BY DEF PermissionsOf, TypeOK
    <3>2. CASE request'[q] = Idle
      BY <1>2, <3>2
    <3>3. CASE /\ request[q].kind = "putPermissions"
               /\ request'[q] = [request[q] EXCEPT !.kind = "permissionsCleared",
                                                   !.seen = PermissionsOf(request[q].role)]
      BY <1>1, <3>1, <3>3
    <3> QED BY <2>2, <3>2, <3>3, OwnFrame
  <2> QED BY <2>1, <2>2 DEF Step
<1>4. ASSUME NEW p \in Requests, p # q PROVE request'[p] \in Request
  <2>1. request[p] \in Request /\ {} \in SUBSET Permissions
    BY DEF TypeOK
  <2>2. CASE request'[p] = request[p]
    BY <2>1, <2>2
  <2>3. CASE /\ request[p].kind = "permissionsCleared"
             /\ request'[p] = [request[p] EXCEPT !.seen = {}]
    BY <1>1, <2>1, <2>3
  <2> QED BY <1>4, <2>2, <2>3, Frame
<1>5. \A p \in Requests : request'[p] \in Request
  BY <1>3, <1>4
<1> QED BY <1>5, Frame

\* The user, group or role that comes to be.
LEMMA CreateTyped ==
    ASSUME TypeOK, Create
    PROVE  TypeOK'
<1> USE DirectoryAssumption DEF TypeOK, scope, access, DirectoryAssumption
<1>1. ASSUME NEW t \in Tenants, NEW u \in Users, NEW admin \in BOOLEAN, CreateUser(t, u, admin)
      PROVE  TypeOK'
  BY <1>1 DEF CreateUser
<1>2. ASSUME NEW t \in Tenants, NEW a \in Apps, CreateApplication(t, a) PROVE TypeOK'
  BY <1>2 DEF CreateApplication
<1>3. ASSUME NEW t \in Tenants, NEW p \in Permissions, CreatePermission(t, p) PROVE TypeOK'
  BY <1>3 DEF CreatePermission
<1>4. ASSUME NEW t \in Tenants, NEW g \in Groups, CreateGroup(t, g) PROVE TypeOK'
  BY <1>4 DEF CreateGroup
<1>5. ASSUME NEW t \in Tenants, NEW r \in Roles, NEW a \in Apps, CreateRole(t, r, a) PROVE TypeOK'
  BY <1>5 DEF CreateRole, Role
<1> QED BY <1>1, <1>2, <1>3, <1>4, <1>5 DEF Create

\* The tables alone.
TablesTyped ==
    /\ appTenant \in [Apps -> Tenants \cup {None}]
    /\ userTenant \in [Users -> Tenants \cup {None}]
    /\ isAdmin \subseteq Users
    /\ groupTenant \in [Groups -> Tenants \cup {None}]
    /\ role \in [Roles -> Role \cup {None}]
    /\ permissions \subseteq Permissions
    /\ members \subseteq Groups \X Users
    /\ groupRoles \subseteq Groups \X Roles
    /\ rolePermissions \subseteq Roles \X Permissions

LEMMA OneOfThree ==
    ASSUME NEW P, NEW Q, NEW x, NEW y, NEW z
    PROVE  (CASE P -> x [] Q -> y [] OTHER -> z) \in {x, y, z}
OBVIOUS

\* What the label and the membership of a patched user become.
LEMMA PatchUserWrites ==
    ASSUME TypeOK, NEW q \in Requests, PatchUser(q)
    PROVE  LET u == request[q].user
               m == <<AdminGroup[userTenant[u]], u>>
           IN  /\ u \in Users
               /\ isAdmin' \in {isAdmin, isAdmin \cup {u}, isAdmin \ {u}}
               /\ members' \in {members \cup {m}, members \ {m}}
               /\ UNCHANGED <<appTenant, userTenant, groupTenant, groupRoles, role,
                              permissions, rolePermissions>>
<1>1. request[q] \in Request /\ request[q].kind = "patchUser"
  BY DEF TypeOK, PatchUser, Commit
<1>2. request[q].user \in Users
  BY <1>1, Fields
<1>3. isAdmin' \in {isAdmin, isAdmin \cup {request[q].user}, isAdmin \ {request[q].user}}
  <2>1. PICK P, Q :
            isAdmin' = CASE P -> isAdmin
                         [] Q -> isAdmin \cup {request[q].user}
                         [] OTHER -> isAdmin \ {request[q].user}
    BY Zenon DEF PatchUser
  <2> QED BY <2>1, OneOfThree
<1>4. members' \in {members \cup {<<AdminGroup[userTenant[request[q].user]], request[q].user>>},
                   members \ {<<AdminGroup[userTenant[request[q].user]], request[q].user>>}}
  BY Zenon DEF PatchUser
<1>5. UNCHANGED <<appTenant, userTenant, groupTenant, groupRoles, role, permissions,
                 rolePermissions>>
  BY DEF PatchUser
<1> QED BY <1>2, <1>3, <1>4, <1>5

LEMMA WritesTyped ==
    ASSUME TypeOK, NEW q \in Requests, Writes(q), Lasting(request[q])
    PROVE  TablesTyped'
<1>1. TablesTyped
  BY DEF TypeOK, TablesTyped
<1>2. request[q] \in Request
  BY DEF TypeOK
<1>3. CASE PatchUser(q)
  <2>0. request[q].kind = "patchUser"
    BY <1>3 DEF PatchUser, Commit
  <2>1. PICK u \in Users : u = request[q].user
    BY <1>3, PatchUserWrites
  <2>2. AdminGroup[userTenant[u]] \in Groups
    BY <1>1, <2>0, <2>1, DirectoryAssumption DEF DirectoryAssumption, TablesTyped, Lasting
  <2> QED BY <1>1, <1>3, <2>1, <2>2, PatchUserWrites DEF TablesTyped
<1>4. CASE DeleteGroup(q)
  BY <1>1, <1>4 DEF DeleteGroup, TablesTyped
<1>5. CASE AddMember(q)
  <2>1. PICK g \in Groups, u \in Users : g = request[q].group /\ u = request[q].user
    BY <1>2, <1>5, Fields DEF AddMember, Commit
  <2>2. /\ members' = members \cup {<<g, u>>}
        /\ UNCHANGED <<appTenant, userTenant, isAdmin, groupTenant, groupRoles, role,
                       permissions, rolePermissions>>
    BY <1>5, <2>1 DEF AddMember
  <2> QED BY <1>1, <2>2 DEF TablesTyped
<1>6. CASE RemoveMember(q) \/ RemoveGroupRole(q)
  BY <1>1, <1>6 DEF RemoveMember, RemoveGroupRole, TablesTyped
<1>7. CASE AddGroupRole(q)
  <2>1. PICK g \in Groups, r \in Roles : g = request[q].group /\ r = request[q].role
    BY <1>2, <1>7, Fields DEF AddGroupRole, Commit
  <2>2. /\ groupRoles' = groupRoles \cup {<<g, r>>}
        /\ UNCHANGED <<appTenant, userTenant, isAdmin, members, groupTenant, role,
                       permissions, rolePermissions>>
    BY <1>7, <2>1 DEF AddGroupRole
  <2> QED BY <1>1, <2>2 DEF TablesTyped
<1>8. CASE DeleteRole(q)
  BY <1>1, <1>8 DEF DeleteRole, TablesTyped
<1>9. CASE ClearPermissions(q)
  BY <1>1, <1>9 DEF ClearPermissions, tables, access, TablesTyped
<1>10. CASE SetRolePermissions(q)
  <2>1. PICK r \in Roles, wanted \in SUBSET Permissions :
            r = request[q].role /\ wanted = request[q].wanted
    BY <1>2, <1>10, Fields DEF SetRolePermissions
  <2>2. /\ rolePermissions' = (rolePermissions \ ({r} \X request[q].seen)) \cup ({r} \X wanted)
        /\ UNCHANGED <<access, isAdmin, permissions>>
    BY <1>10, <2>1 DEF SetRolePermissions
  <2> QED BY <1>1, <2>1, <2>2 DEF access, TablesTyped
<1> QED BY <1>3, <1>4, <1>5, <1>6, <1>7, <1>8, <1>9, <1>10 DEF Writes

LEMMA StepTyped ==
    ASSUME TypeOK, NEW q \in Requests, Step(q), Lasting(request[q])
    PROVE  TypeOK'
<1>1. request' \in [Requests -> Request]
  BY RequestsTyped
<1>2. serialized' \in BOOLEAN /\ tx' \subseteq Requests
  <2>1. CASE Checks(q)
    <3>1. tx' = tx \cup {q} /\ serialized' = serialized
      BY <2>1, ChecksFrame
    <3> QED BY <3>1 DEF TypeOK
  <2>2. CASE Writes(q) \/ Fail(q)
    <3>1. serialized' = serialized
      BY Frame
    <3>2. tx' = tx \ {q} \/ tx' = tx
      BY <2>2, OwnFrame
    <3> QED BY <3>1, <3>2 DEF TypeOK
  <2> QED BY <2>1, <2>2 DEF Step
<1>3. TablesTyped'
  <2>1. CASE Checks(q) \/ Fail(q)
    <3>1. UNCHANGED tables
      BY <2>1, ChecksFrame DEF Fail
    <3> QED BY <3>1 DEF TypeOK, TablesTyped, tables, access
  <2> QED BY <2>1, WritesTyped DEF Step
<1> QED BY <1>1, <1>2, <1>3 DEF TypeOK, TablesTyped

-----------------------------------------------------------------------------
(* Rows that hang together, on either engine.                              *)

\* A group that is being deleted is nobody's admin group, and the user of a
\* request exists.
LEMMA LastingByChecks ==
    ASSUME Rooted, NEW q \in Requests, Checks(q)
    PROVE  Lasting(request'[q])
<1> USE DirectoryAssumption DEF Rooted, TypeOK, Check, Lasting, DirectoryAssumption
<1>1. ASSUME NEW t \in Tenants, NEW u \in Users, NEW wants \in BOOLEAN,
             PatchUserChecks(q, t, u, wants)
      PROVE  Lasting(request'[q])
  <2>1. userTenant[u] # None
    BY <1>1 DEF PatchUserChecks
  <2>2. PICK was : request' = [request EXCEPT ![q] =
              [kind |-> "patchUser", user |-> u, was |-> was, wants |-> wants]]
    BY <1>1, Zenon DEF PatchUserChecks
  <2> QED BY <2>1, <2>2
<1>2. ASSUME NEW t \in Tenants, NEW g \in Groups, DeleteGroupChecks(q, t, g)
      PROVE  Lasting(request'[q])
  BY <1>2 DEF DeleteGroupChecks, RowsHang
<1>3. ASSUME NEW t \in Tenants, NEW g \in Groups, NEW u \in Users,
             AddMemberChecks(q, t, g, u) \/ RemoveMemberChecks(q, t, g, u)
      PROVE  Lasting(request'[q])
  BY <1>3 DEF AddMemberChecks, RemoveMemberChecks
<1>4. ASSUME NEW t \in Tenants, NEW g \in Groups, NEW r \in Roles,
             AddGroupRoleChecks(q, t, g, r) \/ RemoveGroupRoleChecks(q, t, g, r)
      PROVE  Lasting(request'[q])
  BY <1>4 DEF AddGroupRoleChecks, RemoveGroupRoleChecks
<1>5. ASSUME NEW t \in Tenants, NEW r \in Roles, DeleteRoleChecks(q, t, r)
      PROVE  Lasting(request'[q])
  BY <1>5 DEF DeleteRoleChecks
<1>6. ASSUME NEW t \in Tenants, NEW r \in Roles, NEW wanted \in SUBSET Permissions,
             PutPermissionsChecks(q, t, r, wanted)
      PROVE  Lasting(request'[q])
  BY <1>6 DEF PutPermissionsChecks
<1> QED BY <1>1, <1>2, <1>3, <1>4, <1>5, <1>6 DEF Checks

\* Users and applications are never deleted.
LEMMA UsersStay ==
    ASSUME TypeOK, NEW q \in Requests, Step(q)
    PROVE  UNCHANGED <<userTenant, appTenant>>
<1> USE DEF tables, access
<1>1. CASE Checks(q)
  BY <1>1, ChecksFrame
<1>2. CASE Fail(q)
  BY <1>2 DEF Fail
<1>3. CASE Writes(q)
  BY <1>3 DEF Writes, PatchUser, DeleteGroup, AddMember, RemoveMember, AddGroupRole,
     RemoveGroupRole, DeleteRole, ClearPermissions, SetRolePermissions
<1> QED BY <1>1, <1>2, <1>3 DEF Step

LEMMA LastingStays ==
    ASSUME Rooted, NEW q \in Requests, Step(q), NEW p \in Requests
    PROVE  Lasting(request[p])'
<1> USE DEF Rooted
<1>1. \A o : Lasting(o) <=> Lasting(o)'
  BY UsersStay DEF Lasting
<1>2. Lasting(request'[p])
  <2>1. CASE p = q /\ Checks(q)
    BY <2>1, LastingByChecks
  <2>2. CASE p = q /\ (Writes(q) \/ Fail(q))
    <3>1. CASE request'[q] = Idle
      BY <2>2, <3>1 DEF Lasting, Idle
    <3>2. CASE /\ request[q].kind = "putPermissions"
               /\ request'[q] = [request[q] EXCEPT !.kind = "permissionsCleared",
                                                   !.seen = PermissionsOf(request[q].role)]
      <4>1. request[q] \in Request
        BY DEF TypeOK
      <4>2. request'[q].kind = "permissionsCleared"
        BY <3>2, <4>1, Fields
      <4> QED BY <2>2, <4>2 DEF Lasting
    <3> QED BY <2>2, <3>1, <3>2, OwnFrame
  <2>3. CASE p # q
    <3>1. CASE request'[p] = request[p]
      BY <3>1
    <3>2. CASE /\ request[p].kind = "permissionsCleared"
               /\ request'[p] = [request[p] EXCEPT !.seen = {}]
      <4>1. request[p] \in Request
        BY DEF TypeOK
      <4>2. request'[p].kind = "permissionsCleared"
        BY <3>2, <4>1, Fields
      <4> QED BY <4>2 DEF Lasting
    <3> QED BY <2>3, <3>1, <3>2, Frame
  <2> QED BY <2>1, <2>2, <2>3 DEF Step
<1> QED BY <1>1, <1>2 DEF Lasting

LEMMA RowsHangByWrites ==
    ASSUME Rooted, NEW q \in Requests, Writes(q)
    PROVE  RowsHang'
<1>1. TablesTyped /\ RowsHang /\ Lasting(request[q]) /\ request[q] \in Request
  BY DEF Rooted, TypeOK, TablesTyped
<1> USE <1>1, DirectoryAssumption DEF DirectoryAssumption, TablesTyped, RowsHang, Lasting
<1>2. CASE PatchUser(q)
  <2>0. request[q].kind = "patchUser" /\ TypeOK
    BY <1>2 DEF PatchUser, Commit, Rooted
  <2>1. PICK u \in Users : u = request[q].user
    BY <1>2, <2>0, PatchUserWrites
  <2>2. PICK t \in Tenants : t = userTenant[u]
    BY <2>0, <2>1
  <2>3. members' \in {members \cup {<<AdminGroup[t], u>>}, members \ {<<AdminGroup[t], u>>}}
        /\ UNCHANGED <<appTenant, userTenant, groupTenant, groupRoles, role, rolePermissions>>
    BY <1>2, <2>0, <2>1, <2>2, PatchUserWrites
  <2> QED BY <2>2, <2>3
<1>3. CASE DeleteGroup(q)
  <2>1. PICK g \in Groups : g = request[q].group
    BY <1>3, Fields DEF DeleteGroup, Commit
  <2>2. \A t \in Tenants : g # AdminGroup[t]
    BY <1>3, <2>1 DEF DeleteGroup, Commit
  <2> QED BY <1>3, <2>1, <2>2 DEF DeleteGroup
<1>4. CASE AddMember(q)
  <2>1. PICK g \in Groups, u \in Users : g = request[q].group /\ u = request[q].user
    BY <1>4, Fields DEF AddMember, Commit
  <2>2. groupTenant[g] # None /\ userTenant[u] # None
    BY <1>4, <2>1 DEF AddMember, Commit
  <2>3. /\ members' = members \cup {<<g, u>>}
        /\ UNCHANGED <<appTenant, userTenant, groupTenant, groupRoles, role, rolePermissions>>
    BY <1>4, <2>1 DEF AddMember
  <2> QED BY <2>2, <2>3
<1>5. CASE RemoveMember(q) \/ RemoveGroupRole(q)
  BY <1>5 DEF RemoveMember, RemoveGroupRole
<1>6. CASE AddGroupRole(q)
  <2>1. PICK g \in Groups, r \in Roles : g = request[q].group /\ r = request[q].role
    BY <1>6, Fields DEF AddGroupRole, Commit
  <2>2. groupTenant[g] # None /\ role[r] # None
    BY <1>6, <2>1 DEF AddGroupRole
  <2>3. /\ groupRoles' = groupRoles \cup {<<g, r>>}
        /\ UNCHANGED <<appTenant, userTenant, groupTenant, members, role, rolePermissions>>
    BY <1>6, <2>1 DEF AddGroupRole
  <2> QED BY <2>2, <2>3
<1>7. CASE DeleteRole(q)
  <2>1. PICK r \in Roles : r = request[q].role
    BY <1>7, Fields DEF DeleteRole
  <2> QED BY <1>7, <2>1 DEF DeleteRole
<1>8. CASE ClearPermissions(q)
  BY <1>8 DEF ClearPermissions, tables, access
<1>9. CASE SetRolePermissions(q)
  <2>1. PICK r \in Roles, wanted \in SUBSET Permissions :
            r = request[q].role /\ wanted = request[q].wanted
    BY <1>9, Fields DEF SetRolePermissions
  <2>2. /\ wanted # {} => role[r] # None
        /\ rolePermissions' = (rolePermissions \ ({r} \X request[q].seen)) \cup ({r} \X wanted)
        /\ UNCHANGED access
    BY <1>9, <2>1 DEF SetRolePermissions
  <2> QED BY <2>1, <2>2 DEF access
<1> QED BY <1>2, <1>3, <1>4, <1>5, <1>6, <1>7, <1>8, <1>9 DEF Writes

LEMMA RowsHangByCreate ==
    ASSUME Rooted, Create
    PROVE  RowsHang'
<1>1. TablesTyped /\ RowsHang
  BY DEF Rooted, TypeOK, TablesTyped
<1> USE <1>1, DirectoryAssumption DEF DirectoryAssumption, TablesTyped, RowsHang
<1>2. ASSUME NEW t \in Tenants, NEW u \in Users, NEW admin \in BOOLEAN, CreateUser(t, u, admin)
      PROVE  RowsHang'
  BY <1>2 DEF CreateUser
<1>3. ASSUME NEW t \in Tenants, NEW a \in Apps, CreateApplication(t, a) PROVE RowsHang'
  BY <1>3 DEF CreateApplication, Role
<1>4. ASSUME NEW t \in Tenants, NEW p \in Permissions, CreatePermission(t, p) PROVE RowsHang'
  BY <1>4 DEF CreatePermission, access
<1>5. ASSUME NEW t \in Tenants, NEW g \in Groups, CreateGroup(t, g) PROVE RowsHang'
  BY <1>5 DEF CreateGroup
<1>6. ASSUME NEW t \in Tenants, NEW r \in Roles, NEW a \in Apps, CreateRole(t, r, a) PROVE RowsHang'
  BY <1>6 DEF CreateRole, Role
<1> HIDE DEF RowsHang, TablesTyped
<1> QED BY <1>2, <1>3, <1>4, <1>5, <1>6 DEF Create

\* A creation starts no request; the users there are stay.
LEMMA LastingByCreate ==
    ASSUME Rooted, Create, NEW p \in Requests
    PROVE  Lasting(request[p])'
<1>1. request' = request
  BY DEF Create, CreateUser, CreateApplication, CreatePermission, CreateGroup, CreateRole
<1>2. \A u \in Users : userTenant[u] # None => userTenant'[u] # None
  BY DirectoryAssumption DEF Rooted, TypeOK, Create, CreateUser, CreateApplication,
     CreatePermission, CreateGroup, CreateRole, access, DirectoryAssumption
<1>3. Lasting(request[p]) /\ request[p] \in Request
  BY DEF Rooted, TypeOK
<1>4. request[p].kind \in {"patchUser", "addMember"} => request[p].user \in Users
  BY <1>3, Fields
<1> QED BY <1>1, <1>2, <1>3, <1>4 DEF Lasting

LEMMA RootedInvariant == Spec => []Rooted
<1>1. Init => Rooted
  <2> SUFFICES ASSUME Init PROVE Rooted
    OBVIOUS
  <2>1. TypeOK
    BY DirectoryAssumption DEF Init, InitScope, TypeOK, DirectoryAssumption, Request
  <2>2. RowsHang
    BY DirectoryAssumption DEF Init, RowsHang, DirectoryAssumption
  <2>3. \A q \in Requests : Lasting(request[q])
    BY DEF Init, Lasting, Idle
  <2> QED BY <2>1, <2>2, <2>3 DEF Rooted
<1>2. Rooted /\ [Next]_vars => Rooted'
  <2> SUFFICES ASSUME Rooted, [Next]_vars PROVE Rooted'
    OBVIOUS
  <2>1. CASE UNCHANGED vars
    BY <2>1 DEF vars, scope, tables, access, TypeOK, RowsHang, Lasting, Rooted
  <2>2. CASE Create
    BY <2>2, CreateTyped, RowsHangByCreate, LastingByCreate DEF Rooted
  <2>3. ASSUME NEW q \in Requests, Step(q) PROVE Rooted'
    <3>1. TypeOK'
      BY <2>3, StepTyped DEF Rooted
    <3>2. RowsHang'
      <4>1. CASE Checks(q) \/ Fail(q)
        <5>1. UNCHANGED tables
          BY <4>1, ChecksFrame DEF Fail, Rooted
        <5> QED BY <5>1 DEF tables, access, RowsHang, Rooted
      <4> QED BY <2>3, <4>1, RowsHangByWrites DEF Step
    <3> QED BY <2>3, <3>1, <3>2, LastingStays DEF Rooted
  <2> QED BY <2>1, <2>2, <2>3 DEF Next, Step
<1> QED BY <1>1, <1>2, PTL DEF Spec

\* Every table holds what its columns allow, and a request what its kind says:
\* an admin group is found wherever a request puts somebody into one.
THEOREM Typing == Spec => []TypeOK
BY RootedInvariant, PTL DEF Rooted

-----------------------------------------------------------------------------
(* Ids that come back.                                                     *)

\* Only creations make an id one of a role or a group.
LEMMA NoNewId ==
    ASSUME Rooted, NEW q \in Requests, Step(q)
    PROVE  /\ \A r \in Roles : role[r] = None => role'[r] = None
           /\ \A g \in Groups : groupTenant[g] = None => groupTenant'[g] = None
<1>1. TablesTyped /\ TypeOK
  BY DEF Rooted, TypeOK, TablesTyped
<1>2. CASE Checks(q)
  BY <1>1, <1>2, ChecksFrame DEF tables, access
<1>3. CASE Fail(q)
  BY <1>3 DEF Fail, tables, access
<1>4. CASE Writes(q)
  BY <1>1, <1>4 DEF TablesTyped, Writes, PatchUser, DeleteGroup, AddMember, RemoveMember,
     AddGroupRole, RemoveGroupRole, DeleteRole, ClearPermissions, SetRolePermissions,
     tables, access
<1> QED BY <1>2, <1>3, <1>4 DEF Step

\* Who has which role depends on these tables alone.
LEMMA SameChain ==
    ASSUME UNCHANGED <<members, groupRoles, permissions, rolePermissions>>,
           NEW u \in Users, NEW a \in Apps,
           \A r \in Roles : HasRole(u, r) => role'[r] = role[r]
    PROVE  /\ EffectivePermissions(u, a)' = EffectivePermissions(u, a)
           /\ HasAccess(u, a)' = HasAccess(u, a)
<1>1. \A r \in Roles : HasRole(u, r)' <=> HasRole(u, r)
  BY DEF HasRole
<1>2. \A r \in Roles, p \in permissions :
          /\ HasRole(u, r)' /\ role'[r] # None /\ role'[r].app = a /\ <<r, p>> \in rolePermissions'
             <=> HasRole(u, r) /\ role[r] # None /\ role[r].app = a /\ <<r, p>> \in rolePermissions
  BY <1>1
<1>3. EffectivePermissions(u, a)' = EffectivePermissions(u, a)
  BY <1>2 DEF EffectivePermissions
<1>4. HasAccess(u, a)' <=> HasAccess(u, a)
  BY <1>1 DEF HasAccess
<1> QED BY <1>3, <1>4 DEF HasAccess

LEMMA GrantsNothing ==
    ASSUME Rooted, [Next]_vars, NEW u \in Users, NEW a \in Apps,
           \/ \E r \in Roles : role[r] = None /\ role'[r] # None
           \/ \E g \in Groups : groupTenant[g] = None /\ groupTenant'[g] # None
    PROVE  /\ EffectivePermissions(u, a)' = EffectivePermissions(u, a)
           /\ HasAccess(u, a)' = HasAccess(u, a)
<1>1. Create
  BY NoNewId DEF Next, Step, vars, tables, access
<1>2. /\ UNCHANGED <<permissions, rolePermissions, members, groupRoles>>
      /\ \A r \in Roles : role[r] # None => role'[r] = role[r]
  <2>1. \/ \E t \in Tenants, g \in Groups : CreateGroup(t, g)
        \/ \E t \in Tenants, r \in Roles, b \in Apps : CreateRole(t, r, b)
    BY <1>1 DEF Create, CreateUser, CreateApplication, CreatePermission, access
  <2> QED BY <2>1 DEF CreateGroup, CreateRole, Rooted, TypeOK
<1>3. \A r \in Roles : HasRole(u, r) => role[r] # None
  BY DEF HasRole, Rooted, RowsHang
<1> QED BY <1>2, <1>3, SameChain

\* An id that was deleted and comes back, in whichever tenant, has no member,
\* no assignment and no permission of its previous life: the step that creates
\* a role or a group changes nobody's access.
THEOREM NewIds == Spec => NewIdGrantsNothing
<1>1. Rooted /\ [Next]_vars =>
        [\A u \in Users, a \in Apps :
            (\/ \E r \in Roles : role[r] = None /\ role'[r] # None
             \/ \E g \in Groups : groupTenant[g] = None /\ groupTenant'[g] # None)
              => EffectivePermissions(u, a)' = EffectivePermissions(u, a)
                 /\ HasAccess(u, a)' = HasAccess(u, a)]_vars
  BY GrantsNothing
<1> QED BY <1>1, RootedInvariant, PTL DEF Spec, NewIdGrantsNothing

-----------------------------------------------------------------------------
(* Where transactions take turns.                                          *)

LEMMA InTurnKept ==
    ASSUME TypeOK, InTurn, [Next]_vars
    PROVE  InTurn'
<1> USE DEF TypeOK, InTurn
<1>1. CASE UNCHANGED vars
  BY <1>1 DEF vars, scope
<1>2. CASE Create
  BY <1>2 DEF Create, CreateUser, CreateApplication, CreatePermission, CreateGroup, CreateRole, scope
<1>3. ASSUME NEW q \in Requests, Step(q) PROVE InTurn'
  <2>1. serialized' = serialized
    BY <1>3, Frame
  <2>2. \A p \in Requests : p # q => (request'[p] # Idle <=> p \in tx')
    <3> SUFFICES ASSUME NEW p \in Requests, p # q PROVE request'[p] # Idle <=> p \in tx'
      OBVIOUS
    <3>1. CASE request'[p] = request[p]
      BY <1>3, <3>1, Frame
    <3>2. CASE /\ request[p].kind = "permissionsCleared"
               /\ request'[p] = [request[p] EXCEPT !.seen = {}]
      <4>1. request'[p].kind = "permissionsCleared"
        BY <3>2, Fields
      <4>2. request'[p] # Idle /\ request[p] # Idle
        BY <3>2, <4>1 DEF Idle
      <4> QED BY <1>3, <4>2, Frame
    <3> QED BY <1>3, <3>1, <3>2, Frame
  <2>3. CASE Checks(q)
    <3>1. request'[q] # Idle /\ MayEnter /\ tx' = tx \cup {q}
      BY <2>3, ChecksFrame
    <3> QED BY <2>1, <2>2, <3>1 DEF MayEnter
  <2>4. CASE Writes(q) \/ Fail(q)
    <3>1. CASE request'[q] = Idle /\ tx' = tx \ {q}
      BY <2>1, <2>2, <3>1
    <3>2. CASE /\ request[q].kind = "putPermissions" /\ tx' = tx
               /\ request'[q] = [request[q] EXCEPT !.kind = "permissionsCleared",
                                                   !.seen = PermissionsOf(request[q].role)]
      <4>1. request'[q].kind = "permissionsCleared"
        BY <3>2, Fields
      <4>2. Idle.kind = "idle"
        BY DEF Idle
      <4>3. request'[q] # Idle /\ request[q] # Idle
        BY <3>2, <4>1, <4>2
      <4> QED BY <2>1, <2>2, <3>2, <4>3
    <3> QED BY <2>4, <3>1, <3>2, OwnFrame
  <2> QED BY <1>3, <2>3, <2>4 DEF Step
<1> HIDE DEF InTurn
<1> QED BY <1>1, <1>2, <1>3 DEF Next, Step

\* A request that checks or writes is alone: the others hold nothing, before
\* the step and after it.
LEMMA Alone ==
    ASSUME TypeOK, InTurn, serialized, NEW q \in Requests, Step(q), NEW p \in Requests, p # q
    PROVE  request[p] = Idle /\ request'[p] = Idle
<1>1. \/ Checks(q) /\ tx = {}
      \/ (Writes(q) \/ Fail(q)) /\ request[q] # Idle
  <2>1. CASE Checks(q)
    BY <2>1, ChecksFrame DEF MayEnter
  <2>2. CASE Fail(q)
    BY <2>2 DEF Fail
  <2>3. CASE Writes(q)
    <3>1. request[q].kind # "idle"
      BY <2>3 DEF Writes, PatchUser, DeleteGroup, AddMember, RemoveMember, AddGroupRole,
         RemoveGroupRole, DeleteRole, ClearPermissions, SetRolePermissions, Commit
    <3> QED BY <2>3, <3>1 DEF Idle
  <2> QED BY <2>1, <2>2, <2>3 DEF Step
<1>2. request[p] = Idle
  BY <1>1 DEF InTurn, TypeOK
<1>3. Idle.kind = "idle"
  BY DEF Idle
<1> QED BY <1>2, <1>3, Frame

LEMMA ApartByCreate ==
    ASSUME Rooted, InTurn, KeptApart, Create
    PROVE  KeptApart'
<1>1. serialized' = serialized /\ request' = request /\ MayEnter
  BY DEF Create, CreateUser, CreateApplication, CreatePermission, CreateGroup, CreateRole, scope
<1>2. SUFFICES ASSUME serialized PROVE RowsAgree' /\ \A q \in Requests : Current(request[q])'
  BY <1>1 DEF KeptApart
<1>3. \A q \in Requests : Current(request[q])'
  <2>1. \A q \in Requests : request'[q] = Idle
    BY <1>1, <1>2 DEF MayEnter, InTurn
  <2>2. Idle.kind = "idle"
    BY DEF Idle
  <2> QED BY <2>1, <2>2 DEF Current
<1>4. RowsAgree'
  <2>1. TablesTyped /\ RowsHang /\ RowsAgree
    BY <1>2 DEF Rooted, TypeOK, TablesTyped, KeptApart
  <2> USE <2>1, DirectoryAssumption DEF DirectoryAssumption, TablesTyped, RowsHang, RowsAgree
  <2>2. ASSUME NEW t \in Tenants, NEW u \in Users, NEW admin \in BOOLEAN, CreateUser(t, u, admin)
        PROVE  RowsAgree'
    BY <2>2 DEF CreateUser
  <2>3. ASSUME NEW t \in Tenants, NEW a \in Apps, CreateApplication(t, a) PROVE RowsAgree'
    BY <2>3 DEF CreateApplication
  <2>4. ASSUME NEW t \in Tenants, NEW p \in Permissions, CreatePermission(t, p) PROVE RowsAgree'
    BY <2>4 DEF CreatePermission, access
  <2>5. ASSUME NEW t \in Tenants, NEW g \in Groups, CreateGroup(t, g) PROVE RowsAgree'
    BY <2>5 DEF CreateGroup
  <2>6. ASSUME NEW t \in Tenants, NEW r \in Roles, NEW a \in Apps, CreateRole(t, r, a)
        PROVE  RowsAgree'
    BY <2>6 DEF CreateRole
  <2> HIDE DEF RowsAgree, TablesTyped, RowsHang
  <2> QED BY <2>2, <2>3, <2>4, <2>5, <2>6 DEF Create
<1> QED BY <1>3, <1>4

\* What a request checks is so.
LEMMA CurrentByChecks ==
    ASSUME Rooted, NEW q \in Requests, Checks(q)
    PROVE  Current(request[q])'
<1> USE DEF Rooted, TypeOK, Check, tables, access
<1>1. ASSUME NEW t \in Tenants, NEW u \in Users, NEW wants \in BOOLEAN,
             PatchUserChecks(q, t, u, wants)
      PROVE  Current(request[q])'
  <2>1. PICK was : request' = [request EXCEPT ![q] =
              [kind |-> "patchUser", user |-> u, was |-> was, wants |-> wants]]
    BY <1>1, Zenon DEF PatchUserChecks
  <2> QED BY <2>1 DEF Current
<1>2. ASSUME NEW t \in Tenants, NEW g \in Groups, DeleteGroupChecks(q, t, g)
      PROVE  Current(request[q])'
  BY <1>2 DEF DeleteGroupChecks, Current
<1>3. ASSUME NEW t \in Tenants, NEW g \in Groups, NEW u \in Users,
             AddMemberChecks(q, t, g, u) \/ RemoveMemberChecks(q, t, g, u)
      PROVE  Current(request[q])'
  BY <1>3 DEF AddMemberChecks, RemoveMemberChecks, Current
<1>4. ASSUME NEW t \in Tenants, NEW g \in Groups, NEW r \in Roles,
             AddGroupRoleChecks(q, t, g, r) \/ RemoveGroupRoleChecks(q, t, g, r)
      PROVE  Current(request[q])'
  BY <1>4 DEF AddGroupRoleChecks, RemoveGroupRoleChecks, IsRole, Current
<1>5. ASSUME NEW t \in Tenants, NEW r \in Roles, DeleteRoleChecks(q, t, r)
      PROVE  Current(request[q])'
  BY <1>5 DEF DeleteRoleChecks, Current
<1>6. ASSUME NEW t \in Tenants, NEW r \in Roles, NEW wanted \in SUBSET Permissions,
             PutPermissionsChecks(q, t, r, wanted)
      PROVE  Current(request[q])'
  BY <1>6 DEF PutPermissionsChecks, IsRole, Current
<1> QED BY <1>1, <1>2, <1>3, <1>4, <1>5, <1>6 DEF Checks

\* It stays so while the request clears what it replaces, and there is nothing
\* to rely on afterwards.
LEMMA CurrentByWrites ==
    ASSUME TypeOK, NEW q \in Requests, Writes(q) \/ Fail(q), Current(request[q])
    PROVE  Current(request[q])'
<1>1. CASE request'[q] = Idle
  BY <1>1 DEF Current, Idle
<1>2. CASE /\ request[q].kind = "putPermissions"
           /\ request'[q] = [request[q] EXCEPT !.kind = "permissionsCleared",
                                               !.seen = PermissionsOf(request[q].role)]
  <2>1. request[q] \in Request
    BY DEF TypeOK
  <2>2. /\ request'[q].kind = "permissionsCleared"
        /\ request'[q].role = request[q].role /\ request'[q].wanted = request[q].wanted
    BY <1>2, <2>1, Fields
  <2>3. UNCHANGED role
    BY <1>2 DEF Writes, PatchUser, DeleteGroup, AddMember, RemoveMember, AddGroupRole,
         RemoveGroupRole, DeleteRole, ClearPermissions, SetRolePermissions, Commit, Fail,
         tables, access
  <2> QED BY <1>2, <2>2, <2>3 DEF Current
<1> QED BY <1>1, <1>2, OwnFrame

\* What a request writes agrees, because what it checked still holds.
LEMMA AgreeByWrites ==
    ASSUME Rooted, RowsAgree, NEW q \in Requests, Writes(q), Current(request[q])
    PROVE  RowsAgree'
<1>1. /\ TablesTyped /\ RowsHang /\ RowsAgree
      /\ Lasting(request[q]) /\ Current(request[q]) /\ request[q] \in Request
  BY DEF Rooted, TypeOK, TablesTyped
<1> USE <1>1, DirectoryAssumption
    DEF DirectoryAssumption, TablesTyped, RowsHang, RowsAgree, Lasting, Current
<1>2. CASE PatchUser(q)
  <2>0. request[q].kind = "patchUser" /\ TypeOK
    BY <1>2 DEF PatchUser, Commit, Rooted
  <2>1. PICK u \in Users : u = request[q].user
    BY <1>2, <2>0, PatchUserWrites
  <2>2. PICK t \in Tenants : t = userTenant[u]
    BY <2>0, <2>1
  <2>3. members' \in {members \cup {<<AdminGroup[t], u>>}, members \ {<<AdminGroup[t], u>>}}
        /\ UNCHANGED <<appTenant, userTenant, groupTenant, groupRoles, role, rolePermissions>>
    BY <1>2, <2>0, <2>1, <2>2, PatchUserWrites
  <2> QED BY <2>2, <2>3
<1>3. CASE DeleteGroup(q)
  <2>1. PICK g \in Groups : g = request[q].group
    BY <1>3, Fields DEF DeleteGroup, Commit
  <2> QED BY <1>3, <2>1 DEF DeleteGroup
<1>4. CASE AddMember(q)
  <2>1. PICK g \in Groups, u \in Users : g = request[q].group /\ u = request[q].user
    BY <1>4, Fields DEF AddMember, Commit
  <2>2. groupTenant[g] = userTenant[u]
    BY <1>4, <2>1 DEF AddMember, Commit
  <2>3. /\ members' = members \cup {<<g, u>>}
        /\ UNCHANGED <<userTenant, groupTenant, groupRoles, role, rolePermissions>>
    BY <1>4, <2>1 DEF AddMember
  <2> QED BY <2>2, <2>3
<1>5. CASE RemoveMember(q) \/ RemoveGroupRole(q)
  BY <1>5 DEF RemoveMember, RemoveGroupRole
<1>6. CASE AddGroupRole(q)
  <2>1. PICK g \in Groups, r \in Roles : g = request[q].group /\ r = request[q].role
    BY <1>6, Fields DEF AddGroupRole, Commit
  <2>2. groupTenant[g] = role[r].tenant
    BY <1>6, <2>1 DEF AddGroupRole, Commit
  <2>3. /\ groupRoles' = groupRoles \cup {<<g, r>>}
        /\ UNCHANGED <<userTenant, groupTenant, members, role, rolePermissions>>
    BY <1>6, <2>1 DEF AddGroupRole
  <2> QED BY <2>2, <2>3
<1>7. CASE DeleteRole(q)
  <2>1. PICK r \in Roles : r = request[q].role
    BY <1>7, Fields DEF DeleteRole
  <2> QED BY <1>7, <2>1 DEF DeleteRole
<1>8. CASE ClearPermissions(q)
  BY <1>8 DEF ClearPermissions, tables, access
<1>9. CASE SetRolePermissions(q)
  <2>1. PICK r \in Roles, wanted \in SUBSET Permissions :
            r = request[q].role /\ wanted = request[q].wanted
    BY <1>9, Fields DEF SetRolePermissions
  <2>2. \A p \in wanted : role[r].app = AppOf[p]
    BY <1>9, <2>1 DEF SetRolePermissions
  <2>3. /\ rolePermissions' = (rolePermissions \ ({r} \X request[q].seen)) \cup ({r} \X wanted)
        /\ UNCHANGED access
    BY <1>9, <2>1 DEF SetRolePermissions
  <2> QED BY <2>1, <2>2, <2>3 DEF access
<1> HIDE DEF TablesTyped, RowsHang, RowsAgree, Lasting, Current
<1> QED BY <1>2, <1>3, <1>4, <1>5, <1>6, <1>7, <1>8, <1>9 DEF Writes

IInv == Rooted /\ InTurn /\ KeptApart

\* The invariant the two theorems below rest on: rows that refer to one another
\* are of one tenant where transactions take turns.
THEOREM Invariance == Spec => []IInv
<1>1. Init => InTurn /\ KeptApart
  BY DEF Init, InitScope, InTurn, KeptApart, RowsAgree, Current, Idle
<1>2. IInv /\ [Next]_vars => KeptApart'
  <2> SUFFICES ASSUME IInv, [Next]_vars PROVE KeptApart'
    OBVIOUS
  <2>1. CASE UNCHANGED vars
    BY <2>1 DEF vars, scope, tables, access, IInv, KeptApart, RowsAgree, Current
  <2>2. CASE Create
    BY <2>2, ApartByCreate DEF IInv
  <2>3. ASSUME NEW q \in Requests, Step(q) PROVE KeptApart'
    <3> USE DEF IInv, Rooted
    <3>1. serialized' = serialized
      BY <2>3, Frame
    <3>2. SUFFICES ASSUME serialized
                   PROVE  RowsAgree' /\ \A p \in Requests : Current(request[p])'
      BY <3>1 DEF KeptApart
    <3>3. ASSUME NEW p \in Requests, p # q PROVE Current(request[p])'
      <4>1. request'[p] = Idle
        BY <2>3, <3>2, <3>3, Alone
      <4> QED BY <4>1 DEF Current, Idle
    <3>4. Current(request[q])'
      BY <2>3, <3>2, CurrentByChecks, CurrentByWrites DEF Step, KeptApart
    <3>5. RowsAgree'
      <4>1. CASE Checks(q) \/ Fail(q)
        <5>1. UNCHANGED tables
          BY <4>1, ChecksFrame DEF Fail
        <5> QED BY <3>2, <5>1 DEF tables, access, RowsAgree, KeptApart
      <4>2. CASE Writes(q)
        BY <3>2, <4>2, AgreeByWrites DEF KeptApart
      <4> QED BY <2>3, <4>1, <4>2 DEF Step
    <3> QED BY <3>3, <3>4, <3>5
  <2> QED BY <2>1, <2>2, <2>3 DEF Next, Step
<1>3. IInv /\ [Next]_vars => InTurn'
  BY InTurnKept DEF IInv, Rooted
<1>4. Rooted /\ InTurn /\ KeptApart <=> IInv
  BY DEF IInv
<1> QED BY <1>1, <1>2, <1>3, <1>4, RootedInvariant, PTL DEF Spec

\* Whoever may sign in to an application, through whatever memberships and
\* assignments operators of any tenants made in turn, is a user of its tenant.
THEOREM InTenant == Spec => []AccessStaysInTenant
<1>1. IInv => AccessStaysInTenant
  <2> SUFFICES ASSUME IInv, serialized, NEW u \in Users, NEW r \in Roles, NEW g \in Groups,
                      <<g, u>> \in members, <<g, r>> \in groupRoles, role[r] # None
               PROVE  userTenant[u] = appTenant[role[r].app]
    BY DEF AccessStaysInTenant, HasAccess, HasRole
  <2> QED BY DEF IInv, Rooted, RowsHang, KeptApart, RowsAgree
<1> QED BY <1>1, Invariance, PTL

\* A role carries permissions of its own application, also when its id has
\* been deleted and has come back for another.
THEOREM OwnApp == Spec => []RoleCarriesOwnApp
<1>1. IInv => RoleCarriesOwnApp
  BY DEF IInv, Rooted, RowsHang, KeptApart, RowsAgree, RoleCarriesOwnApp, PermissionsOf
<1> QED BY <1>1, Invariance, PTL

=============================================================================
