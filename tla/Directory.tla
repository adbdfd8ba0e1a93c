----------------------------- MODULE Directory -----------------------------
(***************************************************************************)
(* The access directory a tenant's operators edit in the console           *)
(* (AdminService, services/admin.py) and the RBAC chain it is read by      *)
(* (authz.py): user -> group -> role -> permission, every role on one      *)
(* application, every application in one tenant.                           *)
(*                                                                         *)
(* User ids are random; group, role and application ids may be chosen by   *)
(* the operator and are one namespace for all tenants, so an id that was   *)
(* deleted can come back in another tenant.  A permission's id is made     *)
(* from its application's.  Names, descriptions, passwords and the         *)
(* enabled flags are left out: no property here tells them apart.          *)
(*                                                                         *)
(* A handler that checks rows and then writes is two steps, its checks and *)
(* its commit; foreign and primary keys are checked at the commit.  One    *)
(* whose checks the primary key alone repeats is a single step.            *)
(***************************************************************************)
EXTENDS SessionScope, FiniteSets

CONSTANTS
    Tenants, Users, Groups, Roles, Apps, Permissions,
    AdminGroup,     \* per tenant: its admin group (Tenant.admin_group_id)
    AppOf,          \* per permission: the application in its id
    InitialAppTenant, \* per application: its tenant when the model starts
    SeededPermissions, \* permissions the tenants start with
    None            \* absence of a row

ASSUME DirectoryAssumption ==
    /\ None \notin Tenants /\ None \notin Apps
    /\ AdminGroup \in [Tenants -> Groups]
    /\ \A t, s \in Tenants : AdminGroup[t] = AdminGroup[s] => t = s
    /\ AppOf \in [Permissions -> Apps]
    /\ InitialAppTenant \in [Apps -> Tenants \cup {None}]
    /\ SeededPermissions \subseteq {p \in Permissions : InitialAppTenant[AppOf[p]] # None}

VARIABLES
    appTenant,      \* the applications table: per id, its tenant or None
    userTenant,     \* the users table: per id, its tenant or None
    isAdmin,        \* users whose is_admin label is set
    groupTenant,    \* the groups table
    role,           \* the roles table: tenant and application, or None
    permissions,    \* the permissions table
    members,        \* group_memberships: <<group, user>>
    groupRoles,     \* group_roles: <<group, role>>
    rolePermissions,\* role_permissions: <<role, permission>>
    request         \* per request: what it has checked and not yet written

access == <<appTenant, userTenant, members, groupTenant, groupRoles, role>>
tables == <<access, isAdmin, permissions, rolePermissions>>
vars == <<scope, tables, request>>

Role == [tenant : Tenants, app : Apps]

Idle == [kind |-> "idle"]

Request ==
    {Idle}
    \cup [kind : {"deleteGroup"}, group : Groups]
    \cup [kind : {"addMember", "removeMember"}, group : Groups, user : Users]
    \cup [kind : {"addRole", "removeRole"}, group : Groups, role : Roles]
    \cup [kind : {"deleteRole"}, role : Roles]
    \cup [kind : {"putPermissions", "permissionsCleared"}, role : Roles,
          wanted : SUBSET Permissions, seen : SUBSET Permissions]
    \cup [kind : {"patchUser"}, user : Users, was : BOOLEAN, wants : BOOLEAN]

Init ==
    /\ InitScope
    /\ appTenant = InitialAppTenant
    /\ userTenant = [u \in Users |-> None]
    /\ isAdmin = {}
    /\ groupTenant = [g \in Groups |-> IF \E t \in Tenants : AdminGroup[t] = g
                                       THEN CHOOSE t \in Tenants : AdminGroup[t] = g
                                       ELSE None]
    /\ role = [r \in Roles |-> None]
    /\ permissions = SeededPermissions
    /\ members = {} /\ groupRoles = {} /\ rolePermissions = {}
    /\ request = [q \in Requests |-> Idle]

-----------------------------------------------------------------------------
(* authz.py                                                                *)

HasRole(u, r) == \E g \in Groups : <<g, u>> \in members /\ <<g, r>> \in groupRoles

HasAccess(u, a) == \E r \in Roles : HasRole(u, r) /\ role[r] # None /\ role[r].app = a

EffectivePermissions(u, a) ==
    {p \in permissions :
        /\ AppOf[p] = a
        /\ \E r \in Roles : /\ HasRole(u, r)
                            /\ role[r] # None /\ role[r].app = a
                            /\ <<r, p>> \in rolePermissions}

PermissionsOf(r) == {p \in Permissions : <<r, p>> \in rolePermissions}

-----------------------------------------------------------------------------
(* Transactions                                                            *)

(* The tenant-scoped lookups: another tenant's row is as good as none.     *)
IsRole(t, r) == role[r] # None /\ role[r].tenant = t

Check(q, checked) ==
    /\ request[q] = Idle
    /\ Enter(q)
    /\ request' = [request EXCEPT ![q] = checked]
    /\ UNCHANGED tables

Commit(q, kind) ==
    /\ request[q].kind = kind
    /\ Leave(q)
    /\ request' = [request EXCEPT ![q] = Idle]

(* A transaction that raises, or whose process dies, leaves no trace: a    *)
(* foreign key gone, a primary key taken by someone else, a crash.         *)
Fail(q) ==
    /\ Commit(q, request[q].kind)
    /\ request[q] # Idle
    /\ UNCHANGED tables

-----------------------------------------------------------------------------
(* Users                                                                   *)

CreateUser(t, u, admin) ==
    /\ MayEnter
    /\ userTenant[u] = None
    /\ userTenant' = [userTenant EXCEPT ![u] = t]
    /\ isAdmin' = IF admin THEN isAdmin \cup {u} ELSE isAdmin
    /\ members' = IF admin THEN members \cup {<<AdminGroup[t], u>>} ELSE members
    /\ UNCHANGED <<scope, appTenant, groupTenant, groupRoles, role, permissions,
                   rolePermissions, request>>

PatchUserChecks(q, t, u, wants) ==
    /\ userTenant[u] = t
    /\ Check(q, [kind |-> "patchUser", user |-> u, was |-> u \in isAdmin, wants |-> wants])

(* The row is written only when the label differs from the one read; the   *)
(* membership of the admin group then follows what the request wants.      *)
PatchUser(q) ==
    LET o == request[q]
        membership == {<<AdminGroup[userTenant[o.user]], o.user>>}
    IN  /\ Commit(q, "patchUser")
        /\ isAdmin' = CASE o.was = o.wants -> isAdmin
                        [] o.wants /\ ~o.was -> isAdmin \cup {o.user}
                        [] OTHER -> isAdmin \ {o.user}
        /\ members' = IF o.wants THEN members \cup membership ELSE members \ membership
        /\ UNCHANGED <<appTenant, userTenant, groupTenant, groupRoles, role,
                       permissions, rolePermissions>>

-----------------------------------------------------------------------------
(* Applications and permissions                                            *)

CreateApplication(t, a) ==
    /\ MayEnter
    /\ appTenant[a] = None
    /\ appTenant' = [appTenant EXCEPT ![a] = t]
    /\ UNCHANGED <<scope, userTenant, isAdmin, groupTenant, role, permissions, members,
                   groupRoles, rolePermissions, request>>

CreatePermission(t, p) ==
    /\ MayEnter
    /\ appTenant[AppOf[p]] = t
    /\ p \notin permissions
    /\ permissions' = permissions \cup {p}
    /\ UNCHANGED <<scope, access, isAdmin, rolePermissions, request>>

-----------------------------------------------------------------------------
(* Groups                                                                  *)

CreateGroup(t, g) ==
    /\ MayEnter
    /\ groupTenant[g] = None
    /\ groupTenant' = [groupTenant EXCEPT ![g] = t]
    /\ UNCHANGED <<scope, appTenant, userTenant, isAdmin, role, permissions, members,
                   groupRoles, rolePermissions, request>>

DeleteGroupChecks(q, t, g) ==
    /\ groupTenant[g] = t
    /\ g # AdminGroup[t]
    /\ Check(q, [kind |-> "deleteGroup", group |-> g])

DeleteGroup(q) ==
    LET g == request[q].group
    IN  /\ Commit(q, "deleteGroup")
        /\ members' = {m \in members : m[1] # g}
        /\ groupRoles' = {a \in groupRoles : a[1] # g}
        /\ groupTenant' = [groupTenant EXCEPT ![g] = None]
        /\ UNCHANGED <<appTenant, userTenant, isAdmin, role, permissions,
                       rolePermissions>>

AddMemberChecks(q, t, g, u) ==
    /\ groupTenant[g] = t /\ userTenant[u] = t
    /\ <<g, u>> \notin members
    /\ Check(q, [kind |-> "addMember", group |-> g, user |-> u])

AddMember(q) ==
    LET o == request[q]
    IN  /\ Commit(q, "addMember")
        /\ groupTenant[o.group] # None              \* foreign key
        /\ <<o.group, o.user>> \notin members       \* primary key
        /\ members' = members \cup {<<o.group, o.user>>}
        /\ UNCHANGED <<appTenant, userTenant, isAdmin, groupTenant, groupRoles, role,
                       permissions, rolePermissions>>

RemoveMemberChecks(q, t, g, u) ==
    /\ groupTenant[g] = t
    /\ <<g, u>> \in members
    /\ Check(q, [kind |-> "removeMember", group |-> g, user |-> u])

RemoveMember(q) ==
    /\ Commit(q, "removeMember")
    /\ members' = members \ {<<request[q].group, request[q].user>>}
    /\ UNCHANGED <<appTenant, userTenant, isAdmin, groupTenant, groupRoles, role,
                   permissions, rolePermissions>>

(* A mutant of AddGroupRoleChecks: the role may be any tenant's.           *)
AddGroupRoleUnscoped(q, t, g, r) ==
    /\ groupTenant[g] = t /\ role[r] # None
    /\ <<g, r>> \notin groupRoles
    /\ Check(q, [kind |-> "addRole", group |-> g, role |-> r])

AddGroupRoleChecks(q, t, g, r) ==
    /\ groupTenant[g] = t /\ IsRole(t, r)
    /\ <<g, r>> \notin groupRoles
    /\ Check(q, [kind |-> "addRole", group |-> g, role |-> r])

(* A mutant of AddGroupRole: group_roles without its foreign key to roles. *)
AddGroupRoleNoKey(q) ==
    LET o == request[q]
    IN  /\ Commit(q, "addRole")
        /\ groupTenant[o.group] # None
        /\ <<o.group, o.role>> \notin groupRoles
        /\ groupRoles' = groupRoles \cup {<<o.group, o.role>>}
        /\ UNCHANGED <<appTenant, userTenant, isAdmin, members, groupTenant, role,
                       permissions, rolePermissions>>

AddGroupRole(q) ==
    LET o == request[q]
    IN  /\ Commit(q, "addRole")
        /\ groupTenant[o.group] # None /\ role[o.role] # None   \* foreign keys
        /\ <<o.group, o.role>> \notin groupRoles                \* primary key
        /\ groupRoles' = groupRoles \cup {<<o.group, o.role>>}
        /\ UNCHANGED <<appTenant, userTenant, isAdmin, members, groupTenant, role,
                       permissions, rolePermissions>>

RemoveGroupRoleChecks(q, t, g, r) ==
    /\ groupTenant[g] = t
    /\ <<g, r>> \in groupRoles
    /\ Check(q, [kind |-> "removeRole", group |-> g, role |-> r])

RemoveGroupRole(q) ==
    /\ Commit(q, "removeRole")
    /\ groupRoles' = groupRoles \ {<<request[q].group, request[q].role>>}
    /\ UNCHANGED <<appTenant, userTenant, isAdmin, members, groupTenant, role,
                   permissions, rolePermissions>>

-----------------------------------------------------------------------------
(* Roles                                                                   *)

(* A mutant of CreateRole: its two columns in the wrong order.             *)
CreateRoleSwapped(t, r, a) ==
    /\ MayEnter
    /\ appTenant[a] = t
    /\ role[r] = None
    /\ role' = [role EXCEPT ![r] = [tenant |-> a, app |-> t]]
    /\ UNCHANGED <<scope, appTenant, userTenant, isAdmin, groupTenant, permissions, members,
                   groupRoles, rolePermissions, request>>

CreateRole(t, r, a) ==
    /\ MayEnter
    /\ appTenant[a] = t
    /\ role[r] = None
    /\ role' = [role EXCEPT ![r] = [tenant |-> t, app |-> a]]
    /\ UNCHANGED <<scope, appTenant, userTenant, isAdmin, groupTenant, permissions, members,
                   groupRoles, rolePermissions, request>>

(* A DELETE that waits for rows another transaction deletes skips them     *)
(* once that one commits, and does not see the rows it inserted.           *)
OthersSkip(q, r) ==
    request' = [p \in Requests |->
        CASE p = q -> Idle
          [] p # q /\ request[p].kind = "permissionsCleared" /\ request[p].role = r ->
                [request[p] EXCEPT !.seen = {}]
          [] OTHER -> request[p]]

DeleteRoleChecks(q, t, r) ==
    /\ IsRole(t, r)
    /\ Check(q, [kind |-> "deleteRole", role |-> r])

(* A mutant of DeleteRole: the assignments stay behind.                    *)
DeleteRoleOnly(q) ==
    LET r == request[q].role
    IN  /\ request[q].kind = "deleteRole"
        /\ Leave(q)
        /\ OthersSkip(q, r)
        /\ rolePermissions' = {x \in rolePermissions : x[1] # r}
        /\ role' = [role EXCEPT ![r] = None]
        /\ UNCHANGED <<appTenant, userTenant, isAdmin, members, groupTenant, groupRoles,
                       permissions>>

DeleteRole(q) ==
    LET r == request[q].role
    IN  /\ request[q].kind = "deleteRole"
        /\ Leave(q)
        /\ OthersSkip(q, r)
        /\ rolePermissions' = {x \in rolePermissions : x[1] # r}
        /\ groupRoles' = {x \in groupRoles : x[2] # r}
        /\ role' = [role EXCEPT ![r] = None]
        /\ UNCHANGED <<appTenant, userTenant, isAdmin, members, groupTenant,
                       permissions>>

(* A mutant of PutPermissionsChecks: any application of the tenant will do.*)
PutPermissionsOfTenant(q, t, r, wanted) ==
    /\ IsRole(t, r)
    /\ \A p \in wanted : p \in permissions /\ appTenant[AppOf[p]] = t
    /\ Check(q, [kind |-> "putPermissions", role |-> r, wanted |-> wanted, seen |-> {}])

PutPermissionsChecks(q, t, r, wanted) ==
    /\ IsRole(t, r)
    /\ \A p \in wanted : /\ p \in permissions
                         /\ appTenant[AppOf[p]] = t    \* 404
                         /\ AppOf[p] = role[r].app     \* 422
    /\ Check(q, [kind |-> "putPermissions", role |-> r, wanted |-> wanted, seen |-> {}])

(* DELETE FROM role_permissions deletes the rows committed when it starts. *)
ClearPermissions(q) ==
    /\ request[q].kind = "putPermissions"
    /\ request' = [request EXCEPT ![q].kind = "permissionsCleared",
                                  ![q].seen = PermissionsOf(request[q].role)]
    /\ UNCHANGED <<scope, tables>>

SetRolePermissions(q) ==
    LET o == request[q]
        kept == rolePermissions \ ({o.role} \X o.seen)
        added == {o.role} \X o.wanted
    IN  /\ o.kind = "permissionsCleared"
        /\ Leave(q)
        /\ OthersSkip(q, o.role)
        /\ o.wanted # {} => role[o.role] # None     \* foreign key
        /\ kept \cap added = {}                     \* primary key
        /\ rolePermissions' = kept \cup added
        /\ UNCHANGED <<access, isAdmin, permissions>>

-----------------------------------------------------------------------------
Create ==
    \E t \in Tenants :
        \/ \E u \in Users, admin \in BOOLEAN : CreateUser(t, u, admin)
        \/ \E a \in Apps : CreateApplication(t, a)
        \/ \E p \in Permissions : CreatePermission(t, p)
        \/ \E g \in Groups : CreateGroup(t, g)
        \/ \E r \in Roles, a \in Apps : CreateRole(t, r, a)

Checks(q) ==
    \E t \in Tenants :
        \/ \E u \in Users, wants \in BOOLEAN : PatchUserChecks(q, t, u, wants)
        \/ \E g \in Groups : DeleteGroupChecks(q, t, g)
        \/ \E g \in Groups, u \in Users : AddMemberChecks(q, t, g, u) \/ RemoveMemberChecks(q, t, g, u)
        \/ \E g \in Groups, r \in Roles :
              AddGroupRoleChecks(q, t, g, r) \/ RemoveGroupRoleChecks(q, t, g, r)
        \/ \E r \in Roles : DeleteRoleChecks(q, t, r)
        \/ \E r \in Roles, wanted \in SUBSET Permissions : PutPermissionsChecks(q, t, r, wanted)

Writes(q) ==
    \/ PatchUser(q)
    \/ DeleteGroup(q) \/ AddMember(q) \/ RemoveMember(q)
    \/ AddGroupRole(q) \/ RemoveGroupRole(q)
    \/ DeleteRole(q) \/ ClearPermissions(q) \/ SetRolePermissions(q)

Next ==
    \/ Create
    \/ \E q \in Requests : Checks(q) \/ Writes(q) \/ Fail(q)

Spec == Init /\ [][Next]_vars

-----------------------------------------------------------------------------
TypeOK ==
    /\ serialized \in BOOLEAN /\ tx \subseteq Requests
    /\ appTenant \in [Apps -> Tenants \cup {None}]
    /\ userTenant \in [Users -> Tenants \cup {None}]
    /\ isAdmin \subseteq Users
    /\ groupTenant \in [Groups -> Tenants \cup {None}]
    /\ role \in [Roles -> Role \cup {None}]
    /\ permissions \subseteq Permissions
    /\ members \subseteq Groups \X Users
    /\ groupRoles \subseteq Groups \X Roles
    /\ rolePermissions \subseteq Roles \X Permissions
    /\ request \in [Requests -> Request]

(* Where transactions take turns, access never crosses tenants: whoever may sign in to an application,    *)
(* through any chain of memberships and assignments that operators of      *)
(* different tenants built in any order, is a user of its tenant.          *)
AccessStaysInTenant ==
    serialized => \A u \in Users, a \in Apps : HasAccess(u, a) => userTenant[u] = appTenant[a]

(* Where transactions take turns, a role carries permissions of its own    *)
(* application only, also when its id has been deleted and created again   *)
(* for another application.                                                *)
RoleCarriesOwnApp ==
    serialized => \A r \in Roles : \A p \in PermissionsOf(r) : role[r] # None /\ role[r].app = AppOf[p]

(* A step that creates a role or a group gives nobody anything: an id that *)
(* was deleted comes back with no member, assignment or permission of its  *)
(* previous life.                                                          *)
NewIdGrantsNothing ==
    [][\A u \in Users, a \in Apps :
          (\/ \E r \in Roles : role[r] = None /\ role'[r] # None
           \/ \E g \in Groups : groupTenant[g] = None /\ groupTenant'[g] # None)
            => EffectivePermissions(u, a)' = EffectivePermissions(u, a)
               /\ HasAccess(u, a)' = HasAccess(u, a)]_vars

=============================================================================
