------------------------------ MODULE Tenancy ------------------------------
(***************************************************************************)
(* Tenants, the domains of their operators, and the guard in front of      *)
(* every request of the admin console (AdminService, services/admin.py).   *)
(* A request loads its session (LoginService.load_session), resolves the   *)
(* tenant it is about and whether the operator may (authorize), and only   *)
(* then runs its handler, each in a transaction of its own: what the guard *)
(* found may be out of date when the handler writes.                       *)
(*                                                                         *)
(* Handlers that write the directory of a tenant are one kind of request   *)
(* here; what they write is in Directory.                                  *)
(* A new tenant is written in two stores, its policy on the PDP and its    *)
(* rows here.  A replica that boots runs the seed (seed_identity) over     *)
(* what operators have edited.                                             *)
(***************************************************************************)
EXTENDS SessionScope, Naturals

CONSTANTS
    Tenants,
    Platform,       \* the tenant that is_platform
    Domains,        \* e-mail domains of operators
    SeedTenantOf,   \* per domain: the tenant the seed gives it to, or None
    Operators,      \* sessions that may call the console, each of one user
    HomeOf,         \* per operator: the tenant of its user
    AtConsole,      \* operators whose session is of their tenant's console
    SeedRights,     \* per operator: the permissions the seed gives the user
    Asked,          \* bound: what is asked of the console
    MaxChanges,     \* bound: edits of operators and their sessions
    None            \* absence of a value

Rights == {"admin:write", "tenants:read", "tenants:write"}

ASSUME TenancyAssumption ==
    /\ Platform \in Tenants /\ None \notin Tenants
    /\ HomeOf \in [Operators -> Tenants]
    /\ AtConsole \subseteq Operators
    /\ SeedTenantOf \in [Domains -> Tenants \cup {None}]
    /\ SeedRights \in [Operators -> SUBSET Rights]
    /\ MaxChanges \in Nat
    /\ Asked \subseteq [kind : {"write", "create", "patch"}, who : Operators, target : Tenants,
                        wanted : SUBSET Domains]

VARIABLES
    tenants,    \* the tenants table
    domainOf,   \* the tenant_domains table: per domain, its tenant or None
    policies,   \* tenants the PDP has a policy for
    sessions,   \* operators whose session is there: until a logout, its lifetime is left out
    enabled,    \* operators whose user is enabled
    rights,     \* effective_permissions of each operator at its application
    changes,    \* edits so far
    pc,         \* per request: where it is
    req,        \* per request: what it is about, and what it has read
    entitled    \* history: requests whose operator was entitled at a moment while they ran

rows == <<tenants, domainOf, policies>>
people == <<sessions, enabled, rights, changes>>
vars == <<scope, rows, people, pc, req, entitled>>

(* read: the permissions load_session returned; seen: the domains a DELETE *)
(* deletes, or the ones a boot found missing; lost: the rights it did.     *)
Request ==
    [kind : {"write", "create", "patch"}, who : Operators, target : Tenants,
     wanted : SUBSET Domains, read : SUBSET Rights, seen : SUBSET Domains]
    \cup [kind : {"boot"}, seen : SUBSET Domains, lost : [Operators -> SUBSET Rights]]

DomainsOf(t) == {d \in Domains : domainOf[d] = t}

Seeded == ({Platform} \cup {HomeOf[o] : o \in Operators} \cup {SeedTenantOf[d] : d \in Domains}) \ {None}

Init ==
    /\ InitScope
    /\ tenants = Seeded
    /\ domainOf = SeedTenantOf
    /\ policies = Seeded
    /\ sessions = Operators
    /\ enabled = Operators
    /\ rights = SeedRights
    /\ changes = 0
    /\ pc = [r \in Requests |-> "idle"]
    /\ req = [r \in Requests |-> None]
    /\ entitled = {}

-----------------------------------------------------------------------------
(* What changes an operator's standing: logins, logouts, patch_user, and   *)
(* the writes of the directory that change what effective_permissions      *)
(* finds.                                                                  *)

Change ==
    /\ changes < MaxChanges
    /\ changes' = changes + 1
    /\ MayEnter
    /\ UNCHANGED <<scope, rows, pc, req>>

SessionEnds(o) ==
    /\ Change
    /\ o \in sessions
    /\ sessions' = sessions \ {o}
    /\ UNCHANGED <<enabled, rights>>

SetEnabled(o) ==
    /\ Change
    /\ enabled' = IF o \in enabled THEN enabled \ {o} ELSE enabled \cup {o}
    /\ UNCHANGED <<sessions, rights>>

Grant(o, p) ==
    /\ Change
    /\ p \notin rights[o]
    /\ rights' = [rights EXCEPT ![o] = @ \cup {p}]
    /\ UNCHANGED <<sessions, enabled>>

Revoke(o, p) ==
    /\ Change
    /\ p \in rights[o]
    /\ rights' = [rights EXCEPT ![o] = @ \ {p}]
    /\ UNCHANGED <<sessions, enabled>>

-----------------------------------------------------------------------------
(* The guard                                                               *)

Goto(r, from, to) == pc[r] = from /\ pc' = [pc EXCEPT ![r] = to]

End(r) ==
    /\ pc' = [pc EXCEPT ![r] = "idle"]
    /\ req' = [req EXCEPT ![r] = None]
    /\ Leave(r)

(* A 401, 403, 404, 409 or 503, a primary key that is taken, a crash: what *)
(* the transaction wrote is rolled back.                                   *)
Fail(r) == pc[r] # "idle" /\ End(r) /\ UNCHANGED <<rows, people>>

(* load_session: the session, its user, and then the permissions.          *)
LoadSession(r, a) ==
    /\ Goto(r, "idle", "session read")
    /\ a.who \in sessions
    /\ Enter(r)
    /\ req' = [req EXCEPT ![r] = [kind |-> a.kind, who |-> a.who, target |-> a.target,
                                  wanted |-> a.wanted, read |-> {}, seen |-> {}]]
    /\ UNCHANGED <<rows, people>>

ReadUser(r) ==
    /\ Goto(r, "session read", "user read")
    /\ req[r].who \in enabled
    /\ UNCHANGED <<scope, rows, people, req>>

ReadPermissions(r) ==
    /\ Goto(r, "user read", "loaded")
    /\ req' = [req EXCEPT ![r].read = rights[req[r].who]]
    /\ Leave(r)
    /\ UNCHANGED <<rows, people>>

Needs(kind) == IF kind = "write" THEN "admin:write" ELSE "tenants:write"

(* A mutant of IsPlatform: the permission alone makes a platform operator. *)
IsPlatformByPermission(q) == "tenants:read" \in q.read

(* is_platform_operator *)
IsPlatform(q) == HomeOf[q.who] = Platform /\ "tenants:read" \in q.read

(* authorize, and authorize_platform for what is about a tenant itself.    *)
Authorize(r) ==
    LET q == req[r] IN
    /\ Goto(r, "loaded", "authorized")
    /\ MayEnter
    /\ q.who \in AtConsole
    /\ IF q.kind = "write"
       THEN q.target = HomeOf[q.who] \/ (IsPlatform(q) /\ q.target \in tenants)
       ELSE IsPlatform(q)
    /\ Needs(q.kind) \in q.read
    /\ req' = [req EXCEPT ![r].read = {}]
    /\ UNCHANGED <<scope, rows, people>>

(* A handler that writes the tenant's directory.                           *)
WriteInTenant(r) ==
    /\ pc[r] = "authorized" /\ req[r].kind = "write"
    /\ MayEnter
    /\ End(r)
    /\ UNCHANGED <<rows, people>>

-----------------------------------------------------------------------------
(* create_tenant                                                           *)

Free(q) == q.target \notin tenants /\ \A d \in q.wanted : domainOf[d] = None

CheckFree(r) ==
    /\ Goto(r, "authorized", "checked")
    /\ req[r].kind = "create"
    /\ MayEnter
    /\ Free(req[r])
    /\ UNCHANGED <<scope, rows, people, req>>

(* The starter policy, outside of any transaction. *)
PutStarter(r) ==
    /\ Goto(r, "checked", "policy put")
    /\ policies' = policies \cup {req[r].target}
    /\ UNCHANGED <<scope, tenants, domainOf, people, req>>

(* A mutant of PutUnanswered: no answer is taken for a yes.                *)
PutUnansweredGoesOn(r) ==
    /\ Goto(r, "checked", "policy put")
    /\ UNCHANGED <<scope, rows, people, req>>

(* The PDP saved it and its answer was lost: 503. *)
PutUnanswered(r) ==
    /\ pc[r] = "checked"
    /\ policies' = policies \cup {req[r].target}
    /\ End(r)
    /\ UNCHANGED <<tenants, domainOf, people>>

(* A mutant of InsertTenant: a domain's two columns in the wrong order.    *)
InsertTenantByOperator(r) ==
    LET q == req[r] IN
    /\ pc[r] = "policy put" /\ MayEnter /\ Free(q)
    /\ tenants' = tenants \cup {q.target}
    /\ domainOf' = [d \in Domains |-> IF d \in q.wanted THEN q.who ELSE domainOf[d]]
    /\ End(r)
    /\ UNCHANGED <<policies, people>>

(* The tenant, its domains and its console in one commit; the primary keys *)
(* repeat the checks of _set_domains.  The console starts with an empty    *)
(* admin group, so nobody gains a right.                                   *)
InsertTenant(r) ==
    LET q == req[r] IN
    /\ pc[r] = "policy put"
    /\ MayEnter
    /\ Free(q)
    /\ tenants' = tenants \cup {q.target}
    /\ domainOf' = [d \in Domains |-> IF d \in q.wanted THEN q.target ELSE domainOf[d]]
    /\ End(r)
    /\ UNCHANGED <<policies, people>>

-----------------------------------------------------------------------------
(* patch_tenant, which replaces the domains of a tenant (_set_domains)     *)

CheckDomains(r) ==
    LET q == req[r] IN
    /\ Goto(r, "authorized", "domains checked")
    /\ q.kind = "patch"
    /\ q.target \in tenants
    /\ \A d \in q.wanted : domainOf[d] \in {None, q.target}
    /\ Enter(r)
    /\ UNCHANGED <<rows, people, req>>

(* A mutant of ClearDomains: the new domains are added to the old.         *)
ClearNoDomains(r) ==
    /\ Goto(r, "domains checked", "domains cleared")
    /\ UNCHANGED <<scope, rows, people, req>>

(* DELETE deletes the rows that are committed when it starts ...           *)
ClearDomains(r) ==
    /\ Goto(r, "domains checked", "domains cleared")
    /\ req' = [req EXCEPT ![r].seen = DomainsOf(req[r].target)]
    /\ UNCHANGED <<scope, rows, people>>

(* ... unless another transaction deletes them first: it skips those.      *)
OthersSkip(r) ==
    req' = [p \in Requests |->
        CASE p = r -> None
          [] p # r /\ pc[p] = "domains cleared" -> [req[p] EXCEPT !.seen = @ \ req[r].seen]
          [] OTHER -> req[p]]

SaveDomains(r) ==
    LET q == req[r] IN
    /\ Goto(r, "domains cleared", "idle")
    /\ \A d \in q.wanted : d \in q.seen \/ domainOf[d] = None      \* primary key
    /\ domainOf' = [d \in Domains |-> IF d \in q.wanted THEN q.target
                                     ELSE IF d \in q.seen THEN None ELSE domainOf[d]]
    /\ OthersSkip(r)
    /\ Leave(r)
    /\ UNCHANGED <<tenants, policies, people>>

-----------------------------------------------------------------------------
(* seed_identity, when a replica boots.  The in-memory database is a new   *)
(* one then, and its seed is Init; on PostgreSQL others are being served.  *)

BeginBoot(r) ==
    /\ ~serialized
    /\ Goto(r, "idle", "booting")
    /\ req' = [req EXCEPT ![r] =
                 [kind |-> "boot",
                  seen |-> {d \in Domains : SeedTenantOf[d] # None /\ domainOf[d] = None},
                  lost |-> [o \in Operators |-> SeedRights[o] \ rights[o]]]]
    /\ Enter(r)
    /\ UNCHANGED <<rows, people>>

(* A domain that is missing comes back, one that went elsewhere is left    *)
(* alone; so do the memberships and permissions of the users it seeds.     *)
Boot(r) ==
    LET missing == req[r].seen IN
    /\ pc[r] = "booting"
    /\ \A d \in missing : domainOf[d] = None                       \* primary key
    /\ domainOf' = [d \in Domains |-> IF d \in missing THEN SeedTenantOf[d] ELSE domainOf[d]]
    /\ rights' = [o \in Operators |-> rights[o] \cup req[r].lost[o]]
    /\ End(r)
    /\ UNCHANGED <<tenants, policies, sessions, enabled, changes>>

-----------------------------------------------------------------------------

Environment ==
    \E o \in Operators :
        SessionEnds(o) \/ SetEnabled(o) \/ (\E p \in Rights : Grant(o, p) \/ Revoke(o, p))

Guard(r) ==
    \/ \E a \in Asked : LoadSession(r, a)
    \/ ReadUser(r) \/ ReadPermissions(r) \/ Authorize(r)

Handler(r) ==
    \/ WriteInTenant(r)
    \/ CheckFree(r) \/ PutStarter(r) \/ PutUnanswered(r) \/ InsertTenant(r)
    \/ CheckDomains(r) \/ ClearDomains(r) \/ SaveDomains(r)

(* What an operator must be to be served: on a console, with the right the *)
(* request needs, and an operator of the platform if it is about another   *)
(* tenant or about tenants themselves.  Where transactions take turns,     *)
(* also signed in and enabled at that very moment.                         *)
Entitled(r) ==
    LET q == req[r]
        home == HomeOf[q.who]
    IN  /\ q.kind # "boot"
        /\ q.who \in AtConsole
        /\ Needs(q.kind) \in rights[q.who]
        /\ \/ q.kind = "write" /\ q.target = home
           \/ home = Platform /\ "tenants:read" \in rights[q.who]
        /\ serialized => q.who \in sessions \cap enabled

Next ==
    /\ Environment \/ \E r \in Requests : Guard(r) \/ Handler(r) \/ BeginBoot(r) \/ Boot(r) \/ Fail(r)
    /\ entitled' = {r \in Requests : pc'[r] # "idle" /\ (r \in entitled \/ Entitled(r)')}

Spec == Init /\ [][Next]_vars

-----------------------------------------------------------------------------
(* Properties                                                              *)

TypeOK ==
    /\ serialized \in BOOLEAN /\ tx \subseteq Requests
    /\ tenants \subseteq Tenants
    /\ domainOf \in [Domains -> Tenants \cup {None}]
    /\ policies \subseteq Tenants
    /\ sessions \subseteq Operators /\ enabled \subseteq Operators
    /\ rights \in [Operators -> SUBSET Rights]
    /\ changes \in 0..MaxChanges
    /\ pc \in [Requests -> {"idle", "session read", "user read", "loaded", "authorized", "checked",
                            "policy put", "domains checked", "domains cleared", "booting"}]
    /\ req \in [Requests -> Request \cup {None}]
    /\ entitled \subseteq Requests

Handling == {"authorized", "checked", "policy put", "domains checked", "domains cleared"}

(* A handler runs only for an operator who was entitled to it at one       *)
(* moment while the request ran, whatever was revoked, granted or restored *)
(* between the steps of the guard: authorize puts nothing together from    *)
(* permissions that were never held at once, and a permission named        *)
(* tenants:read on another tenant's console makes no platform operator.    *)
HandlersAreEntitled == \A r \in Requests : pc[r] \in Handling => r \in entitled

(* A tenant has a policy on the PDP from its first moment on, also when    *)
(* the PDP answers late or not at all, or two operators create it at once. *)
PolicyPrecedesTenant == tenants \subseteq policies

(* The domains of a tenant change by a request about this tenant, never    *)
(* because another tenant takes one; a boot only brings back what nobody   *)
(* has.  Where transactions take turns, a request that is answered has     *)
(* left the tenant exactly the domains it says.                            *)
DomainsFollowSaves ==
    [][/\ \A t \in Tenants : DomainsOf(t)' # DomainsOf(t) =>
             \E r \in Requests :
                /\ pc[r] # "idle" /\ pc'[r] = "idle"
                /\ \/ req[r].kind \in {"create", "patch"} /\ req[r].target = t
                   \/ req[r].kind = "boot" /\ DomainsOf(t) \subseteq DomainsOf(t)'
       /\ serialized => \A r \in Requests, t \in Tenants :
             (SaveDomains(r) \/ InsertTenant(r)) /\ req[r].target = t
                 => DomainsOf(t)' = req[r].wanted]_vars

=============================================================================
