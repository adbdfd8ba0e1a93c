----------------------------- MODULE MCTenancy -----------------------------
(***************************************************************************)
(* The platform and a tenant, one more that may be created; a domain of    *)
(* the tenant and a free one; an operator of the platform, one of the      *)
(* tenant who has a permission named tenants:read on the tenant's console, *)
(* and a customer's session of an application with a role as broad.  Two   *)
(* requests at a time.                                                     *)
(***************************************************************************)
EXTENDS Tenancy, TLC

CONSTANTS r1, r2, platform, bank, tora, d1, d2, juan, diego, martin

Homes == juan :> platform @@ diego :> bank @@ martin :> platform

SeedDomains == d1 :> bank @@ d2 :> None

Roles == juan :> Rights @@ diego :> {"admin:write", "tenants:read"}
         @@ martin :> {"admin:write"}

Ask(kind, who, target, wanted) == [kind |-> kind, who |-> who, target |-> target, wanted |-> wanted]

Requested ==
    {Ask("write", juan, bank, {}), Ask("write", diego, platform, {}), Ask("write", martin, platform, {}),
     Ask("create", juan, tora, {d2}), Ask("create", diego, tora, {}),
     Ask("patch", juan, bank, {}), Ask("patch", juan, bank, {d1, d2}), Ask("patch", juan, tora, {d1})}

RequestSymmetry == Permutations(Requests)

=============================================================================
