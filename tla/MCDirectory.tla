---------------------------- MODULE MCDirectory ----------------------------
(***************************************************************************)
(* Two tenants, each with an admin group; an application of the first, and *)
(* one that either may create; a permission of the first application; one  *)
(* user, group and role id that either tenant may create, the group and    *)
(* the role again after deleting them.  Two requests at a time.            *)
(***************************************************************************)
EXTENDS Directory, TLC

CONSTANTS u1, r1, t1, t2, adm1, adm2, g1, a1, a2, p1, q1, q2

MCAdminGroup == (t1 :> adm1) @@ (t2 :> adm2)

OnePermission == p1 :> a1

MCAppTenant == (a1 :> t1) @@ (a2 :> None)

RequestSymmetry == Permutations(Requests)

=============================================================================
