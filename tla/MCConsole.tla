----------------------------- MODULE MCConsole -----------------------------
(***************************************************************************)
(* A small instance of Console: the platform and one organization, an      *)
(* operator of the platform, one of acme, and one without the console's    *)
(* permission.                                                             *)
(***************************************************************************)
EXTENDS Console

CONSTANTS platform, acme, root, ana, bob

Home == [o \in Operators |-> IF o = root THEN platform ELSE acme]

=============================================================================
