------------------------------ MODULE MCLogin ------------------------------
(***************************************************************************)
(* Instances of Login: one login of one user.  Logins share nothing but    *)
(* the directory and the policies, and those change at every step here.    *)
(***************************************************************************)
EXTENDS Login

CONSTANTS r1, u1

=============================================================================
