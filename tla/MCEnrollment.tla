---------------------------- MODULE MCEnrollment ----------------------------
(***************************************************************************)
(* A small instance of Enrollment: two requests of any kind at a session   *)
(* and two activation codes of one user.  A door is for one user in the    *)
(* code, so doors of different users share nothing but the nonces.         *)
(***************************************************************************)
EXTENDS Enrollment, TLC

CONSTANTS r1, r2, s1, c1, c2, k1, k2, u1

OneUser == s1 :> u1 @@ c1 :> u1 @@ c2 :> u1

Symmetry == Permutations(Requests) \cup Permutations(Creds)

=============================================================================
