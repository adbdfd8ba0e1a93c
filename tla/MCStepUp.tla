------------------------------ MODULE MCStepUp ------------------------------
(***************************************************************************)
(* Instances of StepUp: two requests of any kind against the challenge of  *)
(* one login, with a passkey of its user that counts signatures and one of *)
(* another user that does not.  Requests of different challenges have      *)
(* nothing in common but the counter of a passkey, which two requests of   *)
(* one challenge share as well.                                            *)
(***************************************************************************)
EXTENDS StepUp, TLC

CONSTANTS c1, k1, k2, u1, u2, q1, q2

MCSubject == c1 :> u1
MCOwner == k1 :> u1 @@ k2 :> u2

MCSymmetry == Permutations(Requests)

=============================================================================
