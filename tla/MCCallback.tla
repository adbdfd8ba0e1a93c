----------------------------- MODULE MCCallback -----------------------------
(***************************************************************************)
(* Small instances of Callback: two requests at a time over two sign-ins.  *)
(* The token of a sign-in and the tokens of its exchanges are drawn from   *)
(* one pool, so a run with as many tokens as can be drawn covers a code    *)
(* exchanged twice.                                                        *)
(***************************************************************************)
EXTENDS Callback, TLC

CONSTANTS r1, r2, l1, l2, t1, t2, t3, t4

Symmetry == Permutations(Requests) \cup Permutations(Logins) \cup Permutations(Tokens)

=============================================================================
