----------------------------- MODULE SingleUse -----------------------------
(***************************************************************************)
(* What a single-use ticket promises: an MFA challenge, a callback code or *)
(* an activation code is issued once, yields at most one thing -- a        *)
(* session, an application's token, a passkey -- and is spent in the very  *)
(* step that yields it.                                                    *)
(***************************************************************************)
EXTENDS Naturals

CONSTANT Tickets

VARIABLES
    state,      \* per ticket: "absent", "open" or "spent"
    yields      \* per ticket: how many things it was turned into

vars == <<state, yields>>

Init ==
    /\ state = [t \in Tickets |-> "absent"]
    /\ yields = [t \in Tickets |-> 0]

(* A new ticket may cancel earlier ones. *)
Issue(t, cancelled) ==
    /\ state[t] = "absent"
    /\ t \notin cancelled
    /\ state' = [u \in Tickets |-> IF u = t THEN "open"
                                  ELSE IF u \in cancelled THEN "spent" ELSE state[u]]
    /\ UNCHANGED yields

(* Born spent, or withdrawn: it will never yield anything. *)
Void(t) ==
    /\ state[t] # "spent"
    /\ state' = [state EXCEPT ![t] = "spent"]
    /\ UNCHANGED yields

Use(t) ==
    /\ state[t] = "open"
    /\ state' = [state EXCEPT ![t] = "spent"]
    /\ yields' = [yields EXCEPT ![t] = @ + 1]

Next == \E t \in Tickets : Void(t) \/ Use(t) \/ \E cancelled \in SUBSET Tickets : Issue(t, cancelled)

Spec == Init /\ [][Next]_vars

-----------------------------------------------------------------------------

(* A ticket yields nothing before it is spent and at most one thing ever.  *)
AtMostOnce ==
    \A t \in Tickets : yields[t] <= IF state[t] = "spent" THEN 1 ELSE 0

=============================================================================
