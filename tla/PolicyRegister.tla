--------------------------- MODULE PolicyRegister ---------------------------
(***************************************************************************)
(* What the login path may rely on when it asks for a tenant's policy: an  *)
(* abstract register of bounded staleness.  The PDP owns the policy and    *)
(* replaces it over time; a question is answered with a version that was   *)
(* in force at some moment of the last Ttl time units before the question  *)
(* was asked, or later -- unless the PDP did not answer, when nothing is   *)
(* promised about the age of the answer (the caller then relies on the     *)
(* PDP-unavailable path).                                                  *)
(*                                                                         *)
(* Versions number the saves of one tenant's policy; 0 stands for "no      *)
(* policy".  Versions are not content: two may hold the same engine mode.  *)
(***************************************************************************)
EXTENDS Integers

CONSTANTS
    Askers,     \* the threads that ask
    Ttl,        \* seconds a cached policy counts as fresh
    MaxVersion  \* bound: saves explored

VARIABLES
    clock,      \* time.monotonic()
    pdp,        \* version the PDP holds; 0 before the first save
    replacedAt, \* when each superseded version stopped being in force
    asked,      \* per asker: when its question was asked, or NotAsking
    answer      \* per asker: its last answer

vars == <<clock, pdp, replacedAt, asked, answer>>

NotAsking == -1

(* The latest moment at which version v was in force. *)
InForceUntil(v) == IF v = pdp THEN clock ELSE replacedAt[v]

(* v was in force less than Ttl before the moment t, or at t, or later. *)
FreshAt(v, t) ==
    /\ v \in 1..pdp
    /\ InForceUntil(v) >= t \/ InForceUntil(v) + Ttl > t

NoAnswer == [policy |-> 0, asked |-> 0, reached |-> FALSE]

Init ==
    /\ clock = 0
    /\ pdp \in {0, 1}
    /\ replacedAt = [v \in 0..MaxVersion |-> 0]
    /\ asked = [g \in Askers |-> NotAsking]
    /\ answer = [g \in Askers |-> NoAnswer]

Tick ==
    /\ clock' = clock + 1
    /\ UNCHANGED <<pdp, replacedAt, asked, answer>>

Save ==
    /\ pdp < MaxVersion
    /\ pdp' = pdp + 1
    /\ replacedAt' = [replacedAt EXCEPT ![pdp] = clock]
    /\ UNCHANGED <<clock, asked, answer>>

Ask(g) ==
    /\ asked[g] = NotAsking
    /\ asked' = [asked EXCEPT ![g] = clock]
    /\ answer' = [answer EXCEPT ![g] = NoAnswer]
    /\ UNCHANGED <<clock, pdp, replacedAt>>

(* The PDP, or a fresh enough copy of what it said, answers. *)
Answer(g) ==
    /\ asked[g] # NotAsking
    /\ \E v \in 1..pdp :
        /\ FreshAt(v, asked[g])
        /\ answer' = [answer EXCEPT ![g] =
                        [policy |-> v, asked |-> asked[g], reached |-> TRUE]]
    /\ asked' = [asked EXCEPT ![g] = NotAsking]
    /\ UNCHANGED <<clock, pdp, replacedAt>>

(* The PDP was not reached: whatever is remembered, or nothing. *)
AnswerUnreached(g) ==
    /\ asked[g] # NotAsking
    /\ \E v \in 0..pdp :
        answer' = [answer EXCEPT ![g] =
                        [policy |-> v, asked |-> asked[g], reached |-> FALSE]]
    /\ asked' = [asked EXCEPT ![g] = NotAsking]
    /\ UNCHANGED <<clock, pdp, replacedAt>>

Next ==
    \/ Tick
    \/ Save
    \/ \E g \in Askers : Ask(g) \/ Answer(g) \/ AnswerUnreached(g)

Spec == Init /\ [][Next]_vars

-----------------------------------------------------------------------------

(* A policy handed to a login as the PDP's word (not the outage fallback)  *)
(* was in force less than Ttl before the login asked: the promise "re-read *)
(* from the PDP at most every ttl seconds" of TenantPolicyCache.           *)
BoundedStaleness ==
    \A g \in Askers :
        answer[g].reached => FreshAt(answer[g].policy, answer[g].asked)

=============================================================================
