---------------------------- MODULE StepUpProofs ----------------------------
(***************************************************************************)
(* Proofs about StepUp, for any number of requests, challenges, users and  *)
(* passkeys and any bounds: its types, what holds on either engine, and,   *)
(* where transactions take turns, that a challenge is a single-use ticket. *)
(***************************************************************************)
EXTENDS StepUp, FiniteSetTheorems, TLAPS

(* Inside a transaction of its own. *)
Inside == {"opened", "verified", "allowed"}

(* A request knows what it is about; one that has yet to look at its       *)
(* assertion has one.                                                      *)
RequestsAreWhole ==
    \A r \in Requests : pc[r] # "idle" =>
        /\ req[r] \in Request
        /\ pc[r] # "passed" /\ req[r].op = "webauthn" => req[r].assertion \in Assertion

(* Every step keeps the types. *)
LEMMA TypePreserved ==
    TypeOK /\ RequestsAreWhole /\ [Next]_vars => TypeOK' /\ RequestsAreWhole'
<1> SUFFICES ASSUME TypeOK, RequestsAreWhole, [Next]_vars
             PROVE  TypeOK' /\ RequestsAreWhole'
  OBVIOUS
<1> USE OwnersAssumption, StepUpAssumption DEF OwnersAssumption, StepUpAssumption
<1> USE DEF TypeOK, RequestsAreWhole, Goto, rows, browser, history, scope
<1>1. CASE Tick
  BY <1>1 DEF Tick
<1>2. ASSUME NEW c \in Challenges, NEW refused \in BOOLEAN, CreateChallenge(c, refused)
      PROVE  TypeOK' /\ RequestsAreWhole'
  BY <1>2 DEF CreateChallenge, States
<1>3. ASSUME NEW c \in Challenges, Revoke(c) PROVE TypeOK' /\ RequestsAreWhole'
  BY <1>3 DEF Revoke
<1>4. ASSUME NEW c \in Challenges, Grant(c) PROVE TypeOK' /\ RequestsAreWhole'
  BY <1>4 DEF Grant
<1>5. ASSUME NEW k \in Creds, Register(k) PROVE TypeOK' /\ RequestsAreWhole'
  BY <1>5 DEF Register
<1>6. ASSUME NEW k \in Creds, NEW n \in 1..MaxNonce, Sign(k, n)
      PROVE  TypeOK' /\ RequestsAreWhole'
  <2>1. [nonce |-> n, cred |-> k, count |-> IF k \in Counting THEN device[k] + 1 ELSE 0]
          \in Assertion
    BY <1>6 DEF Sign, Assertion
  <2>2. signed' \subseteq Assertion
    BY <1>6, <2>1 DEF Sign
  <2>3. device' \in [Creds -> 0..MaxSign]
    BY <1>6 DEF Sign
  <2> QED BY <1>6, <2>2, <2>3 DEF Sign
<1>7. ASSUME NEW r \in Requests, End(r),
             UNCHANGED <<clock, state, expires, registered, passes, granted, browser, passedOn>>,
             nonce' \in [Challenges -> 0..MaxNonce],
             signCount' \in [Creds -> 0..MaxSign],
             confirms' \in [Challenges -> Nat],
             nonces' \in 0..MaxNonce
      PROVE  TypeOK' /\ RequestsAreWhole'
  BY <1>7 DEF End, Leave
<1>8. ASSUME NEW r \in Requests, NEW o \in Ops, NEW c \in Challenges,
             NEW a \in signed \cup {None}, Begin(r, o, c, a)
      PROVE  TypeOK' /\ RequestsAreWhole'
  <2> DEFINE q == [op |-> o, challenge |-> c, at |-> clock, assertion |-> a, nonce |-> 0]
  <2>1. q \in Request /\ (q.op = "webauthn" => q.assertion \in Assertion)
    BY <1>8 DEF Begin, Request
  <2>2. req' = [req EXCEPT ![r] = q] /\ pc' = [pc EXCEPT ![r] = "begun"]
    BY <1>8 DEF Begin
  <2> HIDE DEF q
  <2>3. held' \subseteq Requests
    BY <1>8 DEF Begin
  <2>4. RequestsAreWhole'
    BY <2>1, <2>2
  <2> QED BY <1>8, <2>1, <2>2, <2>3, <2>4 DEF Begin
<1>9. ASSUME NEW r \in Requests, OpenChallenge(r) PROVE TypeOK' /\ RequestsAreWhole'
  <2> DEFINE n == IF req[r].op = "webauthn" THEN nonce[req[r].challenge] ELSE 0
             q == [req[r] EXCEPT !.nonce = n, !.at = 0]
  <2>1. req[r] \in Request /\ (req[r].op = "webauthn" => req[r].assertion \in Assertion)
    BY <1>9 DEF OpenChallenge
  <2>2. n \in 0..MaxNonce
    BY <2>1 DEF Request
  <2> HIDE DEF n
  <2>3. q \in Request /\ q.op = req[r].op /\ q.assertion = req[r].assertion
    BY <2>1, <2>2 DEF Request
  <2>4. req' = [req EXCEPT ![r] = q] /\ pc' = [pc EXCEPT ![r] = "opened"]
    BY <1>9 DEF OpenChallenge, n
  <2> HIDE DEF q
  <2>5. RequestsAreWhole'
    BY <2>1, <2>3, <2>4
  <2> QED BY <1>9, <2>3, <2>4, <2>5 DEF OpenChallenge, Enter
<1>10. ASSUME NEW r \in Requests, NotOpen(r) \/ NoPasskey(r) \/ SecondFactorFailed(r)
                                    \/ NoConfirm(r) \/ Crash(r)
       PROVE  TypeOK' /\ RequestsAreWhole'
  BY <1>7, <1>10 DEF NotOpen, NoPasskey, SecondFactorFailed, NoConfirm, Crash
<1>11. ASSUME NEW r \in Requests, StoreNonce(r) PROVE TypeOK' /\ RequestsAreWhole'
  <2> DEFINE n == nonces + 1
             c == req[r].challenge
  <2>1. /\ nonces' = n /\ n \in 0..MaxNonce
        /\ nonce' = [nonce EXCEPT ![c] = n]
    BY <1>11 DEF StoreNonce
  <2> HIDE DEF n, c
  <2>2. nonce' \in [Challenges -> 0..MaxNonce] /\ nonces' \in 0..MaxNonce
    BY <2>1
  <2> QED BY <1>7, <1>11, <2>2 DEF StoreNonce
<1>12. ASSUME NEW r \in Requests, SecondFactorPassed(r) PROVE TypeOK' /\ RequestsAreWhole'
  <2> DEFINE q == [req[r] EXCEPT !.nonce = 0]
  <2>1. req[r] \in Request /\ (req[r].op = "webauthn" => req[r].assertion \in Assertion)
    BY <1>12 DEF SecondFactorPassed
  <2>2. q \in Request /\ q.op = req[r].op /\ q.assertion = req[r].assertion
    BY <2>1 DEF Request
  <2>3. req' = [req EXCEPT ![r] = q] /\ pc' = [pc EXCEPT ![r] = "verified"]
    BY <1>12 DEF SecondFactorPassed
  <2> HIDE DEF q
  <2>4. RequestsAreWhole'
    BY <2>1, <2>2, <2>3
  <2> QED BY <1>12, <2>2, <2>3, <2>4 DEF SecondFactorPassed
<1>13. ASSUME NEW r \in Requests, AccessHeld(r) PROVE TypeOK' /\ RequestsAreWhole'
  BY <1>13 DEF AccessHeld
<1>14. ASSUME NEW r \in Requests, pc[r] \in {"verified", "allowed"}, SaveSignCount(r)
       PROVE  signCount' \in [Creds -> 0..MaxSign]
  BY <1>14 DEF SaveSignCount, Assertion
<1>15. ASSUME NEW r \in Requests, AccessDenied(r) PROVE TypeOK' /\ RequestsAreWhole'
  BY <1>7, <1>14, <1>15 DEF AccessDenied
<1>16. ASSUME NEW r \in Requests, Pass(r) PROVE TypeOK' /\ RequestsAreWhole'
  <2> DEFINE q == [req[r] EXCEPT !.assertion = None]
             c == req[r].challenge
             n == IF req[r].op = "webauthn" THEN req[r].assertion.nonce ELSE 0
  <2>1. req[r] \in Request /\ (req[r].op = "webauthn" => req[r].assertion \in Assertion)
    BY <1>16 DEF Pass
  <2>2. q \in Request /\ c \in Challenges /\ n \in 0..MaxNonce
    BY <2>1 DEF Request, Assertion
  <2>3. /\ req' = [req EXCEPT ![r] = q] /\ pc' = [pc EXCEPT ![r] = "passed"]
        /\ state' = [state EXCEPT ![c] = "passed"]
        /\ passes' = [passes EXCEPT ![c] = passes[c] + 1]
        /\ passedOn' = [passedOn EXCEPT ![c] = n]
    BY <1>16 DEF Pass
  <2> HIDE DEF q, c, n
  <2>4. RequestsAreWhole'
    BY <2>2, <2>3
  <2>5. /\ state' \in [Challenges -> States] /\ passes' \in [Challenges -> Nat]
        /\ passedOn' \in [Challenges -> 0..MaxNonce]
    BY <2>2, <2>3 DEF States
  <2>6. signCount' \in [Creds -> 0..MaxSign]
    BY <1>14, <1>16 DEF Pass
  <2>7. /\ pc' \in [Requests -> {"idle", "begun", "opened", "verified", "allowed", "passed"}]
        /\ req' \in [Requests -> Request \cup {None}]
    BY <2>2, <2>3
  <2> QED BY <1>16, <2>4, <2>5, <2>6, <2>7 DEF Pass, Leave
<1>17. ASSUME NEW r \in Requests, Confirm(r) PROVE TypeOK' /\ RequestsAreWhole'
  <2>1. req[r].challenge \in Challenges
    BY <1>17 DEF Confirm, Request
  <2>2. confirms' \in [Challenges -> Nat]
    BY <1>17, <2>1 DEF Confirm
  <2> QED BY <1>7, <1>17, <2>2 DEF Confirm
<1>18. CASE UNCHANGED vars
  BY <1>18 DEF vars
<1> QED
  BY <1>1, <1>2, <1>3, <1>4, <1>5, <1>6, <1>8, <1>9, <1>10, <1>11, <1>12, <1>13, <1>15,
     <1>16, <1>17, <1>18 DEF Next, Environment, Handle


(* Only these write the challenges or insert sessions. *)
LEMMA StepKeepsRows ==
    ASSUME [Next]_vars
    PROVE  \/ UNCHANGED <<state, passes>>
           \/ \E c \in Challenges, refused \in BOOLEAN : CreateChallenge(c, refused)
           \/ \E r \in Requests : Pass(r)
<1> USE DEF rows
<1>1. CASE Environment
  BY <1>1 DEF Environment, Tick, Revoke, Grant, Register, Sign
<1>2. ASSUME NEW r \in Requests, Handle(r)
      PROVE  UNCHANGED <<state, passes>> \/ Pass(r)
  BY <1>2 DEF Handle, Begin, OpenChallenge, NotOpen, StoreNonce, NoPasskey, SecondFactorPassed,
     SecondFactorFailed, AccessHeld, AccessDenied, Confirm, NoConfirm, Crash
<1>3. CASE UNCHANGED vars
  BY <1>3 DEF vars
<1> QED BY <1>1, <1>2, <1>3 DEF Next

Typed == TypeOK /\ RequestsAreWhole

LEMMA TypedInvariant == Spec => []Typed
<1>1. Init => Typed
  BY OwnersAssumption, StepUpAssumption
  DEF Init, InitScope, Typed, TypeOK, RequestsAreWhole, States, StepUpAssumption
<1>2. Typed /\ [Next]_vars => Typed'
  BY TypePreserved DEF Typed
<1> QED BY <1>1, <1>2, PTL DEF Spec

(* TypeOK is an invariant of the step-up on either engine; in particular a *)
(* stored counter stays within what an authenticator can sign.             *)
THEOREM Typing == Spec => []TypeOK
<1>1. Typed => TypeOK
  BY DEF Typed
<1> QED BY <1>1, TypedInvariant, PTL

-----------------------------------------------------------------------------
(* On either engine                                                        *)

(* The end of a challenge and its session are one commit, whatever the     *)
(* interleaving and wherever a request stops: nothing else writes either.  *)
THEOREM Consumed == Spec => []ConsumedWithItsSession
<1>1. Init => ConsumedWithItsSession
  BY DEF Init, ConsumedWithItsSession
<1>2. Typed /\ ConsumedWithItsSession /\ [Next]_vars => ConsumedWithItsSession'
  <2> SUFFICES ASSUME Typed, ConsumedWithItsSession, [Next]_vars
               PROVE  ConsumedWithItsSession'
    OBVIOUS
  <2> USE DEF ConsumedWithItsSession
  <2>1. CASE UNCHANGED <<state, passes>>
    BY <2>1
  <2>2. ASSUME NEW c \in Challenges, NEW refused \in BOOLEAN, CreateChallenge(c, refused)
        PROVE  ConsumedWithItsSession'
    BY <2>2 DEF CreateChallenge, Typed, TypeOK
  <2>3. ASSUME NEW r \in Requests, Pass(r) PROVE ConsumedWithItsSession'
    <3> DEFINE c == req[r].challenge
    <3>1. /\ state' = [state EXCEPT ![c] = "passed"]
          /\ passes' = [passes EXCEPT ![c] = passes[c] + 1]
      BY <2>3 DEF Pass
    <3>2. c \in Challenges
      BY <2>3 DEF Pass, Goto, Typed, RequestsAreWhole, Request
    <3> HIDE DEF c
    <3> QED BY <3>1, <3>2 DEF Typed, TypeOK
  <2> QED
    BY <2>1, <2>2, <2>3, StepKeepsRows
<1> QED BY <1>1, <1>2, TypedInvariant, PTL DEF Spec

(* A request's step leaves the other requests where they are. *)
LEMMA OthersKept ==
    ASSUME Typed, NEW r \in Requests, Handle(r), NEW s \in Requests, s # r
    PROVE  /\ pc'[s] = pc[s] /\ req'[s] = req[s]
           /\ s \in held' <=> s \in held
           /\ s \in tx' <=> s \in tx
<1> USE DEF Typed, TypeOK, Goto, scope, history, End, Leave, Enter
<1>1. CASE \E o \in Ops, c \in Challenges, a \in signed \cup {None} : Begin(r, o, c, a)
  BY <1>1 DEF Begin
<1>2. CASE OpenChallenge(r) \/ NotOpen(r)
  BY <1>2 DEF OpenChallenge, NotOpen
<1>3. CASE StoreNonce(r) \/ NoPasskey(r)
  BY <1>3 DEF StoreNonce, NoPasskey
<1>4. CASE SecondFactorPassed(r) \/ SecondFactorFailed(r)
  BY <1>4 DEF SecondFactorPassed, SecondFactorFailed
<1>5. CASE AccessHeld(r) \/ AccessDenied(r)
  BY <1>5 DEF AccessHeld, AccessDenied
<1>6. CASE Pass(r)
  BY <1>6 DEF Pass
<1>7. CASE Confirm(r) \/ NoConfirm(r) \/ Crash(r)
  BY <1>7 DEF Confirm, NoConfirm, Crash
<1> QED BY <1>1, <1>2, <1>3, <1>4, <1>5, <1>6, <1>7 DEF Handle

(* What is around the requests leaves all of them where they are. *)
LEMMA RequestsKept ==
    ASSUME Environment \/ UNCHANGED vars
    PROVE  pc' = pc /\ req' = req /\ tx' = tx /\ serialized' = serialized
BY DEF Environment, Tick, CreateChallenge, Revoke, Grant, Register, Sign, vars, scope

(* A request that may still pass its challenge, and whose user holds       *)
(* access or was found to, had access at some moment of its own.           *)
HeldIsKnown ==
    \A r \in Requests :
        /\ pc[r] = "allowed" => r \in held
        /\ pc[r] \in {"begun", "opened", "verified"} /\ req[r].challenge \in granted => r \in held

LEMMA HeldPreserved == Typed /\ HeldIsKnown /\ [Next]_vars => HeldIsKnown'
<1> SUFFICES ASSUME Typed, HeldIsKnown, [Next]_vars, NEW s \in Requests
             PROVE  /\ pc'[s] = "allowed" => s \in held'
                    /\ /\ pc'[s] \in {"begun", "opened", "verified"}
                       /\ req'[s].challenge \in granted'
                       => s \in held'
  BY DEF HeldIsKnown
<1> USE DEF HeldIsKnown
<1>1. CASE Environment \/ UNCHANGED vars
  <2>1. pc' = pc /\ req' = req
    BY <1>1, RequestsKept
  <2>2. CASE held' = held /\ granted' \subseteq granted
    BY <2>1, <2>2
  <2>3. ASSUME NEW c \in Challenges, Grant(c)
        PROVE  /\ held \subseteq held' /\ granted' = granted \cup {c}
               /\ pc[s] \notin {"idle", "passed"} /\ req[s].challenge = c => s \in held'
    BY <2>3 DEF Grant
  <2>4. (held' = held /\ granted' \subseteq granted) \/ \E c \in Challenges : Grant(c)
    BY <1>1 DEF Environment, Tick, CreateChallenge, Revoke, Register, Sign, vars, history
  <2> QED BY <2>1, <2>2, <2>3, <2>4
<1>2. ASSUME NEW r \in Requests, Handle(r), s # r
      PROVE  pc'[s] = pc[s] /\ req'[s] = req[s] /\ (s \in held' <=> s \in held) /\ granted' = granted
  <2>1. granted' = granted
    BY <1>2 DEF Handle, Begin, OpenChallenge, NotOpen, StoreNonce, NoPasskey, SecondFactorPassed,
       SecondFactorFailed, AccessHeld, AccessDenied, Pass, Confirm, NoConfirm, Crash
  <2> QED BY <1>2, <2>1, OthersKept
<1>3. CASE Handle(s)
  <2> USE DEF Typed, TypeOK, Goto, history
  <2>1. CASE \E o \in Ops, c \in Challenges, a \in signed \cup {None} : Begin(s, o, c, a)
    BY <2>1 DEF Begin
  <2>2. CASE OpenChallenge(s)
    <3>1. req'[s].challenge = req[s].challenge
      BY <2>2 DEF OpenChallenge, RequestsAreWhole, Request
    <3> QED BY <2>2, <3>1 DEF OpenChallenge
  <2>3. CASE SecondFactorPassed(s)
    <3>1. req'[s].challenge = req[s].challenge
      BY <2>3 DEF SecondFactorPassed, RequestsAreWhole, Request
    <3> QED BY <2>3, <3>1 DEF SecondFactorPassed
  <2>4. CASE AccessHeld(s)
    BY <2>4 DEF AccessHeld
  <2>5. CASE End(s)
    BY <2>5 DEF End
  <2>6. CASE Pass(s)
    BY <2>6 DEF Pass
  <2> QED
    BY <1>3, <2>1, <2>2, <2>3, <2>4, <2>5, <2>6
    DEF Handle, NotOpen, StoreNonce, NoPasskey, SecondFactorFailed, AccessDenied, Confirm,
        NoConfirm, Crash
<1> QED BY <1>1, <1>2, <1>3 DEF Next

(* On either engine, no challenge becomes a session for a user who had no  *)
(* access while the request ran: the check of _finish_challenge stands     *)
(* between the password's own and the commit.                              *)
THEOREM Revocation == Spec => NoSessionAfterRevoke
<1>1. Init => HeldIsKnown
  BY DEF Init, HeldIsKnown
<1>2. HeldIsKnown /\ [Next]_vars =>
        [\A r \in Requests : pc[r] = "allowed" /\ pc'[r] = "passed" => r \in held]_vars
  BY DEF HeldIsKnown
<1> QED BY <1>1, <1>2, HeldPreserved, TypedInvariant, PTL DEF Spec, NoSessionAfterRevoke

(* The requests that have committed a session and not told the PDP yet;    *)
(* there is a session for each of them that no confirmation stands for.    *)
Owed(c) == {r \in Requests : pc[r] = "passed" /\ req[r].challenge = c}

ConfirmsOwed ==
    \A c \in Challenges :
        IsFiniteSet(Owed(c)) /\ confirms[c] + Cardinality(Owed(c)) <= passes[c]

LEMMA OwedPreserved == Typed /\ ConfirmsOwed /\ [Next]_vars => ConfirmsOwed'
<1> SUFFICES ASSUME Typed, ConfirmsOwed, [Next]_vars, NEW c \in Challenges
             PROVE  IsFiniteSet(Owed(c)') /\ confirms'[c] + Cardinality(Owed(c)') <= passes'[c]
  BY DEF ConfirmsOwed, Owed
<1>0. /\ IsFiniteSet(Owed(c)) /\ Cardinality(Owed(c)) \in Nat
      /\ confirms[c] \in Nat /\ passes[c] \in Nat
      /\ confirms[c] + Cardinality(Owed(c)) <= passes[c]
  BY FS_CardinalityType DEF ConfirmsOwed, Typed, TypeOK
<1>1. ASSUME Owed(c)' \subseteq Owed(c), confirms'[c] = confirms[c], passes'[c] = passes[c]
      PROVE  IsFiniteSet(Owed(c)') /\ confirms'[c] + Cardinality(Owed(c)') <= passes'[c]
  <2>1. /\ IsFiniteSet(Owed(c)') /\ Cardinality(Owed(c)') <= Cardinality(Owed(c))
    BY <1>0, <1>1, FS_Subset
  <2>2. Cardinality(Owed(c)') \in Nat
    BY <2>1, FS_CardinalityType
  <2> QED BY <1>0, <1>1, <2>1, <2>2
<1>2. CASE Environment \/ UNCHANGED vars
  <2>1. pc' = pc /\ req' = req
    BY <1>2, RequestsKept
  <2>2. confirms' = confirms /\ passes' = passes
    BY <1>2 DEF Environment, Tick, CreateChallenge, Revoke, Grant, Register, Sign, vars, rows
  <2>3. Owed(c)' = Owed(c)
    BY <2>1 DEF Owed
  <2> QED BY <1>1, <2>2, <2>3
<1>3. ASSUME NEW r \in Requests, Handle(r), pc'[r] # "passed", confirms' = confirms
      PROVE  IsFiniteSet(Owed(c)') /\ confirms'[c] + Cardinality(Owed(c)') <= passes'[c]
  <2>1. passes' = passes
    <3>1. ~Pass(r)
      BY <1>3 DEF Pass, Goto, Typed, TypeOK
    <3> QED
      BY <1>3, <3>1 DEF Handle, Begin, OpenChallenge, NotOpen, StoreNonce, NoPasskey, rows,
         SecondFactorPassed, SecondFactorFailed, AccessHeld, AccessDenied, Confirm, NoConfirm,
         Crash
  <2>2. Owed(c)' \subseteq Owed(c)
    BY <1>3, OthersKept DEF Owed
  <2> QED BY <1>1, <1>3, <2>1, <2>2
<1>4. ASSUME NEW r \in Requests, Handle(r), ~Pass(r), ~Confirm(r)
      PROVE  pc'[r] # "passed" /\ confirms' = confirms
  <2> USE DEF Typed, TypeOK, Goto
  <2>1. CASE \E o \in Ops, d \in Challenges, a \in signed \cup {None} : Begin(r, o, d, a)
    BY <2>1 DEF Begin
  <2>2. CASE OpenChallenge(r) \/ SecondFactorPassed(r) \/ AccessHeld(r)
    BY <2>2 DEF OpenChallenge, SecondFactorPassed, AccessHeld
  <2>3. CASE NotOpen(r) \/ StoreNonce(r) \/ NoPasskey(r) \/ SecondFactorFailed(r)
    BY <2>3 DEF NotOpen, StoreNonce, NoPasskey, SecondFactorFailed, End
  <2>4. CASE AccessDenied(r) \/ NoConfirm(r) \/ Crash(r)
    BY <2>4 DEF AccessDenied, NoConfirm, Crash, End
  <2> QED BY <1>4, <2>1, <2>2, <2>3, <2>4 DEF Handle
<1>5. ASSUME NEW r \in Requests, Pass(r)
      PROVE  IsFiniteSet(Owed(c)') /\ confirms'[c] + Cardinality(Owed(c)') <= passes'[c]
  <2>1. /\ pc[r] = "allowed" /\ pc' = [pc EXCEPT ![r] = "passed"]
        /\ req[r].challenge \in Challenges /\ confirms' = confirms
        /\ passes' = [passes EXCEPT ![req[r].challenge] = passes[req[r].challenge] + 1]
    BY <1>5 DEF Pass, Goto, Typed, RequestsAreWhole, Request
  <2>2. req' = [req EXCEPT ![r] = req'[r]] /\ req'[r].challenge = req[r].challenge
    BY <1>5 DEF Pass, Goto, Typed, TypeOK, RequestsAreWhole, Request
  <2>3. CASE req[r].challenge = c
    <3>1. Owed(c)' = Owed(c) \cup {r} /\ r \notin Owed(c)
      BY <2>1, <2>2, <2>3 DEF Owed, Typed, TypeOK
    <3>2. IsFiniteSet(Owed(c)') /\ Cardinality(Owed(c)') = Cardinality(Owed(c)) + 1
      BY <1>0, <3>1, FS_AddElement
    <3>3. passes'[c] = passes[c] + 1 /\ confirms'[c] = confirms[c]
      BY <2>1, <2>3 DEF Typed, TypeOK
    <3> QED BY <1>0, <3>2, <3>3
  <2>4. CASE req[r].challenge # c
    <3>1. Owed(c)' = Owed(c)
      BY <2>1, <2>2, <2>4 DEF Owed, Typed, TypeOK
    <3> QED BY <1>1, <2>1, <2>4, <3>1 DEF Typed, TypeOK
  <2> QED BY <2>3, <2>4
<1>6. ASSUME NEW r \in Requests, Confirm(r)
      PROVE  IsFiniteSet(Owed(c)') /\ confirms'[c] + Cardinality(Owed(c)') <= passes'[c]
  <2>1. /\ pc[r] = "passed" /\ pc' = [pc EXCEPT ![r] = "idle"]
        /\ req' = [req EXCEPT ![r] = None] /\ passes' = passes
        /\ req[r].challenge \in Challenges
        /\ confirms' = [confirms EXCEPT ![req[r].challenge] = confirms[req[r].challenge] + 1]
    BY <1>6 DEF Confirm, End, rows, Typed, RequestsAreWhole, Request
  <2>2. CASE req[r].challenge = c
    <3>1. Owed(c)' = Owed(c) \ {r} /\ r \in Owed(c)
      BY <2>1, <2>2 DEF Owed, Typed, TypeOK
    <3>2. IsFiniteSet(Owed(c)') /\ Cardinality(Owed(c)') = Cardinality(Owed(c)) - 1
      BY <1>0, <3>1, FS_RemoveElement
    <3>3. confirms'[c] = confirms[c] + 1 /\ passes'[c] = passes[c]
      BY <2>1, <2>2 DEF Typed, TypeOK
    <3> QED BY <1>0, <3>2, <3>3
  <2>3. CASE req[r].challenge # c
    <3>1. Owed(c)' = Owed(c)
      BY <2>1, <2>3 DEF Owed, Typed, TypeOK
    <3> QED BY <1>1, <2>1, <2>3, <3>1 DEF Typed, TypeOK
  <2> QED BY <2>2, <2>3
<1>7. ASSUME NEW r \in Requests, Handle(r)
      PROVE  IsFiniteSet(Owed(c)') /\ confirms'[c] + Cardinality(Owed(c)') <= passes'[c]
  BY <1>3, <1>4, <1>5, <1>6, <1>7
<1> QED BY <1>2, <1>7 DEF Next

(* On either engine, and whichever confirmations are lost, the PDP is told *)
(* of no login that was not committed, and of none twice.                  *)
THEOREM Confirmations == Spec => []ConfirmsFollowSessions
<1>1. Init => ConfirmsOwed
  <2> SUFFICES ASSUME Init, NEW c \in Challenges
               PROVE  IsFiniteSet(Owed(c)) /\ confirms[c] + Cardinality(Owed(c)) <= passes[c]
    BY DEF ConfirmsOwed
  <2>1. Owed(c) = {} /\ confirms[c] = 0 /\ passes[c] = 0
    BY DEF Init, Owed
  <2> QED BY <2>1, FS_EmptySet
<1>2. Typed /\ ConfirmsOwed => ConfirmsFollowSessions
  <2> SUFFICES ASSUME Typed, ConfirmsOwed, NEW c \in Challenges PROVE confirms[c] <= passes[c]
    BY DEF ConfirmsFollowSessions
  <2>1. /\ Cardinality(Owed(c)) \in Nat /\ confirms[c] \in Nat /\ passes[c] \in Nat
        /\ confirms[c] + Cardinality(Owed(c)) <= passes[c]
    BY FS_CardinalityType DEF ConfirmsOwed, Typed, TypeOK
  <2> QED BY <2>1
<1> QED BY <1>1, <1>2, OwedPreserved, TypedInvariant, PTL DEF Spec

-----------------------------------------------------------------------------
(* Where transactions take turns                                           *)

(* One request at a time is inside, and its challenge is still as open as  *)
(* it was when it was read.                                                *)
Turns ==
    serialized =>
        /\ \A r, s \in tx : r = s
        /\ \A r \in Requests : pc[r] \in Inside => r \in tx /\ state[req[r].challenge] = "open"

(* While one request is inside, nobody else writes a row. *)
LEMMA RowsOfTheTurn ==
    ASSUME Typed, Turns, serialized, [Next]_vars,
           NEW r \in Requests, pc[r] \in Inside, ~Handle(r)
    PROVE  rows' = rows
<1> USE DEF Typed, Turns, Inside
<1>1. tx # {} /\ ~MayEnter
  BY DEF MayEnter
<1>2. CASE Environment
  BY <1>1, <1>2 DEF Environment, Tick, CreateChallenge, Revoke, Grant, Register, Sign, rows
<1>3. ASSUME NEW s \in Requests, Handle(s) PROVE rows' = rows
  <2>1. pc[s] \notin Inside
    BY <1>3
  <2> QED
    BY <1>1, <1>3, <2>1 DEF Handle, Begin, OpenChallenge, Enter, NotOpen, StoreNonce, NoPasskey,
       SecondFactorPassed, SecondFactorFailed, AccessHeld, AccessDenied, Pass, Goto, Confirm,
       NoConfirm, Crash
<1>4. CASE UNCHANGED vars
  BY <1>4 DEF vars
<1> QED BY <1>2, <1>3, <1>4 DEF Next

(* How a request comes to be inside, and how it stays there. *)
LEMMA StepInside ==
    ASSUME Typed, [Next]_vars, NEW r \in Requests, pc'[r] \in Inside
    PROVE  \/ OpenChallenge(r) \/ SecondFactorPassed(r) \/ AccessHeld(r)
           \/ /\ ~Handle(r)
              /\ pc'[r] = pc[r] /\ req'[r] = req[r] /\ (r \in tx => r \in tx')
<1>1. CASE Handle(r)
  <2> USE DEF Typed, TypeOK, Goto, Inside
  <2>1. ~End(r)
    BY DEF End
  <2>2. ~Pass(r)
    BY DEF Pass
  <2>3. ~\E o \in Ops, c \in Challenges, a \in signed \cup {None} : Begin(r, o, c, a)
    BY DEF Begin
  <2>4. ~NotOpen(r) /\ ~StoreNonce(r) /\ ~NoPasskey(r) /\ ~SecondFactorFailed(r)
    BY <2>1 DEF NotOpen, StoreNonce, NoPasskey, SecondFactorFailed
  <2>5. ~AccessDenied(r) /\ ~Confirm(r) /\ ~NoConfirm(r) /\ ~Crash(r)
    BY <2>1 DEF AccessDenied, Confirm, NoConfirm, Crash
  <2> QED BY <1>1, <2>2, <2>3, <2>4, <2>5 DEF Handle
<1>2. CASE ~Handle(r)
  <2>1. ASSUME NEW s \in Requests, Handle(s)
        PROVE  pc'[r] = pc[r] /\ req'[r] = req[r] /\ (r \in tx => r \in tx')
    BY <1>2, <2>1, OthersKept
  <2>2. pc'[r] = pc[r] /\ req'[r] = req[r] /\ (r \in tx => r \in tx')
    <3>1. CASE Environment \/ UNCHANGED vars
      BY <3>1, RequestsKept
    <3>2. CASE \E s \in Requests : Handle(s)
      BY <2>1, <3>2
    <3> QED BY <3>1, <3>2 DEF Next
  <2> QED BY <1>2, <2>2
<1> QED BY <1>1, <1>2

LEMMA SerializedStays == [Next]_vars => serialized' = serialized
<1>1. ASSUME NEW r \in Requests, Handle(r) PROVE serialized' = serialized
  BY <1>1 DEF Handle, Begin, OpenChallenge, NotOpen, StoreNonce, NoPasskey, SecondFactorPassed,
     SecondFactorFailed, AccessHeld, AccessDenied, Pass, Confirm, NoConfirm, Crash, End, Leave,
     Enter, scope
<1> QED BY <1>1, RequestsKept DEF Next

LEMMA TurnsPreserved == Typed /\ Turns /\ [Next]_vars => Turns'
<1> SUFFICES ASSUME Typed, Turns, [Next]_vars, serialized
             PROVE  /\ \A r, s \in tx' : r = s
                    /\ \A r \in Requests : pc'[r] \in Inside =>
                         r \in tx' /\ state'[req'[r].challenge] = "open"
  BY SerializedStays DEF Turns
<1>1. \A r, s \in tx' : r = s
  <2>1. ASSUME NEW r \in Requests, Handle(r)
        PROVE  tx' \subseteq tx \/ (tx = {} /\ tx' = {r})
    BY <2>1 DEF Handle, Begin, OpenChallenge, NotOpen, StoreNonce, NoPasskey,
       SecondFactorPassed, SecondFactorFailed, AccessHeld, AccessDenied, Pass, Confirm, NoConfirm,
       Crash, End, Leave, Enter, MayEnter, scope
  <2>2. CASE Environment \/ UNCHANGED vars
    BY <2>2, RequestsKept DEF Turns
  <2> QED BY <2>1, <2>2 DEF Next, Turns
<1>2. ASSUME NEW r \in Requests, pc'[r] \in Inside
      PROVE  r \in tx' /\ state'[req'[r].challenge] = "open"
  <2>1. CASE OpenChallenge(r)
    <3>1. req'[r].challenge = req[r].challenge
      BY <2>1 DEF OpenChallenge, Goto, Typed, TypeOK, RequestsAreWhole, Request
    <3> QED BY <2>1, <3>1 DEF OpenChallenge, IsOpen, Enter, rows
  <2>2. CASE SecondFactorPassed(r) \/ AccessHeld(r)
    <3>1. pc[r] \in Inside /\ tx' = tx /\ state' = state
      BY <2>2 DEF SecondFactorPassed, AccessHeld, Goto, Inside, rows, scope
    <3>2. req'[r].challenge = req[r].challenge
      BY <2>2 DEF SecondFactorPassed, AccessHeld, Goto, Typed, TypeOK, RequestsAreWhole, Request
    <3> QED BY <3>1, <3>2 DEF Turns
  <2>3. CASE ~Handle(r) /\ pc'[r] = pc[r] /\ req'[r] = req[r] /\ (r \in tx => r \in tx')
    <3>1. state' = state
      BY <1>2, <2>3, RowsOfTheTurn DEF rows
    <3> QED BY <1>2, <2>3, <3>1 DEF Turns
  <2> QED BY <1>2, <2>1, <2>2, <2>3, StepInside
<1> QED BY <1>1, <1>2

(* Inside, the challenge's nonce is still the one that was read, and the   *)
(* passkey's counter is still below the assertion's.                       *)
Ceremonies ==
    serialized =>
        \A r \in Requests : pc[r] \in Inside /\ req[r].op = "webauthn" =>
            LET a == req[r].assertion
                n == nonce[req[r].challenge]
            IN  IF pc[r] = "opened" THEN req[r].nonce = n
                ELSE a.nonce = n /\ (a.count > 0 => a.count > signCount[a.cred])

LEMMA CeremoniesPreserved == Typed /\ Turns /\ Ceremonies /\ [Next]_vars => Ceremonies'
<1> SUFFICES ASSUME Typed, Turns, Ceremonies, [Next]_vars, serialized,
                    NEW r \in Requests, pc'[r] \in Inside, req'[r].op = "webauthn"
             PROVE  IF pc'[r] = "opened" THEN req'[r].nonce = nonce'[req'[r].challenge]
                    ELSE /\ req'[r].assertion.nonce = nonce'[req'[r].challenge]
                         /\ req'[r].assertion.count > 0 =>
                              req'[r].assertion.count > signCount'[req'[r].assertion.cred]
  BY SerializedStays DEF Ceremonies
<1>1. CASE OpenChallenge(r)
  BY <1>1 DEF OpenChallenge, Goto, Typed, TypeOK, RequestsAreWhole, Request, rows
<1>2. CASE SecondFactorPassed(r)
  <2>1. /\ pc[r] = "opened" /\ pc'[r] = "verified"
        /\ nonce' = nonce /\ signCount' = signCount
    BY <1>2 DEF SecondFactorPassed, Goto, Typed, TypeOK, rows
  <2>2. /\ req'[r].challenge = req[r].challenge /\ req'[r].op = req[r].op
        /\ req'[r].assertion = req[r].assertion
    BY <1>2, <2>1 DEF SecondFactorPassed, Typed, TypeOK, RequestsAreWhole, Request
  <2>3. Verifies(req[r].assertion, req[r].challenge, req[r].nonce)
    BY <1>2, <2>2 DEF SecondFactorPassed
  <2> QED BY <2>1, <2>2, <2>3 DEF Verifies, Ceremonies, Inside
<1>3. CASE AccessHeld(r)
  BY <1>3 DEF AccessHeld, Goto, Typed, TypeOK, Ceremonies, Inside, rows
<1>4. CASE ~Handle(r) /\ pc'[r] = pc[r] /\ req'[r] = req[r]
  <2>1. nonce' = nonce /\ signCount' = signCount
    BY <1>4, RowsOfTheTurn DEF rows
  <2> QED BY <1>4, <2>1 DEF Ceremonies
<1> QED BY <1>1, <1>2, <1>3, <1>4, StepInside

Serial == Typed /\ Turns /\ Ceremonies

LEMMA SerialInvariant == Spec => []Serial
<1>1. Init => Turns /\ Ceremonies
  BY DEF Init, InitScope, Turns, Ceremonies, Inside
<1> QED
  BY <1>1, TypedInvariant, TurnsPreserved, CeremoniesPreserved, PTL DEF Spec, Serial

(* A webauthn request that is about to commit, and what its commit writes. *)
LEMMA CommitsFresh ==
    ASSUME Serial, serialized, NEW r \in Requests, pc[r] \in {"verified", "allowed"},
           SaveSignCount(r), NEW k \in Creds
    PROVE  signCount'[k] >= signCount[k]
<1>1. CASE req[r].op = "webauthn" /\ req[r].assertion.count > 0
  <2> DEFINE a == req[r].assertion
  <2>1. a \in Assertion /\ a.count > signCount[a.cred]
    BY <1>1 DEF Serial, Typed, RequestsAreWhole, Ceremonies, Inside
  <2>2. signCount' = [signCount EXCEPT ![a.cred] = a.count]
    BY <1>1 DEF SaveSignCount
  <2>3. signCount \in [Creds -> Nat] /\ a.count \in Nat /\ a.cred \in Creds
    BY <2>1, StepUpAssumption DEF Serial, Typed, TypeOK, Assertion, StepUpAssumption
  <2> HIDE DEF a
  <2> QED BY <2>1, <2>2, <2>3
<1>2. CASE ~(req[r].op = "webauthn" /\ req[r].assertion.count > 0)
  <2>1. signCount' = signCount /\ signCount[k] \in Nat
    BY <1>2, StepUpAssumption DEF SaveSignCount, Serial, Typed, TypeOK, StepUpAssumption
  <2> QED BY <2>1
<1> QED BY <1>1, <1>2

(* Where transactions take turns, a stored signature counter never goes    *)
(* back: a cloned authenticator that lags behind stays detectable.         *)
THEOREM Counters == Spec => SignCountGrows
<1>1. Serial /\ [Next]_vars => [serialized => \A k \in Creds : signCount'[k] >= signCount[k]]_vars
  <2> SUFFICES ASSUME Serial, Next, serialized, NEW k \in Creds
               PROVE  signCount'[k] >= signCount[k]
    OBVIOUS
  <2>1. CASE signCount' = signCount
    BY <2>1, StepUpAssumption DEF Serial, Typed, TypeOK, StepUpAssumption
  <2>2. ASSUME NEW r \in Requests, AccessDenied(r) \/ Pass(r)
        PROVE  signCount'[k] >= signCount[k]
    BY <2>2, CommitsFresh DEF AccessDenied, Pass, Goto
  <2>3. CASE Environment
    BY <2>1, <2>3 DEF Environment, Tick, CreateChallenge, Revoke, Grant, Register, Sign, rows
  <2>4. ASSUME NEW r \in Requests, Handle(r), ~AccessDenied(r), ~Pass(r)
        PROVE  signCount' = signCount
    BY <2>4 DEF Handle, Begin, OpenChallenge, NotOpen, StoreNonce, NoPasskey,
       SecondFactorPassed, SecondFactorFailed, AccessHeld, Confirm, NoConfirm, Crash, rows
  <2> QED BY <2>1, <2>2, <2>3, <2>4 DEF Next
<1> QED BY <1>1, SerialInvariant, PTL DEF Spec, SignCountGrows

(* Where transactions take turns, a challenge is passed on the newest      *)
(* nonce: options asked for during a verification would have to run inside *)
(* its turn, and afterwards find the challenge consumed.                   *)
THEOREM CurrentNonce == Spec => []PassedOnCurrentNonce
<1>1. Init => PassedOnCurrentNonce
  BY DEF Init, PassedOnCurrentNonce
<1>2. Serial /\ PassedOnCurrentNonce /\ [Next]_vars => PassedOnCurrentNonce'
  <2> SUFFICES ASSUME Serial, PassedOnCurrentNonce, [Next]_vars, serialized,
                      NEW c \in Challenges, state'[c] = "passed"
               PROVE  passedOn'[c] \in {0, nonce'[c]}
    BY SerializedStays DEF PassedOnCurrentNonce
  <2> USE DEF PassedOnCurrentNonce, Serial, Typed, TypeOK
  <2>1. CASE UNCHANGED <<state, nonce, passedOn>>
    BY <2>1
  <2>2. CASE Environment
    BY <2>2 DEF Environment, Tick, CreateChallenge, Revoke, Grant, Register, Sign, rows, history
  <2>3. ASSUME NEW r \in Requests, StoreNonce(r) PROVE passedOn'[c] \in {0, nonce'[c]}
    <3>1. state[req[r].challenge] = "open"
      BY <2>3 DEF StoreNonce, Turns, Inside
    <3>2. /\ UNCHANGED <<state, passedOn>>
          /\ nonce' = [nonce EXCEPT ![req[r].challenge] = nonces + 1]
      BY <2>3 DEF StoreNonce
    <3> QED BY <3>1, <3>2
  <2>4. ASSUME NEW r \in Requests, Pass(r) PROVE passedOn'[c] \in {0, nonce'[c]}
    <3> DEFINE d == req[r].challenge
               n == IF req[r].op = "webauthn" THEN req[r].assertion.nonce ELSE 0
    <3>1. /\ state' = [state EXCEPT ![d] = "passed"] /\ nonce' = nonce
          /\ passedOn' = [passedOn EXCEPT ![d] = n]
      BY <2>4 DEF Pass
    <3>2. n \in {0, nonce[d]}
      BY <2>4 DEF Pass, Goto, Ceremonies, Inside
    <3> HIDE DEF d, n
    <3> QED BY <3>1, <3>2
  <2>5. ASSUME NEW r \in Requests, Handle(r), ~StoreNonce(r), ~Pass(r)
        PROVE  UNCHANGED <<state, nonce, passedOn>>
    BY <2>5 DEF Handle, Begin, OpenChallenge, NotOpen, NoPasskey, SecondFactorPassed,
       SecondFactorFailed, AccessHeld, AccessDenied, Confirm, NoConfirm, Crash, rows, history
  <2>6. CASE UNCHANGED vars
    BY <2>1, <2>6 DEF vars, rows, history
  <2> QED BY <2>1, <2>2, <2>3, <2>4, <2>5, <2>6 DEF Next
<1> QED BY <1>1, <1>2, SerialInvariant, PTL DEF Spec

(* Where transactions take turns, a consumed challenge cannot be reused:   *)
(* one challenge, one session.  The theorem needs the lock; side by side   *)
(* two requests find the challenge open.                                   *)
THEOREM OncePerChallenge == Spec => [](serialized => PassedOnce)
<1> DEFINE AtMostOnce == serialized => PassedOnce
<1>1. Init => AtMostOnce
  BY DEF Init, PassedOnce
<1>2. Serial /\ ConsumedWithItsSession /\ AtMostOnce /\ [Next]_vars => AtMostOnce'
  <2> SUFFICES ASSUME Serial, ConsumedWithItsSession, AtMostOnce, [Next]_vars, serialized,
                      NEW c \in Challenges
               PROVE  passes'[c] <= 1
    BY SerializedStays DEF PassedOnce
  <2>1. CASE passes' = passes
    BY <2>1 DEF PassedOnce
  <2>2. ASSUME NEW r \in Requests, Pass(r) PROVE passes'[c] <= 1
    <3>1. /\ passes' = [passes EXCEPT ![req[r].challenge] = passes[req[r].challenge] + 1]
          /\ req[r].challenge \in Challenges /\ state[req[r].challenge] = "open"
      BY <2>2 DEF Pass, Goto, Serial, Typed, RequestsAreWhole, Request, Turns, Inside
    <3>2. passes \in [Challenges -> Nat] /\ passes[req[r].challenge] = 0
      BY <3>1 DEF Serial, Typed, TypeOK, ConsumedWithItsSession
    <3> QED BY <3>1, <3>2 DEF PassedOnce
  <2>3. ASSUME NEW d \in Challenges, NEW refused \in BOOLEAN, CreateChallenge(d, refused)
        PROVE  passes' = passes
    BY <2>3 DEF CreateChallenge
  <2> QED BY <2>1, <2>2, <2>3, StepKeepsRows
<1> QED BY <1>1, <1>2, SerialInvariant, Consumed, PTL DEF Spec

(* Where transactions take turns, a challenge is a single-use ticket: it   *)
(* is open when its turn begins and when it commits, so it yields once.    *)
THEOREM Refinement == Spec => ImplementsSingleUse
<1>1. Init => Tickets!Init
  BY DEF Init, Tickets!Init
<1>2. Serial /\ [Next]_vars => [Tickets!Next]_Tickets!vars
  <2> SUFFICES ASSUME Serial, [Next]_vars PROVE [Tickets!Next]_Tickets!vars
    OBVIOUS
  <2> DEFINE st == [c \in Challenges |->
                      IF ~serialized THEN "absent"
                      ELSE IF state[c] \in {"passed", "refused"} THEN "spent" ELSE state[c]]
             ys == [c \in Challenges |-> IF serialized THEN passes[c] ELSE 0]
  <2>0. serialized' = serialized
    BY SerializedStays
  <2>1. CASE ~serialized \/ UNCHANGED <<state, passes>>
    <3>1. st' = st /\ ys' = ys
      BY <2>0, <2>1
    <3> QED BY <3>1 DEF Tickets!vars
  <2>2. ASSUME serialized, NEW c \in Challenges, NEW refused \in BOOLEAN,
               CreateChallenge(c, refused)
        PROVE  Tickets!Next
    <3>1. /\ state[c] = "absent" /\ passes' = passes
          /\ state' = [state EXCEPT ![c] = IF refused THEN "refused" ELSE "open"]
      BY <2>2 DEF CreateChallenge
    <3>2. st[c] = "absent" /\ ys' = ys
      BY <2>0, <2>2, <3>1
    <3>3. CASE refused
      <4>1. st' = [st EXCEPT ![c] = "spent"]
        BY <2>0, <2>2, <3>1, <3>3 DEF Serial, Typed, TypeOK
      <4>2. Tickets!Void(c)
        BY <3>2, <4>1, Zenon DEF Tickets!Void
      <4> QED BY <4>2 DEF Tickets!Next
    <3>4. CASE ~refused
      <4>1. st' = [d \in Challenges |-> IF d = c THEN "open" ELSE st[d]]
        BY <2>0, <2>2, <3>1, <3>4 DEF Serial, Typed, TypeOK
      <4>2. Tickets!Issue(c, {})
        BY <3>2, <4>1 DEF Tickets!Issue
      <4> QED BY <4>2 DEF Tickets!Next
    <3> QED BY <3>3, <3>4
  <2>3. ASSUME serialized, NEW r \in Requests, Pass(r) PROVE Tickets!Next
    <3>1. PICK c \in Challenges : c = req[r].challenge
      BY <2>3 DEF Pass, Goto, Serial, Typed, RequestsAreWhole, Request
    <3>2. /\ state' = [state EXCEPT ![c] = "passed"]
          /\ passes' = [passes EXCEPT ![c] = passes[c] + 1]
          /\ state[c] = "open"
      BY <2>3, <3>1 DEF Pass, Goto, Serial, Turns, Inside
    <3>3. st[c] = "open" /\ st' = [st EXCEPT ![c] = "spent"] /\ ys' = [ys EXCEPT ![c] = ys[c] + 1]
      BY <2>0, <2>3, <3>2 DEF Serial, Typed, TypeOK
    <3>4. Tickets!Use(c)
      BY <3>3 DEF Tickets!Use
    <3> QED BY <3>4 DEF Tickets!Next
  <2> QED BY <2>1, <2>2, <2>3, StepKeepsRows
<1> QED BY <1>1, <1>2, SerialInvariant, PTL DEF Spec, ImplementsSingleUse, Tickets!Spec

=============================================================================
