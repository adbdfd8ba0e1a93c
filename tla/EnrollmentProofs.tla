-------------------------- MODULE EnrollmentProofs --------------------------
(***************************************************************************)
(* Theorems about Enrollment, for any number of requests, sessions, codes, *)
(* passkeys and users and any lifetimes: its types, whose options a        *)
(* passkey answers on either engine, and, where transactions take turns,   *)
(* that a door is a single-use ticket for one passkey, that a user has one *)
(* usable code, and that an offer is for a first passkey.                  *)
(***************************************************************************)
EXTENDS Enrollment, FiniteSetTheorems, TLAPS

LoginRequest == [op : {"login"}, door : Sessions]
IssueRequest == [op : {"issue"}, door : Codes, voids : SUBSET Codes]
OptionsRequest == [op : {"options"}, door : Doors]
VerifyRequest == [op : {"verify"}, door : Doors, attestation : Attestation, nonce : 0..MaxNonce]

\* At a door that was found open.
AtDoor == {"opened", "checked", "verified"}

\* A request knows what it is about.
RequestsAreWhole ==
    \A r \in Requests :
        /\ pc[r] = "offering" => req[r] \in LoginRequest
        /\ pc[r] = "issuing" => req[r] \in IssueRequest
        /\ pc[r] = "opened" => req[r] \in OptionsRequest \cup VerifyRequest
        /\ pc[r] = "checked" => req[r] \in OptionsRequest
        /\ pc[r] = "verified" => req[r] \in VerifyRequest

Typed == TypeOK /\ RequestsAreWhole

Step(r) == Login(r) \/ IssueCode(r) \/ Options(r) \/ Verify(r) \/ Crash(r)

-----------------------------------------------------------------------------
(* What a step leaves alone.                                               *)

LEMMA EnvironmentFrame ==
    ASSUME Environment \/ UNCHANGED vars
    PROVE  /\ UNCHANGED <<scope, expires, nonce, owner, nonces, pc, req, enrolled, offeredTo>>
           /\ door' = door \/ \E s \in Sessions : DropSession(s)
BY DEF Environment, Tick, SetEnabled, DropSession, CreatePasskey, vars, rows, history

\* Only these write the doors, the passkeys and the nonces.
LEMMA StepFrame ==
    ASSUME NEW r \in Requests, Step(r)
    PROVE  /\ serialized' = serialized
           /\ \/ UNCHANGED <<door, owner, enrolled>>
              \/ Offer(r) \/ Issue(r) \/ Enroll(r)
           /\ \/ UNCHANGED <<nonce, nonces, offeredTo>>
              \/ StoreNonce(r) \/ Enroll(r)
<1> USE DEF scope, rows, history, End, Enter, Leave, Refused
<1>1. CASE Login(r) \/ IssueCode(r)
  BY <1>1 DEF Login, Offer, OfferWanted, IssueCode, Issue, BeginIssue
<1>2. CASE Options(r)
  BY <1>2 DEF Options, BeginOptions, UserChecked, UserDisabled, OfferLapsed, StoreNonce
<1>3. CASE Verify(r) \/ Crash(r)
  BY <1>3 DEF Verify, BeginVerify, Verified, VerifyRefused, Enroll, Crash
<1> QED BY <1>1, <1>2, <1>3 DEF Step

LEMMA OthersFrame ==
    ASSUME Typed, NEW r \in Requests, Step(r), NEW s \in Requests, s # r
    PROVE  pc'[s] = pc[s] /\ req'[s] = req[s] /\ (s \in tx' <=> s \in tx)
<1> USE DEF scope, End, Enter, Leave, Refused, Goto, Typed, TypeOK
<1>1. CASE Login(r) \/ IssueCode(r)
  BY <1>1 DEF Login, Offer, OfferWanted, IssueCode, Issue, BeginIssue
<1>2. CASE Options(r)
  BY <1>2 DEF Options, BeginOptions, UserChecked, UserDisabled, OfferLapsed, StoreNonce
<1>3. CASE Verify(r) \/ Crash(r)
  BY <1>3 DEF Verify, BeginVerify, Verified, VerifyRefused, Enroll, Crash
<1> QED BY <1>1, <1>2, <1>3 DEF Step

\* Where a request goes on, with what, and whether it may be inside.
LEMMA Moves ==
    ASSUME Typed, NEW r \in Requests, Step(r)
    PROVE  /\ pc' = [pc EXCEPT ![r] = pc'[r]]
           /\ req' = [req EXCEPT ![r] = req'[r]]
           /\ \/ \E s \in Sessions : OfferWanted(r, s) /\ pc'[r] = "offering"
                                     /\ req'[r] = [op |-> "login", door |-> s] /\ tx' = tx
              \/ \E c \in Codes :
                    /\ BeginIssue(r, c) /\ pc'[r] = "issuing" /\ Enter(r)
                    /\ req'[r] = [op |-> "issue", door |-> c,
                                  voids |-> {e \in Codes : door[e] = "open" /\ UserOf[e] = UserOf[c]}]
              \/ \E d \in Doors :
                    /\ BeginOptions(r, d) /\ pc'[r] = "opened" /\ Enter(r)
                    /\ req'[r] = [op |-> "options", door |-> d]
              \/ \E d \in Doors, a \in created :
                    /\ BeginVerify(r, d, a) /\ pc'[r] = "opened" /\ Enter(r)
                    /\ req'[r] = [op |-> "verify", door |-> d, attestation |-> a, nonce |-> nonce[d]]
              \/ UserChecked(r) /\ pc[r] = "opened" /\ pc'[r] = "checked"
                 /\ req'[r] = req[r] /\ tx' = tx
              \/ Verified(r) /\ pc[r] = "opened" /\ pc'[r] = "verified"
                 /\ req'[r] = [req[r] EXCEPT !.nonce = 0] /\ tx' = tx
              \/ pc'[r] = "idle" /\ req'[r] = None /\ Leave(r)
<1> USE DEF scope, End, Refused, Goto, Typed, TypeOK
<1>1. CASE Login(r) \/ IssueCode(r)
  BY <1>1 DEF Login, Offer, OfferWanted, IssueCode, Issue, BeginIssue
<1>2. CASE Options(r)
  BY <1>2 DEF Options, BeginOptions, UserChecked, UserDisabled, OfferLapsed, StoreNonce
<1>3. ASSUME NEW d \in Doors, NEW a \in created, BeginVerify(r, d, a)
      PROVE  /\ pc' = [pc EXCEPT ![r] = pc'[r]] /\ req' = [req EXCEPT ![r] = req'[r]]
             /\ pc'[r] = "opened" /\ Enter(r)
             /\ req'[r] = [op |-> "verify", door |-> d, attestation |-> a, nonce |-> nonce[d]]
  BY <1>3 DEF BeginVerify
<1>4. CASE Verified(r)
  BY <1>4 DEF Verified
<1>5. CASE VerifyRefused(r) \/ Enroll(r) \/ Crash(r)
  BY <1>5 DEF VerifyRefused, Enroll, Crash
<1> QED BY <1>1, <1>2, <1>3, <1>4, <1>5 DEF Step, Verify

-----------------------------------------------------------------------------
(* Types                                                                   *)

LEMMA RequestsPreserved ==
    ASSUME Typed, NEW r \in Requests, Step(r)
    PROVE  /\ RequestsAreWhole'
           /\ req' \in [Requests -> Request \cup {None}]
           /\ pc' \in [Requests -> {"idle", "offering", "issuing", "opened", "checked", "verified"}]
<1> USE DEF Typed, TypeOK
<1>1. \/ pc'[r] = "offering" /\ req'[r] \in LoginRequest
      \/ pc'[r] = "issuing" /\ req'[r] \in IssueRequest
      \/ pc'[r] = "opened" /\ req'[r] \in OptionsRequest \cup VerifyRequest
      \/ pc'[r] = "checked" /\ req'[r] \in OptionsRequest
      \/ pc'[r] = "verified" /\ req'[r] \in VerifyRequest
      \/ pc'[r] = "idle" /\ req'[r] = None
  <2>1. ASSUME NEW d \in Doors, NEW a \in created
        PROVE  [op |-> "verify", door |-> d, attestation |-> a, nonce |-> nonce[d]] \in VerifyRequest
    BY DEF VerifyRequest
  <2>2. ASSUME pc[r] = "opened", UserChecked(r) PROVE req[r] \in OptionsRequest
    BY <2>2 DEF UserChecked, RequestsAreWhole, VerifyRequest
  <2>3. ASSUME pc[r] = "opened", Verified(r) PROVE [req[r] EXCEPT !.nonce = 0] \in VerifyRequest
    <3>1. req[r] \in VerifyRequest
      BY <2>3 DEF Verified, RequestsAreWhole, OptionsRequest
    <3>2. 0 \in 0..MaxNonce
      BY EnrollmentAssumption DEF EnrollmentAssumption
    <3> QED BY <3>1, <3>2 DEF VerifyRequest
  <2>4. ASSUME NEW c \in Codes, NEW voids \in SUBSET Codes
        PROVE  [op |-> "issue", door |-> c, voids |-> voids] \in IssueRequest
    BY DEF IssueRequest
  <2>5. ASSUME NEW s \in Sessions PROVE [op |-> "login", door |-> s] \in LoginRequest
    BY DEF LoginRequest
  <2>6. ASSUME NEW d \in Doors PROVE [op |-> "options", door |-> d] \in OptionsRequest
    BY DEF OptionsRequest
  <2> HIDE DEF Typed, TypeOK
  <2>7. ASSUME NEW c \in Codes, pc'[r] = "issuing",
               req'[r] = [op |-> "issue", door |-> c,
                          voids |-> {e \in Codes : door[e] = "open" /\ UserOf[e] = UserOf[c]}]
        PROVE  pc'[r] = "issuing" /\ req'[r] \in IssueRequest
    <3>1. {e \in Codes : door[e] = "open" /\ UserOf[e] = UserOf[c]} \in SUBSET Codes
      OBVIOUS
    <3> QED BY <2>4, <2>7, <3>1
  <2>8. CASE \E s \in Sessions : /\ pc'[r] = "offering"
                                 /\ req'[r] = [op |-> "login", door |-> s]
    BY <2>5, <2>8
  <2>9. CASE \E d \in Doors : /\ pc'[r] = "opened"
                              /\ req'[r] = [op |-> "options", door |-> d]
    BY <2>6, <2>9
  <2>10. CASE \E d \in Doors, a \in created :
                 /\ pc'[r] = "opened"
                 /\ req'[r] = [op |-> "verify", door |-> d, attestation |-> a, nonce |-> nonce[d]]
    BY <2>1, <2>10
  <2>11. CASE UserChecked(r) /\ pc[r] = "opened" /\ pc'[r] = "checked" /\ req'[r] = req[r]
    BY <2>2, <2>11
  <2>12. CASE Verified(r) /\ pc[r] = "opened" /\ pc'[r] = "verified"
              /\ req'[r] = [req[r] EXCEPT !.nonce = 0]
    BY <2>3, <2>12
  <2> QED BY <2>7, <2>8, <2>9, <2>10, <2>11, <2>12, Moves
<1>2. \A s \in Requests : s # r => pc'[s] = pc[s] /\ req'[s] = req[s]
  BY OthersFrame
<1>3. RequestsAreWhole'
  BY <1>1, <1>2 DEF RequestsAreWhole
<1>4. req'[r] \in Request \cup {None}
  BY <1>1 DEF Request, LoginRequest, IssueRequest, OptionsRequest, VerifyRequest
<1>5. pc' = [pc EXCEPT ![r] = pc'[r]] /\ req' = [req EXCEPT ![r] = req'[r]]
  BY Moves
<1> QED BY <1>1, <1>3, <1>4, <1>5

LEMMA TypePreserved == Typed /\ [Next]_vars => Typed'
<1> SUFFICES ASSUME Typed, [Next]_vars PROVE Typed'
  OBVIOUS
<1> USE DEF Typed, TypeOK
<1>0. /\ MaxNonce \in Nat /\ EnrollWindow \in Nat /\ ActivationTtl \in Nat
      /\ UserOf \in [Doors -> Users]
  BY EnrollmentAssumption, DoorsAssumption DEF EnrollmentAssumption, DoorsAssumption
<1>1. CASE Environment \/ UNCHANGED vars
  <2>1. pc' = pc /\ req' = req /\ RequestsAreWhole'
    BY <1>1, EnvironmentFrame DEF RequestsAreWhole
  <2>2. UNCHANGED <<scope, expires, nonce, owner, nonces, enrolled, offeredTo>>
    BY <1>1, EnvironmentFrame
  <2>3. door' \in [Doors -> DoorStates]
    BY <1>1, EnvironmentFrame DEF DropSession, DoorStates
  <2>4. clock' \in Nat /\ enabled' \subseteq Users /\ lapsed' \subseteq Sessions
    <3>1. clock' = clock \/ clock' = clock + 1
      BY <1>1 DEF Environment, Tick, SetEnabled, DropSession, CreatePasskey, vars
    <3>2. enabled' \subseteq Users /\ lapsed' = lapsed
      BY <1>1 DEF Environment, Tick, SetEnabled, DropSession, CreatePasskey, vars, history
    <3>3. clock \in Nat
      OBVIOUS
    <3> QED BY <3>1, <3>2, <3>3
  <2>5. created' \subseteq Attestation
    <3>1. ASSUME NEW k \in Creds, NEW n \in 1..MaxNonce, CreatePasskey(k, n)
          PROVE  created' \subseteq Attestation
      <4>1. [nonce |-> n, cred |-> k] \in Attestation
        BY DEF Attestation
      <4> QED BY <3>1, <4>1 DEF CreatePasskey
    <3> QED BY <1>1, <3>1 DEF Environment, Tick, SetEnabled, DropSession, vars
  <2> QED BY <2>1, <2>2, <2>3, <2>4, <2>5 DEF scope
<1>2. ASSUME NEW r \in Requests, Step(r) PROVE Typed'
  <2> USE DEF rows, history
  <2>1. /\ RequestsAreWhole' /\ req' \in [Requests -> Request \cup {None}]
        /\ pc' \in [Requests -> {"idle", "offering", "issuing", "opened", "checked", "verified"}]
    BY <1>2, RequestsPreserved
  <2>2. serialized' \in BOOLEAN /\ tx' \subseteq Requests
    <3> HIDE DEF Typed, TypeOK
    <3>1. tx' = tx \/ tx' = tx \cup {r} \/ tx' = tx \ {r}
      BY <1>2, Moves DEF Enter, Leave
    <3>2. tx \subseteq Requests /\ serialized \in BOOLEAN
      BY DEF Typed, TypeOK
    <3> QED BY <1>2, <3>1, <3>2, StepFrame
  <2>3. clock' = clock /\ enabled' = enabled /\ created' = created
    BY <1>2 DEF Step, Login, Offer, OfferWanted, IssueCode, Issue, BeginIssue, Options,
        BeginOptions, UserChecked, UserDisabled, OfferLapsed, StoreNonce, Verify, BeginVerify,
        Verified, VerifyRefused, Enroll, Crash, Refused
  <2>4. CASE Offer(r)
    <3>1. req[r] \in LoginRequest /\ clock + EnrollWindow \in Nat
      BY <1>0, <2>4 DEF Offer, RequestsAreWhole
    <3>2. door' \in [Doors -> DoorStates] /\ expires' \in [Doors -> Nat]
      BY <2>4, <3>1 DEF Offer, LoginRequest, DoorStates
    <3> QED BY <2>1, <2>2, <2>3, <2>4, <3>2 DEF Offer
  <2>5. CASE Issue(r)
    <3>1. req[r] \in IssueRequest /\ clock + ActivationTtl \in Nat
      BY <1>0, <2>5 DEF Issue, RequestsAreWhole
    <3>2. door' \in [Doors -> DoorStates] /\ expires' \in [Doors -> Nat]
      BY <2>5, <3>1 DEF Issue, IssueRequest, DoorStates
    <3> QED BY <2>1, <2>2, <2>3, <2>5, <3>2 DEF Issue
  <2>6. CASE StoreNonce(r)
    <3>1. req[r] \in OptionsRequest
      BY <2>6 DEF StoreNonce, RequestsAreWhole
    <3>2. nonces \in Nat /\ nonces + 1 \in 1..MaxNonce
      BY <1>0, <2>6 DEF StoreNonce
    <3>3. nonces' \in 0..MaxNonce
      BY <1>0, <2>6, <3>2 DEF StoreNonce
    <3>4. nonce' \in [Doors -> 0..MaxNonce]
      <4>1. nonces + 1 \in 0..MaxNonce
        BY <1>0, <3>2
      <4> QED BY <2>6, <3>1, <4>1 DEF StoreNonce, OptionsRequest
    <3>5. offeredTo' \in [1..MaxNonce -> Doors \cup {None}]
      BY <2>6, <3>1, <3>2 DEF StoreNonce, OptionsRequest
    <3> QED BY <2>1, <2>2, <2>3, <2>6, <3>3, <3>4, <3>5 DEF StoreNonce
  <2>7. CASE Enroll(r)
    <3>1. req[r] \in VerifyRequest
      BY <2>7 DEF Enroll, RequestsAreWhole
    <3>2. /\ req[r].door \in Doors /\ req[r].attestation \in Attestation
          /\ req[r].attestation.cred \in Creds
      BY <3>1 DEF VerifyRequest, Attestation
    <3>3. owner' \in [Creds -> Users \cup {None}] /\ door' \in [Doors -> DoorStates]
      BY <1>0, <2>7, <3>2 DEF Enroll, DoorStates
    <3>4. nonce' \in [Doors -> 0..MaxNonce]
      <4>1. 0 \in 0..MaxNonce
        BY <1>0
      <4> QED BY <2>7, <4>1 DEF Enroll
    <3>5. enrolled' \in [Doors -> SUBSET Attestation]
      BY <2>7, <3>2 DEF Enroll
    <3> QED BY <2>1, <2>2, <2>3, <2>7, <3>3, <3>4, <3>5 DEF Enroll
  <2>8. CASE ~(Offer(r) \/ Issue(r) \/ StoreNonce(r) \/ Enroll(r))
    <3>1. UNCHANGED <<door, owner, enrolled, nonce, nonces, offeredTo>>
      BY <1>2, <2>8, StepFrame
    <3>2. expires' = expires /\ lapsed' \subseteq Sessions
      <4>1. ASSUME OfferLapsed(r) PROVE expires' = expires /\ lapsed' \subseteq Sessions
        <5>1. req[r] \in OptionsRequest
          BY <4>1 DEF OfferLapsed, RequestsAreWhole, VerifyRequest
        <5>2. req[r].door \in Sessions
          BY <4>1, <5>1 DEF OfferLapsed, MayAttach, OptionsRequest
        <5> QED BY <4>1, <5>2 DEF OfferLapsed
      <4> QED BY <1>2, <2>8, <4>1 DEF Step, Login, OfferWanted, IssueCode, BeginIssue, Options,
              BeginOptions, UserChecked, UserDisabled, Verify, BeginVerify, Verified,
              VerifyRefused, Crash, Refused
    <3> QED BY <2>1, <2>2, <2>3, <3>1, <3>2
  <2> QED BY <2>4, <2>5, <2>6, <2>7, <2>8
<1> QED BY <1>1, <1>2 DEF Next, Step

LEMMA TypedInvariant == Spec => []Typed
<1>1. Init => Typed
  <2> SUFFICES ASSUME Init PROVE Typed
    OBVIOUS
  <2>1. 0 \in 0..MaxNonce
    BY EnrollmentAssumption DEF EnrollmentAssumption
  <2> QED BY <2>1, DoorsAssumption
          DEF Init, InitScope, Typed, TypeOK, RequestsAreWhole, DoorStates, DoorsAssumption
<1> QED BY <1>1, TypePreserved, PTL DEF Spec

\* Doors, passkeys, nonces and requests keep their types on either engine.
THEOREM Typing == Spec => []TypeOK
<1>1. Typed => TypeOK
  BY DEF Typed
<1> QED BY <1>1, TypedInvariant, PTL

-----------------------------------------------------------------------------
(* Whose options a passkey answers, on either engine                       *)

\* The nonce was generated for the options of this door.
Given(n, d) == n \in 1..nonces /\ offeredTo[n] = d

\* What a door's row holds, and what a request has read there, is its own.
NoncesAreOwn ==
    /\ \A d \in Doors : nonce[d] # 0 => Given(nonce[d], d)
    /\ \A r \in Requests :
        /\ pc[r] = "opened" /\ req[r].op = "verify" => Given(req[r].nonce, req[r].door)
        /\ pc[r] = "verified" => Given(req[r].attestation.nonce, req[r].door)

EnrolledAreOwn ==
    \A d \in Doors : \A a \in enrolled[d] : Given(a.nonce, d) /\ owner[a.cred] = UserOf[d]

Own == NoncesAreOwn /\ EnrolledAreOwn

\* A nonce is generated once.
\* ... by the time the step is taken.
GivenAfter(n, d) == n \in 1..nonces' /\ offeredTo'[n] = d

LEMMA GivenOnce ==
    ASSUME Typed, NEW r \in Requests, Step(r), NEW n, NEW d, Given(n, d)
    PROVE  GivenAfter(n, d)
<1>0. nonces \in Nat /\ MaxNonce \in Nat /\ nonces <= MaxNonce
  BY EnrollmentAssumption DEF EnrollmentAssumption, Typed, TypeOK
<1>1. CASE StoreNonce(r)
  <2>1. n \in 1..(nonces + 1) /\ n # nonces + 1
    BY <1>0 DEF Given, GivenAfter
  <2> QED BY <1>1, <2>1 DEF Given, GivenAfter, StoreNonce, Typed, TypeOK
<1>2. CASE Enroll(r)
  BY <1>2 DEF Given, GivenAfter, Enroll
<1> QED BY <1>1, <1>2, StepFrame DEF Given, GivenAfter

LEMMA DoorNonces ==
    ASSUME Typed, NoncesAreOwn, NEW r \in Requests, Step(r), NEW d \in Doors, nonce'[d] # 0
    PROVE  GivenAfter(nonce'[d], d)
<1>0. nonces \in Nat /\ MaxNonce \in Nat /\ nonces <= MaxNonce
  BY EnrollmentAssumption DEF EnrollmentAssumption, Typed, TypeOK
<1>1. CASE nonce'[d] = nonce[d]
  BY <1>1, GivenOnce DEF NoncesAreOwn, Given, GivenAfter
<1>2. CASE StoreNonce(r) /\ nonce'[d] # nonce[d]
  <2>1. req[r].door = d /\ nonce'[d] = nonces + 1
    BY <1>2 DEF StoreNonce, Typed, TypeOK
  <2>2. nonces + 1 \in 1..MaxNonce /\ nonces' = nonces + 1
    BY <1>0, <1>2 DEF StoreNonce
  <2>3. offeredTo'[nonces + 1] = d
    BY <1>2, <2>1, <2>2 DEF StoreNonce, Typed, TypeOK
  <2> QED BY <1>0, <2>1, <2>2, <2>3 DEF Given, GivenAfter
<1>3. CASE Enroll(r)
  BY <1>1, <1>3 DEF Enroll, Typed, TypeOK
<1> QED BY <1>1, <1>2, <1>3, StepFrame

LEMMA RequestNonces ==
    ASSUME Typed, NoncesAreOwn, NEW r \in Requests, Step(r), NEW s \in Requests
    PROVE  /\ pc'[s] = "opened" /\ req'[s].op = "verify" => GivenAfter(req'[s].nonce, req'[s].door)
           /\ pc'[s] = "verified" => GivenAfter(req'[s].attestation.nonce, req'[s].door)
<1>1. CASE s # r
  <2>1. pc'[s] = pc[s] /\ req'[s] = req[s]
    BY <1>1, OthersFrame
  <2> QED BY <2>1, GivenOnce DEF NoncesAreOwn, Given, GivenAfter
<1>2. CASE s = r
  <2>1. ASSUME NEW d \in Doors, NEW a \in created, BeginVerify(r, d, a),
               req'[r] = [op |-> "verify", door |-> d, attestation |-> a, nonce |-> nonce[d]]
        PROVE  GivenAfter(req'[r].nonce, req'[r].door)
    <3>1. Given(nonce[d], d)
      BY <2>1 DEF BeginVerify, NoncesAreOwn
    <3>2. GivenAfter(nonce[d], d)
      <4>1. nonces' = nonces /\ offeredTo' = offeredTo /\ nonce' = nonce
        BY <2>1 DEF BeginVerify, rows, history
      <4> QED BY <3>1, <4>1 DEF Given, GivenAfter
    <3>3. nonce' = nonce
      BY <2>1 DEF BeginVerify, rows
    <3> QED BY <2>1, <3>2, <3>3 DEF Given, GivenAfter
  <2>2. ASSUME Verified(r), pc[r] = "opened", req'[r] = [req[r] EXCEPT !.nonce = 0]
        PROVE  GivenAfter(req'[r].attestation.nonce, req'[r].door)
    <3>1. req[r] \in VerifyRequest /\ req[r].op = "verify"
      BY <2>2 DEF Verified, Typed, RequestsAreWhole, OptionsRequest, VerifyRequest
    <3>2. req'[r].attestation = req[r].attestation /\ req'[r].door = req[r].door
      BY <2>2, <3>1 DEF VerifyRequest
    <3>3. Given(req[r].attestation.nonce, req[r].door)
      BY <2>2, <3>1 DEF Verified, Registrable, NoncesAreOwn
    <3>4. nonces' = nonces /\ offeredTo' = offeredTo
      BY <2>2 DEF Verified, history
    <3> QED BY <3>2, <3>3, <3>4 DEF Given, GivenAfter
  <2>3. ASSUME NEW d \in Doors, req'[r] = [op |-> "options", door |-> d]
        PROVE  req'[r].op # "verify"
    BY <2>3
  <2>4. CASE pc'[r] = "opened"
    BY <1>2, <2>1, <2>3, <2>4, Moves
  <2>5. CASE pc'[r] = "verified"
    BY <1>2, <2>2, <2>5, Moves
  <2> QED BY <1>2, <2>4, <2>5
<1> QED BY <1>1, <1>2

LEMMA PasskeysStayOwn ==
    ASSUME Typed, Own, NEW r \in Requests, Step(r)
    PROVE  EnrolledAreOwn'
<1> SUFFICES ASSUME NEW d \in Doors, NEW a \in enrolled'[d]
             PROVE  GivenAfter(a.nonce, d) /\ owner'[a.cred] = UserOf[d]
  BY DEF EnrolledAreOwn, Given, GivenAfter
<1>0. UserOf[d] \in Users /\ None \notin Users
  BY DoorsAssumption DEF DoorsAssumption
<1>1. CASE Enroll(r)
  <2>1. req[r] \in VerifyRequest
    BY <1>1 DEF Enroll, Typed, RequestsAreWhole
  <2>2. req[r].attestation.cred \in Creds /\ req[r].door \in Doors
    BY <2>1 DEF VerifyRequest, Attestation
  <2>3. nonces' = nonces /\ offeredTo' = offeredTo
    BY <1>1 DEF Enroll
  <2>4. CASE a \in enrolled[d]
    <3>1. Given(a.nonce, d) /\ owner[a.cred] = UserOf[d]
      BY <2>4 DEF Own, EnrolledAreOwn
    <3>2. a.cred # req[r].attestation.cred
      BY <1>0, <1>1, <3>1 DEF Enroll
    <3>3. a \in Attestation
      BY <2>4 DEF Typed, TypeOK
    <3>4. owner'[a.cred] = owner[a.cred]
      BY <1>1, <3>2, <3>3 DEF Enroll, Attestation, Typed, TypeOK
    <3> QED BY <2>3, <3>1, <3>4 DEF Given, GivenAfter
  <2>5. CASE a \notin enrolled[d]
    <3>1. d = req[r].door /\ a = req[r].attestation
      BY <1>1, <2>2, <2>5 DEF Enroll, Typed, TypeOK
    <3>2. Given(a.nonce, d)
      BY <1>1, <3>1 DEF Enroll, Own, NoncesAreOwn
    <3>3. owner'[a.cred] = UserOf[d]
      BY <1>1, <2>2, <3>1 DEF Enroll, Typed, TypeOK
    <3> QED BY <2>3, <3>2, <3>3 DEF Given, GivenAfter
  <2> QED BY <2>4, <2>5
<1>2. CASE ~Enroll(r)
  <2>1. owner' = owner /\ enrolled' = enrolled
    BY <1>2, StepFrame DEF Offer, Issue, history
  <2>2. Given(a.nonce, d) /\ owner[a.cred] = UserOf[d]
    BY <2>1 DEF Own, EnrolledAreOwn
  <2> QED BY <2>1, <2>2, GivenOnce
<1> QED BY <1>1, <1>2

LEMMA OwnPreserved == Typed /\ Own /\ [Next]_vars => Own'
<1> SUFFICES ASSUME Typed, Own, [Next]_vars PROVE Own'
  OBVIOUS
<1>1. CASE Environment \/ UNCHANGED vars
  BY <1>1, EnvironmentFrame DEF Own, NoncesAreOwn, EnrolledAreOwn, Given
<1>2. ASSUME NEW r \in Requests, Step(r) PROVE Own'
  <2>1. \A d \in Doors : nonce'[d] # 0 => GivenAfter(nonce'[d], d)
    BY <1>2, DoorNonces DEF Own
  <2>2. \A s \in Requests :
            /\ pc'[s] = "opened" /\ req'[s].op = "verify" => GivenAfter(req'[s].nonce, req'[s].door)
            /\ pc'[s] = "verified" => GivenAfter(req'[s].attestation.nonce, req'[s].door)
    BY <1>2, RequestNonces DEF Own
  <2>3. EnrolledAreOwn'
    BY <1>2, PasskeysStayOwn
  <2> QED BY <2>1, <2>2, <2>3 DEF Own, NoncesAreOwn, Given, GivenAfter
<1> QED BY <1>1, <1>2 DEF Next, Step

LEMMA OwnInvariant == Spec => []Own
<1>1. Init => Own
  BY DEF Init, Own, NoncesAreOwn, EnrolledAreOwn
<1> QED BY <1>1, OwnPreserved, TypedInvariant, PTL DEF Spec

\* On either engine a passkey belongs to the user of the door whose options its device
\* answered, however requests at several doors interleave.
THEOREM OptionsFollowed == Spec => []PasskeyFollowsItsOptions
<1>1. Own => PasskeyFollowsItsOptions
  BY DEF Own, EnrolledAreOwn, Given, PasskeyFollowsItsOptions
<1> QED BY <1>1, OwnInvariant, PTL

-----------------------------------------------------------------------------
(* A row is inserted once, on either engine                                *)

Reserved ==
    /\ \A r \in Requests :
        /\ pc[r] \in {"offering", "issuing"} => door[req[r].door] = "absent"
        /\ pc[r] \in AtDoor => door[req[r].door] # "absent"
        /\ pc[r] = "issuing" => \A e \in req[r].voids : door[e] # "absent"
    /\ \A r, s \in {q \in Requests : pc[q] \in {"offering", "issuing"}} :
        req[r].door = req[s].door => r = s

LEMMA RequestDoors ==
    ASSUME Typed, NEW r \in Requests
    PROVE  /\ pc[r] # "idle" => req[r].door \in Doors
           /\ pc[r] = "issuing" => req[r].voids \subseteq Doors
BY DEF Typed, TypeOK, RequestsAreWhole, LoginRequest, IssueRequest, OptionsRequest,
    VerifyRequest, Doors

LEMMA DoorsMove ==
    ASSUME Typed, Reserved, NEW r \in Requests, Step(r), NEW d \in Doors, door'[d] # door[d]
    PROVE  \/ /\ door[d] = "absent" /\ door'[d] = "open"
              /\ pc[r] \in {"offering", "issuing"} /\ d = req[r].door
           \/ /\ door[d] # "absent" /\ door'[d] = "spent"
              /\ \/ pc[r] = "issuing" /\ d \in req[r].voids
                 \/ pc[r] = "verified" /\ d = req[r].door
<1>1. CASE Offer(r)
  BY <1>1 DEF Offer, Reserved, Typed, TypeOK
<1>2. CASE Issue(r)
  BY <1>2 DEF Issue, Reserved, Typed, TypeOK
<1>3. CASE Enroll(r)
  BY <1>3 DEF Enroll, Reserved, AtDoor, Typed, TypeOK
<1> QED BY <1>1, <1>2, <1>3, StepFrame

\* A request that begins an insert takes a row nobody else has taken.
LEMMA RowIsFree ==
    ASSUME Typed, NEW r \in Requests, NEW d \in Doors,
           \A q \in Requests : req[q] # None => req[q].door # d,
           NEW s \in Requests, pc[s] \in {"offering", "issuing"}
    PROVE  req[s].door # d
<1>1. req[s] \in Request
  BY DEF Typed, RequestsAreWhole, Request, LoginRequest, IssueRequest
<1> QED BY <1>1, RequestAssumption DEF RequestAssumption

LEMMA ReservedByStep ==
    ASSUME Typed, Reserved, NEW r \in Requests, Step(r)
    PROVE  Reserved'
<1> USE DEF Typed, TypeOK
<1>0. \A s \in Requests : s # r => pc'[s] = pc[s] /\ req'[s] = req[s]
  BY OthersFrame
<1>1. \A s \in Requests : pc[s] # "idle" => req[s].door \in Doors
  BY RequestDoors
<1>2. \A s \in Requests : pc[s] = "issuing" => req[s].voids \subseteq Doors
  BY RequestDoors
<1>3. ASSUME NEW d \in Doors, door[d] # "absent" PROVE door'[d] # "absent"
  <2> HIDE DEF Typed, TypeOK
  <2> QED BY <1>3, DoorsMove
<1>4. ASSUME NEW s \in Requests, s # r, pc[s] \in {"offering", "issuing"}
      PROVE  door'[req[s].door] = "absent"
  <2> HIDE DEF Typed, TypeOK
  <2>1. door[req[s].door] = "absent" /\ req[s].door \in Doors
    BY <1>1, <1>4 DEF Reserved
  <2>2. ~(pc[r] \in {"offering", "issuing"} /\ req[s].door = req[r].door)
    BY <1>4 DEF Reserved
  <2> QED BY <2>1, <2>2, DoorsMove
<1>5. ASSUME NEW s \in Sessions, OfferWanted(r, s), req'[r] = [op |-> "login", door |-> s]
      PROVE  /\ req'[r].door = s /\ door'[s] = "absent"
             /\ \A q \in Requests : pc[q] \in {"offering", "issuing"} => req[q].door # s
  <2>1. \A q \in Requests : req[q] # None => req[q].door # s
    BY <1>5 DEF OfferWanted
  <2> QED BY <1>5, <2>1, RowIsFree DEF OfferWanted, rows, Doors
<1>6. ASSUME NEW c \in Codes, BeginIssue(r, c),
             req'[r] = [op |-> "issue", door |-> c,
                        voids |-> {e \in Codes : door[e] = "open" /\ UserOf[e] = UserOf[c]}]
      PROVE  /\ req'[r].door = c /\ door'[c] = "absent"
             /\ \A e \in req'[r].voids : door'[e] # "absent"
             /\ \A q \in Requests : pc[q] \in {"offering", "issuing"} => req[q].door # c
  <2>1. \A q \in Requests : req[q] # None => req[q].door # c
    BY <1>6 DEF BeginIssue
  <2>2. door' = door /\ door[c] = "absent"
    BY <1>6 DEF BeginIssue, rows
  <2> QED BY <1>6, <2>1, <2>2, RowIsFree DEF Doors
<1>7. ASSUME pc'[r] \in {"offering", "issuing"}
      PROVE  /\ door'[req'[r].door] = "absent"
             /\ pc'[r] = "issuing" => \A e \in req'[r].voids : door'[e] # "absent"
             /\ \A q \in Requests : pc[q] \in {"offering", "issuing"} => req[q].door # req'[r].door
  <2> HIDE DEF Typed, TypeOK
  <2> QED BY <1>5, <1>6, <1>7, Moves
<1>8. ASSUME pc'[r] \in AtDoor PROVE door'[req'[r].door] # "absent"
  <2>1. ASSUME NEW d \in Doors, door[d] = "open", req'[r].door = d
        PROVE  door'[req'[r].door] # "absent"
    BY <1>3, <2>1
  <2>2. ASSUME NEW d \in Doors, BeginOptions(r, d), req'[r] = [op |-> "options", door |-> d]
        PROVE  door'[req'[r].door] # "absent"
    BY <2>1, <2>2 DEF BeginOptions, IsOpen
  <2>3. ASSUME NEW d \in Doors, NEW a \in created, BeginVerify(r, d, a),
               req'[r] = [op |-> "verify", door |-> d, attestation |-> a, nonce |-> nonce[d]]
        PROVE  door'[req'[r].door] # "absent"
    BY <2>1, <2>3 DEF BeginVerify, IsOpen
  <2>4. ASSUME pc[r] = "opened", req'[r].door = req[r].door
        PROVE  door'[req'[r].door] # "absent"
    BY <1>1, <1>3, <2>4 DEF Reserved, AtDoor
  <2>5. ASSUME Verified(r), pc[r] = "opened", req'[r] = [req[r] EXCEPT !.nonce = 0]
        PROVE  req'[r].door = req[r].door
    BY <2>5 DEF Verified, RequestsAreWhole, OptionsRequest, VerifyRequest
  <2> HIDE DEF Typed, TypeOK
  <2> QED BY <1>8, <2>2, <2>3, <2>4, <2>5, Moves DEF AtDoor
<1>9. ASSUME NEW s \in Requests
      PROVE  /\ pc'[s] \in {"offering", "issuing"} => door'[req'[s].door] = "absent"
             /\ pc'[s] \in AtDoor => door'[req'[s].door] # "absent"
             /\ pc'[s] = "issuing" => \A e \in req'[s].voids : door'[e] # "absent"
  <2>1. CASE s = r
    BY <1>7, <1>8, <2>1
  <2>2. CASE s # r
    BY <1>0, <1>1, <1>2, <1>3, <1>4, <2>2 DEF Reserved, AtDoor
  <2> QED BY <2>1, <2>2
<1>10. ASSUME NEW s \in Requests, NEW q \in Requests,
              pc'[s] \in {"offering", "issuing"}, pc'[q] \in {"offering", "issuing"},
              req'[s].door = req'[q].door
       PROVE  s = q
  BY <1>0, <1>7, <1>10 DEF Reserved
<1> QED BY <1>9, <1>10 DEF Reserved

LEMMA ReservedPreserved == Typed /\ Reserved /\ [Next]_vars => Reserved'
<1> SUFFICES ASSUME Typed, Reserved, [Next]_vars PROVE Reserved'
  OBVIOUS
<1>1. CASE Environment \/ UNCHANGED vars
  <2>1. pc' = pc /\ req' = req
    BY <1>1, EnvironmentFrame
  <2>2. CASE door' = door
    BY <2>1, <2>2 DEF Reserved
  <2>3. ASSUME NEW s \in Sessions, DropSession(s) PROVE Reserved'
    <3>1. /\ door[s] # "absent" /\ door' = [door EXCEPT ![s] = "gone"]
          /\ \A d \in Doors : door'[d] = IF d = s THEN "gone" ELSE door[d]
      BY <2>3 DEF DropSession, Typed, TypeOK
    <3> QED BY <2>1, <3>1, RequestDoors DEF Reserved, AtDoor
  <2> QED BY <1>1, <2>2, <2>3, EnvironmentFrame
<1>2. ASSUME NEW r \in Requests, Step(r) PROVE Reserved'
  BY <1>2, ReservedByStep
<1> QED BY <1>1, <1>2 DEF Next, Step

LEMMA ReservedInvariant == Spec => []Reserved
<1>1. Init => Reserved
  BY DEF Init, Reserved, AtDoor
<1> QED BY <1>1, ReservedPreserved, TypedInvariant, PTL DEF Spec

-----------------------------------------------------------------------------
(* Where transactions take turns                                           *)

\* Inside a transaction.
Inside == {"issuing"} \cup AtDoor

\* What a request relies on until it commits.
TurnsHold ==
    \A r \in Requests :
        /\ pc[r] \in Inside => r \in tx
        /\ pc[r] \in AtDoor => door[req[r].door] = "open"
        /\ pc[r] = "issuing" =>
             \A e \in Codes :
                door[e] = "open" /\ UserOf[e] = UserOf[req[r].door] => e \in req[r].voids
        /\ pc[r] = "checked" /\ req[r].door \in Sessions => ~HasPasskey(UserOf[req[r].door])

OneTurn == \A r, s \in tx : r = s

OneOpenCode ==
    \A c, e \in Codes : door[c] = "open" /\ door[e] = "open" /\ UserOf[c] = UserOf[e] => c = e

UnspentIsUnused == \A d \in Doors : door[d] \in {"absent", "open"} => enrolled[d] = {}

Turns == serialized => OneTurn /\ TurnsHold /\ OneOpenCode /\ UnspentIsUnused

\* While one request changes anything, no other is inside.
LEMMA Alone ==
    ASSUME Typed, serialized, Turns, NEW r \in Requests, Step(r), ~Crash(r),
           NEW s \in Requests, s # r
    PROVE  pc[s] \notin Inside
<1>1. pc[r] \in Inside \/ tx = {}
  BY DEF Step, Login, Offer, OfferWanted, IssueCode, Issue, BeginIssue, Options, BeginOptions,
      UserChecked, UserDisabled, OfferLapsed, StoreNonce, Verify, BeginVerify, Verified,
      VerifyRefused, Enroll, Enter, MayEnter, Goto, Inside, AtDoor
<1> QED BY <1>1 DEF Turns, OneTurn, TurnsHold

LEMMA TurnsAfterCrash ==
    ASSUME Typed, serialized, Turns, NEW r \in Requests, Crash(r)
    PROVE  OneTurn' /\ TurnsHold' /\ OneOpenCode' /\ UnspentIsUnused'
<1>1. UNCHANGED <<door, owner, enrolled>> /\ tx' = tx \ {r}
  BY DEF Crash, Refused, End, Leave, rows, history
<1>2. pc'[r] = "idle" /\ \A s \in Requests : s # r => pc'[s] = pc[s] /\ req'[s] = req[s]
  BY DEF Crash, Refused, End, Typed, TypeOK
<1> QED BY <1>1, <1>2 DEF Turns, OneTurn, TurnsHold, OneOpenCode, UnspentIsUnused, HasPasskey,
        Inside, AtDoor

LEMMA TurnsTaken ==
    ASSUME Typed, serialized, Turns, NEW r \in Requests, Step(r), ~Crash(r)
    PROVE  OneTurn' /\ TurnsHold'
<1>1. OneTurn'
  <2>1. tx' = tx \/ tx' = tx \ {r} \/ (tx = {} /\ tx' = {r})
    BY Moves DEF Enter, Leave, MayEnter
  <2> QED BY <2>1 DEF Turns, OneTurn
<1>2. \A s \in Requests : s # r => pc'[s] \notin Inside
  BY Alone, OthersFrame
<1>3. pc'[r] \in Inside =>
        /\ \/ pc[r] = "idle" /\ r \in tx'
           \/ pc[r] = "opened" /\ tx' = tx
        /\ UNCHANGED <<door, owner>>
  <2>1. ASSUME NEW c \in Codes, BeginIssue(r, c) PROVE pc[r] = "idle" /\ UNCHANGED <<door, owner>>
    BY <2>1 DEF BeginIssue, Goto, rows
  <2>2. ASSUME NEW d \in Doors, BeginOptions(r, d)
        PROVE  pc[r] = "idle" /\ UNCHANGED <<door, owner>>
    BY <2>2 DEF BeginOptions, Goto, rows
  <2>3. ASSUME NEW d \in Doors, NEW a \in created, BeginVerify(r, d, a)
        PROVE  pc[r] = "idle" /\ UNCHANGED <<door, owner>>
    BY <2>3 DEF BeginVerify, Goto, rows
  <2>4. ASSUME UserChecked(r) \/ Verified(r) PROVE UNCHANGED <<door, owner>>
    BY <2>4 DEF UserChecked, Verified, rows
  <2> QED BY <2>1, <2>2, <2>3, <2>4, Moves DEF Enter, Inside, AtDoor
<1>4. pc'[r] \in Inside => r \in tx'
  BY <1>3 DEF Turns, TurnsHold, Inside, AtDoor
<1>5. pc'[r] \in AtDoor => door'[req'[r].door] = "open"
  <2>1. ASSUME NEW d \in Doors, BeginOptions(r, d), req'[r] = [op |-> "options", door |-> d]
        PROVE  door[req'[r].door] = "open"
    BY <2>1 DEF BeginOptions, IsOpen
  <2>2. ASSUME NEW d \in Doors, NEW a \in created, BeginVerify(r, d, a),
               req'[r] = [op |-> "verify", door |-> d, attestation |-> a, nonce |-> nonce[d]]
        PROVE  door[req'[r].door] = "open"
    BY <2>2 DEF BeginVerify, IsOpen
  <2>3. ASSUME Verified(r), pc[r] = "opened", req'[r] = [req[r] EXCEPT !.nonce = 0]
        PROVE  req'[r].door = req[r].door
    BY <2>3 DEF Verified, Typed, RequestsAreWhole, OptionsRequest, VerifyRequest
  <2>4. pc[r] = "opened" => door[req[r].door] = "open"
    BY DEF Turns, TurnsHold, AtDoor
  <2>5. ASSUME pc'[r] \in AtDoor PROVE door[req'[r].door] = "open"
    BY <2>1, <2>2, <2>3, <2>4, <2>5, Moves DEF AtDoor
  <2> QED BY <1>3, <2>5 DEF Inside
<1>6. ASSUME pc'[r] = "issuing", NEW e \in Codes,
             door'[e] = "open", UserOf[e] = UserOf[req'[r].door]
      PROVE  e \in req'[r].voids
  <2>1. PICK c \in Codes :
            req'[r] = [op |-> "issue", door |-> c,
                       voids |-> {x \in Codes : door[x] = "open" /\ UserOf[x] = UserOf[c]}]
    BY <1>6, Moves
  <2>2. door' = door
    BY <1>3, <1>6 DEF Inside
  <2> QED BY <1>6, <2>1, <2>2
<1>7. ASSUME pc'[r] = "checked", req'[r].door \in Sessions
      PROVE  \A k \in Creds : owner'[k] # UserOf[req'[r].door]
  <2>1. UserChecked(r) /\ req'[r] = req[r]
    BY <1>7, Moves
  <2>2. ~HasPasskey(UserOf[req[r].door]) /\ owner' = owner
    BY <1>7, <2>1 DEF UserChecked, MayAttach, rows
  <2> QED BY <2>1, <2>2 DEF HasPasskey
<1> QED BY <1>1, <1>2, <1>4, <1>5, <1>6, <1>7 DEF TurnsHold, HasPasskey, Inside, AtDoor

LEMMA CodesTaken ==
    ASSUME Typed, serialized, Turns, Reserved, NEW r \in Requests, Step(r)
    PROVE  OneOpenCode'
<1>1. ASSUME NEW c \in Codes, NEW e \in Codes,
             door'[c] = "open", door'[e] = "open", UserOf[c] = UserOf[e],
             door[c] # "open"
      PROVE  c = e
  <2>1. pc[r] \in {"offering", "issuing"} /\ c = req[r].door
    BY <1>1, DoorsMove DEF Doors
  <2>2. pc[r] = "issuing" /\ Issue(r)
    <3>1. pc[r] # "offering"
      BY <2>1, DoorsAssumption DEF Typed, RequestsAreWhole, LoginRequest, DoorsAssumption
    <3>2. door' # door
      BY <1>1
    <3>3. ~Offer(r) /\ ~Enroll(r)
      BY <2>1, <3>1 DEF Offer, Enroll
    <3> QED BY <2>1, <3>1, <3>2, <3>3, StepFrame
  <2>3. CASE e # c
    <3>1. door'[e] = IF e \in req[r].voids THEN "spent" ELSE door[e]
      BY <2>1, <2>2, <2>3 DEF Issue, Doors, Typed, TypeOK
    <3>2. door[e] = "open" /\ e \notin req[r].voids
      BY <1>1, <3>1
    <3> QED BY <1>1, <2>1, <2>2, <3>2 DEF Turns, TurnsHold
  <2> QED BY <2>3
<1>2. ASSUME NEW c \in Codes, NEW e \in Codes, door[c] = "open", door[e] = "open",
             UserOf[c] = UserOf[e]
      PROVE  c = e
  BY <1>2 DEF Turns, OneOpenCode
<1> QED BY <1>1, <1>2 DEF OneOpenCode

LEMMA UnspentTaken ==
    ASSUME Typed, serialized, Turns, Reserved, NEW r \in Requests, Step(r)
    PROVE  UnspentIsUnused'
<1> SUFFICES ASSUME NEW d \in Doors, door'[d] \in {"absent", "open"}
             PROVE  enrolled'[d] = {}
  BY DEF UnspentIsUnused
<1>1. door[d] \in {"absent", "open"}
  BY DoorsMove
<1>2. enrolled[d] = {}
  BY <1>1 DEF Turns, UnspentIsUnused
<1>3. CASE Enroll(r)
  <2>1. req[r].door \in Doors
    BY <1>3, RequestDoors DEF Enroll
  <2>2. d # req[r].door
    BY <1>3, <2>1 DEF Enroll, Typed, TypeOK
  <2> QED BY <1>2, <1>3, <2>2 DEF Enroll, Typed, TypeOK
<1>4. CASE ~Enroll(r)
  BY <1>2, <1>4, StepFrame DEF Offer, Issue, history
<1> QED BY <1>3, <1>4

LEMMA TurnsPreserved == Typed /\ Turns /\ Reserved /\ [Next]_vars => Turns'
<1> SUFFICES ASSUME Typed, Turns, Reserved, [Next]_vars, serialized' PROVE Turns'
  BY DEF Turns
<1>1. CASE Environment \/ UNCHANGED vars
  <2>1. serialized' = serialized /\ tx' = tx /\ UNCHANGED <<owner, pc, req, enrolled>>
    BY <1>1, EnvironmentFrame DEF scope
  <2>2. CASE door' = door
    BY <2>1, <2>2 DEF Turns, OneTurn, TurnsHold, OneOpenCode, UnspentIsUnused, HasPasskey
  <2>3. ASSUME NEW s \in Sessions, DropSession(s) PROVE Turns'
    <3>1. tx = {} /\ \A d \in Doors : door'[d] = IF d = s THEN "gone" ELSE door[d]
      BY <2>1, <2>3 DEF DropSession, MayEnter, Typed, TypeOK
    <3>2. \A r \in Requests : pc[r] \notin Inside
      BY <2>1, <3>1 DEF Turns, TurnsHold
    <3>3. TurnsHold'
      BY <2>1, <3>2 DEF TurnsHold, Inside, AtDoor
    <3>4. OneTurn' /\ OneOpenCode' /\ UnspentIsUnused'
      BY <2>1, <3>1 DEF Turns, OneTurn, OneOpenCode, UnspentIsUnused, Doors
    <3> QED BY <3>3, <3>4 DEF Turns
  <2> QED BY <1>1, <2>2, <2>3, EnvironmentFrame
<1>2. ASSUME NEW r \in Requests, Step(r) PROVE Turns'
  <2>1. serialized
    BY <1>2, StepFrame
  <2>2. OneTurn' /\ TurnsHold'
    BY <1>2, <2>1, TurnsTaken, TurnsAfterCrash
  <2>3. OneOpenCode' /\ UnspentIsUnused'
    BY <1>2, <2>1, CodesTaken, UnspentTaken
  <2> QED BY <2>2, <2>3 DEF Turns
<1> QED BY <1>1, <1>2 DEF Next, Step

LEMMA TurnsInvariant == Spec => []Turns
<1>1. Init => Turns
  <2> SUFFICES ASSUME Init PROVE Turns
    OBVIOUS
  <2>1. OneTurn /\ TurnsHold
    BY DEF Init, InitScope, OneTurn, TurnsHold, Inside, AtDoor
  <2>2. OneOpenCode /\ UnspentIsUnused
    BY DEF Init, OneOpenCode, UnspentIsUnused, Doors
  <2> QED BY <2>1, <2>2 DEF Turns
<1> QED BY <1>1, TurnsPreserved, ReservedInvariant, TypedInvariant, PTL DEF Spec

\* Where transactions take turns, a user never has two codes that are not consumed.
THEOREM OneCode == Spec => []OneUsableCode
<1>1. Turns => OneUsableCode
  BY DEF Turns, OneOpenCode, OneUsableCode
<1> QED BY <1>1, TurnsInvariant, PTL

\* There, a door that was used, replaced or logged out of enrolls nothing any more.
THEOREM ClosedDoors == Spec => ClosedDoorEnrollsNothing
<1>1. ASSUME Typed, Turns, [Next]_vars, serialized, NEW d \in Doors, door[d] # "open"
      PROVE  enrolled'[d] = enrolled[d]
  <2>1. CASE Environment \/ UNCHANGED vars
    BY <2>1, EnvironmentFrame
  <2>2. ASSUME NEW r \in Requests, Step(r) PROVE enrolled'[d] = enrolled[d]
    <3>1. CASE Enroll(r)
      <4>1. door[req[r].door] = "open"
        BY <1>1, <3>1 DEF Enroll, Turns, TurnsHold, AtDoor
      <4> QED BY <1>1, <3>1, <4>1 DEF Enroll, Typed, TypeOK
    <3>2. CASE ~Enroll(r)
      BY <2>2, <3>2, StepFrame DEF Offer, Issue, history
    <3> QED BY <3>1, <3>2
  <2> QED BY <1>1, <2>1, <2>2 DEF Next, Step
<1>2. Typed /\ Turns /\ [Next]_vars =>
        [serialized => \A d \in Doors : door[d] # "open" => enrolled'[d] = enrolled[d]]_vars
  BY <1>1
<1> QED BY <1>2, TypedInvariant, TurnsInvariant, PTL DEF Spec, ClosedDoorEnrollsNothing

\* There, a session's ceremony starts only for a user who has no passkey then.
THEOREM FirstPasskeys == Spec => OfferIsForFirstPasskey
<1>1. ASSUME Typed, Turns, [Next]_vars, serialized, NEW s \in Sessions,
             nonce'[s] \notin {0, nonce[s]}
      PROVE  ~HasPasskey(UserOf[s])
  <2>1. ~(Environment \/ UNCHANGED vars)
    BY <1>1, EnvironmentFrame
  <2>2. PICK r \in Requests : Step(r)
    BY <1>1, <2>1 DEF Next, Step
  <2>3. s \in Doors
    BY DEF Doors
  <2>4. ~Enroll(r)
    BY <1>1, <2>3 DEF Enroll, Typed, TypeOK
  <2>5. StoreNonce(r)
    BY <1>1, <2>2, <2>4, StepFrame
  <2>6. s = req[r].door /\ pc[r] = "checked"
    BY <1>1, <2>3, <2>5 DEF StoreNonce, Typed, TypeOK
  <2> QED BY <1>1, <2>6 DEF Turns, TurnsHold
<1>2. Typed /\ Turns /\ [Next]_vars =>
        [serialized => \A s \in Sessions :
            nonce'[s] \notin {0, nonce[s]} => ~HasPasskey(UserOf[s])]_vars
  BY <1>1
<1> QED BY <1>2, TypedInvariant, TurnsInvariant, PTL DEF Spec, OfferIsForFirstPasskey

-----------------------------------------------------------------------------
(* A door is a single-use ticket                                           *)

\* What Tickets is told of a door.
StateOf(d) == IF ~serialized THEN "absent" ELSE IF door[d] = "gone" THEN "spent" ELSE door[d]
YieldOf(d) == IF serialized THEN Cardinality(enrolled[d]) ELSE 0

LEMMA TicketStep ==
    ASSUME Typed, Turns, Reserved, [Next]_vars
    PROVE  [Tickets!Next]_(Tickets!vars)
<1> DEFINE States == [d \in Doors |-> StateOf(d)]
           Yields == [d \in Doors |-> YieldOf(d)]
<1>0. serialized' = serialized
  BY EnvironmentFrame, StepFrame DEF Next, Step, scope
<1>1. ASSUME UNCHANGED <<States, Yields>> PROVE UNCHANGED Tickets!vars
  BY <1>1 DEF Tickets!vars, StateOf, YieldOf
<1>2. CASE ~serialized
  <2>1. UNCHANGED <<States, Yields>>
    BY <1>0, <1>2 DEF StateOf, YieldOf
  <2> QED BY <1>1, <2>1
<1>3. CASE serialized /\ UNCHANGED <<door, enrolled>>
  <2>1. UNCHANGED <<States, Yields>>
    BY <1>0, <1>3 DEF StateOf, YieldOf
  <2> QED BY <1>1, <2>1
<1>4. ASSUME serialized, NEW s \in Sessions, DropSession(s)
      PROVE  Tickets!Next \/ UNCHANGED <<States, Yields>>
  <2>1. s \in Doors /\ enrolled' = enrolled /\ door[s] \in {"open", "spent"}
    BY <1>4 DEF DropSession, history, Doors
  <2>2. \A d \in Doors : door'[d] = IF d = s THEN "gone" ELSE door[d]
    BY <1>4 DEF DropSession, Typed, TypeOK
  <2>3. Yields' = Yields
    BY <1>0, <2>1 DEF YieldOf
  <2>4. States' = [States EXCEPT ![s] = "spent"]
    BY <1>0, <1>4, <2>1, <2>2 DEF StateOf
  <2>5. CASE door[s] = "open"
    <3>1. Tickets!Void(s)
      BY <1>4, <2>1, <2>3, <2>4, <2>5 DEF Tickets!Void, StateOf, YieldOf
    <3> QED BY <2>1, <3>1 DEF Tickets!Next
  <2>6. CASE door[s] = "spent"
    BY <1>4, <2>1, <2>3, <2>4, <2>6 DEF StateOf
  <2> QED BY <2>1, <2>5, <2>6
<1>5. ASSUME serialized, NEW r \in Requests, Offer(r) \/ Issue(r)
      PROVE  Tickets!Next
  <2>1. PICK t \in Doors, cancelled \in SUBSET Doors :
            t = req[r].door /\ cancelled = IF pc[r] = "issuing" THEN req[r].voids ELSE {}
    BY <1>5, RequestDoors DEF Offer, Issue
  <2>2. door[t] = "absent" /\ t \notin cancelled
    BY <1>5, <2>1 DEF Offer, Issue, Reserved
  <2>3. \A d \in Doors : door'[d] = IF d = t THEN "open"
                                   ELSE IF d \in cancelled THEN "spent" ELSE door[d]
    BY <1>5, <2>1 DEF Offer, Issue, Typed, TypeOK
  <2>4. Yields' = Yields
    BY <1>0, <1>5 DEF YieldOf, Offer, Issue, history
  <2>5. \A d \in Doors : StateOf(d)' = IF d = t THEN "open"
                                      ELSE IF d \in cancelled THEN "spent" ELSE StateOf(d)
    BY <1>0, <1>5, <2>3 DEF StateOf
  <2>6. Tickets!Issue(t, cancelled)
    BY <1>0, <1>5, <2>1, <2>2, <2>4, <2>5 DEF Tickets!Issue, StateOf, YieldOf
  <2> QED BY <2>1, <2>6 DEF Tickets!Next
<1>6. ASSUME serialized, NEW r \in Requests, Enroll(r)
      PROVE  Tickets!Next
  <2>1. PICK t \in Doors : t = req[r].door
    BY <1>6, RequestDoors DEF Enroll
  <2>2. door[t] = "open" /\ enrolled[t] = {}
    BY <1>6, <2>1 DEF Enroll, Turns, TurnsHold, UnspentIsUnused, AtDoor
  <2>3. \A d \in Doors : door'[d] = IF d = t THEN "spent" ELSE door[d]
    BY <1>6, <2>1 DEF Enroll, Typed, TypeOK
  <2>4. \A d \in Doors : enrolled'[d] = IF d = t THEN {req[r].attestation} ELSE enrolled[d]
    BY <1>6, <2>1, <2>2 DEF Enroll, Typed, TypeOK
  <2>5. YieldOf(t) = 0 /\ YieldOf(t)' = 0 + 1
    <3>1. Cardinality(enrolled[t]) = 0
      BY <2>2, FS_EmptySet
    <3>2. Cardinality(enrolled'[t]) = 1
      BY <2>4, FS_Singleton
    <3> QED BY <1>0, <1>6, <3>1, <3>2 DEF YieldOf
  <2>6. \A d \in Doors : /\ StateOf(d)' = IF d = t THEN "spent" ELSE StateOf(d)
                         /\ YieldOf(d)' = IF d = t THEN YieldOf(d) + 1 ELSE YieldOf(d)
    BY <1>0, <1>6, <2>3, <2>4, <2>5 DEF StateOf, YieldOf
  <2>7. Tickets!Use(t)
    BY <1>0, <1>6, <2>1, <2>2, <2>6 DEF Tickets!Use, StateOf, YieldOf
  <2> QED BY <2>1, <2>7 DEF Tickets!Next
<1>7. CASE Environment \/ UNCHANGED vars
  BY <1>1, <1>2, <1>3, <1>4, <1>7, EnvironmentFrame
<1>8. ASSUME NEW r \in Requests, Step(r) PROVE [Tickets!Next]_(Tickets!vars)
  BY <1>2, <1>3, <1>5, <1>6, <1>8, StepFrame
<1> QED BY <1>7, <1>8 DEF Next, Step

\* Where transactions take turns, a session's offer and an activation code are each issued
\* once, yield at most one passkey, and are spent in the step that registers it.
THEOREM DoorIsTicket == Spec => ImplementsSingleUse
<1>1. Init => Tickets!Init
  BY FS_EmptySet DEF Init, InitScope, Tickets!Init
<1> QED BY <1>1, TicketStep, TypedInvariant, TurnsInvariant, ReservedInvariant, PTL
        DEF Spec, ImplementsSingleUse, Tickets!Spec

\* What tickets promise, read off SingleUse: nothing before they are spent, and at
\* most one thing ever.
LEMMA TicketsKeepTheirWord == Tickets!Spec => []Tickets!AtMostOnce
<1> DEFINE Held == \A d \in Doors : YieldOf(d) \in Nat
<1>1. Tickets!Init => Tickets!AtMostOnce /\ Held
  <2> SUFFICES ASSUME Tickets!Init, NEW d \in Doors
               PROVE  YieldOf(d) = 0 /\ StateOf(d) = "absent"
    BY DEF Tickets!AtMostOnce, StateOf, YieldOf
  <2> QED BY DEF Tickets!Init, StateOf, YieldOf
<1>2. Tickets!AtMostOnce /\ Held /\ [Tickets!Next]_(Tickets!vars) => Tickets!AtMostOnce' /\ Held'
  <2> SUFFICES ASSUME Tickets!AtMostOnce, Held, [Tickets!Next]_(Tickets!vars)
               PROVE  Tickets!AtMostOnce' /\ Held'
    OBVIOUS
  <2>1. \A d \in Doors : YieldOf(d) <= IF StateOf(d) = "spent" THEN 1 ELSE 0
    BY DEF Tickets!AtMostOnce, StateOf, YieldOf
  <2>2. SUFFICES \A d \in Doors : YieldOf(d)' \in Nat
                     /\ YieldOf(d)' <= IF StateOf(d)' = "spent" THEN 1 ELSE 0
    BY DEF Tickets!AtMostOnce, StateOf, YieldOf
  <2>3. ASSUME NEW t \in Doors, NEW cancelled \in SUBSET Doors, Tickets!Issue(t, cancelled)
        PROVE  \A d \in Doors : /\ YieldOf(d)' = YieldOf(d)
                                /\ StateOf(d)' = "spent" \/ StateOf(d) # "spent"
    BY <2>3 DEF Tickets!Issue, StateOf, YieldOf
  <2>4. ASSUME NEW t \in Doors, Tickets!Void(t)
        PROVE  \A d \in Doors : /\ YieldOf(d)' = YieldOf(d)
                                /\ StateOf(d)' = "spent" \/ StateOf(d) # "spent"
    BY <2>4 DEF Tickets!Void, StateOf, YieldOf
  <2>5. ASSUME NEW t \in Doors, Tickets!Use(t)
        PROVE  \A d \in Doors : \/ YieldOf(d)' = YieldOf(d) /\ StateOf(d)' = StateOf(d)
                                \/ /\ StateOf(d) # "spent" /\ StateOf(d)' = "spent"
                                   /\ YieldOf(d)' = YieldOf(d) + 1
    BY <2>5 DEF Tickets!Use, StateOf, YieldOf
  <2>6. CASE UNCHANGED Tickets!vars
    <3>1. \A d \in Doors : YieldOf(d)' = YieldOf(d) /\ StateOf(d)' = StateOf(d)
      BY <2>6 DEF Tickets!vars, StateOf, YieldOf
    <3> QED BY <2>1, <3>1
  <2> QED BY <2>1, <2>3, <2>4, <2>5, <2>6 DEF Tickets!Next
<1> QED BY <1>1, <1>2, PTL DEF Tickets!Spec

\* Where transactions take turns, a door enrolls nothing while it is open and
\* one passkey at most.
THEOREM OncePerDoor ==
    Spec => [](serialized => \A d \in Doors :
                  Cardinality(enrolled[d]) <= IF door[d] \in {"spent", "gone"} THEN 1 ELSE 0)
<1>1. Tickets!AtMostOnce =>
          (serialized => \A d \in Doors :
              Cardinality(enrolled[d]) <= IF door[d] \in {"spent", "gone"} THEN 1 ELSE 0)
  BY DEF Tickets!AtMostOnce
<1> QED BY <1>1, DoorIsTicket, TicketsKeepTheirWord, PTL DEF ImplementsSingleUse

=============================================================================
