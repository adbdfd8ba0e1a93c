------------------------------- MODULE StepUp -------------------------------
(***************************************************************************)
(* The step-up of LoginService (services/login.py): a login that needs a   *)
(* second factor leaves an MfaChallenge; webauthn_options attaches a nonce *)
(* to it, and verify_webauthn or verify_mfa turns it into a session and    *)
(* then tells the PDP.                                                     *)
(*                                                                         *)
(* Each request reads the challenge, the credential and the user's access  *)
(* in separate statements of one transaction and writes at its commit; the *)
(* clock is read before the transaction begins.  A challenge stands for    *)
(* the user and the application it was issued for.                         *)
(***************************************************************************)
EXTENDS SessionScope, Integers, FiniteSets

CONSTANTS
    Challenges,
    Creds,          \* passkeys
    Users,
    Subject,        \* the user each challenge is for
    Owner,          \* the user each passkey belongs to
    Counting,       \* passkeys whose authenticator counts signatures
    MockOtp,        \* settings.mock_otp_enabled
    ChallengeTtl,   \* settings.challenge_ttl_seconds
    MaxClock,       \* bound: time units explored
    MaxNonce,       \* bound: nonces generated
    MaxSign,        \* bound: assertions per passkey
    None            \* absence of a value

ASSUME OwnersAssumption ==
    /\ Subject \in [Challenges -> Users]
    /\ Owner \in [Creds -> Users]
    /\ Counting \subseteq Creds
ASSUME StepUpAssumption ==
    /\ MockOtp \in BOOLEAN
    /\ ChallengeTtl \in Nat \ {0}
    /\ MaxClock \in Nat /\ MaxNonce \in Nat /\ MaxSign \in Nat

VARIABLES
    clock,
    state,      \* mfa_challenges: absent, open (consumed_at is null), passed,
                \* or refused (born consumed, with a denied_reason)
    expires,    \* mfa_challenges.expires_at
    nonce,      \* mfa_challenges.webauthn_challenge, 0 when null
    registered, \* the webauthn_credentials table: passkeys that are in it
    signCount,  \* webauthn_credentials.sign_count
    passes,     \* sessions inserted on behalf of each challenge
    confirms,   \* LoginConfirm calls the PDP received for each challenge
    granted,    \* challenges whose user holds a role on the application
    nonces,     \* the last nonce generated
    device,     \* the authenticators' own counters
    signed,     \* the assertions that browsers have made
    pc,         \* per request: where it is
    req,        \* per request: what it is about, and what it has read
    passedOn,   \* history: the nonce each challenge was passed on
    held        \* history: requests during which access was held

rows == <<state, expires, nonce, registered, signCount, passes>>
browser == <<device, signed>>
history == <<passedOn, held>>
vars == <<scope, clock, rows, confirms, granted, nonces, browser, pc, req, history>>

States == {"absent", "open", "passed", "refused"}

Ops == {"options", "webauthn", "otp"}

Assertion == [nonce : 1..MaxNonce, cred : Creds, count : 0..MaxSign]

(* at: the clock read before the transaction; nonce: the challenge's, as a *)
(* webauthn request, which alone carries an assertion, has read it.  What  *)
(* a request needs no longer is forgotten.                                 *)
Request == [op : Ops, challenge : Challenges, at : Nat,
            assertion : Assertion \cup {None}, nonce : 0..MaxNonce]

Init ==
    /\ InitScope
    /\ clock = 0
    /\ state = [c \in Challenges |-> "absent"]
    /\ expires = [c \in Challenges |-> 0]
    /\ nonce = [c \in Challenges |-> 0]
    /\ registered = {}
    /\ signCount = [k \in Creds |-> 0]
    /\ passes = [c \in Challenges |-> 0]
    /\ confirms = [c \in Challenges |-> 0]
    /\ granted = Challenges
    /\ nonces = 0
    /\ device = [k \in Creds |-> 0]
    /\ signed = {}
    /\ pc = [r \in Requests |-> "idle"]
    /\ req = [r \in Requests |-> None]
    /\ passedOn = [c \in Challenges |-> 0]
    /\ held = {}

-----------------------------------------------------------------------------
(* Around the requests                                                     *)

Tick ==
    /\ clock < MaxClock
    /\ clock' = clock + 1
    /\ UNCHANGED <<scope, rows, confirms, granted, nonces, browser, pc, req, history>>

(* _create_challenge, called by a login that needs a step-up; a user with  *)
(* no second factor gets a challenge that is born consumed.  Which users   *)
(* have one may have changed since, with the setting or by a passkey that  *)
(* was added or removed.                                                   *)
CreateChallenge(c, refused) ==
    /\ state[c] = "absent"
    /\ MayEnter
    /\ state' = [state EXCEPT ![c] = IF refused THEN "refused" ELSE "open"]
    /\ expires' = [expires EXCEPT ![c] = clock + ChallengeTtl]
    /\ UNCHANGED <<scope, clock, nonce, registered, signCount, passes, confirms, granted, nonces,
                   browser, pc, req, history>>

(* An operator changes a group, a role or an assignment. *)
Revoke(c) ==
    /\ c \in granted
    /\ MayEnter
    /\ granted' = granted \ {c}
    /\ UNCHANGED <<scope, clock, rows, confirms, nonces, browser, pc, req, history>>

Grant(c) ==
    /\ c \notin granted
    /\ MayEnter
    /\ granted' = granted \cup {c}
    /\ held' = held \cup {r \in Requests :
                            pc[r] \notin {"idle", "passed"} /\ req[r].challenge = c}
    /\ UNCHANGED <<scope, clock, rows, confirms, nonces, browser, pc, req, passedOn>>

(* An enrollment, possibly while a challenge of its user is open. *)
Register(k) ==
    /\ k \notin registered
    /\ MayEnter
    /\ registered' = registered \cup {k}
    /\ UNCHANGED <<scope, clock, state, expires, nonce, signCount, passes, confirms, granted,
                   nonces, browser, pc, req, history>>

(* A browser signs a nonce it was given; not every authenticator counts.   *)
Sign(k, n) ==
    /\ k \in registered
    /\ device[k] < MaxSign
    /\ n \in 1..nonces
    /\ device' = [device EXCEPT ![k] = @ + 1]
    /\ signed' = signed \cup
         {[nonce |-> n, cred |-> k, count |-> IF k \in Counting THEN device[k] + 1 ELSE 0]}
    /\ UNCHANGED <<scope, clock, rows, confirms, granted, nonces, pc, req, history>>

-----------------------------------------------------------------------------
(* The requests                                                            *)

Goto(r, from, to) == pc[r] = from /\ pc' = [pc EXCEPT ![r] = to]

(* The request answers; its transaction, if any, is over. *)
End(r) ==
    /\ pc' = [pc EXCEPT ![r] = "idle"]
    /\ req' = [req EXCEPT ![r] = None]
    /\ held' = held \ {r}
    /\ Leave(r)

(* A body may name any challenge and carry any assertion ever made, a      *)
(* repeated one included.  Ids are random: one not issued yet is not known.*)
Begin(r, o, c, a) ==
    /\ Goto(r, "idle", "begun")
    /\ state[c] # "absent"
    /\ o = "webauthn" <=> a # None
    /\ o = "otp" => MockOtp
    /\ req' = [req EXCEPT ![r] =
                 [op |-> o, challenge |-> c, at |-> clock, assertion |-> a, nonce |-> 0]]
    /\ held' = IF c \in granted THEN held \cup {r} ELSE held
    /\ UNCHANGED <<scope, clock, rows, confirms, granted, nonces, browser, passedOn>>

(* A mutant of IsOpen: consumed_at is not looked at.                       *)
IsOpenUnlessExpired(c, now) == state[c] # "absent" /\ expires[c] > now

IsOpen(c, now) == state[c] = "open" /\ expires[c] > now

(* _open_challenge *)
OpenChallenge(r) ==
    /\ Goto(r, "begun", "opened")
    /\ IsOpen(req[r].challenge, req[r].at)
    /\ Enter(r)
    /\ req' = [req EXCEPT
                 ![r].nonce = IF req[r].op = "webauthn" THEN nonce[req[r].challenge] ELSE 0,
                 ![r].at = 0]
    /\ UNCHANGED <<clock, rows, confirms, granted, nonces, browser, history>>

NotOpen(r) ==
    /\ pc[r] = "begun"
    /\ ~IsOpen(req[r].challenge, req[r].at)
    /\ MayEnter
    /\ End(r)
    /\ UNCHANGED <<clock, rows, confirms, granted, nonces, browser, passedOn>>

CredsOf(c) == {k \in registered : Owner[k] = Subject[c]}

(* webauthn_options: a new nonce replaces the previous one. *)
StoreNonce(r) ==
    LET c == req[r].challenge IN
    /\ pc[r] = "opened" /\ req[r].op = "options"
    /\ CredsOf(c) # {}
    /\ nonces < MaxNonce
    /\ nonces' = nonces + 1
    /\ nonce' = [nonce EXCEPT ![c] = nonces + 1]
    /\ End(r)
    /\ UNCHANGED <<clock, state, expires, registered, signCount, passes, confirms, granted,
                   browser, passedOn>>

NoPasskey(r) ==
    /\ pc[r] = "opened" /\ req[r].op = "options"
    /\ CredsOf(req[r].challenge) = {}
    /\ End(r)
    /\ UNCHANGED <<clock, rows, confirms, granted, nonces, browser, passedOn>>

(* Mutants of Verifies: any nonce will do; any count will do.              *)
VerifiesAnyNonce(a, c, n) ==
    /\ n # 0
    /\ a.cred \in CredsOf(c)
    /\ a.count > 0 \/ signCount[a.cred] > 0 => a.count > signCount[a.cred]

VerifiesAnyCount(a, c, n) == n # 0 /\ a.nonce = n /\ a.cred \in CredsOf(c)

(* verify_get: the signature is over this challenge's nonce, and a counter *)
(* that is in use has grown.                                               *)
Verifies(a, c, n) ==
    /\ n # 0 /\ a.nonce = n
    /\ a.cred \in CredsOf(c)
    /\ a.count > 0 \/ signCount[a.cred] > 0 => a.count > signCount[a.cred]

SecondFactorPassed(r) ==
    /\ Goto(r, "opened", "verified")
    /\ \/ req[r].op = "otp"
       \/ /\ req[r].op = "webauthn"
          /\ Verifies(req[r].assertion, req[r].challenge, req[r].nonce)
    /\ req' = [req EXCEPT ![r].nonce = 0]
    /\ UNCHANGED <<scope, clock, rows, confirms, granted, nonces, browser, history>>

(* INVALID_CREDENTIALS, or 400: the challenge stays open. *)
SecondFactorFailed(r) ==
    /\ pc[r] = "opened"
    /\ \/ req[r].op = "otp"
       \/ /\ req[r].op = "webauthn"
          /\ ~Verifies(req[r].assertion, req[r].challenge, req[r].nonce)
    /\ End(r)
    /\ UNCHANGED <<clock, rows, confirms, granted, nonces, browser, passedOn>>

(* The row's counter is written only when it changes. *)
SaveSignCount(r) ==
    signCount' = IF req[r].op = "webauthn" /\ req[r].assertion.count > 0
                 THEN [signCount EXCEPT ![req[r].assertion.cred] = req[r].assertion.count]
                 ELSE signCount

(* A mutant of AccessHeld: the password's check of access was enough.      *)
AccessAssumed(r) ==
    /\ Goto(r, "verified", "allowed")
    /\ UNCHANGED <<scope, clock, rows, confirms, granted, nonces, browser, req, history>>

(* _finish_challenge: access may have been revoked since the password. *)
AccessHeld(r) ==
    /\ Goto(r, "verified", "allowed")
    /\ req[r].challenge \in granted
    /\ UNCHANGED <<scope, clock, rows, confirms, granted, nonces, browser, req, history>>

AccessDenied(r) ==
    /\ pc[r] = "verified"
    /\ req[r].challenge \notin granted
    /\ SaveSignCount(r)
    /\ End(r)
    /\ UNCHANGED <<clock, state, expires, nonce, registered, passes, confirms, granted, nonces,
                   browser, passedOn>>

(* A mutant of Pass: the challenge is not consumed.                        *)
PassWithoutConsuming(r) ==
    LET c == req[r].challenge IN
    /\ Goto(r, "allowed", "passed")
    /\ passes' = [passes EXCEPT ![c] = @ + 1]
    /\ SaveSignCount(r)
    /\ passedOn' = [passedOn EXCEPT ![c] = IF req[r].op = "webauthn" THEN req[r].assertion.nonce ELSE 0]
    /\ req' = [req EXCEPT ![r].assertion = None]
    /\ held' = held \ {r}
    /\ Leave(r)
    /\ UNCHANGED <<clock, state, expires, nonce, registered, confirms, granted, nonces, browser>>

Pass(r) ==
    LET c == req[r].challenge IN
    /\ Goto(r, "allowed", "passed")
    /\ state' = [state EXCEPT ![c] = "passed"]
    /\ passes' = [passes EXCEPT ![c] = @ + 1]
    /\ SaveSignCount(r)
    /\ passedOn' = [passedOn EXCEPT ![c] = IF req[r].op = "webauthn" THEN req[r].assertion.nonce ELSE 0]
    /\ req' = [req EXCEPT ![r].assertion = None]
    /\ held' = held \ {r}
    /\ Leave(r)
    /\ UNCHANGED <<clock, expires, nonce, registered, confirms, granted, nonces, browser>>

(* A mutant of Confirm: sent before the commit.                            *)
ConfirmEarly(r) ==
    /\ pc[r] \in {"allowed", "passed"}
    /\ confirms' = [confirms EXCEPT ![req[r].challenge] = @ + 1]
    /\ End(r)
    /\ UNCHANGED <<clock, rows, granted, nonces, browser, passedOn>>

(* _confirm_step_up, after the commit and best effort. *)
Confirm(r) ==
    /\ pc[r] = "passed"
    /\ confirms' = [confirms EXCEPT ![req[r].challenge] = @ + 1]
    /\ End(r)
    /\ UNCHANGED <<clock, rows, granted, nonces, browser, passedOn>>

(* The login has no event (engine off), or the PDP did not answer. *)
NoConfirm(r) ==
    /\ pc[r] = "passed"
    /\ End(r)
    /\ UNCHANGED <<clock, rows, confirms, granted, nonces, browser, passedOn>>

(* The process stops, or the connection is lost: an open transaction is    *)
(* rolled back, and a confirmation not sent yet never will be.             *)
Crash(r) ==
    /\ pc[r] # "idle"
    /\ End(r)
    /\ UNCHANGED <<clock, rows, confirms, granted, nonces, browser, passedOn>>

-----------------------------------------------------------------------------

Handle(r) ==
    \/ \E o \in Ops, c \in Challenges, a \in signed \cup {None} : Begin(r, o, c, a)
    \/ OpenChallenge(r) \/ NotOpen(r)
    \/ StoreNonce(r) \/ NoPasskey(r)
    \/ SecondFactorPassed(r) \/ SecondFactorFailed(r)
    \/ AccessHeld(r) \/ AccessDenied(r)
    \/ Pass(r) \/ Confirm(r) \/ NoConfirm(r) \/ Crash(r)

Environment ==
    \/ Tick
    \/ \E c \in Challenges : Revoke(c) \/ Grant(c)
    \/ \E c \in Challenges, refused \in BOOLEAN : CreateChallenge(c, refused)
    \/ \E k \in Creds : Register(k)
    \/ \E k \in Creds, n \in 1..MaxNonce : Sign(k, n)

Next == Environment \/ \E r \in Requests : Handle(r)

Spec == Init /\ [][Next]_vars

-----------------------------------------------------------------------------
(* Properties                                                              *)

TypeOK ==
    /\ serialized \in BOOLEAN /\ tx \subseteq Requests
    /\ clock \in Nat
    /\ state \in [Challenges -> States]
    /\ expires \in [Challenges -> Nat]
    /\ nonce \in [Challenges -> 0..MaxNonce]
    /\ registered \subseteq Creds
    /\ signCount \in [Creds -> 0..MaxSign]
    /\ passes \in [Challenges -> Nat]
    /\ confirms \in [Challenges -> Nat]
    /\ granted \subseteq Challenges
    /\ nonces \in 0..MaxNonce
    /\ device \in [Creds -> 0..MaxSign]
    /\ signed \subseteq Assertion
    /\ pc \in [Requests -> {"idle", "begun", "opened", "verified", "allowed", "passed"}]
    /\ req \in [Requests -> Request \cup {None}]
    /\ passedOn \in [Challenges -> 0..MaxNonce]
    /\ held \subseteq Requests

(* A challenge is consumed in the transaction that inserts its session:    *)
(* no crash, rollback or refusal leaves one without the other, and a       *)
(* challenge refused at birth never yields a session.                      *)
ConsumedWithItsSession ==
    \A c \in Challenges : state[c] = "passed" <=> passes[c] > 0

(* One challenge, one session ("a consumed challenge cannot be reused").   *)
PassedOnce == \A c \in Challenges : passes[c] <= 1

(* Where transactions take turns, a challenge was passed with the newest   *)
(* nonce its page asked for: a superseded ceremony does not complete.      *)
PassedOnCurrentNonce ==
    serialized => \A c \in Challenges :
        state[c] = "passed" => passedOn[c] \in {0, nonce[c]}

(* The PDP learns a login from a confirmation only if the session had been *)
(* committed, and never more often than the challenge was passed.          *)
ConfirmsFollowSessions == \A c \in Challenges : confirms[c] <= passes[c]

(* A user whose role was revoked before the request, and who did not get   *)
(* it back while it ran, gets no session from a challenge opened earlier.  *)
NoSessionAfterRevoke ==
    [][\A r \in Requests : pc[r] = "allowed" /\ pc'[r] = "passed" => r \in held]_vars

(* Where transactions take turns, the stored signature counter of a        *)
(* passkey never goes back.                                                *)
SignCountGrows ==
    [][serialized => \A k \in Creds : signCount'[k] >= signCount[k]]_vars

(* The challenges are single-use tickets that yield sessions; side by      *)
(* side, two transactions may use one ticket (PassedOnce), and nothing is  *)
(* claimed.                                                                *)
Tickets == INSTANCE SingleUse WITH
    Tickets <- Challenges,
    state   <- [c \in Challenges |->
                  IF ~serialized THEN "absent"
                  ELSE IF state[c] \in {"passed", "refused"} THEN "spent" ELSE state[c]],
    yields  <- [c \in Challenges |-> IF serialized THEN passes[c] ELSE 0]

ImplementsSingleUse == Tickets!Spec

=============================================================================
