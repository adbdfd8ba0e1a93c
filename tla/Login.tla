------------------------------- MODULE Login -------------------------------
(***************************************************************************)
(* The password step of LoginService (services/login.py): login and        *)
(* console_login find the tenant, _authenticate checks the password and    *)
(* asks the risk engine, _enforce applies what it answered.                *)
(*                                                                         *)
(* A login spreads over up to four transactions and two calls to the PDP,  *)
(* and the directory changes between any two of its steps.  One            *)
(* application is modelled (the tenant's console is another instance of    *)
(* it) and what the page is told is not: only what a login leaves behind.  *)
(***************************************************************************)
EXTENDS SessionScope

CONSTANTS
    Users,
    MockOtp,            \* settings.mock_otp_enabled
    UnavailableAction,  \* settings.pdp_unavailable_action
    None                \* absence of a value

ASSUME LoginAssumption ==
    /\ MockOtp \in BOOLEAN
    /\ UnavailableAction \in {"REQUIRE_MFA", "REAUTHENTICATE"}

VARIABLES
    appEnabled,     \* applications.enabled
    appFloor,       \* applications.always_passkey
    enabled,        \* users.enabled
    userFloor,      \* users.always_passkey
    granted,        \* users with a role on the application
    passkeys,       \* users with a passkey; none is ever deleted
    offs,           \* the actions that base_policy mapped to, in the offs of
                    \* the tenant whose engine_mode was OFF
    session,        \* the row each request inserted, with whether it may enroll
    challenge,      \* the row each request inserted, with whether it is a refusal
    pc,             \* per request: where it is
    req,            \* per request: its body and its locals
    seen,           \* history: what was the case while each request ran
    verdict         \* history: what the PDP answered to each request

directory == <<appEnabled, appFloor, enabled, userFloor, granted, passkeys>>
left == <<session, challenge>>
history == <<seen, verdict>>
vars == <<scope, directory, offs, left, pc, req, history>>

Actions == {"ALLOW", "REQUIRE_MFA", "REAUTHENTICATE", "BLOCK"}

(* What PASSWORD_ONLY and ALWAYS_MFA map to. *)
BaseActions == {"ALLOW", "REQUIRE_MFA"}

(* What the engine judged, what to enforce of it in the tenant's mode, and *)
(* whether it could not score and took the policy's fallback_action, which *)
(* may be any action, ALLOW included.                                      *)
Verdict == [action : Actions, enforced : Actions, fallback : BOOLEAN]

ASSUME VerdictAssumption == None \notin Verdict

Request == [user : Users, password : {"right", "wrong"}, floor : BOOLEAN,
            action : Actions \cup {None}, usual : BOOLEAN, enroll : BOOLEAN]

PCs == {"idle", "begun", "routed", "password checked", "wrong password", "read policy",
        "evaluate", "enforce", "sign in", "step up", "refuse", "answered"}

(* What matters to the login of u, as it is now. *)
Standing(u) ==
    {fact \in {"app enabled", "enabled", "granted", "app free", "user free", "free",
               "no passkey"} :
        \/ fact = "app enabled" /\ appEnabled
        \/ fact = "enabled" /\ u \in enabled
        \/ fact = "granted" /\ u \in granted
        \/ fact = "app free" /\ ~appFloor
        \/ fact = "user free" /\ u \notin userFloor
        \/ fact = "free" /\ ~appFloor /\ u \notin userFloor
        \/ fact = "no passkey" /\ u \notin passkeys}

Init ==
    /\ InitScope
    /\ appEnabled = TRUE /\ appFloor = FALSE
    /\ enabled = Users /\ userFloor = {} /\ granted = Users /\ passkeys = {}
    /\ offs = {}
    /\ session = [r \in Requests |-> None]
    /\ challenge = [r \in Requests |-> None]
    /\ pc = [r \in Requests |-> "idle"]
    /\ req = [r \in Requests |-> None]
    /\ seen = [r \in Requests |-> {}]
    /\ verdict = [r \in Requests |-> None]

-----------------------------------------------------------------------------
(* What operators and other requests do meanwhile                          *)

Toggle(u, S) == IF u \in S THEN S \ {u} ELSE S \cup {u}

(* patch_application, patch_user, the groups and roles, an enrollment. *)
ChangeDirectory ==
    /\ MayEnter
    /\ \/ appEnabled' = ~appEnabled /\ UNCHANGED <<appFloor, enabled, userFloor, granted, passkeys>>
       \/ appFloor' = ~appFloor /\ UNCHANGED <<appEnabled, enabled, userFloor, granted, passkeys>>
       \/ \E u \in Users :
            \/ /\ enabled' = Toggle(u, enabled)
               /\ UNCHANGED <<appEnabled, appFloor, userFloor, granted, passkeys>>
            \/ /\ userFloor' = Toggle(u, userFloor)
               /\ UNCHANGED <<appEnabled, appFloor, enabled, granted, passkeys>>
            \/ /\ granted' = Toggle(u, granted)
               /\ UNCHANGED <<appEnabled, appFloor, enabled, userFloor, passkeys>>
            \/ /\ passkeys' = passkeys \cup {u}
               /\ UNCHANGED <<appEnabled, appFloor, enabled, userFloor, granted>>
    /\ UNCHANGED <<scope, offs, left, pc, req, verdict>>
    /\ seen' = [r \in Requests |->
                  IF pc[r] = "idle" THEN {} ELSE seen[r] \cup Standing(req[r].user)']

(* put_policy, of this replica or another, turns the engine off; turning   *)
(* it on again takes nothing from what a cache may still answer.           *)
SaveOffPolicy(base) ==
    /\ offs' = offs \cup {base}
    /\ UNCHANGED <<scope, directory, left, pc, req, history>>

-----------------------------------------------------------------------------
(* The login                                                               *)

Goto(r, from, to) == pc[r] = from /\ pc' = [pc EXCEPT ![r] = to]

(* The request answers; its transaction, if any, is over. *)
End(r) ==
    /\ pc' = [pc EXCEPT ![r] = "idle"]
    /\ req' = [req EXCEPT ![r] = None]
    /\ seen' = [seen EXCEPT ![r] = {}]
    /\ verdict' = [verdict EXCEPT ![r] = None]
    /\ Leave(r)

Begin(r, u, password) ==
    /\ Goto(r, "idle", "begun")
    /\ req' = [req EXCEPT ![r] = [user |-> u, password |-> password, floor |-> FALSE,
                                  action |-> None, usual |-> FALSE, enroll |-> FALSE]]
    /\ seen' = [seen EXCEPT ![r] = Standing(u)]
    /\ session' = [session EXCEPT ![r] = None]
    /\ challenge' = [challenge EXCEPT ![r] = None]
    /\ UNCHANGED <<scope, directory, offs, verdict>>

(* The first transaction: the application, or the console of the domain's  *)
(* tenant, must be enabled.                                                *)
Route(r) ==
    /\ Goto(r, "begun", "routed")
    /\ MayEnter
    /\ appEnabled
    /\ UNCHANGED <<scope, directory, offs, left, req, history>>

(* The second: the user, then a slow hash, then the application's floor    *)
(* and the user's roles.                                                   *)
CheckPassword(r) ==
    LET q == req[r] IN
    /\ Goto(r, "routed",
            IF q.password = "right" THEN "password checked" ELSE "wrong password")
    /\ q.user \in enabled
    /\ IF q.password = "right" THEN Enter(r) ELSE MayEnter /\ UNCHANGED scope
    /\ req' = [req EXCEPT ![r].floor = q.user \in userFloor]
    /\ UNCHANGED <<directory, offs, left, history>>

(* Mutants of CheckAccess: no role is needed; the application's floor      *)
(* replaces the user's.                                                    *)
CheckNoAccess(r) ==
    /\ Goto(r, "password checked", "read policy")
    /\ req' = [req EXCEPT ![r].floor = @ \/ appFloor]
    /\ Leave(r)
    /\ UNCHANGED <<directory, offs, left, history>>

CheckAccessAppFloorOnly(r) ==
    /\ Goto(r, "password checked", "read policy")
    /\ req[r].user \in granted
    /\ req' = [req EXCEPT ![r].floor = appFloor]
    /\ Leave(r)
    /\ UNCHANGED <<directory, offs, left, history>>

CheckAccess(r) ==
    /\ Goto(r, "password checked", "read policy")
    /\ req[r].user \in granted
    /\ req' = [req EXCEPT ![r].floor = @ \/ appFloor]
    /\ Leave(r)
    /\ UNCHANGED <<directory, offs, left, history>>

(* 400, INVALID_CREDENTIALS or ACCESS_DENIED. *)
TurnedAway(r) ==
    /\ \/ pc[r] = "begun" /\ ~appEnabled /\ MayEnter
       \/ pc[r] = "routed" /\ req[r].user \notin enabled /\ MayEnter
       \/ pc[r] = "password checked" /\ req[r].user \notin granted
    /\ End(r)
    /\ UNCHANGED <<directory, offs, left>>

(* A mutant of Floor: a name that is no Action.                            *)
FloorMisnamed(action, always) == IF always /\ action = "ALLOW" THEN "MFA" ELSE action

(* _floor *)
Floor(action, always) == IF always /\ action = "ALLOW" THEN "REQUIRE_MFA" ELSE action

(* TenantPolicyCache.get answers with a policy that the PDP holds or held, *)
(* or with none (PolicyRegister).                                          *)
PolicyIsOff(r, base) ==
    /\ Goto(r, "read policy", "enforce")
    /\ base \in offs
    /\ req' = [req EXCEPT ![r].action = Floor(base, req[r].floor)]
    /\ UNCHANGED <<scope, directory, offs, left, history>>

PolicyIsNotOff(r) ==
    /\ Goto(r, "read policy", "evaluate")
    /\ UNCHANGED <<scope, directory, offs, left, req, history>>

(* _report_failed_login, unless the engine is off: best effort, and its    *)
(* answer is discarded.                                                    *)
WrongPassword(r) ==
    /\ pc[r] = "wrong password"
    /\ End(r)
    /\ UNCHANGED <<directory, offs, left>>

(* A mutant of Evaluate: _enforce does not ask whether it was a fallback.  *)
EvaluateFallbackUsual(r, v) ==
    /\ Goto(r, "evaluate", "enforce")
    /\ verdict' = [verdict EXCEPT ![r] = v]
    /\ req' = [req EXCEPT ![r].action = Floor(v.enforced, req[r].floor),
                          ![r].usual = v.action = "ALLOW"]
    /\ UNCHANGED <<scope, directory, offs, left, seen>>

(* The PDP answers.  Usual is what _enforce asks of the answer before it   *)
(* looks for a passkey.                                                    *)
Evaluate(r, v) ==
    /\ Goto(r, "evaluate", "enforce")
    /\ verdict' = [verdict EXCEPT ![r] = v]
    /\ req' = [req EXCEPT ![r].action = Floor(v.enforced, req[r].floor),
                          ![r].usual = v.action = "ALLOW" /\ ~v.fallback]
    /\ UNCHANGED <<scope, directory, offs, left, seen>>

(* A mutant of EvaluateFails: an engine that does not answer lets in.      *)
EvaluateFailsOpen(r) ==
    /\ Goto(r, "evaluate", "enforce")
    /\ req' = [req EXCEPT ![r].action = Floor("ALLOW", req[r].floor)]
    /\ UNCHANGED <<scope, directory, offs, left, history>>

(* _degraded_decision: a step-up, marked as a fallback and so never usual. *)
EvaluateFails(r) ==
    /\ Goto(r, "evaluate", "enforce")
    /\ req' = [req EXCEPT ![r].action = Floor(UnavailableAction, req[r].floor)]
    /\ UNCHANGED <<scope, directory, offs, left, history>>

(* _enforce looks for a passkey in a transaction of its own. *)
DecideOffer(r) ==
    /\ Goto(r, "enforce", "sign in")
    /\ req[r].action = "ALLOW"
    /\ req[r].usual => MayEnter
    /\ req' = [req EXCEPT ![r].enroll = req[r].usual /\ req[r].user \notin passkeys]
    /\ UNCHANGED <<scope, directory, offs, left, history>>

HasSecondFactor(u) == MockOtp \/ u \in passkeys

(* A mutant of DecideStepUp: nobody looks for a second factor.             *)
DecideStepUpBlindly(r) ==
    /\ Goto(r, "enforce", "step up")
    /\ req[r].action \in {"REQUIRE_MFA", "REAUTHENTICATE"}
    /\ UNCHANGED <<scope, directory, offs, left, req, history>>

DecideStepUp(r) ==
    /\ Goto(r, "enforce", IF HasSecondFactor(req[r].user) THEN "step up" ELSE "refuse")
    /\ req[r].action \in {"REQUIRE_MFA", "REAUTHENTICATE"}
    /\ MockOtp \/ MayEnter
    /\ UNCHANGED <<scope, directory, offs, left, req, history>>

Blocked(r) ==
    /\ pc[r] = "enforce"
    /\ req[r].action = "BLOCK"
    /\ End(r)
    /\ UNCHANGED <<directory, offs, left>>

(* _create_session_with_callback *)
CreateSession(r) ==
    /\ Goto(r, "sign in", "answered")
    /\ MayEnter
    /\ session' = [session EXCEPT ![r] = [user |-> req[r].user, enroll |-> req[r].enroll]]
    /\ UNCHANGED <<scope, directory, offs, challenge, req, history>>

(* _create_challenge; a refusal is born consumed. *)
CreateChallenge(r) ==
    /\ pc[r] \in {"step up", "refuse"}
    /\ MayEnter
    /\ pc' = [pc EXCEPT ![r] = "answered"]
    /\ challenge' = [challenge EXCEPT ![r] =
                        [user |-> req[r].user, refused |-> pc[r] = "refuse"]]
    /\ UNCHANGED <<scope, directory, offs, session, req, history>>

(* The answer; or the process stops, or an open transaction is lost. *)
Answer(r) ==
    /\ pc[r] # "idle"
    /\ End(r)
    /\ UNCHANGED <<directory, offs, left>>

-----------------------------------------------------------------------------

Handle(r) ==
    \/ \E u \in Users, password \in {"right", "wrong"} : Begin(r, u, password)
    \/ Route(r) \/ CheckPassword(r) \/ CheckAccess(r) \/ TurnedAway(r) \/ WrongPassword(r)
    \/ PolicyIsNotOff(r) \/ \E base \in BaseActions : PolicyIsOff(r, base)
    \/ EvaluateFails(r) \/ \E v \in Verdict : Evaluate(r, v)
    \/ DecideOffer(r) \/ DecideStepUp(r) \/ Blocked(r)
    \/ CreateSession(r) \/ CreateChallenge(r) \/ Answer(r)

Next ==
    \/ ChangeDirectory
    \/ \E base \in BaseActions : SaveOffPolicy(base)
    \/ \E r \in Requests : Handle(r)

Spec == Init /\ [][Next]_vars

-----------------------------------------------------------------------------
(* Properties                                                              *)

TypeOK ==
    /\ serialized \in BOOLEAN /\ tx \subseteq Requests
    /\ appEnabled \in BOOLEAN /\ appFloor \in BOOLEAN
    /\ enabled \subseteq Users /\ userFloor \subseteq Users
    /\ granted \subseteq Users /\ passkeys \subseteq Users
    /\ offs \subseteq BaseActions
    /\ session \in [Requests -> [user : Users, enroll : BOOLEAN] \cup {None}]
    /\ challenge \in [Requests -> [user : Users, refused : BOOLEAN] \cup {None}]
    /\ pc \in [Requests -> PCs]
    /\ req \in [Requests -> Request \cup {None}]
    /\ seen \in [Requests -> SUBSET {"app enabled", "enabled", "granted", "app free",
                                     "user free", "free", "no passkey"}]
    /\ verdict \in [Requests -> Verdict \cup {None}]

SignsIn(r) == session[r] = None /\ session'[r] # None

(* A password alone opens a session only for a user who was enabled, with  *)
(* a role on an application that was enabled, and whom neither the user's  *)
(* nor the application's always_passkey asked for more -- each of them at  *)
(* some moment of that login, whatever operators changed before or after.  *)
SignInNeedsStanding ==
    [][\A r \in Requests : SignsIn(r) =>
          /\ req[r].password = "right"
          /\ {"app enabled", "enabled", "granted", "app free", "user free"} \subseteq seen[r]]_vars

(* Where transactions take turns, both flags were off at one moment: a     *)
(* passkey that is always asked for by one or the other cannot be skipped  *)
(* by a login that reads them one after the other.                         *)
AlwaysPasskeyIsFloor ==
    [][serialized => \A r \in Requests : SignsIn(r) => "free" \in seen[r]]_vars

(* Fail closed: a password alone opens a session only if the PDP said to   *)
(* enforce ALLOW for this very login, or if some policy of the tenant      *)
(* turned the engine off with a base policy that asks for nothing.  An     *)
(* engine that does not answer, or whose answer is lost, never does it; an *)
(* engine that answers with a fallback does only if it says ALLOW.         *)
SignInWasAllowed ==
    [][\A r \in Requests : SignsIn(r) =>
          \/ verdict[r] # None /\ verdict[r].enforced = "ALLOW"
          \/ "ALLOW" \in offs]_vars

(* Only a login the engine itself judged usual, of a user without a        *)
(* passkey, may enroll: not a risky verdict that monitor mode lets         *)
(* through, not a fallback -- the IdP's own or one the engine answered     *)
(* with, even if its action is ALLOW -- and not an engine that is off.     *)
OfferFollowsUsualLogin ==
    [][\A r \in Requests : SignsIn(r) /\ session'[r].enroll =>
          /\ verdict[r] # None /\ verdict[r].action = "ALLOW" /\ ~verdict[r].fallback
          /\ "no passkey" \in seen[r]]_vars

(* A challenge that is left open can be answered: its user has a second    *)
(* factor, whatever happened since the login looked.                       *)
OpenChallengesCanBeAnswered ==
    \A r \in Requests :
        challenge[r] # None /\ ~challenge[r].refused => HasSecondFactor(challenge[r].user)

=============================================================================
