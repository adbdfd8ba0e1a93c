----------------------------- MODULE LoginPage -----------------------------
(***************************************************************************)
(* The script of the hosted login page (web/static/login.js) in one tab,   *)
(* with the sessionStorage the tab keeps across page loads.                *)
(*                                                                         *)
(* The script is event driven: a handler runs to its first await, and what *)
(* follows runs when the answer of that fetch, or of that prompt of the    *)
(* authenticator, arrives.  Nothing is ever cancelled, so an answer finds  *)
(* the page wherever the person took it in the meantime.  The variable     *)
(* "page" is what the script can read (the panel on show, its "let"        *)
(* variables, the data attributes and disabled flags of its buttons) and   *)
(* "tasks" the fetches and prompts under way.  A handler's synchronous     *)
(* part is a function from page states to page states.                     *)
(*                                                                         *)
(* Sessions, challenges and activation codes are numbered.  WebAuthn       *)
(* options are represented by what they were issued for: the challenge,    *)
(* the session or the code.  The wording of messages is left out.          *)
(***************************************************************************)
EXTENDS Naturals, FiniteSets

CONSTANTS
    Boots,          \* the boot records the server may render into the page
    MaxSessions,    \* bound: sessions signed in to, after the first
    MaxChallenges,  \* bound: challenges opened
    MaxCodes,       \* bound: activation codes typed
    MaxTasks        \* bound: fetches and prompts under way when one starts

ASSUME BootsAssumption ==
    Boots \subseteq [unknown: BOOLEAN, redirect: BOOLEAN, admin: BOOLEAN,
                     mockOtp: BOOLEAN, passkeys: BOOLEAN]
ASSUME BoundsAssumption ==
    {MaxSessions, MaxChallenges, MaxCodes, MaxTasks} \subseteq Nat

Null == 0   \* JavaScript's null, "" or missing key: numbers start at 1

VARIABLES
    boot,       \* what the server rendered, with PublicKeyCredential's presence
    page,       \* what the script sees
    tasks,      \* fetches and prompts under way
    token,      \* sessionStorage["rba.idp.session"]
    server      \* sessions issued and still valid, challenges opened

pageVars == <<boot, page, tasks, token, server>>

Panels == {"unknown", "credentials", "checking", "challenge", "blocked",
           "denied", "session", "nofactor", "enroll", "offer", "unavailable",
           "left"}
              \cup {"form", "create", "done"}   \* of the activation page
Buttons == {"login-submit", "mfa-submit", "offer-add", "activate-submit",
            "enroll-submit", "create-submit"}

Sessions == 1 .. (MaxSessions + 1)
Challenges == 1 .. MaxChallenges
Codes == 1 .. MaxCodes
Copies == 1 .. MaxTasks

\* What can be sent a second time while the first is under way -- a login, a
\* test code, a logout -- is numbered, so that each has an answer of its own.
Tasks ==
    [kind: {"login"}, nth: Copies]
        \cup [kind: {"logout"}, of: Sessions \cup {Null}, nth: Copies]
        \cup [kind: {"otp"}, of: Challenges, nth: Copies]
        \cup [kind: {"restore", "offerOptions"}, of: Sessions \cup {Null}]
        \cup [kind: {"stepUpOptions"}, of: Challenges]
        \cup [kind: {"stepUpPrompt", "stepUpVerify"}, of: Challenges, key: Challenges]
        \cup [kind: {"offerPrompt", "offerVerify"}, key: Sessions \cup {Null}]
        \cup [kind: {"activateOptions", "enrollPrompt", "createPrompt"}, of: Codes]
        \cup [kind: {"enrollVerify", "createVerify"}, of: Codes, key: Codes]

\* The tab shows the activation page, not the login page.
Activating == page.panel \in {"form", "create", "done"}

Under(kinds) == {t \in tasks : t.kind \in kinds}

-----------------------------------------------------------------------------
(* The page as it loads, and the parts of handlers that run at once.       *)

\* The page before any event: the markup's initial state and the "let"
\* variables of the script.
FreshPage ==
    [panel        |-> "credentials",
     disabled     |-> [b \in Buttons |-> FALSE],
     challengeId  |-> Null,      \* mfa-submit's data-challenge-id
     stepUpKey    |-> Null,      \* for which challenge, when there are options
     otp          |-> Null,      \* form-otp's data-challenge-id while it shows
     pendingLogin |-> Null,      \* the login whose offer is on show
     offerKey     |-> Null,      \* for which session
     code         |-> Null,      \* activationCode
     enrollKey    |-> Null]      \* for which code

Show(p, panel) == [p EXCEPT !.panel = panel]
Disable(p, b) == [p EXCEPT !.disabled[b] = TRUE]
Enable(p, b) == [p EXCEPT !.disabled[b] = FALSE]

\* continueAfterLogin: to the application, to the console, or stay.
AfterLogin(p) ==
    IF boot.redirect \/ boot.admin THEN Show(p, "left") ELSE Show(p, "session")

\* The synchronous part of prepareStepUp, before its fetch.
PrepareStepUp(p) ==
    [Disable(p, "mfa-submit") EXCEPT !.stepUpKey = Null, !.otp = Null]

\* A page that has been left runs no script: its requests are dropped.
Run(p, ts) ==
    /\ page' = IF p.panel = "left" THEN Show(FreshPage, "left") ELSE p
    /\ tasks' = IF p.panel = "left" THEN {} ELSE ts

\* The number of another fetch of a kind: the first that is free.
NextNth(kind) ==
    LET used == {t.nth : t \in Under({kind})}
    IN  {n \in Copies : n \notin used /\ 1 .. (n - 1) \subseteq used}
Login(n) == [kind |-> "login", nth |-> n]

\* What the server may answer a login or a second factor with.
Outcomes == {"UNAVAILABLE", "INVALID_CREDENTIALS", "ACCESS_DENIED", "BLOCKED",
             "SECOND_FACTOR_MISSING", "STEP_UP", "AUTHENTICATED", "OTHER"}

NewSession == server.sessions + 1
NewChallenge == server.challenges + 1

\* Mutant of PanelOf: a panel that the markup does not have.
PanelOfMisspelt(outcome) == IF outcome = "BLOCKED" THEN "block" ELSE "credentials"

\* applyOutcome's cases that only show a panel.
PanelOf(outcome) ==
    CASE outcome = "UNAVAILABLE"           -> "unavailable"
      [] outcome = "INVALID_CREDENTIALS"   -> "credentials"
      [] outcome = "ACCESS_DENIED"         -> "denied"
      [] outcome = "BLOCKED"               -> "blocked"
      [] outcome = "SECOND_FACTOR_MISSING" -> "nofactor"
      [] outcome = "OTHER"                 -> "credentials"

\* applyOutcome, in a handler that still has "rest" under way.  The server
\* opens the challenge or the session it answers with.
ShowPanel(p, rest, outcome) ==
    /\ outcome \notin {"STEP_UP", "AUTHENTICATED"}
    /\ Run(Show(p, PanelOf(outcome)), rest)
    /\ UNCHANGED <<token, server>>

AskSecondFactor(p, rest) ==
    /\ NewChallenge \in Challenges
    /\ server' = [server EXCEPT !.challenges = NewChallenge]
    /\ Run(PrepareStepUp([Show(p, "challenge") EXCEPT !.challengeId = NewChallenge]),
           rest \cup {[kind |-> "stepUpOptions", of |-> NewChallenge]})
    /\ UNCHANGED token

SignedIn(p, rest, offered) ==
    /\ NewSession \in Sessions
    /\ server' = [server EXCEPT !.sessions = NewSession, !.valid = @ \cup {NewSession}]
    /\ token' = NewSession
    /\ IF offered /\ boot.passkeys
       THEN Run([Disable(Show(p, "offer"), "offer-add")
                     EXCEPT !.pendingLogin = NewSession, !.offerKey = Null],
                rest \cup {[kind |-> "offerOptions", of |-> NewSession]})
       ELSE Run(AfterLogin(p), rest)

ApplyOutcome(p, rest, outcome) ==
    \/ ShowPanel(p, rest, outcome)
    \/ outcome = "STEP_UP" /\ AskSecondFactor(p, rest)
    \/ outcome = "AUTHENTICATED" /\ \E offered \in BOOLEAN : SignedIn(p, rest, offered)

-----------------------------------------------------------------------------
(* Loading the page, and the session an earlier visit left in the tab.     *)

\* The end of the script: restoreSession, unless it has already returned.
Loaded(b, t) ==
    /\ boot' = b
    /\ page' = [FreshPage EXCEPT !.panel = IF b.unknown THEN "unknown" ELSE @]
    /\ tasks' = IF b.unknown \/ b.redirect \/ t = Null THEN {}
                ELSE {[kind |-> "restore", of |-> t]}

\* A first visit, or one with the token of a session that may have expired.
PageInit ==
    /\ server \in [sessions: {1}, valid: {{}, {1}}, challenges: {0}]
    /\ token \in {Null, 1}
    /\ boot \in Boots
    /\ page = [FreshPage EXCEPT !.panel = IF boot.unknown THEN "unknown" ELSE @]
    /\ tasks = IF boot.unknown \/ boot.redirect \/ token = Null THEN {}
               ELSE {[kind |-> "restore", of |-> token]}

\* The person opens the page again in the same tab, or reloads it.
Load == \E b \in Boots : Loaded(b, token) /\ UNCHANGED <<token, server>>

\* restoreSession's answer.  A fetch that fails rejects and changes nothing.
RestoreAnswer ==
    \E t \in Under({"restore"}) :
        /\ boot' = boot
        /\ \/ t.of \in server.valid
              /\ Run(Show(page, "session"), tasks \ {t})
              /\ UNCHANGED token
           \/ Run(page, tasks \ {t}) /\ token' = Null      \* 401, or a 5xx
           \/ Run(page, tasks \ {t}) /\ UNCHANGED token    \* no answer
        /\ UNCHANGED server

\* A session ends at the server: it expires, or another tab logs out.
Expire ==
    \E s \in server.valid :
        /\ server' = [server EXCEPT !.valid = @ \ {s}]
        /\ UNCHANGED <<boot, page, tasks, token>>

-----------------------------------------------------------------------------
(* What the person does.  Each is possible only where it can be clicked.   *)

On(panel) == page.panel = panel /\ Cardinality(tasks) < MaxTasks /\ UNCHANGED boot

\* The submit listener of form-login.
SubmitLogin ==
    /\ On("credentials") /\ ~page.disabled["login-submit"]
    /\ \E n \in NextNth("login") :
           Run(Show(Disable(page, "login-submit"), "checking"), tasks \cup {Login(n)})
    /\ UNCHANGED <<token, server>>

\* "Usar otra cuenta", "Volver" and "Reintentar": nothing is cancelled.
Restart ==
    /\ \E panel \in {"challenge", "blocked", "denied", "unavailable", "nofactor", "enroll"} :
           On(panel)
    /\ Run([Show(page, "credentials") EXCEPT !.challengeId = Null], tasks)
    /\ UNCHANGED <<token, server>>

\* A tap on "Usar passkey": the prompt opens at once, with the options at hand.
TapStepUp ==
    /\ On("challenge") /\ ~page.disabled["mfa-submit"] /\ page.otp = Null
    /\ page.challengeId # Null /\ boot.passkeys /\ page.stepUpKey # Null
    /\ Run(Disable(page, "mfa-submit"),
           tasks \cup {[kind |-> "stepUpPrompt", of |-> page.challengeId,
                        key |-> page.stepUpKey]})
    /\ UNCHANGED <<token, server>>

\* The test code that stands in for a passkey where boot.mock_otp is set.
SubmitOtp ==
    /\ On("challenge") /\ page.otp # Null
    /\ \E n \in NextNth("otp") :
           Run(page, tasks \cup {[kind |-> "otp", of |-> page.otp, nth |-> n]})
    /\ UNCHANGED <<token, server>>

SubmitActivationCode ==
    /\ On("nofactor") /\ ~page.disabled["activate-submit"] /\ boot.passkeys
    /\ \E c \in Codes :
           Run([Disable(page, "activate-submit") EXCEPT !.code = c],
               tasks \cup {[kind |-> "activateOptions", of |-> c]})
    /\ UNCHANGED <<token, server>>

TapEnroll ==
    /\ On("enroll") /\ ~page.disabled["enroll-submit"] /\ page.enrollKey # Null
    /\ Run(Disable(page, "enroll-submit"),
           tasks \cup {[kind |-> "enrollPrompt", of |-> page.enrollKey]})
    /\ UNCHANGED <<token, server>>

TapOffer ==
    /\ On("offer") /\ ~page.disabled["offer-add"] /\ page.offerKey # Null
    /\ Run(Disable(page, "offer-add"),
           tasks \cup {[kind |-> "offerPrompt", key |-> page.offerKey]})
    /\ UNCHANGED <<token, server>>

SkipOffer ==
    /\ On("offer") /\ page.pendingLogin # Null
    /\ Run(AfterLogin(page), tasks)
    /\ UNCHANGED <<token, server>>

SubmitLogout ==
    /\ On("session")
    /\ \E n \in NextNth("logout") :
           Run(page, tasks \cup {[kind |-> "logout", of |-> token, nth |-> n]})
    /\ UNCHANGED <<token, server>>

-----------------------------------------------------------------------------
(* Answers of the server, whenever they arrive.                            *)

\* Mutant of LoginAnswer: a fetch that fails is not caught.
LoginAnswerUncaught ==
    \E t \in Under({"login"}) :
        LET p == Enable(page, "login-submit")
        IN  /\ boot' = boot
            /\ \/ \E outcome \in Outcomes : ApplyOutcome(p, tasks \ {t}, outcome)
               \/ Run(p, tasks \ {t}) /\ UNCHANGED <<token, server>>

\* The rest of the submit listener: the button comes back in any case.
LoginAnswer ==
    \E t \in Under({"login"}) :
        LET p == Enable(page, "login-submit")
            rest == tasks \ {t}
        IN  /\ boot' = boot
            /\ \/ \E outcome \in Outcomes : ApplyOutcome(p, rest, outcome)
               \/ Run(Show(p, "credentials"), rest) /\ UNCHANGED <<token, server>>
               \/ Run(Show(p, "unavailable"), rest) /\ UNCHANGED <<token, server>>

\* The rest of prepareStepUp: options, none to give, or no answer.  "finally"
\* sets the button by the variable all calls share.
StepUpOptionsAnswer ==
    \E t \in Under({"stepUpOptions"}) :
        LET p == [page EXCEPT !.disabled["mfa-submit"] = page.stepUpKey = Null]
        IN  /\ \/ Run([Enable(page, "mfa-submit") EXCEPT !.stepUpKey = t.of], tasks \ {t})
               \/ Run(IF boot.mockOtp THEN [p EXCEPT !.otp = t.of] ELSE p, tasks \ {t})
               \/ Run(p, tasks \ {t})
            /\ UNCHANGED <<boot, token, server>>

\* The rest of the tap on "Usar passkey" after the prompt: the server passes
\* only a signature over the challenge it names (StepUp's Verifies).
StepUpVerifyAnswer ==
    \E t \in Under({"stepUpVerify"}) :
        LET p == Enable(page, "mfa-submit")
            rest == tasks \ {t}
        IN  /\ boot' = boot
            /\ \/ \E outcome \in {"UNAVAILABLE", "ACCESS_DENIED", "OTHER"} :
                      ApplyOutcome(p, rest, outcome)
               \/ t.key = t.of /\ ApplyOutcome(p, rest, "AUTHENTICATED")
               \/ Run(p, rest) /\ UNCHANGED <<token, server>>

\* The rest of form-otp's listener; it does not catch a fetch that fails.
OtpAnswer ==
    \E t \in Under({"otp"}) :
        /\ boot' = boot
        /\ \/ ApplyOutcome(page, tasks \ {t}, "AUTHENTICATED")
           \/ ApplyOutcome(page, tasks \ {t}, "ACCESS_DENIED")
           \/ Run(page, tasks \ {t}) /\ UNCHANGED <<token, server>>

\* Mutant of ActivateOptionsAnswer: a refused code returns before the button is
\* enabled again.
ActivateOptionsAnswerStuck ==
    \E t \in Under({"activateOptions"}) :
        /\ ~Activating
        /\ \/ Run([Show(Enable(page, "activate-submit"), "enroll") EXCEPT !.enrollKey = t.of],
                  tasks \ {t})
           \/ Run(page, tasks \ {t})
        /\ UNCHANGED <<boot, token, server>>

\* The rest of form-activate's listener.
ActivateOptionsAnswer ==
    \E t \in Under({"activateOptions"}) :
        LET p == Enable(page, "activate-submit")
        IN  /\ ~Activating
            /\ \/ Run([Show(p, "enroll") EXCEPT !.enrollKey = t.of], tasks \ {t})
               \/ Run(p, tasks \ {t})
            /\ UNCHANGED <<boot, token, server>>

\* The rest of enroll-submit's listener after the prompt.  When the passkey is
\* stored the login is submitted again: requestSubmit asks no button, but it
\* validates the form, and one that was emptied meanwhile is not submitted.
EnrollVerifyAnswer ==
    \E t \in Under({"enrollVerify"}) :
        LET p == Enable(page, "enroll-submit")
            q == [p EXCEPT !.enrollKey = Null]
            rest == tasks \ {t}
        IN  /\ \/ /\ t.key = t.of
                  /\ \E n \in NextNth("login") :
                         Run(Show(Disable(q, "login-submit"), "checking"), rest \cup {Login(n)})
               \/ t.key = t.of /\ Run(q, rest)
               \/ Run(p, rest)
            /\ UNCHANGED <<boot, token, server>>

\* The rest of prepareOffer.  Where there is nothing to add, or no answer, the
\* login that was pending goes on.
OfferOptionsAnswer ==
    \E t \in Under({"offerOptions"}) :
        /\ \/ t.of \in server.valid
              /\ Run([Enable(page, "offer-add") EXCEPT !.offerKey = t.of], tasks \ {t})
           \/ Run(AfterLogin([page EXCEPT !.disabled["offer-add"] = page.offerKey = Null]),
                  tasks \ {t})
        /\ UNCHANGED <<boot, token, server>>

\* The rest of offer-add's listener after the prompt.
OfferVerifyAnswer ==
    \E t \in Under({"offerVerify"}) :
        LET p == Enable(page, "offer-add")
        IN  /\ \/ Run(AfterLogin(p), tasks \ {t})
               \/ Run(p, tasks \ {t})
            /\ UNCHANGED <<boot, token, server>>

\* The rest of form-logout's listener.  A fetch that fails rejects at its
\* await, and nothing after it runs.
LogoutAnswer ==
    \E t \in Under({"logout"}) :
        /\ \/ /\ \/ server' = [server EXCEPT !.valid = @ \ {t.of}]
                 \/ UNCHANGED server     \* any status will do
              /\ token' = Null
              /\ Run(Show(page, "credentials"), tasks \ {t})
           \/ /\ Run(page, tasks \ {t})
              /\ UNCHANGED <<token, server>>
        /\ UNCHANGED boot

-----------------------------------------------------------------------------
(* The authenticator's prompt: a credential over the options it was opened *)
(* with, or refused; nothing makes it ever return.                         *)

PromptAnswer ==
    \E t \in Under({"stepUpPrompt", "enrollPrompt", "offerPrompt"}) :
        /\ \/ /\ t.kind = "stepUpPrompt"
              /\ \/ Run(page, (tasks \ {t}) \cup {[t EXCEPT !.kind = "stepUpVerify"]})
                 \/ Run(Enable(page, "mfa-submit"), tasks \ {t})
           \/ /\ t.kind = "enrollPrompt"
              /\ \/ Run(page, (tasks \ {t}) \cup
                            {[kind |-> "enrollVerify", of |-> page.code, key |-> t.of]})
                 \/ Run(Enable(page, "enroll-submit"), tasks \ {t})
           \/ /\ t.kind = "offerPrompt"
              /\ \/ Run(page, (tasks \ {t}) \cup {[t EXCEPT !.kind = "offerVerify"]})
                 \/ Run(Enable(page, "offer-add"), tasks \ {t})
        /\ UNCHANGED <<boot, token, server>>

ServerAnswer ==
    \/ RestoreAnswer \/ LoginAnswer \/ StepUpOptionsAnswer \/ StepUpVerifyAnswer
    \/ OtpAnswer \/ ActivateOptionsAnswer \/ EnrollVerifyAnswer
    \/ OfferOptionsAnswer \/ OfferVerifyAnswer \/ LogoutAnswer

PageNext ==
    \/ Load \/ Expire
    \/ SubmitLogin \/ Restart \/ TapStepUp \/ SubmitOtp \/ SubmitActivationCode
    \/ TapEnroll \/ TapOffer \/ SkipOffer \/ SubmitLogout
    \/ PromptAnswer
    \/ ServerAnswer

-----------------------------------------------------------------------------
(* Properties                                                              *)

PageTypeOK ==
    /\ boot \in Boots
    /\ page \in [panel: Panels, disabled: [Buttons -> BOOLEAN],
                 challengeId: Challenges \cup {Null}, stepUpKey: Challenges \cup {Null},
                 otp: Challenges \cup {Null}, pendingLogin: Sessions \cup {Null},
                 offerKey: Sessions \cup {Null}, code: Codes \cup {Null},
                 enrollKey: Codes \cup {Null}]
    /\ tasks \subseteq Tasks
    /\ token \in Sessions \cup {Null}
    /\ server \in [sessions: Sessions, valid: SUBSET Sessions,
                   challenges: Challenges \cup {0}]

\* A button is disabled only while something it waits for is under way, or
\* while there are no options it could use: no path through the handlers,
\* their early returns and their failures leaves a button dead.
NoDeadButton ==
    /\ page.disabled["login-submit"] => Under({"login"}) # {}
    /\ page.disabled["mfa-submit"] =>
           \/ page.stepUpKey = Null
           \/ Under({"stepUpOptions", "stepUpPrompt", "stepUpVerify"}) # {}
    /\ page.disabled["offer-add"] =>
           \/ page.offerKey = Null
           \/ Under({"offerOptions", "offerPrompt", "offerVerify"}) # {}
    /\ page.disabled["activate-submit"] => Under({"activateOptions"}) # {}
    /\ page.disabled["enroll-submit"] => Under({"enrollPrompt", "enrollVerify"}) # {}
    /\ page.disabled["create-submit"] => Under({"createPrompt", "createVerify"}) # {}

\* The scanning ring does not stay: whatever the server answers, or if it
\* does not, the page shows where the login went.
CheckingEnds == page.panel = "checking" ~> page.panel # "checking"

=============================================================================
