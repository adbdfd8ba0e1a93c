---------------------------- MODULE ActivatePage ----------------------------
(***************************************************************************)
(* The script of the activation page (web/static/activate.js), which may   *)
(* be opened in the tab of the login page: the same state, and the same    *)
(* two endpoints as the login page's second door.  Its "code" and          *)
(* "publicKey" are page.code and page.enrollKey, which a page load resets. *)
(* The first tap checks the code and fetches the options, the second goes  *)
(* straight to the prompt.                                                 *)
(***************************************************************************)
EXTENDS LoginPage

\* The link of the console, or the address typed.
OpenActivation ==
    /\ page' = Show(FreshPage, "form")
    /\ tasks' = {}
    /\ UNCHANGED <<boot, token, server>>

\* Mutant of SubmitCode: the form stays usable beside the prompt.
SubmitCodeBeside ==
    /\ On("form") \/ On("create")
    /\ ~page.disabled["activate-submit"] /\ boot.passkeys
    /\ \E c \in Codes :
           Run([Disable(page, "activate-submit") EXCEPT !.code = c],
               tasks \cup {[kind |-> "activateOptions", of |-> c]})
    /\ UNCHANGED <<token, server>>

\* The submit listener of form-activate, to its fetch.
SubmitCode ==
    /\ On("form") /\ ~page.disabled["activate-submit"] /\ boot.passkeys
    /\ \E c \in Codes :
           Run([Disable(page, "activate-submit") EXCEPT !.code = c],
               tasks \cup {[kind |-> "activateOptions", of |-> c]})
    /\ UNCHANGED <<token, server>>

\* The rest of it.
CodeAnswer ==
    \E t \in Under({"activateOptions"}) :
        LET p == Enable(page, "activate-submit")
        IN  /\ Activating
            /\ \/ Run([Show(p, "create") EXCEPT !.enrollKey = t.of], tasks \ {t})
               \/ Run(p, tasks \ {t})
            /\ UNCHANGED <<boot, token, server>>

\* The click listener of create-submit, to the prompt.
TapCreate ==
    /\ On("create") /\ ~page.disabled["create-submit"] /\ page.enrollKey # Null
    /\ Run(Disable(page, "create-submit"),
           tasks \cup {[kind |-> "createPrompt", of |-> page.enrollKey]})
    /\ UNCHANGED <<token, server>>

\* The prompt's answer: the code is read now, the options were read at the tap.
CreatePromptAnswer ==
    \E t \in Under({"createPrompt"}) :
        /\ \/ Run(page, (tasks \ {t}) \cup
                      {[kind |-> "createVerify", of |-> page.code, key |-> t.of]})
           \/ Run(Enable(page, "create-submit"), tasks \ {t})
        /\ UNCHANGED <<boot, token, server>>

\* The rest of the click listener.
CreateVerifyAnswer ==
    \E t \in Under({"createVerify"}) :
        LET p == Enable(page, "create-submit")
        IN  /\ \/ t.key = t.of /\ Run(Show(p, "done"), tasks \ {t})
               \/ Run(p, tasks \ {t})
            /\ UNCHANGED <<boot, token, server>>

PagesNext ==
    \/ PageNext
    \/ OpenActivation \/ SubmitCode \/ CodeAnswer
    \/ TapCreate \/ CreatePromptAnswer \/ CreateVerifyAnswer

\* The browser answers a login: with the server's answer or with a failure.
\* Nothing is assumed of the person or of the authenticator.
PagesSpec == PageInit /\ [][PagesNext]_pageVars /\ WF_pageVars(LoginAnswer)

-----------------------------------------------------------------------------
(* Property                                                                *)

\* The code the activation page sends with a new passkey is the one whose
\* options the passkey was made for, although it is read only after the
\* prompt: nothing on the page can change it by then.  (The login page's
\* second door has a way back, and there it can.)
PasskeyGoesWithItsCode == \A t \in Under({"createVerify"}) : t.of = t.key

=============================================================================
