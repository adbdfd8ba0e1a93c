------------------------------ MODULE Callback ------------------------------
(***************************************************************************)
(* Sessions and callback codes of LoginService (services/login.py).  A     *)
(* completed sign-in inserts a session, whose token the hosted page holds, *)
(* and, when the application asked to be called back, an AuthCode bound to *)
(* it.  exchange_code turns the code into the application's own token: the *)
(* session is replaced by one with a fresh token and the same expiry.      *)
(* logout deletes the session of the token it is given.                    *)
(*                                                                         *)
(* A login stands for one completed sign-in: one user, one application, at *)
(* most one code.  Only hashes are stored; a token here stands for both.   *)
(***************************************************************************)
EXTENDS SessionScope, Integers, FiniteSets

CONSTANTS
    Logins,         \* completed sign-ins
    Tokens,         \* bearer tokens, random and never issued twice
    SessionTtl,     \* settings.session_ttl_seconds
    CallbackTtl,    \* settings.callback_ttl_seconds
    MaxClock,       \* bound: time units explored
    None            \* absence of a value

ASSUME CallbackAssumption ==
    /\ SessionTtl \in Nat \ {0} /\ CallbackTtl \in Nat \ {0}
    /\ MaxClock \in Nat
    /\ None \notin [token : Tokens, expires : Nat, consumed : BOOLEAN]

VARIABLES
    clock,
    sessions,   \* the sessions table: per token, its row or None
    codes,      \* the auth_codes table: per login, its row or None
    issued,     \* tokens drawn so far
    enabled,    \* logins whose user is enabled
    exchanges,  \* tokens handed to applications, per login
    pc,         \* per request: where it is
    req,        \* per request: what it is about
    completed,  \* history: the logins that signed in
    ended,      \* history: logins one of whose sessions a logout deleted
    held        \* history: requests during which the user was enabled

rows == <<sessions, codes, issued, exchanges>>
history == <<completed, ended, held>>
vars == <<scope, clock, rows, enabled, pc, req, history>>

Session == [login : Logins, expires : Nat]

Code == [token : Tokens, expires : Nat, consumed : BOOLEAN]

(* expires: of the session row an exchange has read, 0 before it did. *)
Request ==
    [op : {"exchange"}, login : Logins, at : Nat, expires : Nat]
    \cup [op : {"logout"}, token : Tokens]

Init ==
    /\ InitScope
    /\ clock = 0
    /\ sessions = [t \in Tokens |-> None]
    /\ codes = [l \in Logins |-> None]
    /\ issued = {}
    /\ enabled = Logins
    /\ exchanges = [l \in Logins |-> 0]
    /\ pc = [r \in Requests |-> "idle"]
    /\ req = [r \in Requests |-> None]
    /\ completed = {}
    /\ ended = {}
    /\ held = {}

Live(t, now) == sessions[t] # None /\ sessions[t].expires > now

Tick ==
    /\ clock < MaxClock
    /\ clock' = clock + 1
    /\ UNCHANGED <<scope, rows, enabled, pc, req, history>>

-----------------------------------------------------------------------------
(* The sign-in commits its session and, if the redirect matches the one    *)
(* registered, its code in one transaction: _persist_session and           *)
(* _persist_callback.                                                      *)

SignIn(l, t, callback) ==
    /\ l \notin completed
    /\ t \notin issued
    /\ MayEnter
    /\ issued' = issued \cup {t}
    /\ sessions' = [sessions EXCEPT ![t] = [login |-> l, expires |-> clock + SessionTtl]]
    /\ codes' = IF callback
                THEN [codes EXCEPT ![l] = [token |-> t, expires |-> clock + CallbackTtl,
                                           consumed |-> FALSE]]
                ELSE codes
    /\ completed' = completed \cup {l}
    /\ UNCHANGED <<scope, clock, exchanges, enabled, pc, req, ended, held>>

(* patch_user: an operator disables the user of a login, or enables them.  *)
Disable(l) ==
    /\ l \in enabled
    /\ MayEnter
    /\ enabled' = enabled \ {l}
    /\ UNCHANGED <<scope, clock, rows, pc, req, history>>

Enable(l) ==
    /\ l \notin enabled
    /\ MayEnter
    /\ enabled' = enabled \cup {l}
    /\ held' = held \cup {r \in Requests :
                            /\ pc[r] \in {"exchange", "code read", "session read", "rotating"}
                            /\ req[r].login = l}
    /\ UNCHANGED <<scope, clock, rows, pc, req, completed, ended>>

-----------------------------------------------------------------------------
(* The requests                                                            *)

Goto(r, from, to) == pc[r] = from /\ pc' = [pc EXCEPT ![r] = to]

End(r) ==
    /\ pc' = [pc EXCEPT ![r] = "idle"]
    /\ req' = [req EXCEPT ![r] = None]
    /\ held' = held \ {r}
    /\ Leave(r)

(* exchange_code: the clock is read before the transaction begins. *)
BeginExchange(r, l) ==
    /\ Goto(r, "idle", "exchange")
    /\ req' = [req EXCEPT ![r] =
                 [op |-> "exchange", login |-> l, at |-> clock, expires |-> 0]]
    /\ held' = IF l \in enabled THEN held \cup {r} ELSE held
    /\ UNCHANGED <<scope, clock, rows, enabled, completed, ended>>

Redeemable(l, now) == codes[l] # None /\ ~codes[l].consumed /\ codes[l].expires > now

ReadCode(r) ==
    /\ Goto(r, "exchange", "code read")
    /\ Redeemable(req[r].login, req[r].at)
    /\ Enter(r)
    /\ UNCHANGED <<clock, rows, enabled, req, history>>

(* A mutant of ReadSession: a session that is gone is opened afresh.       *)
ReadSessionOrRenew(r) ==
    LET t == codes[req[r].login].token IN
    /\ Goto(r, "code read", "session read")
    /\ req' = [req EXCEPT ![r].expires =
                  IF Live(t, req[r].at) THEN sessions[t].expires ELSE clock + SessionTtl]
    /\ UNCHANGED <<scope, clock, rows, enabled, history>>

(* The session the code was issued with, which the exchange replaces. *)
ReadSession(r) ==
    LET t == codes[req[r].login].token IN
    /\ Goto(r, "code read", "session read")
    /\ Live(t, req[r].at)
    /\ req' = [req EXCEPT ![r].expires = sessions[t].expires]
    /\ UNCHANGED <<scope, clock, rows, enabled, history>>

(* A mutant of ReadUser: the sign-in's check of the user was enough.       *)
ReadUserUnchecked(r) ==
    /\ Goto(r, "session read", "rotating")
    /\ UNCHANGED <<scope, clock, rows, enabled, req, history>>

ReadUser(r) ==
    /\ Goto(r, "session read", "rotating")
    /\ req[r].login \in enabled
    /\ UNCHANGED <<scope, clock, rows, enabled, req, history>>

(* 400 "unknown or expired code", whichever of them is missing. *)
ExchangeRefused(r) ==
    LET l == req[r].login IN
    /\ \/ pc[r] = "exchange" /\ ~Redeemable(l, req[r].at) /\ MayEnter
       \/ pc[r] = "code read" /\ ~Live(codes[l].token, req[r].at)
       \/ pc[r] = "session read" /\ l \notin enabled
    /\ End(r)
    /\ UNCHANGED <<clock, rows, enabled, completed, ended>>

(* Mutants of Rotate: the page's session stays; the code is not consumed.  *)
RotateKeepingOld(r, t) ==
    LET l == req[r].login IN
    /\ pc[r] = "rotating" /\ t \notin issued
    /\ issued' = issued \cup {t}
    /\ codes' = [codes EXCEPT ![l].consumed = TRUE]
    /\ sessions' = [sessions EXCEPT ![t] = [login |-> l, expires |-> req[r].expires]]
    /\ exchanges' = [exchanges EXCEPT ![l] = @ + 1]
    /\ End(r)
    /\ UNCHANGED <<clock, enabled, completed, ended>>

RotateWithoutConsuming(r, t) ==
    LET l == req[r].login IN
    /\ pc[r] = "rotating" /\ t \notin issued
    /\ issued' = issued \cup {t}
    /\ sessions' = [sessions EXCEPT ![t] = [login |-> l, expires |-> req[r].expires]]
    /\ exchanges' = [exchanges EXCEPT ![l] = @ + 1]
    /\ End(r)
    /\ UNCHANGED <<clock, codes, enabled, completed, ended>>

(* The commit; deleting a row that is already gone deletes nothing. *)
Rotate(r, t) ==
    LET l == req[r].login IN
    /\ pc[r] = "rotating"
    /\ t \notin issued
    /\ issued' = issued \cup {t}
    /\ codes' = [codes EXCEPT ![l].consumed = TRUE]
    /\ sessions' = [sessions EXCEPT
                      ![t] = [login |-> l, expires |-> req[r].expires],
                      ![codes[l].token] = None]
    /\ exchanges' = [exchanges EXCEPT ![l] = @ + 1]
    /\ End(r)
    /\ UNCHANGED <<clock, enabled, completed, ended>>

(* logout: a token that is unknown is not an error. *)
BeginLogout(r, t) ==
    /\ pc[r] = "idle"
    /\ t \in issued
    /\ Enter(r)
    /\ sessions[t] # None
    /\ pc' = [pc EXCEPT ![r] = "deleting"]
    /\ req' = [req EXCEPT ![r] = [op |-> "logout", token |-> t]]
    /\ UNCHANGED <<clock, rows, enabled, history>>

DeleteSession(r) ==
    LET t == req[r].token IN
    /\ pc[r] = "deleting"
    /\ sessions' = [sessions EXCEPT ![t] = None]
    /\ ended' = IF sessions[t] = None THEN ended ELSE ended \cup {sessions[t].login}
    /\ End(r)
    /\ UNCHANGED <<clock, codes, issued, exchanges, enabled, completed>>

(* The process stops or the connection is lost: the rollback. *)
Crash(r) ==
    /\ pc[r] # "idle"
    /\ End(r)
    /\ UNCHANGED <<clock, rows, enabled, completed, ended>>

-----------------------------------------------------------------------------

Exchange(r) ==
    \/ \E l \in Logins : BeginExchange(r, l)
    \/ ReadCode(r) \/ ReadSession(r) \/ ReadUser(r) \/ ExchangeRefused(r)
    \/ \E t \in Tokens : Rotate(r, t)

Logout(r) == DeleteSession(r) \/ \E t \in Tokens : BeginLogout(r, t)

Environment ==
    \/ Tick
    \/ \E l \in Logins : Disable(l) \/ Enable(l)
    \/ \E l \in Logins, t \in Tokens, callback \in BOOLEAN : SignIn(l, t, callback)

Next == Environment \/ \E r \in Requests : Exchange(r) \/ Logout(r) \/ Crash(r)

Spec == Init /\ [][Next]_vars

-----------------------------------------------------------------------------
(* Properties                                                              *)

TypeOK ==
    /\ serialized \in BOOLEAN /\ tx \subseteq Requests
    /\ clock \in 0..MaxClock
    /\ sessions \in [Tokens -> Session \cup {None}]
    /\ codes \in [Logins -> Code \cup {None}]
    /\ issued \subseteq Tokens
    /\ enabled \subseteq Logins
    /\ exchanges \in [Logins -> Nat]
    /\ pc \in [Requests -> {"idle", "exchange", "code read", "session read", "rotating",
                            "deleting"}]
    /\ req \in [Requests -> Request \cup {None}]
    /\ completed \subseteq Logins
    /\ ended \subseteq Logins
    /\ held \subseteq Requests

(* Where transactions take turns, a sign-in has at most one working token  *)
(* at any time.                                                            *)
OneSessionPerLogin ==
    serialized => \A t, u \in Tokens :
        sessions[t] # None /\ sessions[u] # None /\ sessions[t].login = sessions[u].login
            => t = u

(* Where transactions take turns, logging out of a sign-in leaves no token *)
(* of it, and none that its code could still be turned into.               *)
LogoutEndsLogin ==
    serialized => \A t \in Tokens : sessions[t] # None => sessions[t].login \notin ended

(* An application gets no token for a user who was disabled before it      *)
(* asked and stayed disabled until it was answered.                        *)
NoTokenForDisabled ==
    [][\A l \in Logins : exchanges'[l] > exchanges[l] =>
          \E r \in held : pc[r] = "rotating" /\ pc'[r] = "idle" /\ req[r].login = l]_vars

(* A callback code is a single-use ticket for an application's token; the  *)
(* code of a session that was deleted or has expired is as good as open,   *)
(* but never used.  Side by side, two transactions may use one code, and   *)
(* nothing is claimed.                                                     *)
Tickets == INSTANCE SingleUse WITH
    Tickets <- Logins,
    state   <- [l \in Logins |->
                  IF ~serialized \/ codes[l] = None THEN "absent"
                  ELSE IF codes[l].consumed THEN "spent" ELSE "open"],
    yields  <- [l \in Logins |-> IF serialized THEN exchanges[l] ELSE 0]

ImplementsSingleUse == Tickets!Spec

=============================================================================
