--------------------------- MODULE CallbackProofs ---------------------------
(***************************************************************************)
(* Theorems about Callback, for any number of requests, sign-ins and       *)
(* tokens and any lifetimes: its types, what holds on either engine, and,  *)
(* where transactions take turns, that a sign-in has one working token and *)
(* that its code is a single-use ticket for another.                       *)
(***************************************************************************)
EXTENDS Callback, TLAPS

\* In the transaction of an exchange; and in any.
Reading == {"code read", "session read", "rotating"}
Inside == Reading \cup {"deleting"}

ExchangeRequest == [op : {"exchange"}, login : Logins, at : Nat, expires : Nat]
LogoutRequest == [op : {"logout"}, token : Tokens]

\* A request knows what it is about, and a code that was found stays there.
RequestsAreWhole ==
    \A r \in Requests :
        /\ pc[r] \in Reading \cup {"exchange"} => req[r] \in ExchangeRequest
        /\ pc[r] \in Reading => codes[req[r].login] # None
        /\ pc[r] = "deleting" => req[r] \in LogoutRequest

Typed == TypeOK /\ RequestsAreWhole

Step(r) == Exchange(r) \/ Logout(r) \/ Crash(r)

-----------------------------------------------------------------------------
(* What a step leaves alone.                                               *)

\* Only these write the tables.
LEMMA StepKeepsRows ==
    ASSUME [Next]_vars
    PROVE  /\ serialized' = serialized
           /\ \/ UNCHANGED <<rows, completed, ended>>
              \/ \E l \in Logins, t \in Tokens, callback \in BOOLEAN : SignIn(l, t, callback)
              \/ \E r \in Requests, t \in Tokens : Rotate(r, t)
              \/ \E r \in Requests : DeleteSession(r)
<1> USE DEF scope, history
<1>1. CASE Environment
  BY <1>1 DEF Environment, Tick, Disable, Enable, SignIn
<1>2. ASSUME NEW r \in Requests, Exchange(r)
      PROVE  /\ serialized' = serialized
             /\ UNCHANGED <<rows, completed, ended>> \/ \E t \in Tokens : Rotate(r, t)
  BY <1>2 DEF Exchange, BeginExchange, ReadCode, ReadSession, ReadUser, ExchangeRefused, Rotate,
              End, Leave, Enter
<1>3. ASSUME NEW r \in Requests, Logout(r)
      PROVE  /\ serialized' = serialized
             /\ UNCHANGED <<rows, completed, ended>> \/ DeleteSession(r)
  BY <1>3 DEF Logout, BeginLogout, DeleteSession, End, Leave, Enter
<1>4. ASSUME NEW r \in Requests, Crash(r)
      PROVE  serialized' = serialized /\ UNCHANGED <<rows, completed, ended>>
  BY <1>4 DEF Crash, End, Leave
<1>5. CASE UNCHANGED vars
  BY <1>5 DEF vars
<1> QED BY <1>1, <1>2, <1>3, <1>4, <1>5 DEF Next

\* What is around the requests leaves them where they are.
LEMMA RequestsKept ==
    ASSUME Environment \/ UNCHANGED vars
    PROVE  pc' = pc /\ req' = req /\ tx' = tx
BY DEF Environment, Tick, Disable, Enable, SignIn, vars, scope

\* So does a request's step with the other requests.
LEMMA OthersKept ==
    ASSUME Typed, NEW r \in Requests, Step(r), NEW s \in Requests, s # r
    PROVE  /\ pc'[s] = pc[s] /\ req'[s] = req[s]
           /\ s \in held' <=> s \in held
           /\ s \in tx' <=> s \in tx
<1> USE DEF Typed, TypeOK, Goto, scope, history, End, Leave, Enter
<1>1. CASE \E l \in Logins : BeginExchange(r, l)
  BY <1>1 DEF BeginExchange
<1>2. CASE ReadCode(r) \/ ReadSession(r) \/ ReadUser(r)
  BY <1>2 DEF ReadCode, ReadSession, ReadUser
<1>3. CASE ExchangeRefused(r) \/ \E t \in Tokens : Rotate(r, t)
  BY <1>3 DEF ExchangeRefused, Rotate
<1>4. CASE Logout(r) \/ Crash(r)
  BY <1>4 DEF Logout, BeginLogout, DeleteSession, Crash
<1> QED BY <1>1, <1>2, <1>3, <1>4 DEF Step, Exchange

-----------------------------------------------------------------------------
(* Types.                                                                  *)

\* A request that ends keeps the types, if the tables keep theirs.
LEMMA EndTyped ==
    ASSUME Typed, NEW r \in Requests, End(r), UNCHANGED <<clock, enabled, completed>>,
           sessions' \in [Tokens -> Session \cup {None}],
           codes' \in [Logins -> Code \cup {None}],
           \A l \in Logins : codes[l] # None => codes'[l] # None,
           issued' \subseteq Tokens, exchanges' \in [Logins -> Nat], ended' \subseteq Logins
    PROVE  Typed'
<1>1. TypeOK'
  BY DEF Typed, TypeOK, End, Leave
<1>2. RequestsAreWhole'
  BY DEF Typed, TypeOK, RequestsAreWhole, End, Reading, ExchangeRequest
<1> QED BY <1>1, <1>2 DEF Typed

LEMMA TypePreserved == Typed /\ [Next]_vars => Typed'
<1> SUFFICES ASSUME Typed, [Next]_vars PROVE Typed'
  OBVIOUS
<1> USE CallbackAssumption DEF CallbackAssumption
<1> USE DEF scope, rows, history, Goto
<1>0. clock \in Nat /\ MaxClock \in Nat /\ SessionTtl \in Nat /\ CallbackTtl \in Nat
  <2>1. clock \in 0..MaxClock
    BY DEF Typed, TypeOK
  <2> QED BY <2>1
<1>1. CASE Tick
  <2>1. clock' \in 0..MaxClock
    BY <1>0, <1>1 DEF Tick
  <2>2. TypeOK'
    BY <1>1, <2>1 DEF Tick, Typed, TypeOK
  <2>3. RequestsAreWhole'
    BY <1>1 DEF Tick, Typed, RequestsAreWhole
  <2> QED BY <2>2, <2>3 DEF Typed
<1>2. ASSUME NEW l \in Logins, Disable(l) \/ Enable(l) PROVE Typed'
  BY <1>2 DEF Disable, Enable, Typed, TypeOK, RequestsAreWhole
<1>3. ASSUME NEW l \in Logins, NEW t \in Tokens, NEW callback \in BOOLEAN, SignIn(l, t, callback)
      PROVE  Typed'
  <2> DEFINE row  == [login |-> l, expires |-> clock + SessionTtl]
             code == [token |-> t, expires |-> clock + CallbackTtl, consumed |-> FALSE]
  <2>1. row \in Session /\ code \in Code
    BY <1>0 DEF Session, Code
  <2>2. code # None
    BY <2>1 DEF Code
  <2>3. sessions' = [sessions EXCEPT ![t] = row] /\ codes' \in {codes, [codes EXCEPT ![l] = code]}
    BY <1>3 DEF SignIn
  <2> HIDE DEF row, code
  <2>4. /\ sessions' \in [Tokens -> Session \cup {None}] /\ codes' \in [Logins -> Code \cup {None}]
        /\ \A m \in Logins : codes[m] # None => codes'[m] # None
    BY <2>1, <2>2, <2>3 DEF Typed, TypeOK
  <2>5. TypeOK'
    BY <1>3, <2>4 DEF SignIn, Typed, TypeOK
  <2>6. RequestsAreWhole'
    BY <1>3, <2>4 DEF SignIn, Typed, RequestsAreWhole, ExchangeRequest, Reading
  <2> QED BY <2>5, <2>6 DEF Typed
<1>4. ASSUME NEW r \in Requests, NEW l \in Logins, BeginExchange(r, l) PROVE Typed'
  <2> DEFINE q == [op |-> "exchange", login |-> l, at |-> clock, expires |-> 0]
  <2>1. q \in ExchangeRequest
    BY <1>0 DEF ExchangeRequest
  <2>2. req' = [req EXCEPT ![r] = q] /\ pc' = [pc EXCEPT ![r] = "exchange"]
    BY <1>4 DEF BeginExchange
  <2> HIDE DEF q
  <2>3. RequestsAreWhole'
    BY <1>4, <2>1, <2>2 DEF BeginExchange, Typed, TypeOK, RequestsAreWhole, Reading
  <2>4. q \in Request
    BY <2>1 DEF Request, ExchangeRequest
  <2>5. req' \in [Requests -> Request \cup {None}]
    BY <2>2, <2>4 DEF Typed, TypeOK
  <2>6. held' \subseteq Requests
    BY <1>4 DEF BeginExchange, Typed, TypeOK
  <2> QED BY <1>4, <2>2, <2>3, <2>5, <2>6 DEF BeginExchange, Typed, TypeOK
<1>5. ASSUME NEW r \in Requests, ReadCode(r) \/ ReadUser(r) PROVE Typed'
  <2>1. RequestsAreWhole'
    BY <1>5 DEF ReadCode, ReadUser, Redeemable, Typed, TypeOK, RequestsAreWhole, Reading
  <2> QED BY <1>5, <2>1 DEF ReadCode, ReadUser, Enter, Typed, TypeOK
<1>6. ASSUME NEW r \in Requests, ReadSession(r) PROVE Typed'
  <2> DEFINE t == codes[req[r].login].token
             q == [req[r] EXCEPT !.expires = sessions[t].expires]
  <2>1. req[r] \in ExchangeRequest /\ codes[req[r].login] # None
    BY <1>6 DEF ReadSession, Typed, RequestsAreWhole, Reading
  <2>2. t \in Tokens /\ sessions[t] # None
    BY <1>6, <2>1 DEF ReadSession, Live, ExchangeRequest, Typed, TypeOK, Code
  <2>3. sessions[t].expires \in Nat
    BY <2>2 DEF Typed, TypeOK, Session
  <2>4. q \in ExchangeRequest /\ q.login = req[r].login
    BY <2>1, <2>3 DEF ExchangeRequest
  <2>5. req' = [req EXCEPT ![r] = q] /\ pc' = [pc EXCEPT ![r] = "session read"]
    BY <1>6 DEF ReadSession, Typed, TypeOK
  <2> HIDE DEF q
  <2>6. RequestsAreWhole'
    BY <1>6, <2>1, <2>4, <2>5 DEF ReadSession, Typed, TypeOK, RequestsAreWhole, Reading
  <2>7. req' \in [Requests -> Request \cup {None}]
    BY <2>4, <2>5 DEF Typed, TypeOK, Request, ExchangeRequest
  <2> QED BY <1>6, <2>5, <2>6, <2>7 DEF ReadSession, Typed, TypeOK
<1>7. ASSUME NEW r \in Requests, ExchangeRefused(r) \/ Crash(r) PROVE Typed'
  BY <1>7, EndTyped DEF ExchangeRefused, Crash, Typed, TypeOK
<1>8. ASSUME NEW r \in Requests, NEW t \in Tokens, Rotate(r, t) PROVE Typed'
  <2> DEFINE l    == req[r].login
             row  == [login |-> l, expires |-> req[r].expires]
             code == [codes[l] EXCEPT !.consumed = TRUE]
  <2>1. req[r] \in ExchangeRequest /\ codes[l] # None
    BY <1>8 DEF Rotate, Typed, RequestsAreWhole, Reading
  <2>2. l \in Logins /\ row \in Session
    BY <2>1 DEF ExchangeRequest, Session
  <2>3. codes[l] \in Code
    BY <2>1, <2>2 DEF Typed, TypeOK
  <2>4. code \in Code /\ code # None
    BY <2>3 DEF Code
  <2>5. /\ sessions' = [sessions EXCEPT ![t] = row, ![codes[l].token] = None]
        /\ codes' = [codes EXCEPT ![l] = code]
        /\ exchanges' = [exchanges EXCEPT ![l] = exchanges[l] + 1]
        /\ issued' = issued \cup {t} /\ End(r) /\ UNCHANGED <<clock, enabled, completed, ended>>
    BY <1>8 DEF Rotate, Typed, TypeOK
  <2> HIDE DEF l, row, code
  <2>6. sessions' \in [Tokens -> Session \cup {None}] /\ codes' \in [Logins -> Code \cup {None}]
    BY <2>2, <2>4, <2>5 DEF Typed, TypeOK
  <2>7. \A m \in Logins : codes[m] # None => codes'[m] # None
    BY <2>2, <2>4, <2>5 DEF Typed, TypeOK
  <2>8. issued' \subseteq Tokens /\ ended' \subseteq Logins /\ exchanges \in [Logins -> Nat]
    BY <2>5 DEF Typed, TypeOK
  <2>9. exchanges' \in [Logins -> Nat]
    BY <2>2, <2>5, <2>8
  <2> QED BY <2>5, <2>6, <2>7, <2>8, <2>9, EndTyped
<1>9. ASSUME NEW r \in Requests, NEW t \in Tokens, BeginLogout(r, t) PROVE Typed'
  <2> DEFINE q == [op |-> "logout", token |-> t]
  <2>1. q \in LogoutRequest
    BY DEF LogoutRequest
  <2>2. req' = [req EXCEPT ![r] = q] /\ pc' = [pc EXCEPT ![r] = "deleting"]
    BY <1>9 DEF BeginLogout
  <2> HIDE DEF q
  <2>3. RequestsAreWhole'
    BY <1>9, <2>1, <2>2 DEF BeginLogout, Typed, TypeOK, RequestsAreWhole, Reading
  <2>4. req' \in [Requests -> Request \cup {None}]
    BY <2>1, <2>2 DEF Typed, TypeOK, Request, LogoutRequest
  <2> QED BY <1>9, <2>2, <2>3, <2>4 DEF BeginLogout, Enter, Typed, TypeOK
<1>10. ASSUME NEW r \in Requests, DeleteSession(r) PROVE Typed'
  <2>1. req[r].token \in Tokens
    BY <1>10 DEF DeleteSession, Typed, RequestsAreWhole, LogoutRequest
  <2>2. sessions' \in [Tokens -> Session \cup {None}] /\ ended' \subseteq Logins
    BY <1>10, <2>1 DEF DeleteSession, Typed, TypeOK, Session
  <2> QED BY <1>10, <2>2, EndTyped DEF DeleteSession, Typed, TypeOK
<1>11. CASE UNCHANGED vars
  BY <1>11 DEF vars, Typed, TypeOK, RequestsAreWhole
<1> QED
  BY <1>1, <1>2, <1>3, <1>4, <1>5, <1>6, <1>7, <1>8, <1>9, <1>10, <1>11
  DEF Next, Environment, Exchange, Logout

LEMMA TypedInvariant == Spec => []Typed
<1>1. Init => Typed
  BY CallbackAssumption
  DEF Init, InitScope, Typed, TypeOK, RequestsAreWhole, CallbackAssumption, Reading
<1> QED BY <1>1, TypePreserved, PTL DEF Spec

\* The tables, the requests and the histories keep their types on either
\* engine: a request never works on a code or a session that was not found.
THEOREM Typing == Spec => []TypeOK
<1>1. Typed => TypeOK
  BY DEF Typed
<1> QED BY <1>1, TypedInvariant, PTL

-----------------------------------------------------------------------------
(* On either engine                                                        *)

\* An exchange that may still hand out a token, and whose user is enabled or
\* was found to be, has seen the user enabled.
HeldIsKnown ==
    \A r \in Requests :
        /\ pc[r] = "rotating" => r \in held
        /\ pc[r] \in Reading \cup {"exchange"} /\ req[r].login \in enabled => r \in held

LEMMA HeldPreserved == Typed /\ HeldIsKnown /\ [Next]_vars => HeldIsKnown'
<1> SUFFICES ASSUME Typed, HeldIsKnown, [Next]_vars, NEW s \in Requests
             PROVE  /\ pc'[s] = "rotating" => s \in held'
                    /\ pc'[s] \in Reading \cup {"exchange"} /\ req'[s].login \in enabled'
                           => s \in held'
  BY DEF HeldIsKnown, Reading
<1> USE DEF HeldIsKnown
<1>1. CASE Environment \/ UNCHANGED vars
  <2>1. pc' = pc /\ req' = req
    BY <1>1, RequestsKept
  <2>2. CASE held' = held /\ enabled' \subseteq enabled
    BY <2>1, <2>2
  <2>3. ASSUME NEW l \in Logins, Enable(l)
        PROVE  /\ held \subseteq held' /\ enabled' = enabled \cup {l}
               /\ pc[s] \in Reading \cup {"exchange"} /\ req[s].login = l => s \in held'
    BY <2>3 DEF Enable, Reading
  <2>4. (held' = held /\ enabled' \subseteq enabled) \/ \E l \in Logins : Enable(l)
    BY <1>1 DEF Environment, Tick, Disable, SignIn, vars, history
  <2> QED BY <2>1, <2>2, <2>3, <2>4
<1>2. ASSUME NEW r \in Requests, Step(r)
      PROVE  enabled' = enabled
  BY <1>2 DEF Step, Exchange, Logout, BeginExchange, ReadCode, ReadSession, ReadUser,
              ExchangeRefused, Rotate, BeginLogout, DeleteSession, Crash
<1>3. ASSUME NEW r \in Requests, Step(r), s # r
      PROVE  pc'[s] = pc[s] /\ req'[s] = req[s] /\ (s \in held' <=> s \in held)
  BY <1>3, OthersKept
<1>4. CASE Step(s)
  <2> USE DEF Typed, TypeOK, Goto, history, Reading
  <2>1. ASSUME NEW l \in Logins, BeginExchange(s, l)
        PROVE  pc'[s] = "exchange" /\ (req'[s].login \in enabled' => s \in held')
    <3>1. req'[s].login = l /\ pc'[s] = "exchange"
      BY <2>1 DEF BeginExchange
    <3>2. enabled' = enabled /\ (l \in enabled => s \in held')
      BY <2>1 DEF BeginExchange
    <3> QED BY <3>1, <3>2
  <2>2. CASE ReadCode(s) \/ ReadUser(s)
    BY <2>2 DEF ReadCode, ReadUser
  <2>3. CASE ReadSession(s)
    <3>1. req'[s].login = req[s].login
      BY <2>3 DEF ReadSession, RequestsAreWhole, ExchangeRequest
    <3>2. pc[s] = "code read" /\ pc'[s] = "session read" /\ enabled' = enabled /\ held' = held
      BY <2>3 DEF ReadSession
    <3> QED BY <3>1, <3>2
  <2>4. CASE End(s)
    BY <2>4 DEF End
  <2>5. CASE \E t \in Tokens : BeginLogout(s, t)
    BY <2>5 DEF BeginLogout
  <2> QED BY <1>4, <2>1, <2>2, <2>3, <2>4, <2>5
          DEF Step, Exchange, Logout, ExchangeRefused, Rotate, DeleteSession, Crash
<1> QED BY <1>1, <1>2, <1>3, <1>4 DEF Next, Step

\* On either engine, an application is handed no token for a user who was
\* disabled before it asked and stayed so: exchange_code looks at the user
\* again, whatever the sign-in saw.
THEOREM Disabled == Spec => NoTokenForDisabled
<1>1. Init => HeldIsKnown
  BY DEF Init, HeldIsKnown, Reading
<1>2. ASSUME Typed, HeldIsKnown, [Next]_vars, NEW l \in Logins, exchanges'[l] > exchanges[l]
      PROVE  \E r \in held : pc[r] = "rotating" /\ pc'[r] = "idle" /\ req[r].login = l
  <2>1. exchanges' # exchanges
    <3>1. exchanges[l] \in Nat
      BY <1>2 DEF Typed, TypeOK
    <3> QED BY <1>2, <3>1
  <2>2. PICK r \in Requests, t \in Tokens : Rotate(r, t)
    BY <1>2, <2>1, StepKeepsRows DEF rows, SignIn, DeleteSession
  <2>3. pc[r] = "rotating" /\ pc'[r] = "idle" /\ r \in held
    BY <1>2, <2>2 DEF Rotate, End, Typed, TypeOK, HeldIsKnown
  <2>4. exchanges' = [exchanges EXCEPT ![req[r].login] = @ + 1]
    BY <2>2 DEF Rotate
  <2>5. req[r].login = l
    <3>1. req[r].login # l => exchanges'[l] = exchanges[l]
      BY <1>2, <2>4 DEF Typed, TypeOK
    <3>2. exchanges[l] \in Nat
      BY <1>2 DEF Typed, TypeOK
    <3> QED BY <1>2, <3>1, <3>2
  <2> QED BY <2>3, <2>5
<1>3. Typed /\ HeldIsKnown /\ [Next]_vars =>
        [\A l \in Logins : exchanges'[l] > exchanges[l] =>
            \E r \in held : pc[r] = "rotating" /\ pc'[r] = "idle" /\ req[r].login = l]_vars
  BY <1>2
<1> QED BY <1>1, <1>3, HeldPreserved, TypedInvariant, PTL DEF Spec, NoTokenForDisabled

\* Tokens are issued once, to sign-ins that took place, and a code is bound to
\* the session of its own sign-in.
TokensAreOwned ==
    /\ \A t \in Tokens : sessions[t] # None => t \in issued /\ sessions[t].login \in completed
    /\ \A l \in Logins : codes[l] # None =>
           /\ l \in completed /\ codes[l].token \in issued
           /\ sessions[codes[l].token] # None => sessions[codes[l].token].login = l
    /\ ended \subseteq completed

LEMMA OwnershipPreserved == Typed /\ TokensAreOwned /\ [Next]_vars => TokensAreOwned'
<1> SUFFICES ASSUME Typed, TokensAreOwned, [Next]_vars PROVE TokensAreOwned'
  OBVIOUS
<1> USE DEF TokensAreOwned
<1>1. CASE UNCHANGED <<rows, completed, ended>>
  BY <1>1 DEF rows
<1>2. ASSUME NEW l \in Logins, NEW t \in Tokens, NEW callback \in BOOLEAN, SignIn(l, t, callback)
      PROVE  TokensAreOwned'
  BY <1>2 DEF SignIn, Typed, TypeOK, Code
<1>3. ASSUME NEW r \in Requests, NEW t \in Tokens, Rotate(r, t) PROVE TokensAreOwned'
  <2> DEFINE l == req[r].login
  <2>1. l \in Logins /\ codes[l] # None
    BY <1>3 DEF Rotate, Typed, RequestsAreWhole, ExchangeRequest, Reading
  <2>2. codes[l] \in Code /\ codes[l].token # t /\ l \in completed
    BY <1>3, <2>1 DEF Rotate, Typed, TypeOK
  <2>3. \A m \in Logins : codes'[m] # None =>
            codes[m] # None /\ codes'[m].token = codes[m].token /\ codes[m].token \in Tokens
    BY <1>3, <2>1, <2>2 DEF Rotate, Typed, TypeOK, Code
  <2>4. \A u \in Tokens : u # t => sessions'[u] \in {sessions[u], None}
    BY <1>3 DEF Rotate, Typed, TypeOK
  <2>5. sessions'[t].login = l /\ t \notin issued
    BY <1>3, <2>2 DEF Rotate, Typed, TypeOK
  <2>6. issued' = issued \cup {t} /\ completed' = completed /\ ended' = ended
    BY <1>3 DEF Rotate
  <2> HIDE DEF l
  <2> QED BY <2>2, <2>3, <2>4, <2>5, <2>6
<1>4. ASSUME NEW r \in Requests, DeleteSession(r) PROVE TokensAreOwned'
  <2>1. req[r].token \in Tokens
    BY <1>4 DEF DeleteSession, Typed, RequestsAreWhole, LogoutRequest
  <2>2. /\ \A u \in Tokens : sessions'[u] \in {sessions[u], None}
        /\ ended' \subseteq completed
    BY <1>4, <2>1 DEF DeleteSession, Typed, TypeOK
  <2>3. UNCHANGED <<codes, issued, completed>>
    BY <1>4 DEF DeleteSession
  <2>4. \A l \in Logins : codes[l] # None => codes[l].token \in Tokens
    BY DEF Typed, TypeOK, Code
  <2> QED BY <2>2, <2>3, <2>4
<1> QED BY <1>1, <1>2, <1>3, <1>4, StepKeepsRows
-----------------------------------------------------------------------------
(* Where transactions take turns                                           *)

\* One request is inside at a time, so the code that it found is still open,
\* and the session that it found still there.
Turns ==
    serialized =>
        /\ \A r \in Requests : pc[r] \in Inside => r \in tx
        /\ \A r, s \in tx : r = s
        /\ \A r \in Requests : pc[r] \in Reading => ~codes[req[r].login].consumed
        /\ \A r \in Requests : pc[r] \in {"session read", "rotating"} =>
               sessions[codes[req[r].login].token] # None

LEMMA TurnsPreserved == Typed /\ TokensAreOwned /\ Turns /\ [Next]_vars => Turns'
<1> SUFFICES ASSUME Typed, TokensAreOwned, Turns, [Next]_vars, serialized
             PROVE  Turns'
  BY StepKeepsRows DEF Turns
<1>1. serialized' = serialized
  BY StepKeepsRows
<1>2. CASE UNCHANGED <<tx, pc, req, codes, sessions>>
  BY <1>1, <1>2 DEF Turns
<1>3. ASSUME NEW l \in Logins, NEW t \in Tokens, NEW callback \in BOOLEAN, SignIn(l, t, callback)
      PROVE  Turns'
  <2>1. tx = {} /\ tx' = tx /\ pc' = pc
    BY <1>3 DEF SignIn, MayEnter, scope
  <2> QED BY <2>1 DEF Turns, Reading, Inside
<1>4. ASSUME NEW r \in Requests, NEW s \in Requests, Step(r), s # r, pc'[s] \in Inside
      PROVE  /\ pc'[s] = pc[s] /\ req'[s] = req[s] /\ s \in tx /\ s \in tx'
             /\ UNCHANGED <<codes, sessions>>
  <2>1. pc'[s] = pc[s] /\ req'[s] = req[s] /\ (s \in tx' <=> s \in tx)
    BY <1>4, OthersKept
  <2>2. s \in tx
    BY <1>4, <2>1 DEF Turns
  <2>3. pc[r] \notin Inside
    BY <1>4, <2>2 DEF Turns
  <2>4. UNCHANGED <<codes, sessions>>
    BY <1>4, <2>3 DEF Step, Exchange, Logout, BeginExchange, ReadCode, ReadSession, ReadUser,
       ExchangeRefused, Rotate, BeginLogout, DeleteSession, Crash, Inside, Reading, rows
  <2> QED BY <2>1, <2>2, <2>4
<1>5. ASSUME NEW r \in Requests, Step(r), tx' = tx \ {r}, pc'[r] \notin Inside PROVE Turns'
  <2>1. \A s \in Requests : pc'[s] \in Inside => s # r
    BY <1>5
  <2> QED BY <1>1, <1>4, <1>5, <2>1 DEF Turns, Inside, Reading
<1>6. ASSUME NEW r \in Requests, Step(r), tx = {}, tx' = tx \cup {r},
             pc'[r] \in Reading => ~codes'[req'[r].login].consumed,
             pc'[r] \notin {"session read", "rotating"}
      PROVE  Turns'
  <2>1. \A s \in Requests : s # r => pc'[s] \notin Inside
    BY <1>4, <1>6
  <2> QED BY <1>1, <1>6, <2>1 DEF Turns, Inside, Reading
<1>7. ASSUME NEW r \in Requests, Step(r), tx' = tx, pc[r] \in Reading, UNCHANGED <<codes, sessions>>,
             req'[r].login = req[r].login,
             pc'[r] \in {"session read", "rotating"} =>
                 sessions[codes[req[r].login].token] # None
      PROVE  Turns'
  <2>1. r \in tx
    BY <1>7 DEF Turns, Inside
  <2>2. \A s \in Requests : s # r => pc'[s] \notin Inside
    BY <1>4, <2>1, <1>7 DEF Turns
  <2> QED BY <1>1, <1>7, <2>1, <2>2 DEF Turns, Inside, Reading
<1>8. ASSUME NEW r \in Requests, Step(r) PROVE Turns'
  <2> USE DEF Goto
  <2>1. CASE End(r)
    <3>1. tx' = tx \ {r} /\ pc'[r] = "idle"
      BY <2>1 DEF End, Leave, Typed, TypeOK
    <3> QED BY <1>5, <1>8, <3>1 DEF Inside, Reading
  <2>2. ASSUME NEW l \in Logins, BeginExchange(r, l) PROVE Turns'
    <3>1. /\ pc[r] = "idle" /\ pc'[r] = "exchange" /\ tx' = tx /\ UNCHANGED <<codes, sessions>>
          /\ \A s \in Requests : s # r => pc'[s] = pc[s] /\ req'[s] = req[s]
      BY <2>2 DEF BeginExchange, Typed, TypeOK, rows, scope
    <3> QED BY <1>1, <3>1 DEF Turns, Inside, Reading
  <2>3. CASE ReadCode(r)
    <3>1. /\ tx = {} /\ tx' = tx \cup {r} /\ pc'[r] = "code read"
          /\ ~codes[req[r].login].consumed /\ codes' = codes /\ req' = req
      BY <2>3 DEF ReadCode, Enter, MayEnter, Redeemable, Typed, TypeOK, rows
    <3> QED BY <1>6, <1>8, <3>1
  <2>4. CASE ReadSession(r)
    <3>1. req[r] \in ExchangeRequest /\ pc[r] = "code read"
      BY <2>4 DEF ReadSession, Typed, RequestsAreWhole, Reading
    <3>2. req'[r].login = req[r].login
      BY <2>4, <3>1 DEF ReadSession, ExchangeRequest, Typed, TypeOK
    <3>3. sessions[codes[req[r].login].token] # None /\ tx' = tx /\ UNCHANGED <<codes, sessions>>
      BY <2>4 DEF ReadSession, Live, scope, rows
    <3> QED BY <1>7, <1>8, <3>1, <3>2, <3>3 DEF Reading
  <2>5. CASE ReadUser(r)
    <3>1. /\ pc[r] = "session read" /\ tx' = tx /\ req' = req /\ UNCHANGED <<codes, sessions>>
      BY <2>5 DEF ReadUser, scope, rows
    <3>2. sessions[codes[req[r].login].token] # None
      BY <3>1 DEF Turns
    <3> QED BY <1>7, <1>8, <3>1, <3>2 DEF Reading
  <2>6. ASSUME NEW t \in Tokens, BeginLogout(r, t) PROVE Turns'
    <3>1. tx = {} /\ tx' = tx \cup {r} /\ pc'[r] = "deleting"
      BY <2>6 DEF BeginLogout, Enter, MayEnter, Typed, TypeOK
    <3> QED BY <1>6, <1>8, <3>1 DEF Reading
  <2> QED BY <1>8, <2>1, <2>2, <2>3, <2>4, <2>5, <2>6
          DEF Step, Exchange, Logout, ExchangeRefused, Rotate, DeleteSession, Crash
<1>9. CASE Environment \/ UNCHANGED vars
  <2>1. pc' = pc /\ req' = req /\ tx' = tx
    BY <1>9, RequestsKept
  <2>2. UNCHANGED <<codes, sessions>>
        \/ \E l \in Logins, t \in Tokens, callback \in BOOLEAN : SignIn(l, t, callback)
    BY <1>9 DEF Environment, Tick, Disable, Enable, vars, rows
  <2> QED BY <1>2, <1>3, <2>1, <2>2
<1> QED BY <1>8, <1>9 DEF Next, Step
Sound == Typed /\ TokensAreOwned /\ Turns /\ OneSessionPerLogin /\ LogoutEndsLogin

\* What an exchange is about to replace, it replaces by a session of the same
\* sign-in; that session is its only one, and no logout has ended it.
LEMMA AboutToRotate ==
    ASSUME Sound, serialized, NEW r \in Requests, pc[r] = "rotating"
    PROVE  LET l == req[r].login
               old == codes[l].token
           IN  /\ l \in Logins /\ codes[l] \in Code /\ ~codes[l].consumed
               /\ old \in Tokens /\ old \in issued
               /\ sessions[old] # None /\ sessions[old].login = l
               /\ l \notin ended
<1>1. req[r] \in ExchangeRequest /\ codes[req[r].login] # None
  BY DEF Sound, Typed, RequestsAreWhole, Reading
<1>2. req[r].login \in Logins
  BY <1>1 DEF ExchangeRequest
<1>3. codes[req[r].login] \in Code
  BY <1>1, <1>2 DEF Sound, Typed, TypeOK
<1>4. codes[req[r].login].token \in Tokens
  BY <1>3 DEF Code
<1>5. ~codes[req[r].login].consumed /\ sessions[codes[req[r].login].token] # None
  BY DEF Sound, Turns, Reading
<1> QED BY <1>1, <1>2, <1>3, <1>4, <1>5 DEF Sound, TokensAreOwned, LogoutEndsLogin

LEMMA SoundPreserved == Sound /\ [Next]_vars => Sound'
<1> SUFFICES ASSUME Sound, [Next]_vars PROVE OneSessionPerLogin' /\ LogoutEndsLogin'
  BY TypePreserved, OwnershipPreserved, TurnsPreserved DEF Sound
<1>1. serialized' = serialized
  BY StepKeepsRows
<1>2. CASE UNCHANGED <<rows, completed, ended>> \/ ~serialized
  BY <1>1, <1>2 DEF Sound, OneSessionPerLogin, LogoutEndsLogin, rows
<1>3. ASSUME serialized, NEW l \in Logins, NEW t \in Tokens, NEW callback \in BOOLEAN,
             SignIn(l, t, callback)
      PROVE  OneSessionPerLogin' /\ LogoutEndsLogin'
  <2>1. /\ sessions'[t].login = l /\ ended' = ended
        /\ \A u \in Tokens : u # t => sessions'[u] = sessions[u]
    BY <1>3 DEF SignIn, Sound, Typed, TypeOK
  <2>2. l \notin ended /\ \A u \in Tokens : sessions[u] # None => sessions[u].login # l
    BY <1>3 DEF SignIn, Sound, TokensAreOwned
  <2> QED BY <1>1, <1>3, <2>1, <2>2 DEF Sound, OneSessionPerLogin, LogoutEndsLogin
<1>4. ASSUME serialized, NEW r \in Requests, NEW t \in Tokens, Rotate(r, t)
      PROVE  OneSessionPerLogin' /\ LogoutEndsLogin'
  <2> DEFINE l == req[r].login
             old == codes[l].token
  <2>1. /\ l \notin ended /\ old \in Tokens /\ old # t
        /\ sessions[old] # None /\ sessions[old].login = l
    BY <1>4, AboutToRotate DEF Rotate
  <2>2. /\ sessions' = [sessions EXCEPT ![t] = [login |-> l, expires |-> req[r].expires],
                                        ![old] = None]
        /\ ended' = ended
    BY <1>4 DEF Rotate
  <2> HIDE DEF l, old
  <2>3. /\ sessions'[t].login = l /\ sessions'[old] = None
        /\ \A u \in Tokens : u # t /\ u # old => sessions'[u] = sessions[u]
    BY <2>1, <2>2 DEF Sound, Typed, TypeOK
  <2>4. \A u \in Tokens : sessions[u] # None /\ sessions[u].login = l => u = old
    BY <1>4, <2>1 DEF Sound, OneSessionPerLogin
  <2>5. \A u \in Tokens : sessions'[u] # None =>
            u = t \/ (u # t /\ u # old /\ sessions'[u] = sessions[u])
    BY <2>3
  <2>6. OneSessionPerLogin'
    <3>1. \A u \in Tokens : u # t /\ sessions'[u] # None => sessions'[u].login # l
      BY <2>4, <2>5
    <3>2. ASSUME NEW u \in Tokens, NEW v \in Tokens, sessions'[u] # None, sessions'[v] # None,
                 sessions'[u].login = sessions'[v].login
          PROVE  u = v
      <4>1. CASE u = t \/ v = t
        BY <2>3, <3>1, <3>2, <4>1
      <4>2. CASE u # t /\ v # t
        BY <1>4, <2>5, <3>2, <4>2 DEF Sound, OneSessionPerLogin
      <4> QED BY <4>1, <4>2
    <3> QED BY <3>2 DEF OneSessionPerLogin
  <2>7. LogoutEndsLogin'
    <3>1. ended' = ended
      BY <2>2
    <3>2. \A u \in Tokens : sessions[u] # None => sessions[u].login \notin ended
      BY <1>4 DEF Sound, LogoutEndsLogin
    <3>3. \A u \in Tokens : sessions'[u] # None => sessions'[u].login \notin ended
      BY <2>1, <2>3, <2>5, <3>2
    <3> QED BY <3>1, <3>3 DEF LogoutEndsLogin
  <2> QED BY <2>6, <2>7
<1>5. ASSUME serialized, NEW r \in Requests, DeleteSession(r)
      PROVE  OneSessionPerLogin' /\ LogoutEndsLogin'
  <2> DEFINE t == req[r].token
  <2>1. t \in Tokens
    BY <1>5 DEF DeleteSession, Sound, Typed, RequestsAreWhole, LogoutRequest
  <2>2. /\ sessions' = [sessions EXCEPT ![t] = None]
        /\ ended' = IF sessions[t] = None THEN ended ELSE ended \cup {sessions[t].login}
    BY <1>5 DEF DeleteSession
  <2> HIDE DEF t
  <2>3. sessions'[t] = None /\ \A u \in Tokens : u # t => sessions'[u] = sessions[u]
    BY <2>1, <2>2 DEF Sound, Typed, TypeOK
  <2> QED BY <1>1, <1>5, <2>1, <2>2, <2>3 DEF Sound, OneSessionPerLogin, LogoutEndsLogin
<1> QED BY <1>2, <1>3, <1>4, <1>5, StepKeepsRows

\* The invariant of the sign-ins: who owns which token, what the request inside
\* has found, and that a sign-in has one session or none.
THEOREM Invariance == Spec => []Sound
<1>1. Init => TokensAreOwned /\ Turns /\ OneSessionPerLogin /\ LogoutEndsLogin
  BY DEF Init, TokensAreOwned, Turns, OneSessionPerLogin, LogoutEndsLogin, InitScope, Reading, Inside
<1>2. Spec => Init /\ []Typed
  BY TypedInvariant, PTL DEF Spec
<1>3. Init /\ Typed => Sound
  BY <1>1 DEF Sound
<1> QED BY <1>2, <1>3, SoundPreserved, PTL DEF Spec

\* Where transactions take turns, whatever is exchanged, logged out or crashes
\* in between, two working tokens never belong to one sign-in: the exchange
\* deletes the session that the code was issued with.
THEOREM OneToken == Spec => []OneSessionPerLogin
<1>1. Sound => OneSessionPerLogin
  BY DEF Sound
<1> QED BY <1>1, Invariance, PTL

\* Where transactions take turns, a logout is the end of a sign-in, also if its
\* code is still to be exchanged.
THEOREM LogoutEnds == Spec => []LogoutEndsLogin
<1>1. Sound => LogoutEndsLogin
  BY DEF Sound
<1> QED BY <1>1, Invariance, PTL

\* Where transactions take turns, callback codes implement single-use tickets.
THEOREM Refinement == Spec => ImplementsSingleUse
<1>1. Init => Tickets!Init
  BY DEF Init, Tickets!Init
<1>2. Sound /\ [Next]_vars => [Tickets!Next]_Tickets!vars
  <2> SUFFICES ASSUME Sound, [Next]_vars PROVE [Tickets!Next]_Tickets!vars
    OBVIOUS
  <2> DEFINE st == [l \in Logins |->
                      IF ~serialized \/ codes[l] = None THEN "absent"
                      ELSE IF codes[l].consumed THEN "spent" ELSE "open"]
             ys == [l \in Logins |-> IF serialized THEN exchanges[l] ELSE 0]
  <2>0. serialized' = serialized
    BY StepKeepsRows
  <2>1. CASE ~serialized \/ UNCHANGED <<codes, exchanges>>
    <3>1. st' = st /\ ys' = ys
      BY <2>0, <2>1
    <3> QED BY <3>1 DEF Tickets!vars
  <2>2. ASSUME serialized, NEW l \in Logins, NEW t \in Tokens, SignIn(l, t, TRUE)
        PROVE  Tickets!Next
    <3> DEFINE code == [token |-> t, expires |-> clock + CallbackTtl, consumed |-> FALSE]
    <3>1. codes' = [codes EXCEPT ![l] = code] /\ exchanges' = exchanges /\ codes[l] = None
      BY <2>2 DEF SignIn, Sound, TokensAreOwned
    <3>2. code # None /\ ~code.consumed
      <4>1. clock \in 0..MaxClock /\ MaxClock \in Nat /\ CallbackTtl \in Nat
        BY CallbackAssumption DEF CallbackAssumption, Sound, Typed, TypeOK
      <4>2. code \in Code
        BY <4>1 DEF Code
      <4> QED BY <4>2, CallbackAssumption DEF Code, CallbackAssumption
    <3> HIDE DEF code
    <3>3. st[l] = "absent" /\ ys' = ys
      BY <2>0, <2>2, <3>1
    <3>4. st' = [m \in Logins |-> IF m = l THEN "open" ELSE st[m]]
      BY <2>0, <2>2, <3>1, <3>2 DEF Sound, Typed, TypeOK
    <3>5. Tickets!Issue(l, {})
      BY <3>3, <3>4 DEF Tickets!Issue
    <3> QED BY <3>5 DEF Tickets!Next
  <2>3. ASSUME serialized, NEW r \in Requests, NEW t \in Tokens, Rotate(r, t)
        PROVE  Tickets!Next
    <3>0. PICK l \in Logins : l = req[r].login
      BY <2>3, AboutToRotate DEF Rotate
    <3> DEFINE code == [codes[l] EXCEPT !.consumed = TRUE]
    <3>1. codes[l] \in Code /\ ~codes[l].consumed
      BY <2>3, <3>0, AboutToRotate DEF Rotate
    <3>2. code \in Code /\ code.consumed
      BY <3>1 DEF Code
    <3>3. codes[l] # None /\ code # None
      BY <3>1, <3>2, CallbackAssumption DEF Code, CallbackAssumption
    <3>4. /\ codes' = [codes EXCEPT ![l] = code]
          /\ exchanges' = [exchanges EXCEPT ![l] = exchanges[l] + 1]
      BY <2>3, <3>0 DEF Rotate, Sound, Typed, TypeOK
    <3> HIDE DEF code
    <3>5. st[l] = "open" /\ st' = [st EXCEPT ![l] = "spent"]
      BY <2>0, <2>3, <3>1, <3>2, <3>3, <3>4 DEF Sound, Typed, TypeOK
    <3>6. ys' = [ys EXCEPT ![l] = ys[l] + 1]
      BY <2>0, <2>3, <3>1, <3>4 DEF Sound, Typed, TypeOK
    <3>7. Tickets!Use(l)
      BY <3>5, <3>6 DEF Tickets!Use
    <3> QED BY <3>7 DEF Tickets!Next
  <2>4. ASSUME NEW l \in Logins, NEW t \in Tokens, SignIn(l, t, FALSE)
        PROVE  UNCHANGED <<codes, exchanges>>
    BY <2>4 DEF SignIn
  <2>5. ASSUME NEW r \in Requests, DeleteSession(r) PROVE UNCHANGED <<codes, exchanges>>
    BY <2>5 DEF DeleteSession
  <2> QED BY <2>1, <2>2, <2>3, <2>4, <2>5, StepKeepsRows DEF rows
<1> QED BY <1>1, <1>2, Invariance, PTL DEF Spec, ImplementsSingleUse, Tickets!Spec

-----------------------------------------------------------------------------
(* What the tickets promise, and so codes.                                 *)

\* What Tickets is told of a sign-in's code.
StateOf(l) == IF ~serialized \/ codes[l] = None THEN "absent"
              ELSE IF codes[l].consumed THEN "spent" ELSE "open"
YieldOf(l) == IF serialized THEN exchanges[l] ELSE 0

Counted == \A l \in Logins : YieldOf(l) \in Nat

\* Each step of the tickets keeps their promise; Refinement makes it one of codes.
LEMMA TicketsKeepTheirWord == Tickets!Spec => []Tickets!AtMostOnce
<1>1. Tickets!Init => Tickets!AtMostOnce /\ Counted
  <2> SUFFICES ASSUME Tickets!Init, NEW l \in Logins
               PROVE  YieldOf(l) = 0 /\ StateOf(l) = "absent"
    BY DEF Tickets!AtMostOnce, Counted, StateOf, YieldOf
  <2> QED BY DEF Tickets!Init, StateOf, YieldOf
<1>2. Tickets!AtMostOnce /\ Counted /\ [Tickets!Next]_(Tickets!vars)
          => Tickets!AtMostOnce' /\ Counted'
  <2> SUFFICES ASSUME Tickets!AtMostOnce, Counted, [Tickets!Next]_(Tickets!vars)
               PROVE  Tickets!AtMostOnce' /\ Counted'
    OBVIOUS
  <2>1. \A l \in Logins : /\ YieldOf(l) \in Nat
                          /\ YieldOf(l) <= IF StateOf(l) = "spent" THEN 1 ELSE 0
    BY DEF Tickets!AtMostOnce, Counted, StateOf, YieldOf
  <2>2. SUFFICES \A l \in Logins : /\ YieldOf(l)' \in Nat
                                   /\ YieldOf(l)' <= IF StateOf(l)' = "spent" THEN 1 ELSE 0
    BY DEF Tickets!AtMostOnce, Counted, StateOf, YieldOf
  <2>3. ASSUME NEW t \in Logins, NEW cancelled \in SUBSET Logins, Tickets!Issue(t, cancelled)
        PROVE  \A l \in Logins : /\ YieldOf(l)' = YieldOf(l)
                                 /\ StateOf(l)' = "spent" \/ StateOf(l) # "spent"
    BY <2>3 DEF Tickets!Issue, StateOf, YieldOf
  <2>4. ASSUME NEW t \in Logins, Tickets!Void(t)
        PROVE  \A l \in Logins : /\ YieldOf(l)' = YieldOf(l)
                                 /\ StateOf(l)' = "spent" \/ StateOf(l) # "spent"
    BY <2>4 DEF Tickets!Void, StateOf, YieldOf
  <2>5. ASSUME NEW t \in Logins, Tickets!Use(t)
        PROVE  \A l \in Logins : \/ YieldOf(l)' = YieldOf(l) /\ StateOf(l)' = StateOf(l)
                                 \/ /\ StateOf(l) # "spent" /\ StateOf(l)' = "spent"
                                    /\ YieldOf(l)' = YieldOf(l) + 1
    BY <2>5 DEF Tickets!Use, StateOf, YieldOf
  <2>6. CASE UNCHANGED Tickets!vars
    <3>1. \A l \in Logins : YieldOf(l)' = YieldOf(l) /\ StateOf(l)' = StateOf(l)
      BY <2>6 DEF Tickets!vars, StateOf, YieldOf
    <3> QED BY <2>1, <3>1
  <2> QED BY <2>1, <2>3, <2>4, <2>5, <2>6 DEF Tickets!Next
<1> QED BY <1>1, <1>2, PTL DEF Tickets!Spec

\* exchange_code: where transactions take turns, the code of a sign-in becomes
\* one token at most, and none while it is not consumed.
THEOREM OncePerCode ==
    Spec => [](serialized => \A l \in Logins :
                  exchanges[l] <= IF codes[l] # None /\ codes[l].consumed THEN 1 ELSE 0)
<1>1. Tickets!AtMostOnce =>
          (serialized => \A l \in Logins :
              exchanges[l] <= IF codes[l] # None /\ codes[l].consumed THEN 1 ELSE 0)
  BY DEF Tickets!AtMostOnce
<1> QED BY <1>1, Refinement, TicketsKeepTheirWord, PTL DEF ImplementsSingleUse

=============================================================================
