----------------------------- MODULE LoginProofs -----------------------------
(***************************************************************************)
(* Theorems about Login, for any number of requests and users, any         *)
(* setting, any answers of the risk engine and any changes to the          *)
(* directory: a password alone opens a session only for a user of          *)
(* standing, when the engine or the tenant said so.                        *)
(*                                                                         *)
(* And, in the second half, about the login's other end, the scripts of    *)
(* ActivatePage and the LoginPage it extends: for any boot records and any *)
(* number of clicks and answers.                                           *)
(***************************************************************************)
EXTENDS Login, ActivatePage, TLAPS

Facts == {"app enabled", "enabled", "granted", "app free", "user free", "free", "no passkey"}

LEMMA InIsBoolean == ASSUME NEW x, NEW S PROVE (x \in S) \in BOOLEAN
OBVIOUS

\* The floor of a request is read from a set of users.
LEMMA FloorIsRead ==
    ASSUME NEW q \in Request, NEW S
    PROVE  /\ [q EXCEPT !.floor = q.user \in S] \in Request
           /\ [q EXCEPT !.floor = q.user \in S].user = q.user
           /\ [q EXCEPT !.floor = q.user \in S].password = q.password
           /\ [q EXCEPT !.floor = q.user \in S].usual = q.usual
           /\ q.user \in S => [q EXCEPT !.floor = q.user \in S].floor
<1>1. PICK floor \in BOOLEAN : floor = (q.user \in S)
  BY InIsBoolean, Zenon
<1>2. LET p == [q EXCEPT !.floor = floor] IN
        /\ p \in Request /\ p.floor = floor
        /\ p.user = q.user /\ p.password = q.password /\ p.usual = q.usual
  BY DEF Request
<1> QED BY <1>1, <1>2, Zenon

LEMMA FactsOf == ASSUME NEW u PROVE Standing(u) \subseteq Facts
BY DEF Standing, Facts

LEMMA FactsAfter == ASSUME NEW u PROVE Standing(u)' \subseteq Facts
BY DEF Standing, Facts

RequestsAreWhole == \A r \in Requests : pc[r] # "idle" => req[r] \in Request

Typed == TypeOK /\ RequestsAreWhole

-----------------------------------------------------------------------------
(* What a step leaves alone.                                               *)

LEMMA HandleFrame ==
    ASSUME NEW r \in Requests, Handle(r)
    PROVE  /\ serialized' = serialized /\ UNCHANGED <<directory, offs>>
           /\ tx' = tx \/ tx' = tx \cup {r} \/ tx' = tx \ {r}
BY DEF Handle, Begin, Route, CheckPassword, CheckAccess, TurnedAway, WrongPassword,
    PolicyIsNotOff, PolicyIsOff, EvaluateFails, Evaluate, DecideOffer, DecideStepUp, Blocked,
    CreateSession, CreateChallenge, Answer, scope, End, Enter, Leave

LEMMA OthersFrame ==
    ASSUME TypeOK, NEW r \in Requests, Handle(r), NEW s \in Requests, s # r
    PROVE  /\ pc'[s] = pc[s] /\ req'[s] = req[s] /\ seen'[s] = seen[s]
           /\ verdict'[s] = verdict[s] /\ session'[s] = session[s]
           /\ challenge'[s] = challenge[s]
<1> USE DEF TypeOK, Goto, End, left, history
<1>1. CASE \E u \in Users, password \in {"right", "wrong"} : Begin(r, u, password)
  BY <1>1 DEF Begin
<1>2. CASE Route(r) \/ CheckPassword(r) \/ CheckAccess(r) \/ TurnedAway(r) \/ WrongPassword(r)
  BY <1>2 DEF Route, CheckPassword, CheckAccess, TurnedAway, WrongPassword
<1>3. CASE \/ PolicyIsNotOff(r) \/ EvaluateFails(r)
           \/ \E base \in BaseActions : PolicyIsOff(r, base)
  BY <1>3 DEF PolicyIsNotOff, PolicyIsOff, EvaluateFails
<1>4. CASE \E v \in Verdict : Evaluate(r, v)
  BY <1>4 DEF Evaluate
<1>5. CASE \/ DecideOffer(r) \/ DecideStepUp(r) \/ Blocked(r)
           \/ CreateSession(r) \/ CreateChallenge(r) \/ Answer(r)
  BY <1>5 DEF DecideOffer, DecideStepUp, Blocked, CreateSession, CreateChallenge, Answer
<1> QED BY <1>1, <1>2, <1>3, <1>4, <1>5 DEF Handle

-----------------------------------------------------------------------------
(* Types                                                                   *)

StepTyped(r) ==
    /\ session' \in [Requests -> [user : Users, enroll : BOOLEAN] \cup {None}]
    /\ challenge' \in [Requests -> [user : Users, refused : BOOLEAN] \cup {None}]
    /\ pc' \in [Requests -> PCs] /\ req' \in [Requests -> Request \cup {None}]
    /\ seen' \in [Requests -> SUBSET Facts]
    /\ verdict' \in [Requests -> Verdict \cup {None}]
    /\ pc'[r] # "idle" => req'[r] \in Request

LEMMA TypedByHandle ==
    ASSUME Typed, NEW r \in Requests, Handle(r)
    PROVE  Typed'
<1> USE DEF Typed, TypeOK
<1>1. /\ serialized' \in BOOLEAN /\ tx' \subseteq Requests
      /\ appEnabled' \in BOOLEAN /\ appFloor' \in BOOLEAN
      /\ enabled' \subseteq Users /\ userFloor' \subseteq Users
      /\ granted' \subseteq Users /\ passkeys' \subseteq Users /\ offs' \subseteq BaseActions
  BY HandleFrame DEF directory
<1>2. \A s \in Requests : s # r => pc'[s] = pc[s] /\ req'[s] = req[s]
  BY OthersFrame
<1> SUFFICES StepTyped(r)
  BY <1>1, <1>2 DEF RequestsAreWhole, Facts, StepTyped
<1> USE DEF PCs, Facts, left, history, StepTyped
<1>3. CASE End(r) /\ UNCHANGED left
  BY <1>3 DEF End
<1>4. ASSUME NEW u \in Users, NEW password \in {"right", "wrong"}, Begin(r, u, password)
      PROVE  StepTyped(r)
  <2>1. [user |-> u, password |-> password, floor |-> FALSE, action |-> None, usual |-> FALSE,
         enroll |-> FALSE] \in Request
    BY DEF Request
  <2> QED BY <1>4, <2>1, FactsOf DEF Begin, Goto
<1>6. CASE Route(r) \/ PolicyIsNotOff(r) \/ DecideStepUp(r)
  BY <1>6 DEF Route, PolicyIsNotOff, DecideStepUp, Goto, RequestsAreWhole
<1>7. CASE CheckPassword(r)
  <2>1. PICK to \in {"password checked", "wrong password"} : pc' = [pc EXCEPT ![r] = to]
    BY <1>7 DEF CheckPassword, Goto
  <2>2. req[r] \in Request
    BY <1>7 DEF CheckPassword, Goto, RequestsAreWhole
  <2>3. [req[r] EXCEPT !.floor = req[r].user \in userFloor] \in Request
    BY <2>2, FloorIsRead, Zenon
  <2>4. req' = [req EXCEPT ![r] = [req[r] EXCEPT !.floor = req[r].user \in userFloor]]
    BY <1>7 DEF CheckPassword
  <2>5. UNCHANGED <<session, challenge, seen, verdict>>
    BY <1>7 DEF CheckPassword
  <2> QED BY <2>1, <2>3, <2>4, <2>5
<1>8. CASE CheckAccess(r)
  BY <1>8 DEF CheckAccess, Goto, RequestsAreWhole, Request
<1>9. ASSUME NEW action \in Actions, NEW always \in BOOLEAN PROVE Floor(action, always) \in Actions
  BY DEF Floor, Actions
<1>10. ASSUME NEW base \in BaseActions, PolicyIsOff(r, base)
       PROVE  StepTyped(r)
  <2>1. req[r] \in Request /\ base \in Actions
    BY <1>10 DEF PolicyIsOff, Goto, RequestsAreWhole, BaseActions, Actions
  <2>2. Floor(base, req[r].floor) \in Actions
    BY <1>9, <2>1 DEF Request
  <2> QED BY <1>10, <2>1, <2>2 DEF PolicyIsOff, Goto, Request
<1>11. CASE EvaluateFails(r)
  <2>1. req[r] \in Request /\ UnavailableAction \in Actions
    BY <1>11, LoginAssumption DEF EvaluateFails, Goto, RequestsAreWhole, LoginAssumption, Actions
  <2>2. Floor(UnavailableAction, req[r].floor) \in Actions
    BY <1>9, <2>1 DEF Request
  <2> QED BY <1>11, <2>1, <2>2 DEF EvaluateFails, Goto, Request
<1>12. ASSUME NEW v \in Verdict, Evaluate(r, v)
       PROVE  StepTyped(r)
  <2>1. req[r] \in Request /\ v.enforced \in Actions
    BY <1>12 DEF Evaluate, Goto, RequestsAreWhole, Verdict
  <2>2. Floor(v.enforced, req[r].floor) \in Actions
    BY <1>9, <2>1 DEF Request
  <2> QED BY <1>12, <2>1, <2>2 DEF Evaluate, Goto, Request
<1>13. CASE DecideOffer(r)
  BY <1>13 DEF DecideOffer, Goto, RequestsAreWhole, Request
<1>14. CASE CreateSession(r)
  BY <1>14 DEF CreateSession, Goto, RequestsAreWhole, Request
<1>15. CASE CreateChallenge(r)
  BY <1>15 DEF CreateChallenge, RequestsAreWhole, Request
<1>16. CASE TurnedAway(r) \/ WrongPassword(r) \/ Blocked(r) \/ Answer(r)
  BY <1>3, <1>16 DEF TurnedAway, WrongPassword, Blocked, Answer
<1> HIDE DEF Typed, TypeOK, PCs, Facts, left, history, StepTyped
<1>17. CASE \E base \in BaseActions : PolicyIsOff(r, base)
  BY <1>10, <1>17
<1>18. CASE \E v \in Verdict : Evaluate(r, v)
  BY <1>12, <1>18
<1> QED BY <1>4, <1>6, <1>7, <1>8, <1>11, <1>13, <1>14, <1>15, <1>16, <1>17, <1>18 DEF Handle

LEMMA DirectoryTypes ==
    ASSUME Typed, ChangeDirectory
    PROVE  /\ appEnabled' \in BOOLEAN /\ appFloor' \in BOOLEAN
           /\ enabled' \subseteq Users /\ userFloor' \subseteq Users
           /\ granted' \subseteq Users /\ passkeys' \subseteq Users
<1>1. ASSUME NEW u \in Users, NEW S \in SUBSET Users PROVE Toggle(u, S) \in SUBSET Users
  BY DEF Toggle
<1> QED BY <1>1 DEF ChangeDirectory, Typed, TypeOK

LEMMA TypePreserved == Typed /\ [Next]_vars => Typed'
<1> SUFFICES ASSUME Typed, [Next]_vars PROVE Typed'
  OBVIOUS
<1>1. CASE ChangeDirectory
  <2>1. UNCHANGED <<scope, offs, left, pc, req, verdict>> /\ RequestsAreWhole'
    BY <1>1 DEF ChangeDirectory, Typed, RequestsAreWhole
  <2>2. seen' \in [Requests -> SUBSET Facts]
    <3>1. ASSUME NEW r \in Requests
          PROVE  (IF pc[r] = "idle" THEN {} ELSE seen[r] \cup Standing(req[r].user)') \in SUBSET Facts
      <4>1. seen[r] \subseteq Facts
        BY DEF Typed, TypeOK, Facts
      <4>2. Standing(req[r].user)' \subseteq Facts
        BY DEF Standing, Facts
      <4> QED BY <4>1, <4>2
    <3>2. seen' = [r \in Requests |-> IF pc[r] = "idle" THEN {}
                                      ELSE seen[r] \cup Standing(req[r].user)']
      BY <1>1 DEF ChangeDirectory
    <3> QED BY <3>1, <3>2
  <2> QED BY <1>1, <2>1, <2>2, DirectoryTypes DEF Typed, TypeOK, Facts, scope, left
<1>2. CASE \E base \in BaseActions : SaveOffPolicy(base)
  BY <1>2 DEF SaveOffPolicy, Typed, TypeOK, RequestsAreWhole, scope, directory, left, history
<1>3. ASSUME NEW r \in Requests, Handle(r) PROVE Typed'
  BY <1>3, TypedByHandle
<1>4. CASE UNCHANGED vars
  BY <1>4 DEF vars, Typed, TypeOK, RequestsAreWhole, scope, directory, left, history
<1> QED BY <1>1, <1>2, <1>3, <1>4 DEF Next

LEMMA TypedInvariant == Spec => []Typed
<1>1. Init => Typed
  BY DEF Init, InitScope, Typed, TypeOK, RequestsAreWhole, PCs
<1> QED BY <1>1, TypePreserved, PTL DEF Spec

\* The directory, the requests and what they leave behind keep their types.
THEOREM Typing == Spec => []TypeOK
<1>1. Typed => TypeOK
  BY DEF Typed
<1> QED BY <1>1, TypedInvariant, PTL

-----------------------------------------------------------------------------
(* What a login has earned                                                 *)

\* What was the case while a request runs is seen.
StandingIsSeen ==
    \A r \in Requests : pc[r] # "idle" => Standing(req[r].user) \subseteq seen[r]

\* The user has been let through.
PastAccess == {"read policy", "evaluate", "enforce", "sign in"}

EarnedAt(r) ==
    /\ pc[r] \in PastAccess \cup {"routed", "password checked"} => "app enabled" \in seen[r]
    /\ pc[r] \in PastAccess \cup {"password checked"} =>
         /\ req[r].password = "right" /\ "enabled" \in seen[r]
         /\ ~req[r].floor => "user free" \in seen[r]
    /\ serialized /\ pc[r] = "password checked" =>
         r \in tx /\ (~req[r].floor => req[r].user \notin userFloor)
    /\ pc[r] \in PastAccess =>
         /\ "granted" \in seen[r]
         /\ ~req[r].floor => "app free" \in seen[r]
         /\ serialized /\ ~req[r].floor => "free" \in seen[r]

Earned == \A r \in Requests : EarnedAt(r)

\* Why a login may be signed in.
ReasonedAt(r) ==
    /\ pc[r] # "idle" /\ req[r].usual =>
         verdict[r] \in Verdict /\ verdict[r].action = "ALLOW" /\ ~verdict[r].fallback
    /\ pc[r] \in {"enforce", "sign in"} /\ req[r].action = "ALLOW" =>
         /\ ~req[r].floor
         /\ \/ verdict[r] \in Verdict /\ verdict[r].enforced = "ALLOW"
            \/ "ALLOW" \in offs
    /\ pc[r] = "sign in" => req[r].action = "ALLOW"
    /\ pc[r] = "sign in" /\ req[r].enroll => req[r].usual /\ "no passkey" \in seen[r]

Reasoned == \A r \in Requests : ReasonedAt(r)

Answerable ==
    \A r \in Requests :
        /\ pc[r] = "step up" => HasSecondFactor(req[r].user)
        /\ challenge[r] # None /\ ~challenge[r].refused => HasSecondFactor(challenge[r].user)

\* The step that leads a request where it is.
LEMMA StepTaken ==
    ASSUME Typed, NEW r \in Requests, Handle(r)
    PROVE  /\ pc'[r] = "begun" =>
                \E u \in Users, password \in {"right", "wrong"} : Begin(r, u, password)
           /\ pc'[r] = "routed" => Route(r)
           /\ pc'[r] \in {"password checked", "wrong password"} => CheckPassword(r)
           /\ pc'[r] = "read policy" => CheckAccess(r)
           /\ pc'[r] = "evaluate" => PolicyIsNotOff(r)
           /\ pc'[r] = "enforce" => \/ EvaluateFails(r) \/ \E v \in Verdict : Evaluate(r, v)
                                    \/ \E base \in BaseActions : PolicyIsOff(r, base)
           /\ pc'[r] = "sign in" => DecideOffer(r)
           /\ pc'[r] \in {"step up", "refuse"} => DecideStepUp(r)
           /\ pc'[r] = "answered" => CreateSession(r) \/ CreateChallenge(r)
<1>1. pc \in [Requests -> PCs]
  BY DEF Typed, TypeOK
<1>2. ASSUME NEW to, pc' = [pc EXCEPT ![r] = to] PROVE pc'[r] = to
  BY <1>1, <1>2
<1>3. CASE \E u \in Users, password \in {"right", "wrong"} : Begin(r, u, password)
  <2>1. pc'[r] = "begun"
    BY <1>2, <1>3 DEF Begin, Goto
  <2> QED BY <1>3, <2>1
<1>4. CASE Route(r)
  BY <1>2, <1>4 DEF Route, Goto
<1>5. CASE CheckPassword(r)
  <2>1. pc'[r] \in {"password checked", "wrong password"}
    BY <1>2, <1>5 DEF CheckPassword, Goto
  <2> QED BY <1>5, <2>1
<1>6. CASE CheckAccess(r)
  BY <1>2, <1>6 DEF CheckAccess, Goto
<1>7. CASE TurnedAway(r) \/ WrongPassword(r) \/ Blocked(r) \/ Answer(r)
  BY <1>2, <1>7 DEF TurnedAway, WrongPassword, Blocked, Answer, End
<1>8. CASE PolicyIsNotOff(r)
  BY <1>2, <1>8 DEF PolicyIsNotOff, Goto
<1>9. CASE \/ EvaluateFails(r) \/ \E v \in Verdict : Evaluate(r, v)
           \/ \E base \in BaseActions : PolicyIsOff(r, base)
  <2>1. pc'[r] = "enforce"
    BY <1>2, <1>9 DEF EvaluateFails, Evaluate, PolicyIsOff, Goto
  <2> QED BY <1>9, <2>1
<1>10. CASE DecideOffer(r)
  BY <1>2, <1>10 DEF DecideOffer, Goto
<1>11. CASE DecideStepUp(r)
  <2>1. pc'[r] \in {"step up", "refuse"}
    BY <1>2, <1>11 DEF DecideStepUp, Goto
  <2> QED BY <1>11, <2>1
<1>12. CASE CreateSession(r)
  BY <1>2, <1>12 DEF CreateSession, Goto
<1>13. CASE CreateChallenge(r)
  BY <1>2, <1>13 DEF CreateChallenge
<1> QED BY <1>3, <1>4, <1>5, <1>6, <1>7, <1>8, <1>9, <1>10, <1>11, <1>12, <1>13 DEF Handle

\* What an answer of the engine makes of a request ...
LEMMA Judged ==
    ASSUME Typed, NEW r \in Requests, NEW v, Evaluate(r, v)
    PROVE  /\ req'[r].action = Floor(v.enforced, req[r].floor)
           /\ req'[r].usual => v.action = "ALLOW" /\ ~v.fallback
           /\ req'[r].floor = req[r].floor
           /\ req'[r].user = req[r].user /\ req'[r].password = req[r].password
<1>1. req[r] \in Request /\ req \in [Requests -> Request \cup {None}]
  BY DEF Evaluate, Goto, Typed, TypeOK, RequestsAreWhole
<1>2. req' = [req EXCEPT ![r].action = Floor(v.enforced, req[r].floor),
                         ![r].usual = v.action = "ALLOW" /\ ~v.fallback]
  BY DEF Evaluate
<1>3. PICK usual : usual = (v.action = "ALLOW" /\ ~v.fallback)
  OBVIOUS
<1>4. req' = [req EXCEPT ![r].action = Floor(v.enforced, req[r].floor), ![r].usual = usual]
  BY <1>2, <1>3, Zenon
<1>5. ASSUME NEW action
      PROVE  LET q == [req EXCEPT ![r].action = action, ![r].usual = usual][r]
             IN  /\ q.action = action /\ q.usual = usual /\ q.floor = req[r].floor
                 /\ q.user = req[r].user /\ q.password = req[r].password
  BY <1>1 DEF Request
<1>6. usual => v.action = "ALLOW" /\ ~v.fallback
  BY <1>3, Zenon
<1> QED BY <1>4, <1>5, <1>6, Zenon

\* ... and what the base policy or the IdP's own fallback makes of it.
LEMMA NotJudged ==
    ASSUME Typed, NEW r \in Requests, NEW action,
           req[r] \in Request, req' = [req EXCEPT ![r].action = Floor(action, req[r].floor)]
    PROVE  /\ req'[r].action = Floor(action, req[r].floor)
           /\ req'[r].usual = req[r].usual /\ req'[r].floor = req[r].floor
           /\ req'[r].user = req[r].user /\ req'[r].password = req[r].password
<1>1. req \in [Requests -> Request \cup {None}]
  BY DEF Typed, TypeOK
<1>2. ASSUME NEW a
      PROVE  LET q == [req EXCEPT ![r].action = a][r]
             IN  /\ q.action = a /\ q.usual = req[r].usual /\ q.floor = req[r].floor
                 /\ q.user = req[r].user /\ q.password = req[r].password
  BY <1>1 DEF Request
<1> QED BY <1>2, Zenon

LEMMA FloorOf ==
    ASSUME Typed, NEW r \in Requests, CheckPassword(r)
    PROVE  req'[r] = [req[r] EXCEPT !.floor = req[r].user \in userFloor]
<1>1. req' = [req EXCEPT ![r] = [req[r] EXCEPT !.floor = req[r].user \in userFloor]]
  BY DEF CheckPassword
<1>2. req \in [Requests -> Request \cup {None}]
  BY DEF Typed, TypeOK
<1>3. ASSUME NEW q PROVE [req EXCEPT ![r] = q][r] = q
  BY <1>2
<1> QED BY <1>1, <1>3, Zenon

\* A request that goes on stays about its user, and forgets nothing it has seen.
LEMMA GoesOn ==
    ASSUME Typed, NEW r \in Requests, Handle(r), pc'[r] \notin {"idle", "begun"}
    PROVE  /\ pc[r] # "idle" /\ seen'[r] = seen[r]
           /\ req'[r].user = req[r].user /\ req'[r].password = req[r].password
<1> USE DEF Typed, TypeOK, history
<1>1. ASSUME pc[r] # "idle" PROVE req[r] \in Request
  BY <1>1 DEF RequestsAreWhole
<1>2. CASE Route(r) \/ PolicyIsNotOff(r) \/ DecideStepUp(r) \/ CreateSession(r) \/ CreateChallenge(r)
  BY <1>2 DEF Route, PolicyIsNotOff, DecideStepUp, CreateSession, CreateChallenge, Goto
<1>3. CASE CheckPassword(r)
  <2>1. req[r] \in Request /\ pc[r] # "idle" /\ seen' = seen
    BY <1>1, <1>3 DEF CheckPassword, Goto
  <2>2. req'[r] = [req[r] EXCEPT !.floor = req[r].user \in userFloor]
    BY <1>3, FloorOf, Zenon
  <2> HIDE DEF Typed, TypeOK, history
  <2> QED BY <2>1, <2>2, FloorIsRead, Zenon
<1>4. CASE CheckAccess(r)
  BY <1>1, <1>4 DEF CheckAccess, Goto, Request
<1>5. CASE EvaluateFails(r) \/ \E base \in BaseActions : PolicyIsOff(r, base)
  <2>1. req[r] \in Request /\ pc[r] # "idle" /\ seen' = seen
    BY <1>1, <1>5 DEF EvaluateFails, PolicyIsOff, Goto
  <2>2. \E action : req' = [req EXCEPT ![r].action = Floor(action, req[r].floor)]
    BY <1>5 DEF EvaluateFails, PolicyIsOff
  <2> HIDE DEF Typed, TypeOK, history
  <2> QED BY <2>1, <2>2, NotJudged, Zenon
<1>6. CASE \E v \in Verdict : Evaluate(r, v)
  <2>1. pc[r] # "idle" /\ seen' = seen
    BY <1>6 DEF Evaluate, Goto
  <2> HIDE DEF Typed, TypeOK, history
  <2> QED BY <1>6, <2>1, Judged, Zenon
<1>7. CASE DecideOffer(r)
  BY <1>1, <1>7 DEF DecideOffer, Goto, Request
<1> HIDE DEF Typed, TypeOK
<1>8. pc'[r] \in PCs
  BY TypedByHandle DEF Typed, TypeOK
<1> QED BY <1>2, <1>3, <1>4, <1>5, <1>6, <1>7, <1>8, StepTaken DEF PCs

LEMMA SeenPreserved == Typed /\ StandingIsSeen /\ [Next]_vars => StandingIsSeen'
<1> SUFFICES ASSUME Typed, StandingIsSeen, [Next]_vars PROVE StandingIsSeen'
  OBVIOUS
<1>1. CASE ChangeDirectory
  BY <1>1 DEF ChangeDirectory, StandingIsSeen
<1>2. CASE UNCHANGED <<directory, pc, req, seen>>
  BY <1>2 DEF StandingIsSeen, Standing, directory
<1>3. ASSUME NEW r \in Requests, Handle(r) PROVE StandingIsSeen'
  <2>1. UNCHANGED <<appEnabled, appFloor, enabled, userFloor, granted, passkeys>>
    BY <1>3, HandleFrame DEF directory
  <2>2. ASSUME pc'[r] = "begun"
        PROVE  \E u \in Users : req'[r].user = u /\ seen'[r] = Standing(u)
    <3>1. PICK u \in Users, password \in {"right", "wrong"} : Begin(r, u, password)
      BY <1>3, <2>2, StepTaken
    <3>2. seen'[r] = Standing(u) /\ req'[r].user = u
      BY <3>1 DEF Begin, Typed, TypeOK
    <3> QED BY <3>2
  <2>3. pc'[r] # "idle" => \E u : req'[r].user = u /\ Standing(u) \subseteq seen'[r]
    BY <1>3, <2>2, GoesOn DEF StandingIsSeen
  <2>4. ASSUME NEW s \in Requests, s # r, pc'[s] # "idle"
        PROVE  \E u : req'[s].user = u /\ Standing(u) \subseteq seen'[s]
    BY <1>3, <2>4, OthersFrame DEF StandingIsSeen, Typed
  <2>5. ASSUME NEW s \in Requests, NEW u, req'[s].user = u, Standing(u) \subseteq seen'[s]
        PROVE  (Standing(req[s].user) \subseteq seen[s])'
    <3>1. Standing(u) = Standing(req[s].user)'
      BY <2>1, <2>5 DEF Standing
    <3> QED BY <2>5, <3>1
  <2>6. \A s \in Requests : (pc[s] # "idle" => Standing(req[s].user) \subseteq seen[s])'
    BY <2>3, <2>4, <2>5
  <2> QED BY <2>6 DEF StandingIsSeen
<1> QED BY <1>1, <1>2, <1>3 DEF Next, SaveOffPolicy, vars, history

LEMMA FactSeen ==
    ASSUME StandingIsSeen, NEW r \in Requests, pc[r] # "idle"
    PROVE  /\ appEnabled => "app enabled" \in seen[r]
           /\ req[r].user \in enabled => "enabled" \in seen[r]
           /\ req[r].user \in granted => "granted" \in seen[r]
           /\ ~appFloor => "app free" \in seen[r]
           /\ req[r].user \notin userFloor => "user free" \in seen[r]
           /\ ~appFloor /\ req[r].user \notin userFloor => "free" \in seen[r]
           /\ req[r].user \notin passkeys => "no passkey" \in seen[r]
BY DEF StandingIsSeen, Standing

LEMMA FloorIsKept ==
    ASSUME Typed, NEW r \in Requests, Handle(r)
    PROVE  /\ pc'[r] = "password checked" /\ ~req'[r].floor => req[r].user \notin userFloor
           /\ pc'[r] = "read policy" /\ ~req'[r].floor => ~req[r].floor /\ ~appFloor
           /\ pc'[r] \in {"evaluate", "enforce", "sign in"} => req'[r].floor = req[r].floor
<1>0. req \in [Requests -> Request \cup {None}] /\ (pc[r] # "idle" => req[r] \in Request)
  BY DEF Typed, TypeOK, RequestsAreWhole
<1>1. ASSUME CheckPassword(r), ~req'[r].floor PROVE req[r].user \notin userFloor
  <2>1. req[r] \in Request
    BY <1>0, <1>1 DEF CheckPassword, Goto
  <2>2. req'[r] = [req[r] EXCEPT !.floor = req[r].user \in userFloor]
    BY <1>1, FloorOf, Zenon
  <2> QED BY <1>1, <2>1, <2>2, FloorIsRead, Zenon
<1>2. ASSUME CheckAccess(r), ~req'[r].floor PROVE ~req[r].floor /\ ~appFloor
  BY <1>0, <1>2 DEF CheckAccess, Goto, Request
<1>3. ASSUME PolicyIsNotOff(r) \/ DecideOffer(r) PROVE req'[r].floor = req[r].floor
  BY <1>0, <1>3 DEF PolicyIsNotOff, DecideOffer, Goto, Request
<1>4. ASSUME EvaluateFails(r) \/ \E base \in BaseActions : PolicyIsOff(r, base)
      PROVE  req'[r].floor = req[r].floor
  <2>1. req[r] \in Request
    BY <1>0, <1>4 DEF EvaluateFails, PolicyIsOff, Goto
  <2>2. \E action : req' = [req EXCEPT ![r].action = Floor(action, req[r].floor)]
    BY <1>4 DEF EvaluateFails, PolicyIsOff
  <2> QED BY <2>1, <2>2, NotJudged, Zenon
<1>5. ASSUME NEW v \in Verdict, Evaluate(r, v) PROVE req'[r].floor = req[r].floor
  BY <1>5, Judged, Zenon
<1>6. CASE pc'[r] = "password checked"
  BY <1>1, <1>6, StepTaken
<1>7. CASE pc'[r] = "read policy"
  BY <1>2, <1>7, StepTaken
<1>8. CASE pc'[r] \in {"evaluate", "enforce", "sign in"}
  BY <1>3, <1>4, <1>5, <1>8, StepTaken
<1> QED BY <1>6, <1>7, <1>8

\* Where a request that was let through came from.
LEMMA CameFrom ==
    ASSUME Typed, NEW r \in Requests, Handle(r)
    PROVE  /\ pc'[r] = "routed" => appEnabled
           /\ pc'[r] = "password checked" =>
                /\ pc[r] = "routed" /\ Enter(r)
                /\ req[r].password = "right" /\ req[r].user \in enabled
           /\ pc'[r] = "read policy" => pc[r] = "password checked" /\ req[r].user \in granted
           /\ pc'[r] \in {"evaluate", "enforce", "sign in"} => pc[r] \in PastAccess
<1>1. pc \in [Requests -> PCs]
  BY DEF Typed, TypeOK
<1>2. CASE pc'[r] = "routed"
  BY <1>2, StepTaken DEF Route
<1>3. CASE pc'[r] = "password checked"
  <2>1. CheckPassword(r)
    BY <1>3, StepTaken
  <2>2. pc'[r] = IF req[r].password = "right" THEN "password checked" ELSE "wrong password"
    BY <1>1, <2>1 DEF CheckPassword, Goto
  <2>3. req[r].password = "right"
    BY <1>3, <2>2
  <2>4. pc[r] = "routed" /\ Enter(r) /\ req[r].user \in enabled
    BY <2>1, <2>3 DEF CheckPassword, Goto
  <2> QED BY <1>3, <2>3, <2>4
<1>4. CASE pc'[r] = "read policy"
  BY <1>4, StepTaken DEF CheckAccess, Goto
<1>5. CASE pc'[r] \in {"evaluate", "enforce", "sign in"}
  BY <1>5, StepTaken
     DEF PolicyIsNotOff, EvaluateFails, Evaluate, PolicyIsOff, DecideOffer, Goto, PastAccess
<1> QED BY <1>2, <1>3, <1>4, <1>5

LEMMA EarnedByHandle ==
    ASSUME Typed, StandingIsSeen, Earned, NEW r \in Requests, Handle(r)
    PROVE  Earned'
<1>1. serialized' = serialized /\ userFloor' = userFloor
  BY HandleFrame DEF directory
<1>2. ASSUME NEW s \in Requests, s # r PROVE EarnedAt(s)'
  <2>1. pc'[s] = pc[s] /\ req'[s] = req[s] /\ seen'[s] = seen[s]
    BY <1>2, OthersFrame DEF Typed
  <2>2. s \in tx => s \in tx'
    BY <1>2, HandleFrame
  <2> QED BY <1>1, <2>1, <2>2 DEF Earned, EarnedAt
<1>3. ASSUME pc'[r] \notin PastAccess \cup {"routed", "password checked"}
      PROVE  EarnedAt(r)'
  BY <1>3 DEF EarnedAt, PastAccess
<1>4. ASSUME pc'[r] \in PastAccess \cup {"routed", "password checked"}
      PROVE  EarnedAt(r)'
  <2>1. /\ pc[r] # "idle" /\ seen'[r] = seen[r]
        /\ req'[r].user = req[r].user /\ req'[r].password = req[r].password
    BY <1>4, GoesOn DEF PastAccess
  <2>2. CASE pc'[r] = "routed"
    BY <2>1, <2>2, CameFrom, FactSeen DEF EarnedAt, PastAccess
  <2>3. CASE pc'[r] = "password checked"
    BY <1>1, <2>1, <2>3, CameFrom, FloorIsKept, FactSeen DEF Earned, EarnedAt, PastAccess, Enter
  <2>4. CASE pc'[r] = "read policy"
    BY <1>1, <2>1, <2>4, CameFrom, FloorIsKept, FactSeen DEF Earned, EarnedAt, PastAccess
  <2>5. CASE pc'[r] \in {"evaluate", "enforce", "sign in"}
    BY <1>1, <2>1, <2>5, CameFrom, FloorIsKept DEF Earned, EarnedAt, PastAccess
  <2> QED BY <1>4, <2>2, <2>3, <2>4, <2>5 DEF PastAccess
<1>5. \A s \in Requests : EarnedAt(s)'
  BY <1>2, <1>3, <1>4
<1> QED BY <1>5 DEF Earned

LEMMA EarnedPreserved == Typed /\ StandingIsSeen /\ Earned /\ [Next]_vars => Earned'
<1> SUFFICES ASSUME Typed, StandingIsSeen, Earned, [Next]_vars PROVE Earned'
  OBVIOUS
<1>1. CASE ChangeDirectory
  <2>1. UNCHANGED <<serialized, tx, pc, req>> /\ MayEnter
    BY <1>1 DEF ChangeDirectory, scope
  <2>2. \A r \in Requests : pc[r] # "idle" => seen[r] \subseteq seen'[r]
    BY <1>1 DEF ChangeDirectory
  <2>3. serialized => \A r \in Requests : pc[r] # "password checked"
    BY <2>1 DEF MayEnter, Earned, EarnedAt
  <2> QED BY <2>1, <2>2, <2>3 DEF Earned, EarnedAt, PastAccess
<1>2. CASE UNCHANGED <<scope, directory, pc, req, seen>>
  BY <1>2 DEF Earned, EarnedAt, scope, directory
<1>3. ASSUME NEW r \in Requests, Handle(r) PROVE Earned'
  BY <1>3, EarnedByHandle
<1> QED BY <1>1, <1>2, <1>3 DEF Next, SaveOffPolicy, vars, history

LEMMA OfferOf ==
    ASSUME Typed, NEW r \in Requests, DecideOffer(r)
    PROVE  /\ pc[r] = "enforce" /\ req[r].action = "ALLOW" /\ req'[r].action = "ALLOW"
           /\ req'[r].floor = req[r].floor /\ req'[r].usual = req[r].usual
           /\ req'[r].enroll => req[r].usual /\ req[r].user \notin passkeys
<1>1. req[r] \in Request /\ req \in [Requests -> Request \cup {None}]
  BY DEF DecideOffer, Goto, Typed, TypeOK, RequestsAreWhole
<1>2. PICK enroll : enroll = (req[r].usual /\ req[r].user \notin passkeys)
  OBVIOUS
<1>3. req' = [req EXCEPT ![r].enroll = req[r].usual /\ req[r].user \notin passkeys]
  BY DEF DecideOffer
<1>4. req' = [req EXCEPT ![r].enroll = enroll]
  BY <1>2, <1>3, Zenon
<1>5. /\ req'[r].enroll = enroll /\ req'[r].action = req[r].action
      /\ req'[r].floor = req[r].floor /\ req'[r].usual = req[r].usual
  BY <1>1, <1>4 DEF Request
<1>6. pc[r] = "enforce" /\ req[r].action = "ALLOW"
  BY DEF DecideOffer, Goto
<1>7. req'[r].enroll => req[r].usual /\ req[r].user \notin passkeys
  BY <1>2, <1>5, Zenon
<1> QED BY <1>5, <1>6, <1>7

\* Only the engine calls a login usual.
LEMMA UsualIsKept ==
    ASSUME Typed, NEW r \in Requests, Handle(r),
           pc'[r] \notin {"idle", "begun"}, \A v \in Verdict : ~Evaluate(r, v)
    PROVE  pc[r] # "idle" /\ req'[r].usual = req[r].usual /\ verdict'[r] = verdict[r]
<1>1. /\ req \in [Requests -> Request \cup {None}]
      /\ pc[r] # "idle" => req[r] \in Request
  BY DEF Typed, TypeOK, RequestsAreWhole
<1>2. CASE Route(r) \/ PolicyIsNotOff(r) \/ DecideStepUp(r) \/ CreateSession(r) \/ CreateChallenge(r)
  BY <1>2 DEF Route, PolicyIsNotOff, DecideStepUp, CreateSession, CreateChallenge, Goto, history
<1>3. CASE CheckPassword(r)
  <2>1. req[r] \in Request /\ pc[r] # "idle" /\ verdict' = verdict
    BY <1>1, <1>3 DEF CheckPassword, Goto, history
  <2>2. req'[r] = [req[r] EXCEPT !.floor = req[r].user \in userFloor]
    BY <1>3, FloorOf, Zenon
  <2>3. [req[r] EXCEPT !.floor = req[r].user \in userFloor].usual = req[r].usual
    BY <2>1, FloorIsRead, Zenon
  <2>4. req'[r].usual = req[r].usual
    BY <2>2, <2>3, Zenon
  <2> QED BY <2>1, <2>4
<1>4. CASE CheckAccess(r)
  BY <1>1, <1>4 DEF CheckAccess, Goto, Request, history
<1>5. CASE EvaluateFails(r) \/ \E base \in BaseActions : PolicyIsOff(r, base)
  <2>1. req[r] \in Request /\ pc[r] # "idle" /\ verdict' = verdict
    BY <1>1, <1>5 DEF EvaluateFails, PolicyIsOff, Goto, history
  <2>2. \E action : req' = [req EXCEPT ![r].action = Floor(action, req[r].floor)]
    BY <1>5 DEF EvaluateFails, PolicyIsOff
  <2>3. req'[r].usual = req[r].usual
    BY <2>1, <2>2, NotJudged, Zenon
  <2> QED BY <2>1, <2>3
<1>6. CASE DecideOffer(r)
  <2>1. pc[r] # "idle" /\ verdict' = verdict
    BY <1>6 DEF DecideOffer, Goto, history
  <2> QED BY <1>6, <2>1, OfferOf
<1>7. pc'[r] \in PCs
  BY TypedByHandle DEF Typed, TypeOK
<1> QED BY <1>2, <1>3, <1>4, <1>5, <1>6, <1>7, StepTaken DEF PCs

LEMMA ReasonedByHandle ==
    ASSUME Typed, StandingIsSeen, Reasoned, NEW r \in Requests, Handle(r)
    PROVE  Reasoned'
<1>1. offs' = offs
  BY HandleFrame
<1>2. ASSUME NEW s \in Requests, s # r PROVE ReasonedAt(s)'
  <2>1. pc'[s] = pc[s] /\ req'[s] = req[s] /\ seen'[s] = seen[s] /\ verdict'[s] = verdict[s]
    BY <1>2, OthersFrame DEF Typed
  <2> QED BY <1>1, <2>1 DEF Reasoned, ReasonedAt
<1>3. ASSUME pc'[r] = "idle" PROVE ReasonedAt(r)'
  BY <1>3 DEF ReasonedAt
<1>4. ASSUME pc'[r] = "begun" PROVE ReasonedAt(r)'
  <2>1. ~req'[r].usual
    <3>1. PICK u \in Users, password \in {"right", "wrong"} : Begin(r, u, password)
      BY <1>4, StepTaken
    <3>2. req'[r] = [user |-> u, password |-> password, floor |-> FALSE,
                     action |-> None, usual |-> FALSE, enroll |-> FALSE]
      BY <3>1 DEF Begin, Typed, TypeOK
    <3> QED BY <3>2
  <2> QED BY <1>4, <2>1 DEF ReasonedAt
<1>5. ASSUME NEW v \in Verdict, Evaluate(r, v) PROVE ReasonedAt(r)'
  <2>1. pc'[r] = "enforce" /\ verdict'[r] = v
    BY <1>5 DEF Evaluate, Goto, Typed, TypeOK
  <2>2. /\ req'[r].action = Floor(v.enforced, req[r].floor)
        /\ req'[r].floor = req[r].floor
        /\ req'[r].usual => v.action = "ALLOW" /\ ~v.fallback
    BY <1>5, Judged, Zenon
  <2>3. req'[r].action = "ALLOW" => ~req'[r].floor /\ v.enforced = "ALLOW"
    BY <2>2 DEF Floor
  <2>4. req'[r].usual => v.action = "ALLOW" /\ ~v.fallback
    BY <2>2, Zenon
  <2> QED BY <2>1, <2>3, <2>4 DEF ReasonedAt
<1>6. ASSUME pc'[r] \notin {"idle", "begun"}, \A v \in Verdict : ~Evaluate(r, v)
      PROVE  ReasonedAt(r)'
  <2>1. req'[r].usual =>
            verdict'[r] \in Verdict /\ verdict'[r].action = "ALLOW" /\ ~verdict'[r].fallback
    BY <1>6, UsualIsKept DEF Reasoned, ReasonedAt
  <2>2. CASE pc'[r] = "enforce"
    <3>1. ASSUME NEW action, req' = [req EXCEPT ![r].action = Floor(action, req[r].floor)],
                 action = "ALLOW" => "ALLOW" \in offs, req[r] \in Request
          PROVE  req'[r].action = "ALLOW" => ~req'[r].floor /\ "ALLOW" \in offs
      <4>1. req'[r].action = Floor(action, req[r].floor) /\ req'[r].floor = req[r].floor
        BY <3>1, NotJudged, Zenon
      <4> QED BY <3>1, <4>1 DEF Floor
    <3>2. req[r] \in Request
      BY <2>2, <1>6, UsualIsKept DEF Typed, RequestsAreWhole
    <3>3. EvaluateFails(r) \/ \E base \in BaseActions : PolicyIsOff(r, base)
      BY <1>6, <2>2, StepTaken
    <3>4. req'[r].action = "ALLOW" => ~req'[r].floor /\ "ALLOW" \in offs
      BY <3>1, <3>2, <3>3, LoginAssumption DEF EvaluateFails, PolicyIsOff, LoginAssumption
    <3> QED BY <1>1, <2>1, <2>2, <3>4 DEF ReasonedAt
  <2>3. CASE pc'[r] = "sign in"
    <3>1. DecideOffer(r)
      BY <2>3, StepTaken
    <3>2. /\ pc[r] = "enforce" /\ req[r].action = "ALLOW" /\ req'[r].action = "ALLOW"
          /\ req'[r].floor = req[r].floor /\ req'[r].usual = req[r].usual
          /\ req'[r].enroll => req[r].usual /\ req[r].user \notin passkeys
      BY <3>1, OfferOf
    <3>3. verdict'[r] = verdict[r] /\ seen'[r] = seen[r]
      BY <3>1 DEF DecideOffer, history
    <3>4. req[r].user \notin passkeys => "no passkey" \in seen[r]
      BY <3>2, FactSeen
    <3> QED BY <1>1, <2>1, <2>3, <3>2, <3>3, <3>4 DEF Reasoned, ReasonedAt
  <2> QED BY <2>1, <2>2, <2>3 DEF ReasonedAt
<1>7. \A s \in Requests : ReasonedAt(s)'
  BY <1>2, <1>3, <1>4, <1>5, <1>6
<1> QED BY <1>7 DEF Reasoned

LEMMA ReasonedPreserved == Typed /\ StandingIsSeen /\ Reasoned /\ [Next]_vars => Reasoned'
<1> SUFFICES ASSUME Typed, StandingIsSeen, Reasoned, [Next]_vars PROVE Reasoned'
  OBVIOUS
<1>1. CASE ChangeDirectory
  <2>1. UNCHANGED <<pc, req, verdict, offs>>
    BY <1>1 DEF ChangeDirectory
  <2>2. \A r \in Requests : pc[r] # "idle" => seen[r] \subseteq seen'[r]
    BY <1>1 DEF ChangeDirectory
  <2> QED BY <2>1, <2>2 DEF Reasoned, ReasonedAt
<1>2. CASE UNCHANGED <<pc, req, seen, verdict>> /\ offs \subseteq offs'
  BY <1>2 DEF Reasoned, ReasonedAt
<1>3. ASSUME NEW r \in Requests, Handle(r) PROVE Reasoned'
  BY <1>3, ReasonedByHandle
<1> QED BY <1>1, <1>2, <1>3 DEF Next, SaveOffPolicy, vars, history

LEMMA AnswerablePreserved == Typed /\ Answerable /\ [Next]_vars => Answerable'
<1> SUFFICES ASSUME Typed, Answerable, [Next]_vars PROVE Answerable'
  OBVIOUS
<1>1. CASE ChangeDirectory
  <2>1. passkeys \subseteq passkeys' /\ UNCHANGED <<pc, req, challenge>>
    BY <1>1 DEF ChangeDirectory, left
  <2> QED BY <2>1 DEF Answerable, HasSecondFactor
<1>2. CASE UNCHANGED <<passkeys, pc, req, challenge>>
  BY <1>2 DEF Answerable, HasSecondFactor
<1>3. ASSUME NEW r \in Requests, Handle(r) PROVE Answerable'
  <2>1. passkeys' = passkeys
    BY <1>3, HandleFrame DEF directory
  <2>2. ASSUME NEW s \in Requests, s # r
        PROVE  /\ pc'[s] = "step up" => HasSecondFactor(req'[s].user)
               /\ challenge'[s] # None /\ ~challenge'[s].refused =>
                    HasSecondFactor(challenge'[s].user)
    BY <1>3, <2>2, OthersFrame DEF Answerable, Typed
  <2>3. pc'[r] = "step up" => HasSecondFactor(req'[r].user)
    <3>1. ASSUME DecideStepUp(r), pc'[r] = "step up"
          PROVE  HasSecondFactor(req'[r].user)
      <4>1. pc' = [pc EXCEPT ![r] = IF HasSecondFactor(req[r].user) THEN "step up" ELSE "refuse"]
        BY <3>1 DEF DecideStepUp, Goto
      <4>2. HasSecondFactor(req[r].user)
        BY <3>1, <4>1 DEF Typed, TypeOK
      <4> QED BY <3>1, <4>2 DEF DecideStepUp
    <3> QED BY <1>3, <3>1, StepTaken
  <2>4. CASE CreateChallenge(r)
    <3>1. challenge'[r].user = req[r].user /\ challenge'[r].refused = (pc[r] = "refuse")
      BY <2>4 DEF CreateChallenge, Typed, TypeOK
    <3>2. ~challenge'[r].refused => pc[r] = "step up"
      BY <2>4, <3>1 DEF CreateChallenge
    <3>3. ~challenge'[r].refused => HasSecondFactor(challenge'[r].user)
      BY <3>1, <3>2 DEF Answerable
    <3> QED BY <2>1, <2>2, <2>3, <3>3 DEF Answerable, HasSecondFactor
  <2>5. CASE ~CreateChallenge(r)
    <3>1. challenge'[r] = challenge[r] \/ challenge'[r] = None
      BY <1>3, <2>5 DEF Handle, Begin, Route, CheckPassword, CheckAccess, TurnedAway,
          WrongPassword, PolicyIsNotOff, PolicyIsOff, EvaluateFails, Evaluate, DecideOffer,
          DecideStepUp, Blocked, CreateSession, Answer, left, Typed, TypeOK
    <3> QED BY <2>1, <2>2, <2>3, <3>1 DEF Answerable, HasSecondFactor
  <2> QED BY <2>4, <2>5
<1> QED BY <1>1, <1>2, <1>3 DEF Next, SaveOffPolicy, vars, directory, left

-----------------------------------------------------------------------------
(* What a password alone opens                                             *)

Invariant == Typed /\ StandingIsSeen /\ Earned /\ Reasoned /\ Answerable

\* The inductive invariant: what a login has seen, what it earned by it, why it may be
\* signed in, and that it can be answered.
THEOREM Invariance == Spec => []Invariant
<1>1. Init => StandingIsSeen /\ Earned /\ Reasoned /\ Answerable
  BY DEF Init, StandingIsSeen, Earned, EarnedAt, PastAccess, Reasoned, ReasonedAt, Answerable
<1> QED BY <1>1, SeenPreserved, EarnedPreserved, ReasonedPreserved, AnswerablePreserved,
        TypedInvariant, PTL DEF Spec, Invariant

\* Who signs a request in.
LEMMA SigningIn ==
    ASSUME Invariant, [Next]_vars, NEW r \in Requests, SignsIn(r)
    PROVE  /\ pc[r] = "sign in" /\ req[r].action = "ALLOW"
           /\ session'[r].enroll => req[r].enroll
<1>1. PICK q \in Requests : Handle(q)
  BY DEF SignsIn, Next, ChangeDirectory, SaveOffPolicy, vars, left
<1>2. q = r
  BY <1>1, OthersFrame DEF SignsIn, Invariant, Typed
<1>3. CreateSession(r)
  BY <1>1, <1>2 DEF SignsIn, Handle, Begin, Route, CheckPassword, CheckAccess, TurnedAway,
      WrongPassword, PolicyIsNotOff, PolicyIsOff, EvaluateFails, Evaluate, DecideOffer,
      DecideStepUp, Blocked, CreateChallenge, Answer, left, Invariant, Typed, TypeOK
<1>4. pc[r] = "sign in"
  BY <1>3 DEF CreateSession, Goto
<1>5. session'[r] = [user |-> req[r].user, enroll |-> req[r].enroll]
  BY <1>3 DEF CreateSession, Invariant, Typed, TypeOK
<1>6. session'[r].enroll = req[r].enroll
  BY <1>5
<1>7. req[r].action = "ALLOW"
  BY <1>4 DEF Invariant, Reasoned, ReasonedAt
<1> QED BY <1>4, <1>6, <1>7, Zenon

\* A password alone opens a session only for a user of standing, whatever operators change.
THEOREM Standings == Spec => SignInNeedsStanding
<1>1. ASSUME Invariant, [Next]_vars, NEW r \in Requests, SignsIn(r)
      PROVE  /\ req[r].password = "right"
             /\ {"app enabled", "enabled", "granted", "app free", "user free"} \subseteq seen[r]
  <2>1. pc[r] = "sign in" /\ ~req[r].floor
    BY <1>1, SigningIn DEF Invariant, Reasoned, ReasonedAt
  <2>2. pc[r] \in PastAccess
    BY <2>1 DEF PastAccess
  <2>3. /\ req[r].password = "right"
        /\ "app enabled" \in seen[r] /\ "enabled" \in seen[r] /\ "granted" \in seen[r]
        /\ "app free" \in seen[r] /\ "user free" \in seen[r]
    BY <1>1, <2>1, <2>2 DEF Invariant, Earned, EarnedAt
  <2> QED BY <2>3
<1>2. Invariant /\ [Next]_vars =>
        [\A r \in Requests : SignsIn(r) =>
            /\ req[r].password = "right"
            /\ {"app enabled", "enabled", "granted", "app free", "user free"}
                 \subseteq seen[r]]_vars
  BY <1>1
<1> QED BY <1>2, Invariance, PTL DEF Spec, SignInNeedsStanding

\* Where transactions take turns, always_passkey cannot be skipped by reading its two flags
\* one after the other.
THEOREM Floors == Spec => AlwaysPasskeyIsFloor
<1>1. ASSUME Invariant, [Next]_vars, serialized, NEW r \in Requests, SignsIn(r)
      PROVE  "free" \in seen[r]
  <2>1. pc[r] = "sign in" /\ ~req[r].floor
    BY <1>1, SigningIn DEF Invariant, Reasoned, ReasonedAt
  <2> QED BY <1>1, <2>1 DEF Invariant, Earned, EarnedAt, PastAccess
<1>2. Invariant /\ [Next]_vars =>
        [serialized => \A r \in Requests : SignsIn(r) => "free" \in seen[r]]_vars
  BY <1>1
<1> QED BY <1>2, Invariance, PTL DEF Spec, AlwaysPasskeyIsFloor

\* Fail closed: an engine that does not answer, or whose answer is lost, signs nobody in.
THEOREM FailsClosed == Spec => SignInWasAllowed
<1>1. ASSUME Invariant, [Next]_vars, NEW r \in Requests, SignsIn(r)
      PROVE  \/ verdict[r] # None /\ verdict[r].enforced = "ALLOW"
             \/ "ALLOW" \in offs
  <2>1. pc[r] = "sign in" /\ req[r].action = "ALLOW"
    BY <1>1, SigningIn
  <2>2. \/ verdict[r] \in Verdict /\ verdict[r].enforced = "ALLOW"
        \/ "ALLOW" \in offs
    BY <1>1, <2>1 DEF Invariant, Reasoned, ReasonedAt
  <2> QED BY <2>2, VerdictAssumption DEF VerdictAssumption
<1>2. Invariant /\ [Next]_vars =>
        [\A r \in Requests : SignsIn(r) =>
            \/ verdict[r] # None /\ verdict[r].enforced = "ALLOW"
            \/ "ALLOW" \in offs]_vars
  BY <1>1
<1> QED BY <1>2, Invariance, PTL DEF Spec, SignInWasAllowed

\* Only a login the engine itself judged usual, by scoring it and not by a fallback, of a
\* user without a passkey, may enroll.
THEOREM Offers == Spec => OfferFollowsUsualLogin
<1>1. ASSUME Invariant, [Next]_vars, NEW r \in Requests, SignsIn(r), session'[r].enroll
      PROVE  /\ verdict[r] # None /\ verdict[r].action = "ALLOW" /\ ~verdict[r].fallback
             /\ "no passkey" \in seen[r]
  <2>1. pc[r] = "sign in" /\ req[r].enroll
    BY <1>1, SigningIn
  <2>2. /\ verdict[r] \in Verdict /\ verdict[r].action = "ALLOW" /\ ~verdict[r].fallback
        /\ "no passkey" \in seen[r]
    BY <1>1, <2>1 DEF Invariant, Reasoned, ReasonedAt
  <2> QED BY <2>2, VerdictAssumption DEF VerdictAssumption
<1>2. Invariant /\ [Next]_vars =>
        [\A r \in Requests : SignsIn(r) /\ session'[r].enroll =>
            /\ verdict[r] # None /\ verdict[r].action = "ALLOW" /\ ~verdict[r].fallback
            /\ "no passkey" \in seen[r]]_vars
  BY <1>1
<1> QED BY <1>2, Invariance, PTL DEF Spec, OfferFollowsUsualLogin

\* A challenge that is left open can be answered.
THEOREM Answers == Spec => []OpenChallengesCanBeAnswered
<1>1. Invariant => OpenChallengesCanBeAnswered
  BY DEF Invariant, Answerable, OpenChallengesCanBeAnswered
<1> QED BY <1>1, Invariance, PTL

-----------------------------------------------------------------------------
(* The hosted pages.  Their inductive invariant says of a page and the     *)
(* tasks it has under way that every disabled button has what it waits     *)
(* for, that a code is there for whatever was issued for one, and that on  *)
(* the activation page nothing runs beside its own two steps: an answer of *)
(* the login page never arrives there, and its form cannot be sent twice.  *)
(* Handlers are functions of page states, so each function is shown to     *)
(* keep the invariant and an action's proof is its handler's composition.  *)

PageState ==
    [panel: Panels, disabled: [Buttons -> BOOLEAN],
     challengeId: Challenges \cup {Null}, stepUpKey: Challenges \cup {Null},
     otp: Challenges \cup {Null}, pendingLogin: Sessions \cup {Null},
     offerKey: Sessions \cup {Null}, code: Codes \cup {Null},
     enrollKey: Codes \cup {Null}]

AtActivation(p) == p.panel \in {"form", "create", "done"}

Awaits(ts, kinds) == \E t \in ts : t.kind \in kinds

StepUpKinds == {"stepUpOptions", "stepUpPrompt", "stepUpVerify"}
OfferKinds == {"offerOptions", "offerPrompt", "offerVerify"}
EnrollKinds == {"enrollPrompt", "enrollVerify"}
CreateKinds == {"createPrompt", "createVerify"}

\* NoDeadButton, of a page and the tasks it has under way.
Usable(p, ts) ==
    /\ p.disabled["login-submit"] => Awaits(ts, {"login"})
    /\ p.disabled["mfa-submit"] => p.stepUpKey = Null \/ Awaits(ts, StepUpKinds)
    /\ p.disabled["offer-add"] => p.offerKey = Null \/ Awaits(ts, OfferKinds)
    /\ p.disabled["activate-submit"] => Awaits(ts, {"activateOptions"})
    /\ p.disabled["enroll-submit"] => Awaits(ts, EnrollKinds)
    /\ p.disabled["create-submit"] => Awaits(ts, CreateKinds)

\* Whatever was issued for a code, the page has a code to send with it.
CodeKnown(p, ts) ==
    /\ p.enrollKey # Null => p.code # Null
    /\ Awaits(ts, {"activateOptions", "enrollPrompt", "createPrompt"}) => p.code # Null

\* On the activation page nothing is under way but its own two steps, the first
\* from its form only and once, and the code stays what the options are for.
CodeKept(p, ts) ==
    /\ p.panel \in {"create", "done"} => p.enrollKey = p.code
    /\ \A t \in ts :
        /\ AtActivation(p) => t.kind \in {"activateOptions"} \cup CreateKinds
        /\ t.kind = "activateOptions" /\ AtActivation(p) =>
              p.panel = "form" /\ p.disabled["activate-submit"] /\ t.of = p.code
        /\ t.kind \in CreateKinds => p.panel \in {"create", "done"}
        /\ t.kind = "createPrompt" => t.of = p.code
        /\ t.kind = "createVerify" => t.of = t.key

Sound(p, ts) ==
    /\ p \in PageState /\ ts \subseteq Tasks
    /\ Usable(p, ts) /\ CodeKnown(p, ts) /\ CodeKept(p, ts)

LEMMA Constants ==
    /\ Null \notin Sessions /\ Null \notin Codes /\ Null \notin Challenges
BY DEF Null, Sessions, Codes, Challenges

-----------------------------------------------------------------------------
(* The handlers' synchronous parts keep a page sound.                      *)

LEMMA FreshIsSound ==
    ASSUME NEW x \in Panels, x \notin {"create", "done"}
    PROVE  Sound([FreshPage EXCEPT !.panel = x], {})
<1>1. FreshPage \in PageState
  BY DEF FreshPage, PageState, Panels
<1>2. [FreshPage EXCEPT !.panel = x] \in PageState
  BY <1>1 DEF PageState
<1> QED BY <1>2 DEF FreshPage, Sound, Usable, CodeKnown, CodeKept, Awaits, Buttons, Null

LEMMA RunSound ==
    ASSUME NEW p, NEW ts, Sound(p, ts), Run(p, ts)
    PROVE  Sound(page', tasks')
<1>1. CASE p.panel = "left"
  BY <1>1, FreshIsSound DEF Run, Show, Panels
<1>2. CASE p.panel # "left"
  BY <1>2 DEF Run
<1> QED BY <1>1, <1>2

\* A panel of the login page.
LEMMA ShowSound ==
    ASSUME NEW p, NEW ts, Sound(p, ts), ~AtActivation(p),
           NEW x \in Panels \ {"form", "create", "done"}
    PROVE  Sound(Show(p, x), ts) /\ ~AtActivation(Show(p, x))
BY DEF Show, Sound, PageState, AtActivation, Usable, CodeKnown, CodeKept

\* What a button is to a page.
LEMMA Switched ==
    ASSUME NEW p \in PageState, NEW b \in Buttons
    PROVE  /\ Disable(p, b) \in PageState /\ Disable(p, b).disabled[b]
           /\ \A c \in Buttons : c # b => Disable(p, b).disabled[c] = p.disabled[c]
           /\ Disable(p, b).panel = p.panel /\ Disable(p, b).code = p.code
           /\ Disable(p, b).stepUpKey = p.stepUpKey /\ Disable(p, b).offerKey = p.offerKey
           /\ Disable(p, b).enrollKey = p.enrollKey
           /\ Enable(p, b) \in PageState /\ ~Enable(p, b).disabled[b]
           /\ \A c \in Buttons : c # b => Enable(p, b).disabled[c] = p.disabled[c]
           /\ Enable(p, b).panel = p.panel /\ Enable(p, b).code = p.code
           /\ Enable(p, b).stepUpKey = p.stepUpKey /\ Enable(p, b).offerKey = p.offerKey
           /\ Enable(p, b).enrollKey = p.enrollKey
BY DEF Disable, Enable, PageState

LEMMA EnableSound ==
    ASSUME NEW p, NEW ts, Sound(p, ts), NEW b \in Buttons,
           b = "activate-submit" => ~AtActivation(p)
    PROVE  /\ Sound(Enable(p, b), ts) /\ ~Enable(p, b).disabled[b]
           /\ Enable(p, b).panel = p.panel
           /\ Enable(p, b).stepUpKey = p.stepUpKey /\ Enable(p, b).offerKey = p.offerKey
           /\ Enable(p, b).code = p.code
<1>1. /\ Enable(p, b) \in PageState /\ ~Enable(p, b).disabled[b]
      /\ \A c \in Buttons : c # b => Enable(p, b).disabled[c] = p.disabled[c]
      /\ Enable(p, b).panel = p.panel /\ Enable(p, b).code = p.code
      /\ Enable(p, b).stepUpKey = p.stepUpKey /\ Enable(p, b).offerKey = p.offerKey
      /\ Enable(p, b).enrollKey = p.enrollKey
  BY Switched DEF Sound
<1>2. \A c \in Buttons : Enable(p, b).disabled[c] => p.disabled[c]
  BY <1>1
<1>3. AtActivation(p) =>
          Enable(p, b).disabled["activate-submit"] = p.disabled["activate-submit"]
  BY <1>1 DEF Buttons
<1>4. Usable(Enable(p, b), ts)
  BY <1>1, <1>2 DEF Sound, Usable, Buttons
<1>5. CodeKnown(Enable(p, b), ts) /\ CodeKept(Enable(p, b), ts)
  BY <1>1, <1>3 DEF Sound, CodeKnown, CodeKept, AtActivation
<1> QED BY <1>1, <1>4, <1>5 DEF Sound

\* Which tasks a button waits for.
Waits(b) ==
    CASE b = "login-submit" -> {"login"}
      [] b = "mfa-submit" -> StepUpKinds
      [] b = "offer-add" -> OfferKinds
      [] b = "activate-submit" -> {"activateOptions"}
      [] b = "enroll-submit" -> EnrollKinds
      [] b = "create-submit" -> CreateKinds

LEMMA DisableSound ==
    ASSUME NEW p, NEW ts, Sound(p, ts), NEW b \in Buttons,
           \/ Awaits(ts, Waits(b))
           \/ b = "mfa-submit" /\ p.stepUpKey = Null
           \/ b = "offer-add" /\ p.offerKey = Null
    PROVE  Sound(Disable(p, b), ts) /\ Disable(p, b).panel = p.panel
<1>1. /\ Disable(p, b) \in PageState /\ Disable(p, b).disabled[b]
      /\ \A c \in Buttons : c # b => Disable(p, b).disabled[c] = p.disabled[c]
      /\ Disable(p, b).panel = p.panel /\ Disable(p, b).code = p.code
      /\ Disable(p, b).stepUpKey = p.stepUpKey /\ Disable(p, b).offerKey = p.offerKey
      /\ Disable(p, b).enrollKey = p.enrollKey
  BY Switched DEF Sound
<1>2. \A c \in Buttons : p.disabled[c] => Disable(p, b).disabled[c]
  BY <1>1
<1>3. Usable(Disable(p, b), ts)
  BY <1>1 DEF Sound, Usable, Buttons, Waits
<1>4. CodeKnown(Disable(p, b), ts) /\ CodeKept(Disable(p, b), ts)
  BY <1>1, <1>2 DEF Sound, CodeKnown, CodeKept, AtActivation, Buttons
<1> QED BY <1>1, <1>3, <1>4 DEF Sound

\* A task that ends, its button enabled again or without options.
LEMMA AnswerSound ==
    ASSUME NEW p, NEW ts, Sound(p, ts), NEW t \in ts, 
           \A b \in Buttons : t.kind \in Waits(b) =>
               \/ ~p.disabled[b]
               \/ b = "mfa-submit" /\ p.stepUpKey = Null
               \/ b = "offer-add" /\ p.offerKey = Null
    PROVE  Sound(p, ts \ {t})
BY DEF Sound, Usable, CodeKnown, CodeKept, Buttons, Waits, Awaits

\* A task of the login page that starts.
LEMMA StartSound ==
    ASSUME NEW p, NEW ts, Sound(p, ts), ~AtActivation(p),
           NEW t \in Tasks, t.kind \notin CreateKinds,
           t.kind \in {"activateOptions", "enrollPrompt"} => p.code # Null
    PROVE  Sound(p, ts \cup {t})
BY DEF Sound, Usable, CodeKnown, CodeKept, Awaits, CreateKinds

\* An answer of the login page whose button comes back, or that no button waits for.
LEMMA BackSound ==
    ASSUME NEW p, NEW ts, Sound(p, ts), ~AtActivation(p), NEW t \in ts,
           NEW b \in Buttons, t.kind \in Waits(b)
    PROVE  /\ Sound(Enable(p, b), ts \ {t}) /\ ~AtActivation(Enable(p, b))
           /\ ~Enable(p, b).disabled[b]
<1>1. /\ Sound(Enable(p, b), ts) /\ ~Enable(p, b).disabled[b]
      /\ ~AtActivation(Enable(p, b))
  BY EnableSound DEF AtActivation
<1>2. \A c \in Buttons : t.kind \in Waits(c) => c = b
  BY DEF Waits, Buttons, StepUpKinds, OfferKinds, EnrollKinds, CreateKinds
<1> QED BY <1>1, <1>2, AnswerSound

LEMMA GoneSound ==
    ASSUME NEW p, NEW ts, Sound(p, ts), NEW t \in ts,
           t.kind \in {"restore", "logout", "otp"}
    PROVE  Sound(p, ts \ {t})
<1>1. \A b \in Buttons : t.kind \notin Waits(b)
  BY DEF Waits, Buttons, StepUpKinds, OfferKinds, EnrollKinds, CreateKinds
<1> QED BY <1>1, AnswerSound

\* What only the login page asks for is under way only there.
LEMMA OfLoginPage ==
    ASSUME NEW p, NEW ts, Sound(p, ts), NEW t \in ts,
           t.kind \notin {"activateOptions"} \cup CreateKinds
    PROVE  ~AtActivation(p)
BY DEF Sound, CodeKept

\* Variables that no button depends on.
LEMMA FieldSound ==
    ASSUME NEW p, NEW ts, Sound(p, ts),
           NEW c \in Challenges \cup {Null}, NEW s \in Sessions \cup {Null}
    PROVE  /\ Sound([p EXCEPT !.challengeId = c], ts) /\ Sound([p EXCEPT !.otp = c], ts)
           /\ Sound([p EXCEPT !.pendingLogin = s], ts)
           /\ [p EXCEPT !.challengeId = c].panel = p.panel
           /\ [p EXCEPT !.pendingLogin = s].panel = p.panel
BY DEF Sound, PageState, AtActivation, Usable, CodeKnown, CodeKept

\* Options arrive, their button enabled.
LEMMA OptionsSound ==
    ASSUME NEW p, NEW ts, Sound(p, ts)
    PROVE  /\ \A c \in Challenges : ~p.disabled["mfa-submit"] =>
                  Sound([p EXCEPT !.stepUpKey = c], ts)
           /\ \A s \in Sessions \cup {Null} : ~p.disabled["offer-add"] =>
                  Sound([p EXCEPT !.offerKey = s], ts)
           /\ \A k \in Codes \cup {Null} : ~AtActivation(p) /\ (k # Null => p.code # Null) =>
                  Sound([p EXCEPT !.enrollKey = k], ts) /\ [p EXCEPT !.enrollKey = k].panel = p.panel
BY DEF Sound, PageState, AtActivation, Usable, CodeKnown, CodeKept

\* prepareStepUp and prepareOffer wait for options that are not there.
LEMMA PrepareSound ==
    ASSUME NEW p, NEW ts, Sound(p, ts), ~AtActivation(p), NEW s \in Sessions
    PROVE  /\ Sound(PrepareStepUp(p), ts) /\ PrepareStepUp(p).panel = p.panel
           /\ Sound([Disable(p, "offer-add") EXCEPT !.pendingLogin = s, !.offerKey = Null], ts)
           /\ [Disable(p, "offer-add") EXCEPT !.pendingLogin = s, !.offerKey = Null].panel = p.panel
<1>1. p \in PageState
  BY DEF Sound
<1>2. PICK q : q = [p EXCEPT !.stepUpKey = Null, !.otp = Null]
  OBVIOUS
<1>3. Sound(q, ts) /\ q.panel = p.panel /\ q.stepUpKey = Null
  BY <1>1, <1>2 DEF Sound, PageState, AtActivation, Usable, CodeKnown, CodeKept
<1>4. PrepareStepUp(p) = Disable(q, "mfa-submit")
  BY <1>1, <1>2 DEF PrepareStepUp, Disable, PageState
<1>5. PICK o : o = [p EXCEPT !.pendingLogin = s, !.offerKey = Null]
  OBVIOUS
<1>6. Sound(o, ts) /\ o.panel = p.panel /\ o.offerKey = Null
  BY <1>1, <1>5 DEF Sound, PageState, AtActivation, Usable, CodeKnown, CodeKept
<1>7. [Disable(p, "offer-add") EXCEPT !.pendingLogin = s, !.offerKey = Null]
          = Disable(o, "offer-add")
  BY <1>1, <1>5 DEF Disable, PageState
<1>8. "mfa-submit" \in Buttons /\ "offer-add" \in Buttons
  BY DEF Buttons
<1>9. Sound(Disable(q, "mfa-submit"), ts) /\ Disable(q, "mfa-submit").panel = q.panel
  BY <1>3, <1>8, DisableSound
<1>10. Sound(Disable(o, "offer-add"), ts) /\ Disable(o, "offer-add").panel = o.panel
  BY <1>6, <1>8, DisableSound
<1> QED BY <1>3, <1>4, <1>6, <1>7, <1>9, <1>10, Zenon

LEMMA AfterLoginSound ==
    ASSUME NEW p, NEW ts, Sound(p, ts), ~AtActivation(p)
    PROVE  Sound(AfterLogin(p), ts)
<1>1. Sound(Show(p, "left"), ts) /\ Sound(Show(p, "session"), ts)
  BY ShowSound DEF Panels
<1> QED BY <1>1 DEF AfterLogin


Set(p, b, v) == [p EXCEPT !.disabled[b] = v]

\* prepareStepUp's and prepareOffer's "finally": the button by what is there.
LEMMA ByKeySound ==
    ASSUME NEW p, NEW ts, Sound(p, ts), NEW t \in ts, NEW b \in Buttons, NEW v \in BOOLEAN,
           \/ b = "mfa-submit" /\ t.kind \in StepUpKinds /\ (v <=> p.stepUpKey = Null)
           \/ b = "offer-add" /\ t.kind \in OfferKinds /\ (v <=> p.offerKey = Null)
    PROVE  Sound(Set(p, b, v), ts \ {t}) /\ Set(p, b, v).panel = p.panel
<1>1. p \in PageState /\ ~AtActivation(p)
  BY OfLoginPage DEF Sound, StepUpKinds, OfferKinds, CreateKinds
<1>2. t.kind \in Waits(b) /\ \A c \in Buttons : t.kind \in Waits(c) => c = b
  BY DEF Waits, Buttons, StepUpKinds, OfferKinds, EnrollKinds, CreateKinds
<1>3. CASE v
  <2>1. Set(p, b, v) = Disable(p, b)
    BY <1>3 DEF Set, Disable
  <2>2. Sound(Disable(p, b), ts) /\ Disable(p, b).panel = p.panel
    BY <1>3, DisableSound
  <2>3. Disable(p, b).stepUpKey = p.stepUpKey /\ Disable(p, b).offerKey = p.offerKey
    BY <1>1, Switched
  <2>4. Sound(Disable(p, b), ts \ {t})
    BY <1>2, <1>3, <2>2, <2>3, AnswerSound
  <2> QED BY <2>1, <2>2, <2>4
<1>4. CASE ~v
  <2>1. Set(p, b, v) = Enable(p, b)
    BY <1>4 DEF Set, Enable
  <2>2. Sound(Enable(p, b), ts \ {t}) /\ Enable(p, b).panel = p.panel
    BY <1>1, <1>2, BackSound, EnableSound
  <2> QED BY <2>1, <2>2
<1> QED BY <1>3, <1>4

\* A prompt that returns is followed by what it was opened for.
LEMMA GoOnSound ==
    ASSUME NEW p, NEW ts, Sound(p, ts), NEW t \in ts, NEW u \in Tasks,
           \/ t.kind = "stepUpPrompt" /\ u.kind = "stepUpVerify"
           \/ t.kind = "enrollPrompt" /\ u.kind = "enrollVerify"
           \/ t.kind = "offerPrompt" /\ u.kind = "offerVerify"
           \/ t.kind = "createPrompt" /\ u.kind = "createVerify" /\ u.of = u.key
    PROVE  Sound(p, (ts \ {t}) \cup {u})
<1>1. \A b \in Buttons : t.kind \in Waits(b) => u.kind \in Waits(b)
  BY DEF Waits, Buttons, StepUpKinds, OfferKinds, EnrollKinds, CreateKinds
<1>2. \A b \in Buttons : Awaits(ts, Waits(b)) => Awaits((ts \ {t}) \cup {u}, Waits(b))
  BY <1>1 DEF Awaits
<1>3. Usable(p, (ts \ {t}) \cup {u})
  BY <1>2 DEF Sound, Usable, Buttons, Waits
<1>4. CodeKnown(p, (ts \ {t}) \cup {u})
  BY DEF Sound, CodeKnown, Awaits
<1>5. CodeKept(p, (ts \ {t}) \cup {u})
  BY DEF Sound, CodeKept, AtActivation, CreateKinds
<1> QED BY <1>3, <1>4, <1>5 DEF Sound

-----------------------------------------------------------------------------
(* Every action keeps the page sound.                                      *)

ServerState ==
    [sessions: Sessions, valid: SUBSET Sessions, challenges: Challenges \cup {0}]

Stored == boot \in Boots /\ token \in Sessions \cup {Null} /\ server \in ServerState

\* applyOutcome, in whichever handler.
LEMMA OutcomeSound ==
    ASSUME NEW p, NEW ts, Sound(p, ts), ~AtActivation(p), Stored,
           NEW outcome \in Outcomes, ApplyOutcome(p, ts, outcome)
    PROVE  Sound(page', tasks') /\ token' \in Sessions \cup {Null} /\ server' \in ServerState
<1>1. CASE ShowPanel(p, ts, outcome)
  <2>1. PanelOf(outcome) \in Panels \ {"form", "create", "done"}
    BY <1>1 DEF ShowPanel, PanelOf, Outcomes, Panels
  <2>2. Sound(Show(p, PanelOf(outcome)), ts)
    BY <2>1, ShowSound
  <2>3. Run(Show(p, PanelOf(outcome)), ts) /\ UNCHANGED <<token, server>>
    BY <1>1 DEF ShowPanel
  <2> QED BY <2>2, <2>3, RunSound DEF Stored
<1>2. CASE AskSecondFactor(p, ts)
  <2>1. PICK c \in Challenges : c = NewChallenge
    BY <1>2 DEF AskSecondFactor
  <2>2. Sound(Show(p, "challenge"), ts) /\ ~AtActivation(Show(p, "challenge"))
    BY ShowSound DEF Panels
  <2>3. PICK q : q = [Show(p, "challenge") EXCEPT !.challengeId = c]
    OBVIOUS
  <2>4. Sound(q, ts) /\ ~AtActivation(q)
    BY <2>2, <2>3, FieldSound, Constants DEF AtActivation
  <2>5. Sound(PrepareStepUp(q), ts) /\ ~AtActivation(PrepareStepUp(q))
    <3>1. \E s : s \in Sessions
      BY DEF Stored, ServerState
    <3> QED BY <2>4, <3>1, PrepareSound DEF AtActivation
  <2>6. PICK u \in Tasks : u = [kind |-> "stepUpOptions", of |-> c]
    BY DEF Tasks
  <2>7. Sound(PrepareStepUp(q), ts \cup {u})
    BY <2>5, <2>6, StartSound DEF CreateKinds
  <2>8. /\ Run(PrepareStepUp(q), ts \cup {u}) /\ UNCHANGED token
        /\ server' = [server EXCEPT !.challenges = c]
    BY <1>2, <2>1, <2>3, <2>6 DEF AskSecondFactor
  <2> QED BY <2>7, <2>8, RunSound DEF Stored, ServerState
<1>3. ASSUME NEW offered \in BOOLEAN, SignedIn(p, ts, offered)
      PROVE  Sound(page', tasks') /\ token' \in Sessions \cup {Null} /\ server' \in ServerState
  <2>1. PICK s \in Sessions : s = NewSession
    BY <1>3 DEF SignedIn
  <2>2. token' \in Sessions \cup {Null} /\ server' \in ServerState
    BY <1>3, <2>1 DEF SignedIn, Stored, ServerState
  <2>3. CASE offered /\ boot.passkeys
    <3>1. Sound(Show(p, "offer"), ts) /\ ~AtActivation(Show(p, "offer"))
      BY ShowSound DEF Panels
    <3>2. PICK q : q = [Disable(Show(p, "offer"), "offer-add")
                            EXCEPT !.pendingLogin = s, !.offerKey = Null]
      OBVIOUS
    <3>3. Sound(q, ts) /\ ~AtActivation(q)
      BY <3>1, <3>2, PrepareSound DEF AtActivation
    <3>4. PICK u \in Tasks : u = [kind |-> "offerOptions", of |-> s]
      BY DEF Tasks
    <3>5. Sound(q, ts \cup {u})
      BY <3>3, <3>4, StartSound DEF CreateKinds
    <3>6. Run(q, ts \cup {u})
      BY <1>3, <2>1, <2>3, <3>2, <3>4 DEF SignedIn
    <3> QED BY <2>2, <3>5, <3>6, RunSound
  <2>4. CASE ~(offered /\ boot.passkeys)
    <3>1. Run(AfterLogin(p), ts)
      BY <1>3, <2>4 DEF SignedIn
    <3> QED BY <2>2, <3>1, AfterLoginSound, RunSound
  <2> QED BY <2>3, <2>4
<1> QED BY <1>1, <1>2, <1>3 DEF ApplyOutcome


LEMMA Stays ==
    ASSUME Stored, UNCHANGED <<boot, token, server>>
    PROVE  Stored'
BY DEF Stored

LEMMA Loads ==
    ASSUME Stored, NEW b \in Boots, Loaded(b, token), UNCHANGED <<token, server>>
    PROVE  Sound(page', tasks') /\ Stored'
<1>1. PICK x \in Panels : x = IF b.unknown THEN "unknown" ELSE FreshPage.panel
  BY DEF FreshPage, Panels
<1>2. x \notin {"form", "create", "done"}
  BY <1>1 DEF FreshPage
<1>3. page' = [FreshPage EXCEPT !.panel = x]
  BY <1>1 DEF Loaded
<1>4. Sound(page', {}) /\ ~AtActivation(page')
  <2>1. page'.panel = x
    BY <1>3 DEF FreshPage
  <2> QED BY <1>2, <1>3, <2>1, FreshIsSound DEF AtActivation
<1>5. CASE tasks' = {}
  BY <1>4, <1>5 DEF Stored, Loaded
<1>6. CASE tasks' = {[kind |-> "restore", of |-> token]}
  <2>1. PICK u \in Tasks : u = [kind |-> "restore", of |-> token]
    BY DEF Tasks, Stored
  <2>2. Sound(page', {} \cup {u})
    BY <1>4, <2>1, StartSound DEF CreateKinds
  <2> QED BY <1>6, <2>1, <2>2 DEF Stored, Loaded
<1> QED BY <1>5, <1>6 DEF Loaded

\* A task of the login page starts, with a button that waits for it.
LEMMA TapSound ==
    ASSUME NEW p, NEW ts, Sound(p, ts), ~AtActivation(p),
           NEW u \in Tasks, u.kind \notin CreateKinds,
           u.kind \in {"activateOptions", "enrollPrompt"} => p.code # Null,
           NEW b \in Buttons, u.kind \in Waits(b)
    PROVE  Sound(Disable(p, b), ts \cup {u}) /\ ~AtActivation(Disable(p, b))
<1>1. Sound(p, ts \cup {u})
  BY StartSound
<1>2. Awaits(ts \cup {u}, Waits(b))
  BY DEF Awaits
<1> QED BY <1>1, <1>2, DisableSound DEF AtActivation

LEMMA SubmitsLogin ==
    ASSUME Sound(page, tasks), Stored, SubmitLogin
    PROVE  Sound(page', tasks') /\ Stored'
<1>1. PICK u \in Tasks :
          /\ u.kind = "login"
          /\ Run(Show(Disable(page, "login-submit"), "checking"), tasks \cup {u})
  BY DEF SubmitLogin, NextNth, Login, Tasks
<1>2. ~AtActivation(page)
  BY DEF SubmitLogin, On, AtActivation
<1>3. /\ Sound(Disable(page, "login-submit"), tasks \cup {u})
      /\ ~AtActivation(Disable(page, "login-submit"))
  BY <1>1, <1>2, TapSound DEF CreateKinds, Buttons, Waits
<1>4. Sound(Show(Disable(page, "login-submit"), "checking"), tasks \cup {u})
  BY <1>3, ShowSound DEF Panels
<1>5. UNCHANGED <<boot, token, server>>
  BY DEF SubmitLogin, On
<1> QED BY <1>1, <1>4, <1>5, RunSound, Stays

LEMMA Restarts ==
    ASSUME Sound(page, tasks), Stored, Restart
    PROVE  Sound(page', tasks') /\ Stored'
<1>1. ~AtActivation(page)
  BY DEF Restart, On, AtActivation
<1>2. Sound(Show(page, "credentials"), tasks)
  BY <1>1, ShowSound DEF Panels
<1>3. Sound([Show(page, "credentials") EXCEPT !.challengeId = Null], tasks)
  BY <1>2, FieldSound
<1>4. /\ Run([Show(page, "credentials") EXCEPT !.challengeId = Null], tasks)
      /\ UNCHANGED <<boot, token, server>>
  BY DEF Restart, On
<1> QED BY <1>3, <1>4, RunSound, Stays

LEMMA TapsStepUp ==
    ASSUME Sound(page, tasks), Stored, TapStepUp
    PROVE  Sound(page', tasks') /\ Stored'
<1>1. PICK u : u = [kind |-> "stepUpPrompt", of |-> page.challengeId, key |-> page.stepUpKey]
  OBVIOUS
<1>2. u \in Tasks /\ u.kind = "stepUpPrompt"
  <2>1. page.challengeId \in Challenges /\ page.stepUpKey \in Challenges
    BY DEF TapStepUp, Sound, PageState
  <2> QED BY <1>1, <2>1 DEF Tasks
<1>3. ~AtActivation(page)
  BY DEF TapStepUp, On, AtActivation
<1>4. Sound(Disable(page, "mfa-submit"), tasks \cup {u})
  BY <1>2, <1>3, TapSound DEF CreateKinds, StepUpKinds, Buttons, Waits
<1>5. /\ Run(Disable(page, "mfa-submit"), tasks \cup {u})
      /\ UNCHANGED <<boot, token, server>>
  BY <1>1 DEF TapStepUp, On
<1> QED BY <1>4, <1>5, RunSound, Stays

LEMMA SubmitsOtp ==
    ASSUME Sound(page, tasks), Stored, SubmitOtp
    PROVE  Sound(page', tasks') /\ Stored'
<1>1. PICK n \in Copies :
          Run(page, tasks \cup {[kind |-> "otp", of |-> page.otp, nth |-> n]})
  BY DEF SubmitOtp, NextNth
<1>2. PICK u : u = [kind |-> "otp", of |-> page.otp, nth |-> n]
  OBVIOUS
<1>3. u \in Tasks /\ u.kind = "otp"
  <2>1. page.otp \in Challenges
    BY DEF SubmitOtp, Sound, PageState
  <2> QED BY <1>2, <2>1 DEF Tasks
<1>4. ~AtActivation(page)
  BY DEF SubmitOtp, On, AtActivation
<1>5. Sound(page, tasks \cup {u})
  BY <1>3, <1>4, StartSound DEF CreateKinds
<1>6. Run(page, tasks \cup {u}) /\ UNCHANGED <<boot, token, server>>
  BY <1>1, <1>2 DEF SubmitOtp, On
<1> QED BY <1>5, <1>6, RunSound, Stays

TypedIn(p, c) == [p EXCEPT !.code = c]

\* A code is typed where none has been sent from the activation page.
LEMMA TypedSound ==
    ASSUME NEW p, NEW ts, Sound(p, ts), NEW c \in Codes,
           ~AtActivation(p) \/ (p.panel = "form" /\ ts = {})
    PROVE  /\ Sound(TypedIn(p, c), ts) /\ TypedIn(p, c).panel = p.panel
           /\ TypedIn(p, c).code = c
           /\ TypedIn(Disable(p, "activate-submit"), c)
                  = Disable(TypedIn(p, c), "activate-submit")
<1>1. p \in PageState /\ c # Null
  BY Constants DEF Sound
<1>2. PICK q : q = TypedIn(p, c)
  OBVIOUS
<1>3. /\ q \in PageState /\ q.code = c /\ q.panel = p.panel
      /\ q.stepUpKey = p.stepUpKey /\ q.offerKey = p.offerKey
      /\ q.enrollKey = p.enrollKey /\ q.disabled = p.disabled
  BY <1>1, <1>2 DEF TypedIn, PageState
<1>4. Usable(q, ts) /\ CodeKnown(q, ts)
  BY <1>1, <1>3 DEF Sound, Usable, CodeKnown
<1>5. CodeKept(q, ts)
  BY <1>1, <1>3 DEF Sound, CodeKept, AtActivation, CreateKinds
<1>6. TypedIn(Disable(p, "activate-submit"), c) = Disable(q, "activate-submit")
  BY <1>1, <1>2 DEF TypedIn, Disable, PageState
<1> QED BY <1>2, <1>3, <1>4, <1>5, <1>6 DEF Sound

LEMMA SubmitsActivationCode ==
    ASSUME Sound(page, tasks), Stored, SubmitActivationCode
    PROVE  Sound(page', tasks') /\ Stored'
<1>1. PICK c \in Codes :
          Run(TypedIn(Disable(page, "activate-submit"), c),
              tasks \cup {[kind |-> "activateOptions", of |-> c]})
  BY DEF SubmitActivationCode, TypedIn
<1>2. PICK q : q = TypedIn(page, c)
  OBVIOUS
<1>3. PICK u \in Tasks : u = [kind |-> "activateOptions", of |-> c]
  BY DEF Tasks
<1>4. ~AtActivation(page)
  BY DEF SubmitActivationCode, On, AtActivation
<1>5. /\ Sound(q, tasks) /\ ~AtActivation(q) /\ q.code # Null
      /\ TypedIn(Disable(page, "activate-submit"), c) = Disable(q, "activate-submit")
  <2>1. /\ Sound(q, tasks) /\ q.panel = page.panel /\ q.code = c
        /\ TypedIn(Disable(page, "activate-submit"), c) = Disable(q, "activate-submit")
    BY <1>2, <1>4, TypedSound
  <2> QED BY <1>4, <2>1, Constants DEF AtActivation
<1>6. Sound(Disable(q, "activate-submit"), tasks \cup {u})
  BY <1>3, <1>5, TapSound DEF CreateKinds, Buttons, Waits
<1>7. Run(Disable(q, "activate-submit"), tasks \cup {u}) /\ UNCHANGED <<boot, token, server>>
  BY <1>1, <1>3, <1>5 DEF SubmitActivationCode, On
<1> QED BY <1>6, <1>7, RunSound, Stays

LEMMA TapsEnroll ==
    ASSUME Sound(page, tasks), Stored, TapEnroll
    PROVE  Sound(page', tasks') /\ Stored'
<1>1. PICK u : u = [kind |-> "enrollPrompt", of |-> page.enrollKey]
  OBVIOUS
<1>2. u \in Tasks /\ u.kind = "enrollPrompt" /\ page.code # Null
  <2>1. page.enrollKey \in Codes /\ page.code # Null
    BY DEF TapEnroll, Sound, PageState, CodeKnown
  <2> QED BY <1>1, <2>1 DEF Tasks
<1>3. ~AtActivation(page)
  BY DEF TapEnroll, On, AtActivation
<1>4. Sound(Disable(page, "enroll-submit"), tasks \cup {u})
  BY <1>2, <1>3, TapSound DEF CreateKinds, EnrollKinds, Buttons, Waits
<1>5. /\ Run(Disable(page, "enroll-submit"), tasks \cup {u})
      /\ UNCHANGED <<boot, token, server>>
  BY <1>1 DEF TapEnroll, On
<1> QED BY <1>4, <1>5, RunSound, Stays

LEMMA TapsOffer ==
    ASSUME Sound(page, tasks), Stored, TapOffer
    PROVE  Sound(page', tasks') /\ Stored'
<1>1. PICK u : u = [kind |-> "offerPrompt", key |-> page.offerKey]
  OBVIOUS
<1>2. u \in Tasks /\ u.kind = "offerPrompt"
  <2>1. page.offerKey \in Sessions
    BY DEF TapOffer, Sound, PageState
  <2> QED BY <1>1, <2>1 DEF Tasks
<1>3. ~AtActivation(page)
  BY DEF TapOffer, On, AtActivation
<1>4. Sound(Disable(page, "offer-add"), tasks \cup {u})
  BY <1>2, <1>3, TapSound DEF CreateKinds, OfferKinds, Buttons, Waits
<1>5. /\ Run(Disable(page, "offer-add"), tasks \cup {u})
      /\ UNCHANGED <<boot, token, server>>
  BY <1>1 DEF TapOffer, On
<1> QED BY <1>4, <1>5, RunSound, Stays

LEMMA SkipsOffer ==
    ASSUME Sound(page, tasks), Stored, SkipOffer
    PROVE  Sound(page', tasks') /\ Stored'
<1>1. ~AtActivation(page)
  BY DEF SkipOffer, On, AtActivation
<1>2. Run(AfterLogin(page), tasks) /\ UNCHANGED <<boot, token, server>>
  BY DEF SkipOffer, On
<1> QED BY <1>1, <1>2, AfterLoginSound, RunSound, Stays

LEMMA SubmitsLogout ==
    ASSUME Sound(page, tasks), Stored, SubmitLogout
    PROVE  Sound(page', tasks') /\ Stored'
<1>1. PICK u \in Tasks : u.kind = "logout" /\ Run(page, tasks \cup {u})
  BY DEF SubmitLogout, NextNth, Tasks, Stored
<1>2. ~AtActivation(page)
  BY DEF SubmitLogout, On, AtActivation
<1>3. Sound(page, tasks \cup {u})
  BY <1>1, <1>2, StartSound DEF CreateKinds
<1>4. Run(page, tasks \cup {u}) /\ UNCHANGED <<boot, token, server>>
  BY <1>1 DEF SubmitLogout, On
<1> QED BY <1>3, <1>4, RunSound, Stays


-----------------------------------------------------------------------------
(* The answers.                                                            *)

LEMMA TaskFields ==
    ASSUME NEW t \in Tasks
    PROVE  /\ t.kind \in {"restore", "logout", "offerOptions"} => t.of \in Sessions \cup {Null}
           /\ t.kind \in {"stepUpOptions", "otp"} => t.of \in Challenges
           /\ t.kind = "stepUpPrompt" =>
                  /\ t.of \in Challenges /\ t.key \in Challenges
                  /\ [t EXCEPT !.kind = "stepUpVerify"] \in Tasks
                  /\ [t EXCEPT !.kind = "stepUpVerify"].kind = "stepUpVerify"
           /\ t.kind = "offerPrompt" =>
                  /\ [t EXCEPT !.kind = "offerVerify"] \in Tasks
                  /\ [t EXCEPT !.kind = "offerVerify"].kind = "offerVerify"
           /\ t.kind \in {"activateOptions", "enrollPrompt", "createPrompt"} =>
                  t.of \in Codes /\ t = [kind |-> t.kind, of |-> t.of]
           /\ t.kind \in {"enrollVerify", "createVerify"} => t.of \in Codes /\ t.key \in Codes
BY DEF Tasks

LEMMA RestoreAnswered ==
    ASSUME Sound(page, tasks), Stored, RestoreAnswer
    PROVE  Sound(page', tasks') /\ Stored'
<1>1. PICK t \in tasks :
          /\ t.kind = "restore"
          /\ \/ Run(Show(page, "session"), tasks \ {t}) /\ UNCHANGED token
             \/ Run(page, tasks \ {t}) /\ token' = Null
             \/ Run(page, tasks \ {t}) /\ UNCHANGED token
  BY DEF RestoreAnswer, Under
<1>2. Sound(page, tasks \ {t}) /\ ~AtActivation(page)
  BY <1>1, GoneSound, OfLoginPage DEF CreateKinds
<1>3. Sound(Show(page, "session"), tasks \ {t})
  BY <1>2, ShowSound DEF Panels
<1>4. Sound(page', tasks')
  BY <1>1, <1>2, <1>3, RunSound
<1>5. Stored'
  BY <1>1 DEF RestoreAnswer, Stored
<1> QED BY <1>4, <1>5

LEMMA LoginAnswered ==
    ASSUME Sound(page, tasks), Stored, LoginAnswer
    PROVE  Sound(page', tasks') /\ Stored'
<1>1. PICK t \in tasks :
          /\ t.kind = "login"
          /\ \/ \E outcome \in Outcomes :
                    ApplyOutcome(Enable(page, "login-submit"), tasks \ {t}, outcome)
             \/ /\ Run(Show(Enable(page, "login-submit"), "credentials"), tasks \ {t})
                /\ UNCHANGED <<token, server>>
             \/ /\ Run(Show(Enable(page, "login-submit"), "unavailable"), tasks \ {t})
                /\ UNCHANGED <<token, server>>
  BY DEF LoginAnswer, Under
<1>2. PICK p : p = Enable(page, "login-submit")
  OBVIOUS
<1>3. Sound(p, tasks \ {t}) /\ ~AtActivation(p)
  <2>1. ~AtActivation(page)
    BY <1>1, OfLoginPage DEF CreateKinds
  <2> QED BY <1>1, <1>2, <2>1, BackSound DEF Buttons, Waits
<1>4. Sound(Show(p, "credentials"), tasks \ {t}) /\ Sound(Show(p, "unavailable"), tasks \ {t})
  BY <1>3, ShowSound DEF Panels
<1>5. UNCHANGED boot
  BY DEF LoginAnswer
<1>6. CASE \E outcome \in Outcomes : ApplyOutcome(p, tasks \ {t}, outcome)
  BY <1>3, <1>5, <1>6, OutcomeSound DEF Stored
<1>7. CASE Run(Show(p, "credentials"), tasks \ {t}) /\ UNCHANGED <<token, server>>
  BY <1>4, <1>5, <1>7, RunSound, Stays
<1>8. CASE Run(Show(p, "unavailable"), tasks \ {t}) /\ UNCHANGED <<token, server>>
  BY <1>4, <1>5, <1>8, RunSound, Stays
<1> QED BY <1>1, <1>2, <1>6, <1>7, <1>8

LEMMA StepUpOptionsAnswered ==
    ASSUME Sound(page, tasks), Stored, StepUpOptionsAnswer
    PROVE  Sound(page', tasks') /\ Stored'
<1>1. PICK v \in BOOLEAN : v = (page.stepUpKey = Null)
  OBVIOUS
<1>2. PICK t \in tasks :
          /\ t.kind = "stepUpOptions"
          /\ \/ Run([Enable(page, "mfa-submit") EXCEPT !.stepUpKey = t.of], tasks \ {t})
             \/ Run([Set(page, "mfa-submit", v) EXCEPT !.otp = t.of],
                    tasks \ {t})
             \/ Run(Set(page, "mfa-submit", v), tasks \ {t})
  BY <1>1 DEF StepUpOptionsAnswer, Under, Set
<1>3. "mfa-submit" \in Buttons /\ t.kind \in StepUpKinds /\ t.kind \in Waits("mfa-submit")
  BY <1>2 DEF Buttons, StepUpKinds, Waits
<1>4. PICK c \in Challenges : c = t.of
  BY <1>2, TaskFields DEF Sound
<1>5. CASE Run([Enable(page, "mfa-submit") EXCEPT !.stepUpKey = c], tasks \ {t})
  <2>1. ~AtActivation(page)
    BY <1>2, OfLoginPage DEF CreateKinds
  <2>2. /\ Sound(Enable(page, "mfa-submit"), tasks \ {t})
        /\ ~Enable(page, "mfa-submit").disabled["mfa-submit"]
    BY <1>3, <2>1, BackSound
  <2>3. Sound([Enable(page, "mfa-submit") EXCEPT !.stepUpKey = c], tasks \ {t})
    BY <2>2, OptionsSound
  <2> QED BY <1>5, <2>3, RunSound, Stays DEF StepUpOptionsAnswer
<1>6. PICK q : q = Set(page, "mfa-submit", v)
  OBVIOUS
<1>7. Sound(q, tasks \ {t})
  BY <1>1, <1>3, <1>6, ByKeySound
<1>8. CASE Run(q, tasks \ {t})
  BY <1>7, <1>8, RunSound, Stays DEF StepUpOptionsAnswer
<1>9. CASE Run([q EXCEPT !.otp = c], tasks \ {t})
  <2>1. Sound([q EXCEPT !.otp = c], tasks \ {t})
    BY <1>7, FieldSound
  <2> QED BY <1>9, <2>1, RunSound, Stays DEF StepUpOptionsAnswer
<1> QED BY <1>2, <1>4, <1>5, <1>6, <1>8, <1>9

LEMMA StepUpVerifyAnswered ==
    ASSUME Sound(page, tasks), Stored, StepUpVerifyAnswer
    PROVE  Sound(page', tasks') /\ Stored'
<1>1. PICK t \in tasks :
          /\ t.kind = "stepUpVerify"
          /\ \/ \E outcome \in Outcomes :
                    ApplyOutcome(Enable(page, "mfa-submit"), tasks \ {t}, outcome)
             \/ /\ Run(Enable(page, "mfa-submit"), tasks \ {t})
                /\ UNCHANGED <<token, server>>
  BY DEF StepUpVerifyAnswer, Under, Outcomes
<1>2. PICK p : p = Enable(page, "mfa-submit")
  OBVIOUS
<1>3. Sound(p, tasks \ {t}) /\ ~AtActivation(p)
  <2>1. ~AtActivation(page)
    BY <1>1, OfLoginPage DEF CreateKinds
  <2> QED BY <1>1, <1>2, <2>1, BackSound DEF Buttons, Waits, StepUpKinds
<1>4. UNCHANGED boot
  BY DEF StepUpVerifyAnswer
<1>5. CASE \E outcome \in Outcomes : ApplyOutcome(p, tasks \ {t}, outcome)
  BY <1>3, <1>4, <1>5, OutcomeSound DEF Stored
<1>6. CASE Run(p, tasks \ {t}) /\ UNCHANGED <<token, server>>
  BY <1>3, <1>4, <1>6, RunSound, Stays
<1> QED BY <1>1, <1>2, <1>5, <1>6

LEMMA OtpAnswered ==
    ASSUME Sound(page, tasks), Stored, OtpAnswer
    PROVE  Sound(page', tasks') /\ Stored'
<1>1. PICK t \in tasks :
          /\ t.kind = "otp"
          /\ \/ \E outcome \in Outcomes : ApplyOutcome(page, tasks \ {t}, outcome)
             \/ Run(page, tasks \ {t}) /\ UNCHANGED <<token, server>>
  BY DEF OtpAnswer, Under, Outcomes
<1>2. Sound(page, tasks \ {t}) /\ ~AtActivation(page)
  BY <1>1, GoneSound, OfLoginPage DEF CreateKinds
<1>3. UNCHANGED boot
  BY DEF OtpAnswer
<1>4. CASE \E outcome \in Outcomes : ApplyOutcome(page, tasks \ {t}, outcome)
  BY <1>2, <1>3, <1>4, OutcomeSound DEF Stored
<1>5. CASE Run(page, tasks \ {t}) /\ UNCHANGED <<token, server>>
  BY <1>2, <1>3, <1>5, RunSound, Stays
<1> QED BY <1>1, <1>4, <1>5

LEMMA ActivateOptionsAnswered ==
    ASSUME Sound(page, tasks), Stored, ActivateOptionsAnswer
    PROVE  Sound(page', tasks') /\ Stored'
<1>1. PICK t \in tasks :
          /\ t.kind = "activateOptions"
          /\ \/ Run([Show(Enable(page, "activate-submit"), "enroll") EXCEPT !.enrollKey = t.of],
                    tasks \ {t})
             \/ Run(Enable(page, "activate-submit"), tasks \ {t})
  BY DEF ActivateOptionsAnswer, Under
<1>2. ~AtActivation(page)
  BY DEF ActivateOptionsAnswer, Activating, AtActivation
<1>3. PICK p : p = Enable(page, "activate-submit")
  OBVIOUS
<1>4. PICK c \in Codes : c = t.of
  BY <1>1, TaskFields DEF Sound
<1>5. page.code # Null
  BY <1>1 DEF Sound, CodeKnown, Awaits
<1>6. Sound(p, tasks \ {t}) /\ ~AtActivation(p)
  BY <1>1, <1>2, <1>3, BackSound DEF Buttons, Waits
<1>7. p.code = page.code
  BY <1>3 DEF Enable, Sound, PageState
<1>8. /\ Sound(Show(p, "enroll"), tasks \ {t}) /\ ~AtActivation(Show(p, "enroll"))
      /\ Show(p, "enroll").code # Null
  <2>1. Show(p, "enroll").code = p.code
    BY <1>6 DEF Show, Sound, PageState
  <2> QED BY <1>5, <1>6, <1>7, <2>1, ShowSound DEF Panels
<1>9. Sound([Show(p, "enroll") EXCEPT !.enrollKey = c], tasks \ {t})
  BY <1>8, OptionsSound
<1>10. Sound(page', tasks')
  BY <1>1, <1>3, <1>4, <1>6, <1>9, RunSound
<1> QED BY <1>10, Stays DEF ActivateOptionsAnswer

LEMMA EnrollVerifyAnswered ==
    ASSUME Sound(page, tasks), Stored, EnrollVerifyAnswer
    PROVE  Sound(page', tasks') /\ Stored'
<1>1. PICK p : p = Enable(page, "enroll-submit")
  OBVIOUS
<1>2. PICK q : q = [p EXCEPT !.enrollKey = Null]
  OBVIOUS
<1>3. PICK t \in tasks :
          /\ t.kind = "enrollVerify"
          /\ \/ \E n \in NextNth("login") :
                    Run(Show(Disable(q, "login-submit"), "checking"),
                        (tasks \ {t}) \cup {Login(n)})
             \/ Run(q, tasks \ {t})
             \/ Run(p, tasks \ {t})
  BY <1>1, <1>2 DEF EnrollVerifyAnswer, Under
<1>4. Sound(p, tasks \ {t}) /\ ~AtActivation(p)
  <2>1. ~AtActivation(page)
    BY <1>3, OfLoginPage DEF CreateKinds
  <2> QED BY <1>1, <1>3, <2>1, BackSound DEF Buttons, Waits, EnrollKinds
<1>5. Sound(q, tasks \ {t}) /\ ~AtActivation(q)
  BY <1>2, <1>4, OptionsSound DEF AtActivation
<1>6. ASSUME NEW n \in NextNth("login")
      PROVE  Sound(Show(Disable(q, "login-submit"), "checking"), (tasks \ {t}) \cup {Login(n)})
  <2>1. Login(n) \in Tasks /\ Login(n).kind = "login"
    BY <1>6 DEF NextNth, Login, Tasks
  <2>2. /\ Sound(Disable(q, "login-submit"), (tasks \ {t}) \cup {Login(n)})
        /\ ~AtActivation(Disable(q, "login-submit"))
    BY <1>5, <2>1, TapSound DEF CreateKinds, Buttons, Waits
  <2> QED BY <2>2, ShowSound DEF Panels
<1>7. Sound(page', tasks')
  BY <1>3, <1>4, <1>5, <1>6, RunSound
<1> QED BY <1>7, Stays DEF EnrollVerifyAnswer

LEMMA OfferOptionsAnswered ==
    ASSUME Sound(page, tasks), Stored, OfferOptionsAnswer
    PROVE  Sound(page', tasks') /\ Stored'
<1>1. PICK v \in BOOLEAN : v = (page.offerKey = Null)
  OBVIOUS
<1>2. PICK q : q = Set(page, "offer-add", v)
  OBVIOUS
<1>3. PICK t \in tasks :
          /\ t.kind = "offerOptions"
          /\ \/ Run([Enable(page, "offer-add") EXCEPT !.offerKey = t.of], tasks \ {t})
             \/ Run(AfterLogin(q), tasks \ {t})
  BY <1>1, <1>2 DEF OfferOptionsAnswer, Under, Set
<1>4. "offer-add" \in Buttons /\ t.kind \in OfferKinds /\ t.kind \in Waits("offer-add")
  BY <1>3 DEF Buttons, OfferKinds, Waits
<1>5. PICK s \in Sessions \cup {Null} : s = t.of
  BY <1>3, TaskFields DEF Sound
<1>6. ~AtActivation(page)
  BY <1>3, OfLoginPage DEF CreateKinds
<1>7. Sound([Enable(page, "offer-add") EXCEPT !.offerKey = s], tasks \ {t})
  <2>1. /\ Sound(Enable(page, "offer-add"), tasks \ {t})
        /\ ~Enable(page, "offer-add").disabled["offer-add"]
    BY <1>4, <1>6, BackSound
  <2> QED BY <2>1, OptionsSound
<1>8. Sound(q, tasks \ {t}) /\ ~AtActivation(q)
  <2>1. Sound(q, tasks \ {t}) /\ q.panel = page.panel
    BY <1>1, <1>2, <1>4, ByKeySound
  <2> QED BY <1>6, <2>1 DEF AtActivation
<1>9. Sound(AfterLogin(q), tasks \ {t})
  BY <1>8, AfterLoginSound
<1>10. Sound(page', tasks')
  BY <1>3, <1>5, <1>7, <1>9, RunSound
<1> QED BY <1>10, Stays DEF OfferOptionsAnswer

LEMMA OfferVerifyAnswered ==
    ASSUME Sound(page, tasks), Stored, OfferVerifyAnswer
    PROVE  Sound(page', tasks') /\ Stored'
<1>1. PICK p : p = Enable(page, "offer-add")
  OBVIOUS
<1>2. PICK t \in tasks :
          t.kind = "offerVerify" /\ (Run(AfterLogin(p), tasks \ {t}) \/ Run(p, tasks \ {t}))
  BY <1>1 DEF OfferVerifyAnswer, Under
<1>3. Sound(p, tasks \ {t}) /\ ~AtActivation(p)
  <2>1. ~AtActivation(page)
    BY <1>2, OfLoginPage DEF CreateKinds
  <2> QED BY <1>1, <1>2, <2>1, BackSound DEF Buttons, Waits, OfferKinds
<1>4. Sound(page', tasks')
  BY <1>2, <1>3, AfterLoginSound, RunSound
<1> QED BY <1>4, Stays DEF OfferVerifyAnswer

LEMMA LogoutAnswered ==
    ASSUME Sound(page, tasks), Stored, LogoutAnswer
    PROVE  Sound(page', tasks') /\ Stored'
<1>1. PICK t \in tasks :
          /\ t.kind = "logout"
          /\ \/ /\ server' = [server EXCEPT !.valid = @ \ {t.of}] \/ UNCHANGED server
                /\ token' = Null /\ Run(Show(page, "credentials"), tasks \ {t})
             \/ Run(page, tasks \ {t}) /\ UNCHANGED <<token, server>>
  BY DEF LogoutAnswer, Under
<1>2. Sound(page, tasks \ {t}) /\ ~AtActivation(page)
  BY <1>1, GoneSound, OfLoginPage DEF CreateKinds
<1>3. Sound(Show(page, "credentials"), tasks \ {t})
  BY <1>2, ShowSound DEF Panels
<1>4. Sound(page', tasks')
  BY <1>1, <1>2, <1>3, RunSound
<1>5. Stored'
  BY <1>1 DEF LogoutAnswer, Stored, ServerState
<1> QED BY <1>4, <1>5


LEMMA PromptAnswered ==
    ASSUME Sound(page, tasks), Stored, PromptAnswer
    PROVE  Sound(page', tasks') /\ Stored'
<1>1. PICK t \in tasks :
          \/ /\ t.kind = "stepUpPrompt"
             /\ \/ Run(page, (tasks \ {t}) \cup {[t EXCEPT !.kind = "stepUpVerify"]})
                \/ Run(Enable(page, "mfa-submit"), tasks \ {t})
          \/ /\ t.kind = "enrollPrompt"
             /\ \/ Run(page, (tasks \ {t}) \cup
                           {[kind |-> "enrollVerify", of |-> page.code, key |-> t.of]})
                \/ Run(Enable(page, "enroll-submit"), tasks \ {t})
          \/ /\ t.kind = "offerPrompt"
             /\ \/ Run(page, (tasks \ {t}) \cup {[t EXCEPT !.kind = "offerVerify"]})
                \/ Run(Enable(page, "offer-add"), tasks \ {t})
  BY DEF PromptAnswer, Under
<1>2. ~AtActivation(page) /\ t \in Tasks
  BY <1>1, OfLoginPage DEF CreateKinds, Sound
<1>3. ASSUME NEW b \in Buttons, t.kind \in Waits(b), Run(Enable(page, b), tasks \ {t})
      PROVE  Sound(page', tasks')
  BY <1>2, <1>3, BackSound, RunSound
<1>4. CASE t.kind = "stepUpPrompt"
  <2>1. PICK u \in Tasks : u = [t EXCEPT !.kind = "stepUpVerify"]
    BY <1>2, <1>4, TaskFields
  <2>2. u.kind = "stepUpVerify"
    BY <1>2, <1>4, <2>1, TaskFields
  <2>3. Sound(page, (tasks \ {t}) \cup {u})
    BY <1>4, <2>2, GoOnSound
  <2>4. "mfa-submit" \in Buttons /\ t.kind \in Waits("mfa-submit")
    BY <1>4 DEF Buttons, Waits, StepUpKinds
  <2>5. \/ Run(page, (tasks \ {t}) \cup {u})
        \/ Run(Enable(page, "mfa-submit"), tasks \ {t})
    BY <1>1, <1>4, <2>1
  <2> QED BY <1>3, <2>3, <2>4, <2>5, RunSound, Stays DEF PromptAnswer
<1>5. CASE t.kind = "enrollPrompt"
  <2>1. page.code \in Codes /\ t.of \in Codes
    BY <1>2, <1>5, TaskFields DEF Sound, PageState, CodeKnown, Awaits
  <2>2. PICK u \in Tasks : u = [kind |-> "enrollVerify", of |-> page.code, key |-> t.of]
    BY <2>1 DEF Tasks
  <2>3. Sound(page, (tasks \ {t}) \cup {u})
    BY <1>5, <2>2, GoOnSound
  <2>4. "enroll-submit" \in Buttons /\ t.kind \in Waits("enroll-submit")
    BY <1>5 DEF Buttons, Waits, EnrollKinds
  <2>5. \/ Run(page, (tasks \ {t}) \cup {u})
        \/ Run(Enable(page, "enroll-submit"), tasks \ {t})
    BY <1>1, <1>5, <2>2
  <2> QED BY <1>3, <2>3, <2>4, <2>5, RunSound, Stays DEF PromptAnswer
<1>6. CASE t.kind = "offerPrompt"
  <2>1. PICK u \in Tasks : u = [t EXCEPT !.kind = "offerVerify"]
    BY <1>2, <1>6, TaskFields
  <2>2. u.kind = "offerVerify"
    BY <1>2, <1>6, <2>1, TaskFields
  <2>3. Sound(page, (tasks \ {t}) \cup {u})
    BY <1>6, <2>2, GoOnSound
  <2>4. "offer-add" \in Buttons /\ t.kind \in Waits("offer-add")
    BY <1>6 DEF Buttons, Waits, OfferKinds
  <2>5. \/ Run(page, (tasks \ {t}) \cup {u})
        \/ Run(Enable(page, "offer-add"), tasks \ {t})
    BY <1>1, <1>6, <2>1
  <2> QED BY <1>3, <2>3, <2>4, <2>5, RunSound, Stays DEF PromptAnswer
<1> QED BY <1>1, <1>4, <1>5, <1>6

-----------------------------------------------------------------------------
(* The activation page.                                                    *)

LEMMA OpensActivation ==
    ASSUME Stored, OpenActivation
    PROVE  Sound(page', tasks') /\ Stored'
BY FreshIsSound, Stays DEF OpenActivation, Show, Panels

LEMMA SubmitsCode ==
    ASSUME Sound(page, tasks), Stored, SubmitCode
    PROVE  Sound(page', tasks') /\ Stored'
<1>1. PICK c \in Codes :
          Run(TypedIn(Disable(page, "activate-submit"), c),
              tasks \cup {[kind |-> "activateOptions", of |-> c]})
  BY DEF SubmitCode, TypedIn
<1>2. page.panel = "form" /\ ~page.disabled["activate-submit"]
  BY DEF SubmitCode, On
\* While the form can be sent, nothing is under way.
<1>3. tasks = {}
  BY <1>2 DEF Sound, CodeKept, AtActivation
<1>4. PICK q : q = TypedIn(page, c)
  OBVIOUS
<1>5. /\ Sound(q, {}) /\ q.panel = "form" /\ q.code = c
      /\ TypedIn(Disable(page, "activate-submit"), c) = Disable(q, "activate-submit")
  BY <1>2, <1>3, <1>4, TypedSound
<1>6. PICK u \in Tasks : u = [kind |-> "activateOptions", of |-> c]
  BY DEF Tasks
<1>7. PICK z : z = Disable(q, "activate-submit")
  OBVIOUS
<1>8. /\ z \in PageState /\ z.disabled["activate-submit"]
      /\ \A b \in Buttons : b # "activate-submit" => z.disabled[b] = q.disabled[b]
      /\ z.panel = "form" /\ z.code = c /\ z.enrollKey = q.enrollKey
      /\ z.stepUpKey = q.stepUpKey /\ z.offerKey = q.offerKey
  <2>1. q \in PageState /\ "activate-submit" \in Buttons
    BY <1>5 DEF Sound, Buttons
  <2>2. /\ Disable(q, "activate-submit") \in PageState
        /\ Disable(q, "activate-submit").disabled["activate-submit"]
        /\ \A b \in Buttons : b # "activate-submit" =>
               Disable(q, "activate-submit").disabled[b] = q.disabled[b]
        /\ Disable(q, "activate-submit").panel = q.panel
        /\ Disable(q, "activate-submit").code = q.code
        /\ Disable(q, "activate-submit").enrollKey = q.enrollKey
        /\ Disable(q, "activate-submit").stepUpKey = q.stepUpKey
        /\ Disable(q, "activate-submit").offerKey = q.offerKey
    BY <2>1, Switched
  <2> QED BY <1>5, <1>7, <2>2, Zenon
<1>9. Usable(z, {u})
  BY <1>5, <1>6, <1>8 DEF Sound, Usable, Awaits, Buttons
<1>10. CodeKnown(z, {u}) /\ CodeKept(z, {u})
  BY <1>6, <1>8, Constants DEF CodeKnown, CodeKept, CreateKinds
<1>11. Run(z, {u}) /\ UNCHANGED <<boot, token, server>>
  BY <1>1, <1>3, <1>5, <1>6, <1>7 DEF SubmitCode, On
<1> QED BY <1>8, <1>9, <1>10, <1>11, RunSound, Stays DEF Sound

LEMMA CodeAnswered ==
    ASSUME Sound(page, tasks), Stored, CodeAnswer
    PROVE  Sound(page', tasks') /\ Stored'
<1>1. PICK p : p = Enable(page, "activate-submit")
  OBVIOUS
<1>2. PICK t \in tasks :
          /\ t.kind = "activateOptions" /\ AtActivation(page)
          /\ \/ Run([Show(p, "create") EXCEPT !.enrollKey = t.of], tasks \ {t})
             \/ Run(p, tasks \ {t})
  BY <1>1 DEF CodeAnswer, Under, Activating, AtActivation
<1>3. /\ page.panel = "form" /\ t.of \in Codes /\ t.of = page.code
      /\ t = [kind |-> "activateOptions", of |-> page.code]
  BY <1>2, TaskFields DEF Sound, CodeKept
\* It is the only fetch under way.
<1>4. \A u \in tasks : u = t
  <2>1. TAKE u \in tasks
  <2>2. u.kind = "activateOptions" /\ u.of = page.code
    BY <1>2, <1>3 DEF Sound, CodeKept
  <2>3. u = [kind |-> "activateOptions", of |-> page.code]
    BY <2>2, TaskFields DEF Sound
  <2> QED BY <1>3, <2>3
<1>5. tasks \ {t} = {}
  BY <1>4
<1>6. /\ p \in PageState /\ ~p.disabled["activate-submit"]
      /\ \A b \in Buttons : b # "activate-submit" => p.disabled[b] = page.disabled[b]
      /\ p.panel = "form" /\ p.code = page.code /\ p.enrollKey = page.enrollKey
      /\ p.stepUpKey = page.stepUpKey /\ p.offerKey = page.offerKey
  <2>1. page \in PageState /\ "activate-submit" \in Buttons
    BY DEF Sound, Buttons
  <2>2. /\ Enable(page, "activate-submit") \in PageState
        /\ ~Enable(page, "activate-submit").disabled["activate-submit"]
        /\ \A b \in Buttons : b # "activate-submit" =>
               Enable(page, "activate-submit").disabled[b] = page.disabled[b]
        /\ Enable(page, "activate-submit").panel = page.panel
        /\ Enable(page, "activate-submit").code = page.code
        /\ Enable(page, "activate-submit").enrollKey = page.enrollKey
        /\ Enable(page, "activate-submit").stepUpKey = page.stepUpKey
        /\ Enable(page, "activate-submit").offerKey = page.offerKey
    BY <2>1, Switched
  <2> QED BY <1>1, <1>3, <2>2, Zenon
<1>7. Usable(p, {})
  BY <1>2, <1>4, <1>6 DEF Sound, Usable, Awaits, Buttons, StepUpKinds, OfferKinds,
                          EnrollKinds, CreateKinds
<1>8. Sound(p, {})
  BY <1>3, <1>6, <1>7, Constants DEF Sound, CodeKnown, CodeKept, Awaits
<1>9. PICK q : q = [Show(p, "create") EXCEPT !.enrollKey = t.of]
  OBVIOUS
<1>10. /\ q \in PageState /\ q.disabled = p.disabled
       /\ q.panel = "create" /\ q.code = t.of /\ q.enrollKey = t.of
       /\ q.stepUpKey = p.stepUpKey /\ q.offerKey = p.offerKey
  BY <1>3, <1>6, <1>9 DEF Show, PageState, Panels
<1>11. Sound(q, {})
  BY <1>3, <1>7, <1>10, Constants DEF Sound, Usable, CodeKnown, CodeKept, Awaits
<1>12. Sound(page', tasks')
  BY <1>2, <1>5, <1>8, <1>9, <1>11, RunSound
<1> QED BY <1>12, Stays DEF CodeAnswer

LEMMA TapsCreate ==
    ASSUME Sound(page, tasks), Stored, TapCreate
    PROVE  Sound(page', tasks') /\ Stored'
<1>1. page.panel = "create" /\ page.enrollKey \in Codes /\ page.code = page.enrollKey
  BY DEF TapCreate, On, Sound, CodeKept, PageState
<1>2. PICK u \in Tasks : u = [kind |-> "createPrompt", of |-> page.enrollKey]
  BY <1>1 DEF Tasks
<1>3. Usable(page, tasks \cup {u}) /\ CodeKnown(page, tasks \cup {u})
  BY <1>1, Constants DEF Sound, Usable, CodeKnown, Awaits
<1>4. CodeKept(page, tasks \cup {u})
  BY <1>1, <1>2 DEF Sound, CodeKept, AtActivation, CreateKinds
<1>5. Sound(page, tasks \cup {u})
  BY <1>3, <1>4 DEF Sound
<1>6. "create-submit" \in Buttons /\ Awaits(tasks \cup {u}, Waits("create-submit"))
  BY <1>2 DEF Buttons, Waits, Awaits, CreateKinds
<1>7. Sound(Disable(page, "create-submit"), tasks \cup {u})
  BY <1>5, <1>6, DisableSound
<1>8. /\ Run(Disable(page, "create-submit"), tasks \cup {u})
      /\ UNCHANGED <<boot, token, server>>
  BY <1>2 DEF TapCreate, On
<1> QED BY <1>7, <1>8, RunSound, Stays

\* The end of either step of create-submit.
LEMMA CreateEnds ==
    ASSUME NEW p, NEW ts, Sound(p, ts), NEW t \in ts, t.kind \in CreateKinds
    PROVE  /\ Sound(Enable(p, "create-submit"), ts \ {t})
           /\ Enable(p, "create-submit").panel = p.panel
<1>1. "create-submit" \in Buttons
      /\ \A b \in Buttons : t.kind \in Waits(b) => b = "create-submit"
  BY DEF Waits, Buttons, StepUpKinds, OfferKinds, EnrollKinds, CreateKinds
<1>2. /\ Sound(Enable(p, "create-submit"), ts) /\ Enable(p, "create-submit").panel = p.panel
      /\ ~Enable(p, "create-submit").disabled["create-submit"]
  BY <1>1, EnableSound
<1> QED BY <1>1, <1>2, AnswerSound

LEMMA CreatePromptAnswered ==
    ASSUME Sound(page, tasks), Stored, CreatePromptAnswer
    PROVE  Sound(page', tasks') /\ Stored'
<1>1. PICK t \in tasks :
          /\ t.kind = "createPrompt"
          /\ \/ Run(page, (tasks \ {t}) \cup
                        {[kind |-> "createVerify", of |-> page.code, key |-> t.of]})
             \/ Run(Enable(page, "create-submit"), tasks \ {t})
  BY DEF CreatePromptAnswer, Under
<1>2. t.of \in Codes /\ t.of = page.code
  BY <1>1, TaskFields DEF Sound, CodeKept
<1>3. PICK u \in Tasks : u = [kind |-> "createVerify", of |-> page.code, key |-> t.of]
  BY <1>2 DEF Tasks
<1>4. Sound(page, (tasks \ {t}) \cup {u})
  BY <1>1, <1>2, <1>3, GoOnSound
<1>5. Sound(Enable(page, "create-submit"), tasks \ {t})
  BY <1>1, CreateEnds DEF CreateKinds
<1>6. Sound(page', tasks')
  BY <1>1, <1>3, <1>4, <1>5, RunSound
<1> QED BY <1>6, Stays DEF CreatePromptAnswer

LEMMA CreateVerifyAnswered ==
    ASSUME Sound(page, tasks), Stored, CreateVerifyAnswer
    PROVE  Sound(page', tasks') /\ Stored'
<1>1. PICK p : p = Enable(page, "create-submit")
  OBVIOUS
<1>2. PICK t \in tasks :
          /\ t.kind = "createVerify"
          /\ Run(Show(p, "done"), tasks \ {t}) \/ Run(p, tasks \ {t})
  BY <1>1 DEF CreateVerifyAnswer, Under
<1>3. page.panel \in {"create", "done"}
  BY <1>2 DEF Sound, CodeKept, CreateKinds
<1>4. Sound(p, tasks \ {t}) /\ p.panel \in {"create", "done"}
  BY <1>1, <1>2, <1>3, CreateEnds DEF CreateKinds
<1>5. Sound(Show(p, "done"), tasks \ {t})
  BY <1>4 DEF Show, Panels, Sound, PageState, Usable, CodeKnown, CodeKept, AtActivation
<1>6. Sound(page', tasks')
  BY <1>2, <1>4, <1>5, RunSound
<1> QED BY <1>6, Stays DEF CreateVerifyAnswer

-----------------------------------------------------------------------------
(* The theorems.                                                           *)

PagesInv == Sound(page, tasks) /\ Stored

LEMMA PagesInvAfter ==
    ASSUME Sound(page', tasks'), Stored'
    PROVE  PagesInv'
BY DEF PagesInv, Sound, PageState, AtActivation, Usable, CodeKnown, CodeKept, Awaits

LEMMA PagesInitially ==
    ASSUME PageInit
    PROVE  PagesInv
<1>1. Stored
  BY BoundsAssumption DEF PageInit, Stored, ServerState, Sessions
<1>2. PICK x \in Panels : x = IF boot.unknown THEN "unknown" ELSE FreshPage.panel
  BY DEF FreshPage, Panels
<1>3. x \notin {"form", "create", "done"}
  BY <1>2 DEF FreshPage
<1>4. page = [FreshPage EXCEPT !.panel = x]
  BY <1>2 DEF PageInit
<1>5. Sound(page, {}) /\ ~AtActivation(page)
  <2>1. page.panel = x
    BY <1>4 DEF FreshPage
  <2> QED BY <1>3, <1>4, <2>1, FreshIsSound DEF AtActivation
<1>6. CASE tasks = {}
  BY <1>1, <1>5, <1>6 DEF PagesInv
<1>7. CASE tasks = {[kind |-> "restore", of |-> token]}
  <2>1. PICK u \in Tasks : u = [kind |-> "restore", of |-> token]
    BY <1>1 DEF Tasks, Stored
  <2>2. Sound(page, {} \cup {u})
    BY <1>5, <2>1, StartSound DEF CreateKinds
  <2> QED BY <1>1, <1>7, <2>1, <2>2 DEF PagesInv
<1> QED BY <1>6, <1>7 DEF PageInit

LEMMA PagesPreserved ==
    ASSUME PagesInv, [PagesNext]_pageVars
    PROVE  PagesInv'
<1>1. Sound(page, tasks) /\ Stored
  BY DEF PagesInv
<1>2. CASE PagesNext
  <2>1. CASE Load
    BY <1>1, <2>1, Loads, PagesInvAfter DEF Load
  <2>2. CASE Expire
    <3>1. Stored' /\ page' = page /\ tasks' = tasks
      BY <1>1, <2>2 DEF Expire, Stored, ServerState
    <3> QED BY <1>1, <3>1, PagesInvAfter
  <2>3. CASE SubmitLogin
    BY <1>1, <2>3, SubmitsLogin, PagesInvAfter
  <2>4. CASE Restart
    BY <1>1, <2>4, Restarts, PagesInvAfter
  <2>5. CASE TapStepUp
    BY <1>1, <2>5, TapsStepUp, PagesInvAfter
  <2>6. CASE SubmitOtp
    BY <1>1, <2>6, SubmitsOtp, PagesInvAfter
  <2>7. CASE SubmitActivationCode
    BY <1>1, <2>7, SubmitsActivationCode, PagesInvAfter
  <2>8. CASE TapEnroll
    BY <1>1, <2>8, TapsEnroll, PagesInvAfter
  <2>9. CASE TapOffer
    BY <1>1, <2>9, TapsOffer, PagesInvAfter
  <2>10. CASE SkipOffer
    BY <1>1, <2>10, SkipsOffer, PagesInvAfter
  <2>11. CASE SubmitLogout
    BY <1>1, <2>11, SubmitsLogout, PagesInvAfter
  <2>12. CASE PromptAnswer
    BY <1>1, <2>12, PromptAnswered, PagesInvAfter
  <2>13. CASE RestoreAnswer
    BY <1>1, <2>13, RestoreAnswered, PagesInvAfter
  <2>14. CASE LoginAnswer
    BY <1>1, <2>14, LoginAnswered, PagesInvAfter
  <2>15. CASE StepUpOptionsAnswer
    BY <1>1, <2>15, StepUpOptionsAnswered, PagesInvAfter
  <2>16. CASE StepUpVerifyAnswer
    BY <1>1, <2>16, StepUpVerifyAnswered, PagesInvAfter
  <2>17. CASE OtpAnswer
    BY <1>1, <2>17, OtpAnswered, PagesInvAfter
  <2>18. CASE ActivateOptionsAnswer
    BY <1>1, <2>18, ActivateOptionsAnswered, PagesInvAfter
  <2>19. CASE EnrollVerifyAnswer
    BY <1>1, <2>19, EnrollVerifyAnswered, PagesInvAfter
  <2>20. CASE OfferOptionsAnswer
    BY <1>1, <2>20, OfferOptionsAnswered, PagesInvAfter
  <2>21. CASE OfferVerifyAnswer
    BY <1>1, <2>21, OfferVerifyAnswered, PagesInvAfter
  <2>22. CASE LogoutAnswer
    BY <1>1, <2>22, LogoutAnswered, PagesInvAfter
  <2>23. CASE OpenActivation
    BY <1>1, <2>23, OpensActivation, PagesInvAfter
  <2>24. CASE SubmitCode
    BY <1>1, <2>24, SubmitsCode, PagesInvAfter
  <2>25. CASE CodeAnswer
    BY <1>1, <2>25, CodeAnswered, PagesInvAfter
  <2>26. CASE TapCreate
    BY <1>1, <2>26, TapsCreate, PagesInvAfter
  <2>27. CASE CreatePromptAnswer
    BY <1>1, <2>27, CreatePromptAnswered, PagesInvAfter
  <2>28. CASE CreateVerifyAnswer
    BY <1>1, <2>28, CreateVerifyAnswered, PagesInvAfter
  <2> QED BY <1>2, <2>1, <2>2, <2>3, <2>4, <2>5, <2>6, <2>7, <2>8, <2>9, <2>10, <2>11,
              <2>12, <2>13, <2>14, <2>15, <2>16, <2>17, <2>18, <2>19, <2>20, <2>21,
              <2>22, <2>23, <2>24, <2>25, <2>26, <2>27, <2>28
          DEF PagesNext, PageNext, ServerAnswer
<1>3. CASE UNCHANGED pageVars
  <2>1. Stored' /\ page' = page /\ tasks' = tasks
    BY <1>1, <1>3 DEF pageVars, Stored
  <2> QED BY <1>1, <2>1, PagesInvAfter
<1> QED BY <1>2, <1>3

\* The pages' inductive invariant holds, whatever the person does and in which
\* order the answers of the IdP and of the authenticator come.
THEOREM PagesInvariance == PagesSpec => []PagesInv
<1>1. PageInit => PagesInv
  BY PagesInitially
<1>2. PagesInv /\ [PagesNext]_pageVars => PagesInv'
  BY PagesPreserved
<1> QED BY <1>1, <1>2, PTL DEF PagesSpec

\* login.js and activate.js: the pages' state keeps its type, on any number of
\* clicks and answers and for any boot records.
THEOREM PagesTyping == PagesSpec => []PageTypeOK
<1>1. PagesInv => PageTypeOK
  BY DEF PagesInv, Sound, PageState, Stored, ServerState, PageTypeOK
<1> QED BY <1>1, PagesInvariance, PTL

\* login.js and activate.js: no path through the handlers, their early returns
\* and their failures leaves a button disabled with nothing to wait for.
THEOREM LiveButtons == PagesSpec => []NoDeadButton
<1>1. PagesInv => NoDeadButton
  BY DEF PagesInv, Sound, Usable, Awaits, StepUpKinds, OfferKinds, EnrollKinds, CreateKinds,
         NoDeadButton, Under
<1> QED BY <1>1, PagesInvariance, PTL

\* activate.js's create-submit: a new passkey goes with the code whose options
\* it was made for, although the code is read only after the prompt.
THEOREM PasskeyAndCode == PagesSpec => []PasskeyGoesWithItsCode
<1>1. PagesInv => PasskeyGoesWithItsCode
  BY DEF PagesInv, Sound, CodeKept, CreateKinds, PasskeyGoesWithItsCode, Under
<1> QED BY <1>1, PagesInvariance, PTL

=============================================================================
