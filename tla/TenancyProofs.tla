--------------------------- MODULE TenancyProofs ---------------------------
(***************************************************************************)
(* Theorems about Tenancy, for any number of requests, tenants, domains    *)
(* and operators and whatever is asked: its types, who is served, that a   *)
(* policy precedes its tenant, and whose request changes a domain.         *)
(***************************************************************************)
EXTENDS Tenancy, TLAPS

Calls == [kind : {"write", "create", "patch"}, who : Operators, target : Tenants,
          wanted : SUBSET Domains, read : SUBSET Rights, seen : SUBSET Domains]
Boots == [kind : {"boot"}, seen : SUBSET Domains, lost : [Operators -> SUBSET Rights]]

Calling == {"session read", "user read", "loaded"} \cup Handling

\* A request knows what it is about.
RequestsAreWhole ==
    \A r \in Requests :
        /\ pc[r] \in Calling => req[r] \in Calls
        /\ pc[r] = "booting" => req[r] \in Boots

Typed == TypeOK /\ RequestsAreWhole

Step(r) == Guard(r) \/ Handler(r) \/ BeginBoot(r) \/ Boot(r) \/ Fail(r)

-----------------------------------------------------------------------------
(* What a step leaves alone.                                               *)

LEMMA EnvironmentFrame ==
    ASSUME Environment
    PROVE  UNCHANGED <<scope, rows, pc, req>> /\ MayEnter
BY DEF Environment, SessionEnds, SetEnabled, Grant, Revoke, Change

\* A step of one request leaves operators alone, unless it is a boot, which
\* gives; only a creation adds a tenant, and only three steps write domains.
LEMMA StepFrame ==
    ASSUME NEW r \in Requests, Step(r)
    PROVE  /\ serialized' = serialized
           /\ sessions' = sessions /\ enabled' = enabled /\ changes' = changes
           /\ rights' = rights \/ Boot(r)
           /\ policies' = policies \/ policies' = policies \cup {req[r].target}
           /\ tenants' = tenants \/ InsertTenant(r)
           /\ domainOf' = domainOf \/ InsertTenant(r) \/ SaveDomains(r) \/ Boot(r)
<1> USE DEF scope, rows, people, End, Enter, Leave
<1>1. CASE Guard(r)
  BY <1>1 DEF Guard, LoadSession, ReadUser, ReadPermissions, Authorize
<1>2. CASE WriteInTenant(r) \/ CheckFree(r) \/ PutStarter(r) \/ PutUnanswered(r) \/ InsertTenant(r)
  BY <1>2 DEF WriteInTenant, CheckFree, PutStarter, PutUnanswered, InsertTenant
<1>3. CASE CheckDomains(r) \/ ClearDomains(r) \/ SaveDomains(r)
  BY <1>3 DEF CheckDomains, ClearDomains, SaveDomains
<1>4. CASE BeginBoot(r) \/ Boot(r) \/ Fail(r)
  BY <1>4 DEF BeginBoot, Boot, Fail
<1> QED BY <1>1, <1>2, <1>3, <1>4 DEF Step, Handler

\* It leaves the other requests alone, but for the rows a DELETE skips.
LEMMA OthersFrame ==
    ASSUME Typed, NEW r \in Requests, Step(r), NEW s \in Requests, s # r
    PROVE  /\ pc'[s] = pc[s]
           /\ s \in tx' <=> s \in tx
           /\ \/ req'[s] = req[s]
              \/ /\ SaveDomains(r) /\ pc[s] = "domains cleared"
                 /\ req'[s] = [req[s] EXCEPT !.seen = @ \ req[r].seen]
<1> USE DEF scope, End, Enter, Leave, Goto, Typed, TypeOK
<1>1. CASE Guard(r)
  BY <1>1 DEF Guard, LoadSession, ReadUser, ReadPermissions, Authorize
<1>2. CASE WriteInTenant(r) \/ CheckFree(r) \/ PutStarter(r) \/ PutUnanswered(r) \/ InsertTenant(r)
  BY <1>2 DEF WriteInTenant, CheckFree, PutStarter, PutUnanswered, InsertTenant
<1>3. CASE CheckDomains(r) \/ ClearDomains(r)
  BY <1>3 DEF CheckDomains, ClearDomains
<1>4. CASE SaveDomains(r)
  BY <1>4 DEF SaveDomains, OthersSkip
<1>5. CASE BeginBoot(r) \/ Boot(r) \/ Fail(r)
  BY <1>5 DEF BeginBoot, Boot, Fail
<1> QED BY <1>1, <1>2, <1>3, <1>4, <1>5 DEF Step, Handler

\* What they are about stays.
LEMMA TargetsKept ==
    ASSUME Typed, NEW r \in Requests, Step(r), NEW s \in Requests, s # r, pc[s] \in Calling
    PROVE  req'[s].target = req[s].target /\ req'[s].kind = req[s].kind
<1>1. req[s] \in Calls
  BY DEF Typed, RequestsAreWhole
<1>2. ASSUME NEW seen \in SUBSET Domains, req'[s] = [req[s] EXCEPT !.seen = seen]
      PROVE  req'[s].target = req[s].target /\ req'[s].kind = req[s].kind
  BY <1>1, <1>2 DEF Calls
<1>3. req[s].seen \ req[r].seen \in SUBSET Domains
  BY <1>1 DEF Calls
<1> QED BY <1>2, <1>3, OthersFrame

-----------------------------------------------------------------------------
(* Types                                                                   *)

\* Where a request of the console goes on, and what it goes on with.
LEMMA CallMoves ==
    ASSUME Typed, NEW r \in Requests, Guard(r) \/ Handler(r)
    PROVE  \/ pc'[r] \in Calling /\ req'[r] \in Calls
           \/ pc'[r] = "idle"
<1> USE DEF Typed, TypeOK, Goto, Calling, Handling
<1>1. ASSUME NEW a \in Asked, LoadSession(r, a) PROVE pc'[r] \in Calling /\ req'[r] \in Calls
  <2>1. /\ a.kind \in {"write", "create", "patch"} /\ a.who \in Operators
        /\ a.target \in Tenants /\ a.wanted \in SUBSET Domains
    BY TenancyAssumption DEF TenancyAssumption
  <2> QED BY <1>1, <2>1 DEF LoadSession, Calls
<1>2. CASE ReadUser(r) \/ CheckFree(r) \/ PutStarter(r) \/ CheckDomains(r)
  BY <1>2 DEF ReadUser, CheckFree, PutStarter, CheckDomains, RequestsAreWhole
<1>3. CASE ReadPermissions(r)
  <2>1. req[r] \in Calls /\ rights[req[r].who] \in SUBSET Rights
    BY <1>3 DEF ReadPermissions, RequestsAreWhole, Calls
  <2> QED BY <1>3, <2>1 DEF ReadPermissions, Calls
<1>4. CASE Authorize(r)
  <2>1. req[r] \in Calls
    BY <1>4 DEF Authorize, RequestsAreWhole
  <2> QED BY <1>4, <2>1 DEF Authorize, Calls
<1>5. CASE ClearDomains(r)
  <2>1. req[r] \in Calls
    BY <1>5 DEF ClearDomains, RequestsAreWhole
  <2> QED BY <1>5, <2>1 DEF ClearDomains, Calls, DomainsOf
<1>6. CASE WriteInTenant(r) \/ PutUnanswered(r) \/ InsertTenant(r) \/ SaveDomains(r)
  BY <1>6 DEF WriteInTenant, PutUnanswered, InsertTenant, SaveDomains, End
<1> QED BY <1>1, <1>2, <1>3, <1>4, <1>5, <1>6 DEF Guard, Handler

LEMMA BootMoves ==
    ASSUME Typed, NEW r \in Requests, BeginBoot(r) \/ Boot(r) \/ Fail(r)
    PROVE  \/ pc'[r] = "booting" /\ req'[r] \in Boots
           \/ pc'[r] = "idle"
<1> USE DEF Typed, TypeOK, Goto
<1>1. CASE BeginBoot(r)
  <2> DEFINE lost == [o \in Operators |-> SeedRights[o] \ rights[o]]
  <2>1. lost \in [Operators -> SUBSET Rights]
    BY TenancyAssumption DEF TenancyAssumption
  <2> HIDE DEF lost
  <2>2. req'[r] = [kind |-> "boot",
                   seen |-> {d \in Domains : SeedTenantOf[d] # None /\ domainOf[d] = None},
                   lost |-> lost]
    BY <1>1 DEF BeginBoot, lost
  <2> QED BY <1>1, <2>1, <2>2 DEF BeginBoot, Boots
<1>2. CASE Boot(r) \/ Fail(r)
  BY <1>2 DEF Boot, Fail, End
<1> QED BY <1>1, <1>2

\* pc and req are functions over all requests again.
LEMMA StepShape ==
    ASSUME Typed, NEW r \in Requests, Step(r)
    PROVE  /\ pc' = [pc EXCEPT ![r] = pc'[r]]
           /\ req' = [s \in Requests |-> req'[s]]
           /\ pc'[r] = "idle" => req'[r] = None
           /\ tx' \subseteq tx \cup {r}
<1> USE DEF scope, End, Enter, Leave, Goto, Typed, TypeOK
<1>1. CASE Guard(r)
  BY <1>1 DEF Guard, LoadSession, ReadUser, ReadPermissions, Authorize
<1>2. CASE WriteInTenant(r) \/ CheckFree(r) \/ PutStarter(r) \/ PutUnanswered(r) \/ InsertTenant(r)
  BY <1>2 DEF WriteInTenant, CheckFree, PutStarter, PutUnanswered, InsertTenant
<1>3. CASE CheckDomains(r) \/ ClearDomains(r)
  BY <1>3 DEF CheckDomains, ClearDomains
<1>4. CASE SaveDomains(r)
  BY <1>4 DEF SaveDomains, OthersSkip
<1>5. CASE BeginBoot(r) \/ Boot(r) \/ Fail(r)
  BY <1>5 DEF BeginBoot, Boot, Fail
<1> QED BY <1>1, <1>2, <1>3, <1>4, <1>5 DEF Step, Handler

LEMMA TypePreserved == Typed /\ [Next]_vars => Typed'
<1> SUFFICES ASSUME Typed, [Next]_vars PROVE Typed'
  OBVIOUS
<1> USE DEF Typed, TypeOK
<1>1. CASE UNCHANGED vars
  BY <1>1 DEF vars, scope, rows, people, RequestsAreWhole
<1>2. ASSUME Next PROVE entitled' \subseteq Requests
  BY <1>2 DEF Next
<1>3. ASSUME Environment
      PROVE  /\ sessions' \subseteq Operators /\ enabled' \subseteq Operators
             /\ rights' \in [Operators -> SUBSET Rights] /\ changes' \in 0..MaxChanges
  <2>1. changes' \in 0..MaxChanges
    <3>1. changes < MaxChanges /\ changes' = changes + 1
      BY <1>3 DEF Environment, SessionEnds, SetEnabled, Grant, Revoke, Change
    <3>2. changes \in 0..MaxChanges /\ MaxChanges \in Nat
      BY TenancyAssumption DEF TenancyAssumption
    <3> HIDE DEF Typed, TypeOK
    <3> QED BY <3>1, <3>2
  <2>2. ASSUME NEW o \in Operators, SessionEnds(o) \/ SetEnabled(o)
        PROVE  sessions' \subseteq Operators /\ enabled' \subseteq Operators /\ rights' = rights
    BY <2>2 DEF SessionEnds, SetEnabled
  <2>3. ASSUME NEW o \in Operators, NEW p \in Rights, Grant(o, p) \/ Revoke(o, p)
        PROVE  /\ sessions' = sessions /\ enabled' = enabled
               /\ rights' \in [Operators -> SUBSET Rights]
    BY <2>3 DEF Grant, Revoke
  <2> QED BY <1>3, <2>1, <2>2, <2>3 DEF Environment
<1>4. CASE Next /\ Environment
  <2>1. UNCHANGED <<scope, rows, pc, req>>
    BY <1>4, EnvironmentFrame
  <2> QED BY <1>2, <1>3, <1>4, <2>1 DEF scope, rows, RequestsAreWhole
<1>5. ASSUME Next, NEW r \in Requests, Step(r) PROVE Typed'
  <2>1. \/ pc'[r] \in Calling /\ req'[r] \in Calls
        \/ pc'[r] = "booting" /\ req'[r] \in Boots
        \/ pc'[r] = "idle" /\ req'[r] = None
    BY <1>5, CallMoves, BootMoves, StepShape DEF Step
  <2>2. ASSUME NEW s \in Requests, s # r
        PROVE  /\ pc'[s] = pc[s]
               /\ req'[s] \in Request \cup {None}
               /\ pc[s] \in Calling => req'[s] \in Calls
               /\ pc[s] = "booting" => req'[s] \in Boots
    <3>1. pc'[s] = pc[s]
      BY <1>5, <2>2, OthersFrame
    <3>2. CASE req'[s] = req[s]
      BY <3>1, <3>2 DEF RequestsAreWhole
    <3>3. CASE /\ pc[s] = "domains cleared"
               /\ req'[s] = [req[s] EXCEPT !.seen = @ \ req[r].seen]
      <4>1. req[s] \in Calls
        BY <3>3 DEF RequestsAreWhole, Calling, Handling
      <4>2. req'[s] \in Calls
        BY <3>3, <4>1 DEF Calls
      <4> QED BY <3>1, <3>3, <4>2 DEF Request, Calls
    <3> QED BY <1>5, <2>2, <3>1, <3>2, <3>3, OthersFrame
  <2>3. RequestsAreWhole'
    BY <2>1, <2>2 DEF RequestsAreWhole, Calling, Handling
  <2>4. req' \in [Requests -> Request \cup {None}]
    <3>1. req'[r] \in Request \cup {None}
      BY <2>1 DEF Request, Calls, Boots
    <3>2. req' = [s \in Requests |-> req'[s]]
      BY <1>5, StepShape
    <3> QED BY <2>2, <3>1, <3>2
  <2>5. pc' \in [Requests -> {"idle", "booting"} \cup Calling]
    <3>1. pc' = [pc EXCEPT ![r] = pc'[r]]
      BY <1>5, StepShape
    <3>2. pc \in [Requests -> {"idle", "booting"} \cup Calling]
      BY DEF Calling, Handling
    <3>3. pc'[r] \in {"idle", "booting"} \cup Calling
      BY <2>1
    <3> QED BY <3>1, <3>2, <3>3
  <2>6. serialized' \in BOOLEAN /\ tx' \subseteq Requests
    BY <1>5, StepFrame, StepShape
  <2>7. /\ sessions' \subseteq Operators /\ enabled' \subseteq Operators
        /\ changes' \in 0..MaxChanges
    BY <1>5, StepFrame
  <2>8. CASE Boot(r)
    <3>1. req[r] \in Boots
      BY <2>8 DEF Boot, RequestsAreWhole
    <3>2. rights' \in [Operators -> SUBSET Rights]
      BY <2>8, <3>1 DEF Boot, Boots
    <3>3. domainOf' \in [Domains -> Tenants \cup {None}]
      BY <2>8, TenancyAssumption DEF Boot, TenancyAssumption
    <3>4. tenants' = tenants /\ policies' = policies
      BY <2>8 DEF Boot
    <3> QED BY <1>2, <1>5, <2>3, <2>4, <2>5, <2>6, <2>7, <3>2, <3>3, <3>4 DEF Calling, Handling
  <2>9. CASE ~Boot(r)
    <3>1. ASSUME InsertTenant(r) \/ SaveDomains(r) \/ policies' # policies
          PROVE  req[r] \in Calls
      <4>1. policies' # policies => pc[r] = "checked"
        BY <1>5, <2>9 DEF Step, Guard, Handler, LoadSession, ReadUser, ReadPermissions, Authorize,
            WriteInTenant, CheckFree, PutStarter, PutUnanswered, InsertTenant, CheckDomains,
            ClearDomains, SaveDomains, BeginBoot, Fail, rows, Goto
      <4> QED BY <3>1, <4>1 DEF InsertTenant, SaveDomains, Goto, RequestsAreWhole, Calling, Handling
    <3>2. rights' \in [Operators -> SUBSET Rights]
      BY <1>5, <2>9, StepFrame
    <3>3. policies' \subseteq Tenants
      BY <1>5, <3>1, StepFrame DEF Calls
    <3>4. tenants' \subseteq Tenants
      BY <1>5, <3>1, StepFrame DEF Calls, InsertTenant
    <3>5. domainOf' \in [Domains -> Tenants \cup {None}]
      <4>1. CASE InsertTenant(r)
        BY <3>1, <4>1 DEF Calls, InsertTenant
      <4>2. CASE SaveDomains(r)
        BY <3>1, <4>2 DEF Calls, SaveDomains
      <4> QED BY <1>5, <2>9, <4>1, <4>2, StepFrame
    <3> QED BY <1>2, <1>5, <2>3, <2>4, <2>5, <2>6, <2>7, <3>2, <3>3, <3>4, <3>5 DEF Calling, Handling
  <2> QED BY <2>8, <2>9
<1> QED BY <1>1, <1>4, <1>5 DEF Next, Step

LEMMA TypedInvariant == Spec => []Typed
<1>1. Init => Typed
  <2> SUFFICES ASSUME Init PROVE Typed
    OBVIOUS
  <2>1. Seeded \subseteq Tenants
    BY TenancyAssumption DEF Seeded, TenancyAssumption
  <2>2. 0 \in 0..MaxChanges
    BY TenancyAssumption DEF TenancyAssumption
  <2> QED BY <2>1, <2>2, TenancyAssumption
          DEF Init, InitScope, Typed, TypeOK, RequestsAreWhole, Calling, Handling, TenancyAssumption
<1> QED BY <1>1, TypePreserved, PTL DEF Spec

\* Tenants, domains, rights and requests keep their types, whatever requests
\* and boots interleave: a handler never works on what its request did not say.
THEOREM Typing == Spec => []TypeOK
<1>1. Typed => TypeOK
  BY DEF Typed
<1> QED BY <1>1, TypedInvariant, PTL

-----------------------------------------------------------------------------
(* Turns                                                                   *)

\* Inside a transaction that reads before it writes or decides.
Inside == {"session read", "user read", "domains checked", "domains cleared", "booting"}

\* Where transactions take turns, one request is inside at a time.
Turns ==
    serialized => /\ \A r \in Requests : pc[r] \in Inside => r \in tx
                  /\ \A r, s \in tx : r = s

LEMMA TurnsPreserved == Typed /\ Turns /\ [Next]_vars => Turns'
<1> SUFFICES ASSUME Typed, Turns, [Next]_vars PROVE Turns'
  OBVIOUS
<1>1. CASE Environment \/ UNCHANGED vars
  BY <1>1, EnvironmentFrame DEF vars, scope, Turns
<1>2. ASSUME NEW r \in Requests, Step(r) PROVE Turns'
  <2> USE DEF Typed, TypeOK
  <2>1. serialized' = serialized /\ tx' \subseteq tx \cup {r}
    BY <1>2, StepFrame, StepShape
  <2>2. r \in tx' /\ r \notin tx => MayEnter
    <3> USE DEF scope, End, Leave
    <3>1. CASE Guard(r)
      BY <3>1 DEF Guard, LoadSession, ReadUser, ReadPermissions, Authorize, Enter
    <3>2. CASE Handler(r)
      BY <3>2 DEF Handler, WriteInTenant, CheckFree, PutStarter, PutUnanswered, InsertTenant,
                  CheckDomains, ClearDomains, SaveDomains, Enter
    <3>3. CASE BeginBoot(r) \/ Boot(r) \/ Fail(r)
      BY <3>3 DEF BeginBoot, Boot, Fail, Enter
    <3> QED BY <1>2, <3>1, <3>2, <3>3 DEF Step
  <2>3. serialized /\ pc'[r] \in Inside => r \in tx'
    <3> USE DEF scope, End, Goto, Inside, Turns
    <3>1. CASE Guard(r)
      BY <3>1 DEF Guard, LoadSession, ReadUser, ReadPermissions, Authorize, Enter
    <3>2. CASE WriteInTenant(r) \/ CheckFree(r) \/ PutStarter(r) \/ PutUnanswered(r) \/ InsertTenant(r)
      BY <3>2 DEF WriteInTenant, CheckFree, PutStarter, PutUnanswered, InsertTenant
    <3>3. CASE CheckDomains(r) \/ ClearDomains(r) \/ SaveDomains(r)
      BY <3>3 DEF CheckDomains, ClearDomains, SaveDomains, Enter
    <3>4. CASE BeginBoot(r) \/ Boot(r) \/ Fail(r)
      BY <3>4 DEF BeginBoot, Boot, Fail, Enter
    <3> QED BY <1>2, <3>1, <3>2, <3>3, <3>4 DEF Step, Handler
  <2>4. ASSUME NEW s \in Requests, s # r PROVE pc'[s] = pc[s] /\ (s \in tx' <=> s \in tx)
    BY <1>2, <2>4, OthersFrame
  <2> QED BY <2>1, <2>2, <2>3, <2>4 DEF Turns, MayEnter
<1> QED BY <1>1, <1>2 DEF Next, Step

-----------------------------------------------------------------------------
(* Who is served                                                           *)

\* What authorize will say of a request whose permissions were read.
Allowed(q) ==
    /\ q.who \in AtConsole
    /\ Needs(q.kind) \in q.read
    /\ \/ q.kind = "write" /\ q.target = HomeOf[q.who]
       \/ IsPlatform(q)

\* Each step of the guard vouches for what the next one goes by.
GuardVouches ==
    \A r \in Requests :
        /\ serialized /\ pc[r] \in {"session read", "user read"} => req[r].who \in sessions
        /\ serialized /\ pc[r] = "user read" => req[r].who \in enabled
        /\ pc[r] = "loaded" /\ Allowed(req[r]) => r \in entitled
        /\ pc[r] \in Handling => r \in entitled

LEMMA VouchesPreserved == Typed /\ Turns /\ GuardVouches /\ [Next]_vars => GuardVouches'
<1> SUFFICES ASSUME Typed, Turns, GuardVouches, [Next]_vars, NEW s \in Requests
             PROVE  /\ serialized' /\ pc'[s] \in {"session read", "user read"} => req'[s].who \in sessions'
                    /\ serialized' /\ pc'[s] = "user read" => req'[s].who \in enabled'
                    /\ pc'[s] = "loaded" /\ Allowed(req'[s]) => s \in entitled'
                    /\ pc'[s] \in Handling => s \in entitled'
  BY DEF GuardVouches, Allowed, IsPlatform, Needs, Handling
<1> USE DEF Typed, TypeOK, GuardVouches, Handling
<1>1. CASE UNCHANGED vars
  BY <1>1 DEF vars, scope, people
<1>2. ASSUME Next
      PROVE  pc'[s] # "idle" /\ s \in entitled => s \in entitled'
  BY <1>2 DEF Next
<1>3. CASE Next /\ Environment
  <2>1. UNCHANGED <<scope, rows, pc, req>> /\ MayEnter
    BY <1>3, EnvironmentFrame
  <2>2. serialized => pc[s] \notin {"session read", "user read"}
    BY <2>1 DEF MayEnter, Turns, Inside
  <2> QED BY <1>2, <1>3, <2>1, <2>2 DEF scope
<1>4. ASSUME Next, NEW r \in Requests, Step(r), r # s PROVE
         /\ pc'[s] = pc[s] /\ serialized' = serialized
         /\ sessions' = sessions /\ enabled' = enabled
         /\ pc[s] # "domains cleared" => req'[s] = req[s]
  BY <1>4, StepFrame, OthersFrame
<1>5. CASE Next /\ Step(s)
  <2>0. serialized' = serialized /\ sessions' = sessions /\ enabled' = enabled
    BY <1>5, StepFrame
  <2> USE DEF Goto
  <2>1. ASSUME NEW a \in Asked, LoadSession(s, a)
        PROVE  pc'[s] = "session read" /\ req'[s].who \in sessions
    BY <2>1 DEF LoadSession
  <2>2. CASE ReadUser(s)
    BY <2>0, <2>2 DEF ReadUser
  <2>3. CASE ReadPermissions(s)
    <3> DEFINE q == req[s]
    <3>1. q \in Calls /\ pc[s] = "user read" /\ pc'[s] = "loaded" /\ rights' = rights
      BY <2>3 DEF ReadPermissions, RequestsAreWhole, Calling, people
    <3>2. req'[s] = [q EXCEPT !.read = rights[q.who]]
      BY <2>3 DEF ReadPermissions
    <3>3. /\ req'[s].kind = q.kind /\ req'[s].who = q.who /\ req'[s].target = q.target
          /\ req'[s].read = rights'[req'[s].who] /\ q.kind # "boot"
      BY <3>1, <3>2 DEF Calls
    <3>4. serialized' => req'[s].who \in sessions' \cap enabled'
      BY <2>0, <3>1, <3>3
    <3>5. Allowed(req'[s]) => Entitled(s)'
      BY <3>1, <3>3, <3>4 DEF Allowed, IsPlatform, Entitled, Needs
    <3>6. Entitled(s)' /\ pc'[s] # "idle" => s \in entitled'
      BY <1>5 DEF Next
    <3> QED BY <3>1, <3>5, <3>6
  <2>4. CASE Authorize(s)
    <3>1. Allowed(req[s]) /\ pc[s] = "loaded" /\ pc'[s] = "authorized"
      BY <2>4 DEF Authorize, Allowed
    <3> QED BY <1>2, <1>5, <3>1
  <2>5. CASE Handler(s)
    <3>1. pc[s] \in Handling /\ pc'[s] \in Handling \cup {"idle"}
      BY <2>5 DEF Handler, WriteInTenant, CheckFree, PutStarter, PutUnanswered, InsertTenant,
                  CheckDomains, ClearDomains, SaveDomains, End
    <3> QED BY <1>2, <1>5, <3>1
  <2>6. CASE BeginBoot(s) \/ Boot(s) \/ Fail(s)
    BY <2>6 DEF BeginBoot, Boot, Fail, End
  <2> QED BY <1>5, <2>0, <2>1, <2>2, <2>3, <2>4, <2>5, <2>6 DEF Step, Guard
<1>6. ASSUME Next, NEW r \in Requests, Step(r), r # s
      PROVE  /\ serialized' /\ pc'[s] \in {"session read", "user read"} => req'[s].who \in sessions'
             /\ serialized' /\ pc'[s] = "user read" => req'[s].who \in enabled'
             /\ pc'[s] = "loaded" /\ Allowed(req'[s]) => s \in entitled'
             /\ pc'[s] \in Handling => s \in entitled'
  BY <1>2, <1>4, <1>6
<1> QED BY <1>1, <1>3, <1>5, <1>6 DEF Next, Step

\* On either engine a handler runs only for an operator who was entitled to it
\* at one moment while the request ran, whatever is granted and taken between
\* the transactions of the guard; where they take turns, for one who was signed
\* in and enabled at that very moment.
THEOREM Entitlement == Spec => []HandlersAreEntitled
<1>1. Init => Turns /\ GuardVouches
  BY DEF Init, InitScope, Turns, Inside, GuardVouches, Handling
<1>2. GuardVouches => HandlersAreEntitled
  BY DEF GuardVouches, HandlersAreEntitled
<1> QED BY <1>1, <1>2, TypedInvariant, TurnsPreserved, VouchesPreserved, PTL DEF Spec

-----------------------------------------------------------------------------
(* Tenants and their policies                                              *)

\* A creation that goes on to its rows has its policy; a replacement is about
\* a tenant there is; domains belong to tenants there are.
RowsHang ==
    /\ tenants \subseteq policies
    /\ Seeded \subseteq tenants
    /\ \A d \in Domains : domainOf[d] \in tenants \cup {None}
    /\ \A r \in Requests :
          /\ pc[r] = "policy put" => req[r].target \in policies
          /\ pc[r] \in {"domains checked", "domains cleared"} => req[r].target \in tenants
          /\ pc[r] \in {"checked", "policy put"} => req[r].kind = "create"
          /\ pc[r] \in {"domains checked", "domains cleared"} => req[r].kind = "patch"

LEMMA RowsHangPreserved == Typed /\ RowsHang /\ [Next]_vars => RowsHang'
<1> SUFFICES ASSUME Typed, RowsHang, [Next]_vars PROVE RowsHang'
  OBVIOUS
<1>1. CASE Environment \/ UNCHANGED vars
  BY <1>1, EnvironmentFrame DEF vars, rows, RowsHang
<1>2. ASSUME NEW r \in Requests, Step(r) PROVE RowsHang'
  <2>1. tenants \subseteq tenants' /\ policies \subseteq policies'
    BY <1>2, StepFrame DEF InsertTenant
  <2>2. tenants' \subseteq policies' /\ Seeded \subseteq tenants'
    <3>1. InsertTenant(r) => tenants' = tenants \cup {req[r].target} /\ req[r].target \in policies
      BY DEF InsertTenant, RowsHang
    <3>2. tenants' = tenants \/ InsertTenant(r)
      BY <1>2, StepFrame
    <3>3. tenants \subseteq policies /\ Seeded \subseteq tenants
      BY DEF RowsHang
    <3> QED BY <2>1, <3>1, <3>2, <3>3
  <2>3. \A d \in Domains : domainOf'[d] \in tenants' \cup {None}
    <3>1. CASE InsertTenant(r)
      BY <2>1, <3>1 DEF InsertTenant, RowsHang
    <3>2. CASE SaveDomains(r)
      BY <2>1, <3>2 DEF SaveDomains, Goto, RowsHang
    <3>3. CASE Boot(r)
      <4>1. \A d \in Domains : SeedTenantOf[d] \in tenants \cup {None}
        BY DEF RowsHang, Seeded
      <4> QED BY <2>1, <3>3, <4>1 DEF Boot, RowsHang
    <3>4. CASE domainOf' = domainOf
      BY <2>1, <3>4 DEF RowsHang
    <3> QED BY <1>2, <3>1, <3>2, <3>3, <3>4, StepFrame
  <2>4. ASSUME NEW s \in Requests, s # r
        PROVE  /\ pc'[s] = "policy put" => req'[s].target \in policies'
               /\ pc'[s] \in {"domains checked", "domains cleared"} => req'[s].target \in tenants'
               /\ pc'[s] \in {"checked", "policy put"} => req'[s].kind = "create"
               /\ pc'[s] \in {"domains checked", "domains cleared"} => req'[s].kind = "patch"
    <3>1. /\ pc'[s] = pc[s]
          /\ pc[s] \in Handling => req'[s].target = req[s].target /\ req'[s].kind = req[s].kind
      BY <1>2, <2>4, OthersFrame, TargetsKept DEF Calling
    <3> QED BY <2>1, <3>1 DEF RowsHang, Handling
  <2>5. /\ pc'[r] = "policy put" => req'[r].target \in policies'
        /\ pc'[r] \in {"domains checked", "domains cleared"} => req'[r].target \in tenants'
        /\ pc'[r] \in {"checked", "policy put"} => req'[r].kind = "create"
        /\ pc'[r] \in {"domains checked", "domains cleared"} => req'[r].kind = "patch"
    <3> USE DEF Typed, TypeOK, Goto, End
    <3>1. CASE Guard(r)
      BY <3>1 DEF Guard, LoadSession, ReadUser, ReadPermissions, Authorize
    <3>2. CASE WriteInTenant(r) \/ CheckFree(r) \/ PutStarter(r) \/ PutUnanswered(r) \/ InsertTenant(r)
      BY <3>2 DEF WriteInTenant, CheckFree, PutStarter, PutUnanswered, InsertTenant, RowsHang
    <3>3. CASE CheckDomains(r) \/ SaveDomains(r)
      BY <3>3 DEF CheckDomains, SaveDomains, rows
    <3>4. CASE ClearDomains(r)
      <4>1. req[r] \in Calls
        BY <3>4 DEF ClearDomains, RequestsAreWhole, Calling, Handling
      <4>2. /\ req'[r].target = req[r].target /\ req[r].target \in tenants
            /\ req'[r].kind = req[r].kind /\ req[r].kind = "patch"
        BY <3>4, <4>1 DEF ClearDomains, Calls, RowsHang
      <4> QED BY <2>1, <3>4, <4>2 DEF ClearDomains
    <3>5. CASE BeginBoot(r) \/ Boot(r) \/ Fail(r)
      BY <3>5 DEF BeginBoot, Boot, Fail
    <3> QED BY <1>2, <3>1, <3>2, <3>3, <3>4, <3>5 DEF Step, Handler
  <2> QED BY <2>2, <2>3, <2>4, <2>5 DEF RowsHang, Seeded
<1> QED BY <1>1, <1>2 DEF Next, Step

LEMMA RowsHangInvariant == Spec => []RowsHang
<1>1. Init => RowsHang
  BY TenancyAssumption DEF Init, RowsHang, Seeded, TenancyAssumption
<1> QED BY <1>1, TypedInvariant, RowsHangPreserved, PTL DEF Spec

\* On either engine a tenant has a policy on the PDP from its first moment on:
\* create_tenant writes the policy first and stops when it is not answered.
THEOREM PolicyFirst == Spec => []PolicyPrecedesTenant
<1>1. RowsHang => PolicyPrecedesTenant
  BY DEF RowsHang, PolicyPrecedesTenant
<1> QED BY <1>1, RowsHangInvariant, PTL

-----------------------------------------------------------------------------
(* Whose request changes a domain                                          *)

\* What a DELETE has found is the tenant's; where transactions take turns it
\* is all of the tenant's.  A boot brings back domains of the seed.
CedesOwn ==
    \A r \in Requests :
        /\ pc[r] = "domains cleared" => req[r].seen \subseteq DomainsOf(req[r].target)
        /\ serialized /\ pc[r] = "domains cleared" => req[r].seen = DomainsOf(req[r].target)

LEMMA CedesOwnPreserved == Typed /\ Turns /\ CedesOwn /\ [Next]_vars => CedesOwn'
<1> SUFFICES ASSUME Typed, Turns, CedesOwn, [Next]_vars, NEW s \in Requests, pc'[s] = "domains cleared"
             PROVE  /\ req'[s].seen \subseteq DomainsOf(req[s].target)'
                    /\ serialized' => req'[s].seen = DomainsOf(req[s].target)'
  BY DEF CedesOwn, DomainsOf
<1>1. CASE Environment \/ UNCHANGED vars
  <2>1. pc' = pc /\ req' = req /\ domainOf' = domainOf /\ serialized' = serialized
    BY <1>1, EnvironmentFrame DEF vars, scope, rows
  <2> QED BY <2>1 DEF CedesOwn, DomainsOf
<1>2. CASE Step(s)
  <2>1. ClearDomains(s)
    BY <1>2 DEF Step, Guard, Handler, LoadSession, ReadUser, ReadPermissions, Authorize,
        WriteInTenant, CheckFree, PutStarter, PutUnanswered, InsertTenant, CheckDomains,
        SaveDomains, BeginBoot, Boot, Fail, End, Goto, Typed, TypeOK
  <2>2. req[s] \in Calls
    BY <2>1 DEF ClearDomains, Goto, Typed, RequestsAreWhole, Calling, Handling
  <2>3. req'[s].seen = DomainsOf(req[s].target) /\ req'[s].target = req[s].target
    BY <2>1, <2>2 DEF ClearDomains, Calls, Typed, TypeOK
  <2>4. domainOf' = domainOf
    BY <2>1 DEF ClearDomains, rows
  <2> QED BY <2>3, <2>4 DEF DomainsOf
<1>3. ASSUME NEW r \in Requests, Step(r), r # s
      PROVE  /\ req'[s].seen \subseteq DomainsOf(req[s].target)'
             /\ serialized' => req'[s].seen = DomainsOf(req[s].target)'
  <2>1. pc[s] = "domains cleared" /\ req[s] \in Calls
    BY <1>3, OthersFrame DEF Typed, RequestsAreWhole, Calling, Handling
  <2>2. req[s].seen \subseteq DomainsOf(req[s].target)
    BY <2>1 DEF CedesOwn
  <2>3. req'[s].target = req[s].target
    BY <1>3, <2>1, TargetsKept DEF Calling, Handling
  <2>4. ASSUME serialized, domainOf' # domainOf \/ SaveDomains(r) PROVE FALSE
    <3>1. s \in tx /\ serialized /\ pc[s] \in Inside
      BY <2>1, <2>4 DEF Turns, Inside
    <3>2. InsertTenant(r) \/ SaveDomains(r) \/ Boot(r)
      BY <1>3, <2>4, StepFrame
    <3>3. MayEnter \/ r \in tx
      BY <2>4, <3>2 DEF InsertTenant, SaveDomains, Boot, Turns, Inside, Goto
    <3> QED BY <1>3, <2>4, <3>1, <3>3 DEF Turns, MayEnter
  <2>5. CASE domainOf' = domainOf /\ ~SaveDomains(r)
    <3>1. req'[s] = req[s] /\ serialized' = serialized
      BY <1>3, <2>5, OthersFrame, StepFrame
    <3> QED BY <2>1, <2>5, <3>1 DEF CedesOwn, DomainsOf
  <2>6. CASE SaveDomains(r)
    <3>1. req'[s].seen = req[s].seen \ req[r].seen
      BY <2>1, <2>6, <1>3 DEF SaveDomains, OthersSkip, Calls, Typed, TypeOK
    <3>2. \A d \in req'[s].seen : domainOf'[d] = domainOf[d] \/ domainOf'[d] = req[s].target
      <4>1. \A d \in req'[s].seen : d \in Domains /\ d \notin req[r].seen /\ domainOf[d] = req[s].target
        BY <2>2, <3>1 DEF DomainsOf
      <4>2. req[s].target # None
        BY <2>1, TenancyAssumption DEF Calls, TenancyAssumption
      <4> QED BY <2>6, <4>1, <4>2 DEF SaveDomains
    <3>3. req'[s].seen \subseteq DomainsOf(req[s].target)'
      BY <2>2, <2>3, <3>1, <3>2 DEF DomainsOf
    <3>4. ~serialized'
      BY <1>3, <2>4, <2>6, StepFrame
    <3> QED BY <3>3, <3>4
  <2>7. CASE InsertTenant(r) \/ Boot(r)
    <3>1. req'[s] = req[s]
      BY <1>3, <2>7, OthersFrame DEF InsertTenant, Boot, SaveDomains, Goto
    <3>2. req[s].target # None
      BY <2>1, TenancyAssumption DEF Calls, TenancyAssumption
    <3>3. \A d \in Domains : domainOf[d] = req[s].target => domainOf'[d] = domainOf[d]
      BY <2>7, <3>2 DEF InsertTenant, Boot, Free
    <3>4. req'[s].seen \subseteq DomainsOf(req[s].target)'
      BY <2>2, <3>1, <3>3 DEF DomainsOf
    <3>5. serialized' => domainOf' = domainOf
      BY <1>3, <2>4, StepFrame
    <3> QED BY <2>1, <3>1, <3>4, <3>5, <1>3, StepFrame DEF CedesOwn, DomainsOf
  <2> QED BY <1>3, <2>5, <2>6, <2>7, StepFrame
<1> QED BY <1>1, <1>2, <1>3 DEF Next, Step

\* On either engine the domains of a tenant change by a request about it, and
\* by a boot only where nobody has them; where transactions take turns, a
\* request that is answered leaves exactly the domains it says.
THEOREM DomainWrites == Spec => DomainsFollowSaves
<1>1. Init => Turns /\ CedesOwn
  BY DEF Init, InitScope, Turns, Inside, CedesOwn
<1>2. ASSUME Typed, Turns, CedesOwn, RowsHang, [Next]_vars
      PROVE  /\ \A t \in Tenants : DomainsOf(t)' # DomainsOf(t) =>
                   \E r \in Requests :
                      /\ pc[r] # "idle" /\ pc'[r] = "idle"
                      /\ \/ req[r].kind \in {"create", "patch"} /\ req[r].target = t
                         \/ req[r].kind = "boot" /\ DomainsOf(t) \subseteq DomainsOf(t)'
             /\ serialized => \A r \in Requests, t \in Tenants :
                   (SaveDomains(r) \/ InsertTenant(r)) /\ req[r].target = t
                       => DomainsOf(t)' = req[r].wanted
  <2>0. None \notin Tenants
    BY TenancyAssumption DEF TenancyAssumption
  <2>1. ASSUME NEW t \in Tenants, DomainsOf(t)' # DomainsOf(t), NEW r \in Requests, Step(r)
        PROVE  /\ pc[r] # "idle" /\ pc'[r] = "idle"
               /\ \/ req[r].kind \in {"create", "patch"} /\ req[r].target = t
                  \/ req[r].kind = "boot" /\ DomainsOf(t) \subseteq DomainsOf(t)'
    <3>1. domainOf' # domainOf
      BY <2>1 DEF DomainsOf
    <3>2. CASE InsertTenant(r)
      <4>1. pc[r] # "idle" /\ pc'[r] = "idle"
        BY <1>2, <3>2 DEF InsertTenant, End, Typed, TypeOK
      <4>2. req[r].kind = "create"
        BY <1>2, <3>2 DEF InsertTenant, RowsHang
      <4>3. req[r].target = t
        BY <2>0, <2>1, <3>2 DEF InsertTenant, Free, DomainsOf
      <4> QED BY <4>1, <4>2, <4>3
    <3>3. CASE SaveDomains(r)
      <4>1. pc[r] # "idle" /\ pc'[r] = "idle"
        BY <1>2, <3>3 DEF SaveDomains, Goto, Typed, TypeOK
      <4>2. req[r].kind = "patch"
        BY <1>2, <3>3 DEF SaveDomains, Goto, RowsHang
      <4>3. req[r].seen \subseteq DomainsOf(req[r].target)
        BY <1>2, <3>3 DEF SaveDomains, Goto, CedesOwn
      <4>4. req[r].target = t
        BY <2>0, <2>1, <3>3, <4>3 DEF SaveDomains, DomainsOf
      <4> QED BY <4>1, <4>2, <4>4
    <3>4. CASE Boot(r)
      <4>1. pc[r] # "idle" /\ pc'[r] = "idle"
        BY <1>2, <3>4 DEF Boot, End, Typed, TypeOK
      <4>2. req[r].kind = "boot"
        BY <1>2, <3>4 DEF Boot, Typed, RequestsAreWhole, Boots
      <4>3. DomainsOf(t) \subseteq DomainsOf(t)'
        BY <2>0, <3>4 DEF Boot, DomainsOf
      <4> QED BY <4>1, <4>2, <4>3
    <3> QED BY <2>1, <3>1, <3>2, <3>3, <3>4, StepFrame
  <2>2. ASSUME NEW t \in Tenants, DomainsOf(t)' # DomainsOf(t)
        PROVE  \E r \in Requests : Step(r)
    <3>1. domainOf' # domainOf
      BY <2>2 DEF DomainsOf
    <3> QED BY <1>2, <3>1, EnvironmentFrame DEF Next, Step, vars, rows
  <2>3. ASSUME serialized, NEW r \in Requests, NEW t \in Tenants, SaveDomains(r), req[r].target = t
        PROVE  DomainsOf(t)' = req[r].wanted
    <3>1. req[r].seen = DomainsOf(t) /\ req[r] \in Calls
      BY <1>2, <2>3
      DEF SaveDomains, Goto, CedesOwn, Typed, RequestsAreWhole, Calling, Handling
    <3>2. req[r].wanted \subseteq Domains
      BY <3>1 DEF Calls
    <3> QED BY <2>0, <2>3, <3>1, <3>2 DEF SaveDomains, DomainsOf
  <2>4. ASSUME NEW r \in Requests, NEW t \in Tenants, InsertTenant(r), req[r].target = t
        PROVE  DomainsOf(t)' = req[r].wanted
    <3>1. req[r].wanted \subseteq Domains
      BY <1>2, <2>4 DEF InsertTenant, Typed, RequestsAreWhole, Calling, Handling, Calls
    <3>2. \A d \in Domains : domainOf[d] # t
      BY <1>2, <2>0, <2>4 DEF InsertTenant, Free, RowsHang
    <3> QED BY <2>0, <2>4, <3>1, <3>2 DEF InsertTenant, DomainsOf
  <2> QED BY <2>1, <2>2, <2>3, <2>4
<1>3. Typed /\ Turns /\ CedesOwn /\ RowsHang /\ [Next]_vars =>
        [/\ \A t \in Tenants : DomainsOf(t)' # DomainsOf(t) =>
               \E r \in Requests :
                  /\ pc[r] # "idle" /\ pc'[r] = "idle"
                  /\ \/ req[r].kind \in {"create", "patch"} /\ req[r].target = t
                     \/ req[r].kind = "boot" /\ DomainsOf(t) \subseteq DomainsOf(t)'
         /\ serialized => \A r \in Requests, t \in Tenants :
               (SaveDomains(r) \/ InsertTenant(r)) /\ req[r].target = t
                   => DomainsOf(t)' = req[r].wanted]_vars
  BY <1>2
<1> QED BY <1>1, <1>3, TypedInvariant, TurnsPreserved, CedesOwnPreserved, RowsHangInvariant, PTL
        DEF Spec, DomainsFollowSaves

=============================================================================
