----------------------------- MODULE Enrollment -----------------------------
(***************************************************************************)
(* Passkey enrollment (services/enrollment.py).  A passkey is registered   *)
(* through one of two doors: a session that a low-risk login of a user     *)
(* with no passkey marked with enroll_until, or an activation code that an *)
(* operator issued.  The page asks for options, which leave a nonce on the *)
(* door's row, and then posts the passkey its device created over it.      *)
(*                                                                         *)
(* A door stands for its row and for the user the row is bound to.  The    *)
(* last step of a request is its commit: it fails when the row it updates  *)
(* is gone or the passkey it inserts is already there.                     *)
(***************************************************************************)
EXTENDS SessionScope, Integers, FiniteSets

CONSTANTS
    Sessions,       \* sessions of low-risk logins
    Codes,          \* activation codes
    Creds,          \* passkeys that devices may create
    Users,
    UserOf,         \* the user each session or code is bound to
    EnrollWindow,   \* settings.enroll_window_seconds
    ActivationTtl,  \* settings.activation_ttl_seconds
    MaxClock,       \* bound: time units explored
    MaxNonce,       \* bound: nonces generated
    None            \* absence of a value

Doors == Sessions \cup Codes

ASSUME DoorsAssumption ==
    /\ Sessions \cap Codes = {}
    /\ UserOf \in [Doors -> Users]
    /\ None \notin Users
ASSUME EnrollmentAssumption ==
    /\ EnrollWindow \in Nat \ {0} /\ ActivationTtl \in Nat \ {0}
    /\ MaxClock \in Nat /\ MaxNonce \in Nat

VARIABLES
    clock,
    door,       \* absent; open (enroll_until set, or code not consumed); spent;
                \* gone, for a session whose row was deleted
    expires,    \* enroll_until of the session, expires_at of the code
    nonce,      \* webauthn_challenge of the row, 0 when null
    owner,      \* webauthn_credentials: the user of each passkey, or None
    enabled,    \* users that are enabled
    nonces,     \* the last nonce generated
    created,    \* what devices made: a passkey attested over a nonce
    pc,         \* per request: where it is
    req,        \* per request: what it is about, and what it has read
    enrolled,   \* history: the passkeys each door registered, each with its nonce
    offeredTo,  \* history: the door each nonce was generated for
    lapsed      \* history: sessions told that their offer has lapsed

rows == <<door, expires, nonce, owner>>
history == <<enrolled, offeredTo, lapsed>>
vars == <<scope, clock, rows, enabled, nonces, created, pc, req, history>>

DoorStates == {"absent", "open", "spent", "gone"}

Attestation == [nonce : 1..MaxNonce, cred : Creds]

(* nonce: the row's, as read, until it is compared; voids: the earlier     *)
(* codes of the user.                                                      *)
Request ==
    [op : {"login"}, door : Sessions]
    \cup [op : {"issue"}, door : Codes, voids : SUBSET Codes]
    \cup [op : {"options"}, door : Doors]
    \cup [op : {"verify"}, door : Doors, attestation : Attestation, nonce : 0..MaxNonce]

ASSUME RequestAssumption == None \notin Request

Init ==
    /\ InitScope
    /\ clock = 0
    /\ door = [d \in Doors |-> "absent"]
    /\ expires = [d \in Doors |-> 0]
    /\ nonce = [d \in Doors |-> 0]
    /\ owner = [k \in Creds |-> None]
    /\ enabled = Users
    /\ nonces = 0
    /\ created = {}
    /\ pc = [r \in Requests |-> "idle"]
    /\ req = [r \in Requests |-> None]
    /\ enrolled = [d \in Doors |-> {}]
    /\ offeredTo = [n \in 1..MaxNonce |-> None]
    /\ lapsed = {}

HasPasskey(u) == \E k \in Creds : owner[k] = u

(* A mutant of IsOpen: a code that was consumed still opens.               *)
IsOpenUnlessExpired(d) == door[d] # "absent" /\ expires[d] > clock

IsOpen(d) == door[d] = "open" /\ expires[d] > clock

-----------------------------------------------------------------------------
(* Around the requests                                                     *)

Tick ==
    /\ clock < MaxClock
    /\ clock' = clock + 1
    /\ UNCHANGED <<scope, rows, enabled, nonces, created, pc, req, history>>

(* patch_user *)
SetEnabled(u) ==
    /\ MayEnter
    /\ enabled' = IF u \in enabled THEN enabled \ {u} ELSE enabled \cup {u}
    /\ UNCHANGED <<scope, clock, rows, nonces, created, pc, req, history>>

(* A logout, or the exchange of a callback code, deletes the session. *)
DropSession(s) ==
    /\ door[s] \in {"open", "spent"}
    /\ MayEnter
    /\ door' = [door EXCEPT ![s] = "gone"]
    /\ UNCHANGED <<scope, clock, expires, nonce, owner, enabled, nonces, created, pc, req, history>>

(* A device makes a new passkey each time, over the nonce it was given. *)
CreatePasskey(k, n) ==
    /\ n \in 1..nonces
    /\ \A a \in created : a.cred # k
    /\ created' = created \cup {[nonce |-> n, cred |-> k]}
    /\ UNCHANGED <<scope, clock, rows, enabled, nonces, pc, req, history>>

-----------------------------------------------------------------------------
(* The requests                                                            *)

Goto(r, from, to) == pc[r] = from /\ pc' = [pc EXCEPT ![r] = to]

(* The request answers; its transaction, if any, is over. *)
End(r) ==
    /\ pc' = [pc EXCEPT ![r] = "idle"]
    /\ req' = [req EXCEPT ![r] = None]
    /\ Leave(r)

Refused(r) == End(r) /\ UNCHANGED <<clock, rows, enabled, nonces, created, history>>

(* The process stops, the connection is lost or the commit fails. *)
Crash(r) == pc[r] # "idle" /\ Refused(r)

(* _enforce: the login looks for a passkey in one transaction ... *)
OfferWanted(r, s) ==
    /\ Goto(r, "idle", "offering")
    /\ door[s] = "absent"
    /\ \A q \in Requests : req[q] # None => req[q].door # s
    /\ ~HasPasskey(UserOf[s])
    /\ MayEnter
    /\ req' = [req EXCEPT ![r] = [op |-> "login", door |-> s]]
    /\ UNCHANGED <<scope, clock, rows, enabled, nonces, created, history>>

(* ... and inserts the session that may enroll in the next. *)
Offer(r) ==
    LET s == req[r].door IN
    /\ pc[r] = "offering"
    /\ MayEnter
    /\ door' = [door EXCEPT ![s] = "open"]
    /\ expires' = [expires EXCEPT ![s] = clock + EnrollWindow]
    /\ End(r)
    /\ UNCHANGED <<clock, nonce, owner, enabled, nonces, created, history>>

(* A mutant of BeginIssue: earlier codes stay usable.                      *)
BeginIssueBeside(r, c) ==
    /\ Goto(r, "idle", "issuing")
    /\ door[c] = "absent"
    /\ \A q \in Requests : req[q] # None => req[q].door # c
    /\ UserOf[c] \in enabled
    /\ Enter(r)
    /\ req' = [req EXCEPT ![r] = [op |-> "issue", door |-> c, voids |-> {}]]
    /\ UNCHANGED <<clock, rows, enabled, nonces, created, history>>

(* issue_activation_code: its UPDATE finds the earlier codes that are not  *)
(* consumed when it runs, expired ones included.                           *)
BeginIssue(r, c) ==
    /\ Goto(r, "idle", "issuing")
    /\ door[c] = "absent"
    /\ \A q \in Requests : req[q] # None => req[q].door # c
    /\ UserOf[c] \in enabled
    /\ Enter(r)
    /\ req' = [req EXCEPT ![r] =
                 [op |-> "issue", door |-> c,
                  voids |-> {e \in Codes : door[e] = "open" /\ UserOf[e] = UserOf[c]}]]
    /\ UNCHANGED <<clock, rows, enabled, nonces, created, history>>

Issue(r) ==
    LET c == req[r].door IN
    /\ pc[r] = "issuing"
    /\ door' = [d \in Doors |-> IF d = c THEN "open"
                               ELSE IF d \in req[r].voids THEN "spent" ELSE door[d]]
    /\ expires' = [expires EXCEPT ![c] = clock + ActivationTtl]
    /\ End(r)
    /\ UNCHANGED <<clock, nonce, owner, enabled, nonces, created, history>>

(* session_options and activation_options, the latter with the password of *)
(* the code's user: a wrong one is refused like a code that is not open.   *)
BeginOptions(r, d) ==
    /\ Goto(r, "idle", "opened")
    /\ IsOpen(d)
    /\ Enter(r)
    /\ req' = [req EXCEPT ![r] = [op |-> "options", door |-> d]]
    /\ UNCHANGED <<clock, rows, enabled, nonces, created, history>>

(* A mutant of MayAttach: the user may have a passkey already.             *)
MayAttachAnother(d) == UserOf[d] \in enabled

MayAttach(d) == UserOf[d] \in enabled /\ (d \in Sessions => ~HasPasskey(UserOf[d]))

UserChecked(r) ==
    /\ Goto(r, "opened", "checked")
    /\ req[r].op = "options"
    /\ MayAttach(req[r].door)
    /\ UNCHANGED <<scope, clock, rows, enabled, nonces, created, req, history>>

UserDisabled(r) ==
    /\ pc[r] = "opened" /\ req[r].op = "options"
    /\ UserOf[req[r].door] \notin enabled
    /\ Refused(r)

(* The session enroll_until of a user who has a passkey meanwhile is set   *)
(* to null, but the 403 leaves the block: that is rolled back.             *)
OfferLapsed(r) ==
    LET d == req[r].door IN
    /\ pc[r] = "opened" /\ req[r].op = "options"
    /\ UserOf[d] \in enabled
    /\ ~MayAttach(d)
    /\ lapsed' = lapsed \cup {d}
    /\ End(r)
    /\ UNCHANGED <<clock, rows, enabled, nonces, created, enrolled, offeredTo>>

(* A new nonce replaces the row's; no row, no commit. *)
StoreNonce(r) ==
    LET d == req[r].door IN
    /\ pc[r] = "checked"
    /\ door[d] # "gone"
    /\ nonces < MaxNonce
    /\ nonces' = nonces + 1
    /\ nonce' = [nonce EXCEPT ![d] = nonces + 1]
    /\ offeredTo' = [offeredTo EXCEPT ![nonces + 1] = d]
    /\ End(r)
    /\ UNCHANGED <<clock, door, expires, owner, enabled, created, enrolled, lapsed>>

(* session_verify and activation_verify look neither at the user's         *)
(* passkeys nor at whether the user is still enabled.                      *)
BeginVerify(r, d, a) ==
    /\ Goto(r, "idle", "opened")
    /\ IsOpen(d) /\ nonce[d] # 0
    /\ Enter(r)
    /\ req' = [req EXCEPT ![r] =
                 [op |-> "verify", door |-> d, attestation |-> a, nonce |-> nonce[d]]]
    /\ UNCHANGED <<clock, rows, enabled, nonces, created, history>>

(* A mutant of Registrable: any nonce will do.                             *)
RegistrableAnyNonce(a, n) == owner[a.cred] = None

(* _store_credential: made over this row's nonce, and not yet registered. *)
Registrable(a, n) == a.nonce = n /\ owner[a.cred] = None

Verified(r) ==
    /\ Goto(r, "opened", "verified")
    /\ req[r].op = "verify"
    /\ Registrable(req[r].attestation, req[r].nonce)
    /\ req' = [req EXCEPT ![r].nonce = 0]
    /\ UNCHANGED <<scope, clock, rows, enabled, nonces, created, history>>

VerifyRefused(r) ==
    /\ pc[r] = "opened" /\ req[r].op = "verify"
    /\ ~Registrable(req[r].attestation, req[r].nonce)
    /\ Refused(r)

(* Mutants of Enroll: the door stays open; the passkey is bound to the     *)
(* session or code and not to its user.                                    *)
EnrollLeavingOpen(r) ==
    LET d == req[r].door  k == req[r].attestation.cred IN
    /\ pc[r] = "verified"
    /\ door[d] # "gone" /\ owner[k] = None
    /\ owner' = [owner EXCEPT ![k] = UserOf[d]]
    /\ enrolled' = [enrolled EXCEPT ![d] = @ \cup {req[r].attestation}]
    /\ End(r)
    /\ UNCHANGED <<clock, door, expires, nonce, enabled, nonces, created, offeredTo, lapsed>>

EnrollToDoor(r) ==
    LET d == req[r].door  k == req[r].attestation.cred IN
    /\ pc[r] = "verified"
    /\ door[d] # "gone" /\ owner[k] = None
    /\ owner' = [owner EXCEPT ![k] = d]
    /\ door' = [door EXCEPT ![d] = "spent"]
    /\ enrolled' = [enrolled EXCEPT ![d] = @ \cup {req[r].attestation}]
    /\ End(r)
    /\ UNCHANGED <<clock, expires, nonce, enabled, nonces, created, offeredTo, lapsed>>

(* The commit: the passkey and the end of its door.  A code's row keeps    *)
(* its nonce.                                                              *)
Enroll(r) ==
    LET d == req[r].door  k == req[r].attestation.cred IN
    /\ pc[r] = "verified"
    /\ door[d] # "gone" /\ owner[k] = None
    /\ owner' = [owner EXCEPT ![k] = UserOf[d]]
    /\ door' = [door EXCEPT ![d] = "spent"]
    /\ nonce' = IF d \in Sessions THEN [nonce EXCEPT ![d] = 0] ELSE nonce
    /\ enrolled' = [enrolled EXCEPT ![d] = @ \cup {req[r].attestation}]
    /\ End(r)
    /\ UNCHANGED <<clock, expires, enabled, nonces, created, offeredTo, lapsed>>

-----------------------------------------------------------------------------

Login(r) == Offer(r) \/ \E s \in Sessions : OfferWanted(r, s)

IssueCode(r) == Issue(r) \/ \E c \in Codes : BeginIssue(r, c)

Options(r) ==
    \/ \E d \in Doors : BeginOptions(r, d)
    \/ UserChecked(r) \/ UserDisabled(r) \/ OfferLapsed(r) \/ StoreNonce(r)

Verify(r) ==
    \/ \E d \in Doors, a \in created : BeginVerify(r, d, a)
    \/ Verified(r) \/ VerifyRefused(r) \/ Enroll(r)

Environment ==
    \/ Tick
    \/ \E u \in Users : SetEnabled(u)
    \/ \E s \in Sessions : DropSession(s)
    \/ \E k \in Creds, n \in 1..MaxNonce : CreatePasskey(k, n)

Next ==
    \/ Environment
    \/ \E r \in Requests : Login(r) \/ IssueCode(r) \/ Options(r) \/ Verify(r) \/ Crash(r)

Spec == Init /\ [][Next]_vars

-----------------------------------------------------------------------------
(* Properties                                                              *)

TypeOK ==
    /\ serialized \in BOOLEAN /\ tx \subseteq Requests
    /\ clock \in Nat
    /\ door \in [Doors -> DoorStates]
    /\ expires \in [Doors -> Nat]
    /\ nonce \in [Doors -> 0..MaxNonce]
    /\ owner \in [Creds -> Users \cup {None}]
    /\ enabled \subseteq Users
    /\ nonces \in 0..MaxNonce
    /\ created \subseteq Attestation
    /\ pc \in [Requests -> {"idle", "offering", "issuing", "opened", "checked", "verified"}]
    /\ req \in [Requests -> Request \cup {None}]
    /\ enrolled \in [Doors -> SUBSET Attestation]
    /\ offeredTo \in [1..MaxNonce -> Doors \cup {None}]
    /\ lapsed \subseteq Sessions

(* A passkey is bound to the user of the very door whose options its       *)
(* device answered: an attestation over another user's nonce, or another   *)
(* row's, registers nothing.                                               *)
PasskeyFollowsItsOptions ==
    \A d \in Doors : \A a \in enrolled[d] : offeredTo[a.nonce] = d /\ owner[a.cred] = UserOf[d]

(* Where transactions take turns, issuing a code stops every earlier one:  *)
(* a user has at most one that is not consumed.                            *)
OneUsableCode ==
    serialized => \A c, e \in Codes :
        door[c] = "open" /\ door[e] = "open" /\ UserOf[c] = UserOf[e] => c = e

(* Where transactions take turns, a door that is used, replaced by a newer *)
(* code or logged out of enrolls nothing any more, however far its page    *)
(* had gone.                                                               *)
ClosedDoorEnrollsNothing ==
    [][serialized =>
         \A d \in Doors : door[d] # "open" => enrolled'[d] = enrolled[d]]_vars

(* Where transactions take turns, a session's ceremony starts only for a   *)
(* user without a passkey.                                                 *)
OfferIsForFirstPasskey ==
    [][serialized => \A s \in Sessions :
          nonce'[s] \notin {0, nonce[s]} => ~HasPasskey(UserOf[s])]_vars

(* "the offer was for a user with no passkey, so it lapses": a session     *)
(* that was told so does not enroll.                                       *)
LapsedOfferEnrollsNothing ==
    [][\A s \in lapsed : enrolled'[s] = enrolled[s]]_vars

(* A session's offer and an activation code are single-use tickets that    *)
(* yield passkeys; side by side, two transactions may use one door, and    *)
(* nothing is claimed.                                                     *)
Tickets == INSTANCE SingleUse WITH
    Tickets <- Doors,
    state   <- [d \in Doors |-> IF ~serialized THEN "absent"
                               ELSE IF door[d] = "gone" THEN "spent" ELSE door[d]],
    yields  <- [d \in Doors |-> IF serialized THEN Cardinality(enrolled[d]) ELSE 0]

ImplementsSingleUse == Tickets!Spec

=============================================================================
