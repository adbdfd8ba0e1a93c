# A verification project for rba-idp

rba-idp is a multi-tenant identity provider whose logins are judged by a risk
engine (the PDP).  This directory holds TLA+ models of its core -- the login,
enrollment and directory services, and the pages people use them through -- the
TLC runs that check them on small instances, and proofs that TLAPS checks for
every instance.  Paths below are relative to the repository; `PROJECT.json` maps every
definition to the lines it models.

## 1. Inventory

| component | state | operations | how it can go wrong |
|---|---|---|---|
| password step, `services/login.py` `login`, `console_login`, `_authenticate`, `_enforce` | none of its own; reads users, applications, roles, passkeys, the cached policy | up to four transactions and two PDP calls per login | the directory and the policy change between steps; the PDP is down |
| second factor, `login.py` `webauthn_options`, `verify_webauthn`, `verify_mfa`, `_finish_challenge` | `mfa_challenges`, `webauthn_credentials.sign_count` | open, attach a nonce, verify, consume | replays, two requests on one challenge, revocation, expiry, a crash between commit and confirmation |
| sessions and callback codes, `login.py` `exchange_code`, `logout`, `load_session` | `idp_sessions`, `auth_codes` | insert, rotate, delete | a code redeemed twice; a logout or a disabled user meanwhile |
| passkey enrollment, `services/enrollment.py`, `activation.py` | `activation_codes`, `idp_sessions.enroll_until`, `webauthn_credentials` | issue a code, options, verify, by session or by code | two tabs, two codes, ceremonies of different rows, work rolled back by a refusal |
| policy cache, `tenancy.py` | one dictionary per process | `get`, `invalidate` | entries stored after they were invalidated; several replicas; an outage |
| console, `services/admin.py`, and `authz.py` | users, groups, memberships, roles, assignments, permissions, applications | CRUD by operators of each tenant | ids that come back, rows checked and then gone, overlapping replacements |
| console guard, `AdminService.authorize`, `LoginService.load_session` | none | authorize, then act in another transaction | authority lost in between |
| tenants, `create_tenant`, `patch_tenant`, `_set_domains` | `tenants`, `tenant_domains`, the PDP's policy | create, edit, replace domains | two stores written one after the other |
| seed and init, `seed.py`, `init.py` | all tables | ensure rows exist | a second run over an edited directory |
| passkeys command line, `passkeys.py` | `webauthn_credentials` | export, import | a running IdP beside it |
| transactions, `db/session.py` | the lock of the in-memory engine | `session_scope` | isolation differs between the two engines |
| login page, `web/static/login.js`, and activation page, `activate.js` | the panel on show, the scripts' variables, the buttons, the token in the tab's sessionStorage | login, step-up, enrollment by code or by offer, logout, activation | answers after the person has gone elsewhere, fetches and prompts that fail, handlers that share a variable |
| admin console, `admin-ui/src`: `App.tsx`, `api.ts`, `router.ts`, `load.ts` and the pages | the URL, the mounted page and its data, the requests under way, the token and the tenant in sessionStorage | session, tenant switch, navigation, lists, items, writes, drafts and dialogs, logout | answers of the previous tenant or page, writes sent after a switch, lists not asked for again, a button that waits for ever |
| effectiveness and account pages, components, texts of the console; forms and encodings of the hosted pages | what they show | reads | presentation |
| HTTP surface, PDP and audit clients, geo, devices, simulation, metrics, configuration | none that matters here | | |

**How the parts interact.**  FastAPI runs each handler in a thread.  A handler
calls one service; a service uses one or more transactions (`session_scope`),
and calls the PDP only outside them.  The parts share the database rows: a
password step leaves an `MfaChallenge` that the second factor consumes; either
leaves a session and perhaps a callback code; a session or an activation code
is a door to enrollment; the console edits the users, roles and flags that the
others read.  The policy cache sits between the password step and the PDP.  In
the browser, the login page leaves its token in the tab's sessionStorage, where
the admin console, opened in the same tab, reads it and keeps a second key
beside it: the tenant a platform operator has switched to.

**What is hard.**  With the in-memory database the requests' transactions take
turns under a lock.  On PostgreSQL they run at READ COMMITTED, no row is locked
by reading (`SELECT ... FOR UPDATE` is used nowhere), and most handlers read,
decide and then write.  Requests may be repeated, may overlap, and may stop at
any step; the PDP may not answer, or answer and not be heard.  In the browser
nothing is ever cancelled: a handler runs to its first `await`, the person goes
on clicking, and the answer finds another panel, another page, another tenant or
another operator.  The hazards are listed line by line in `PROJECT.json`.

**What makes each part correct.**  Single use of challenges, codes and doors;
what is spent is spent in the commit that yields; nobody signs in who was never
allowed to during that login; the engine's absence never weakens a login;
staleness of a policy is bounded; a directory that operators edit in any order
keeps applications and tenants apart; no page is left with a button that does
nothing; the console shows and writes the tenant it says it does.

## 2. The modules

| module | models | composed of |
|---|---|---|
| `SessionScope` | `session_scope`: `serialized` says whether transactions take turns | |
| `PolicyRegister` | abstract: what a policy cache promises | |
| `PolicyCache` | `TenantPolicyCache`, `put_policy` | refines `PolicyRegister` |
| `PolicyCacheProofs` | theorems about `PolicyCache` | |
| `SingleUse` | abstract: a ticket that yields at most one thing | |
| `StepUp` | the second factor | `SessionScope`; refines `SingleUse` |
| `StepUpProofs` | theorems about `StepUp` | |
| `Callback` | sessions, callback codes, logout | `SessionScope`; refines `SingleUse` |
| `CallbackProofs` | theorems about `Callback` | |
| `Enrollment` | the two doors to a passkey | `SessionScope`; refines `SingleUse` |
| `Login` | the password step | `SessionScope` |
| `Directory` | the console's directory and `authz.py` | `SessionScope` |
| `Tenancy` | the console's guard, tenants and their domains, the seed at boot | `SessionScope` |
| `TenancyProofs` | theorems about `Tenancy` | |
| `EnrollmentProofs` | theorems about `Enrollment`, and through it `SingleUse` | |
| `DirectoryProofs` | theorems about `Directory` | |
| `LoginProofs` | theorems about `Login`, and about the pages `ActivatePage` and `LoginPage` at its other end | |
| `LoginPage` | `login.js`, with the tab's stored token | |
| `ActivatePage` | `activate.js`, opened in the same tab | extends `LoginPage` |
| `ConsoleShell` | `App.tsx`, `api.ts`, `router.ts`, `load.ts`: the session, the tenant, the URL, the mounted page, requests | |
| `GroupPages`, `RolePages`, `OrgPages`, `DirectoryPages`, `PolicyPage`, `EventPages` | the handlers of the pages that write, and of the one that follows events | each extends `ConsoleShell` |
| `Console` | the whole console, with its properties | extends all the pages |
| `ConsoleProofs` | theorems about `Console` | |
| `MC...` | the small instances TLC runs | |

**Two engines in one model.**  `serialized` is a variable of `SessionScope` that
`Init` chooses and no step changes: the same specification, and the same run,
covers the in-memory engine, whose transactions take turns, and PostgreSQL,
whose transactions run side by side.  A property that holds on either engine is
stated plainly.  One that needs the turns is stated under `serialized =>`, and
its comment says so; the refinement mappings show the abstract initial state,
and stutter, when transactions run side by side.  Where the repository promises
such a property whatever the engine, a violation run states it without the
condition.

In every module of the server a request has a program counter (`pc`, or the `kind` of its
record in `Directory`) and a record of what it was asked and what it has read
so far (`req`).  One action is one statement whose result the request depends
on, or its commit; writes become visible at the commit.  A clock that the code
reads before a transaction is read in an earlier step.  A crash, a lost
connection or a failed commit ends the request and changes nothing else.
Rows are modelled by what the code distinguishes: an `MfaChallenge` is absent,
open, passed or refused; a nonce, a token and a version of a policy are fresh
values; a WebAuthn assertion is who signed which nonce with which count.

History variables, named as such in each module, record only what properties
talk about.  Definitions introduced by "A mutant of" are the code with a
plausible mistake in it; nothing else uses them.  Each shows that the property
it is paired with in `PROJECT.json` can tell the difference.

`PolicyCache`.  `get` is four steps: the clock, the lookup under the lock, the
PDP's answer, the store under the lock.  `put_policy` is two: the PDP saves, the
entry is dropped.  The save's answer may be lost, in which case nothing is
dropped.  Threads run in replicas, each with a cache of its own.  `SaveOnPdp`
numbers the versions of one tenant's policy.

`StepUp`.  `OpenChallenge` / `NotOpen` is `_open_challenge`; `Verifies` is
`verify_get` with the counter rule; `AccessHeld` / `AccessDenied` the access
check of `_finish_challenge`; `Pass` the commit; `Confirm` the call to the PDP
after it.  `Register` puts a passkey into `registered`, possibly while a challenge
of its user is open.  Browsers sign any nonce at any time, and any assertion may
be sent any number of times with any challenge.

`Callback`.  `SignIn` is the commit that ends a login, from the password or from
a step-up; `ReadCode`, `ReadSession`, `ReadUser` and `Rotate` are `exchange_code`.

`Enrollment`.  A door is a session that may enroll or an activation code.
`OfferWanted` / `Offer` is the login that marks a session; `BeginIssue` /
`Issue` the code an operator issues; options and verify follow the handlers.
`OfferLapsed` is the refusal whose write is rolled back.

`Login`.  `Route`, `CheckPassword`, `CheckAccess`, the policy (`PolicyIsOff`,
`PolicyIsNotOff`, as loose as `PolicyRegister` allows), `Evaluate` or
`EvaluateFails`, then `_enforce`.  `seen` collects what was true of the user and
the application at any moment of that login, so that a property can say "at
some moment it was allowed" and no more than the code can promise.

`Directory`.  Creating a row is one step (its primary key repeats the check);
every other operation is its checks and its commit.  Group and role ids are one
namespace for all tenants and may come back after a deletion.  The DELETE and
the INSERT of `set_role_permissions` are separate steps, since at READ COMMITTED
a DELETE works on the rows committed when it starts.  Which of two DELETEs that
wait for the same rows goes first is left open.

`Tenancy`.  A request reads its session (`LoadSession`), the user and the
permissions in one transaction, is judged in a second (`Authorize`), and runs its
handler in further ones: `WriteInTenant` stands for the handlers of `Directory`;
`CheckFree`, `PutStarter` and `InsertTenant` are `create_tenant`, with the PDP
between two transactions (`PutUnanswered`: saved and not heard); `CheckDomains`,
`ClearDomains` and `SaveDomains` are `patch_tenant` with `_set_domains`.  What an
operator may is a set of permissions that grants, revocations and boots change;
`Directory` says how it comes from groups and roles.  `BeginBoot` / `Boot` is
`seed_identity` in its one transaction.  The tenants of the seed have their
policies at the start; that is the PDP's own seed.

`LoginPage` and `ActivatePage`.  `page` is what the script can read: the panel,
its `let` variables, the data attributes and disabled flags.  `tasks` are the
fetches and authenticator prompts under way.  The synchronous part of a handler
is a function from page states to page states (`PrepareStepUp`, `AfterLogin`,
`ApplyOutcome`), and each `await` ends an action: `SubmitLogin` / `LoginAnswer`,
`TapStepUp` / `PromptAnswer` / `StepUpVerifyAnswer`, and so on, each answer with
its failures.  WebAuthn options are what they were issued for.  `Load` is a
reload at any time, and leaving the page drops what is under way.

`ConsoleShell` and the pages.  `place` says whether the tab is at the login page,
asks whose session it has, was refused, or shows the console.  `view` is the
mounted page: whose rows and item it shows, whether it loads, edits or saves.
`Mount` is React's key: another page, or another tenant, starts blank.  `reqs`
holds what is under way; a read leaves with the page that asked (`load.ts`
ignores the answer), while a write goes on, `live` as long as its page is there
to hear of it.  `ServeRead` / `ServeWrite` are the server's side: the tenant the
call is about is `TenantFor`, the rule of `authorize` for the header that
`api.ts` sent.  `ActAs` changes the header, the key and the URL together;
`OpenConsole` and `BackOrForward` open any URL, an item's too.  A
page's write is a click (`SaveRole`) and an answer (`RoleSaved`, `RoleFailed`)
that reloads or navigates as the handler does.  Rows have an owner and an id and
no content, and any row may be in a list, since others edit the directory too.

## 3. The runs

| run | question | distinct states |
|---|---|---|
| `PolicyCache` | bounded staleness, saves are served, refinement of `PolicyRegister`; one replica with two threads | 6 * 10^5 |
| `StepUp` | the challenge as a single-use ticket; confirmations, revocation, counters, nonces; 2 requests | 1.3 * 10^6 |
| `Callback` | one working token per sign-in, through exchanges, logouts and disabled users; 2 requests | 3 * 10^5 |
| `Enrollment` | doors, nonces and codes; 2 requests | 6 * 10^5 |
| `Login` | who may sign in with a password alone, while operators change everything around one login | 4 * 10^5 |
| `Directory` | tenants and applications stay apart, ids that come back grant nothing; 2 requests | 5 * 10^5 |
| `Tenancy` | who is served by the console, which tenants have a policy, whose request changes a domain; 2 requests | 2.3 * 10^6 |
| `LoginPage` | no button is left dead, the ring of a login goes away, a passkey is sent with its own code | 8 * 10^5 |
| `Console` | pages and writes keep to the tenant on show, a save ends; operators of two tenants in one tab | 7 * 10^5 |
| `StepUpPostgresOnce` | violation: a consumed challenge cannot be reused | |
| `EnrollmentLapse` | violation: an offer that lapsed enrolls nothing | |
| `ConsoleList` | violation: a list is reloaded after a write | |

Every run of the server but `PolicyCache` explores both engines.

| | on either engine | where transactions take turns |
|---|---|---|
| `StepUp` | `ConsumedWithItsSession`, `ConfirmsFollowSessions`, `NoSessionAfterRevoke` | `PassedOnCurrentNonce`, `SignCountGrows`, `ImplementsSingleUse` |
| `Callback` | `NoTokenForDisabled` | `OneSessionPerLogin`, `LogoutEndsLogin`, `ImplementsSingleUse` |
| `Enrollment` | `PasskeyFollowsItsOptions` | `OneUsableCode`, `ClosedDoorEnrollsNothing`, `OfferIsForFirstPasskey`, `ImplementsSingleUse` |
| `Login` | `OpenChallengesCanBeAnswered`, `SignInNeedsStanding`, `SignInWasAllowed`, `OfferFollowsUsualLogin` | `AlwaysPasskeyIsFloor` |
| `Directory` | `NewIdGrantsNothing` | `AccessStaysInTenant`, `RoleCarriesOwnApp` |
| `Tenancy` | `HandlersAreEntitled` but for "signed in and enabled at that moment", `PolicyPrecedesTenant`, `DomainsFollowSaves` on whose request changes a domain | the rest of `HandlersAreEntitled` and of `DomainsFollowSaves` |

`PolicyCache`, `StepUp`, `Callback` and `Console` have a `TypeOK` that is proved for
every instance (section 4), so their runs do not check it again.

**Bounds and why they suffice.**  Every race of the server is between two requests
about one row (a challenge, a code, a door, a role), so two requests and one or two
rows show it; a third request adds no new pair.  Clocks run just past the
lifetimes, which are one or two units, so that every row can be seen live, at
its last moment and expired, and a superseded version can outlive its ttl.
Nonces and signatures are bounded by one more than the challenge can use, so a
superseded nonce and a repeated assertion occur.

- `StepUp` has one challenge, a passkey of its user that counts signatures and
  one of another user that does not.  Two challenges have nothing in common but
  a passkey's counter, which the two requests of one challenge share too; the
  proofs of section 4 are for any number.
- `Callback` has two sign-ins and four tokens, so one sign-in is rotated twice
  while the other goes on.
- `Enrollment` has one session and two codes, all of one user, and two passkeys:
  codes replace each other and the session only within a user.  A door is bound
  to its user for good, so `PasskeyFollowsItsOptions` tells the doors apart and
  with them their users.
- `Login` has one user and one request: logins share no row they both write, and
  what others do to the rows a login reads is in the operators' actions.
- `Directory` has two tenants with an admin group each, an application of the
  first and one that either may create, a permission, and one user, group and
  role id, because its properties quantify over each separately.
- `LoginPage`: the person clicks when fewer than `MaxTasks` = 2 answers are to
  come, so that what a click starts is beside at most one other.  A handler is
  confused by an answer to something given up, and two under way are what that
  takes.  A login, a test code or a logout that is sent again while the first is
  under way has a number, so that the two are answered apart.  Two challenges, two
  codes and a second session tell what was given up from what is current.  The
  boot records are an application's login, the console's, the page alone and an
  unknown application.
- `Console`: likewise a click comes when fewer than `MaxUnderWay` = 2 requests are
  under way; two requests that are alike in everything count once, since their
  answers do the same.  Two tenants and two ids make another tenant's row and
  another item; rows that have no page of their own are told apart by no handler,
  and `AnyRow` stands for them; the three operators are a platform's, a tenant's and one without
  the permission.
- `Tenancy`: the platform, a tenant, and one that may be created; two domains, one
  of the seed and one that creations and replacements compete for; three
  operators: the platform's, one of the tenant with a permission of the same name
  as the platform's, and a customer's session of another application.  `Asked`
  pairs each with what he should get or be refused, with replacements that
  overlap each other and a creation.  `MaxChanges` = 2 lets a right be taken and
  another given within one request; two are what it takes to put together
  permissions that were never held at once.

Symmetry is used only for safety, over interchangeable requests, passkeys and
tokens.

**What the violations show.**

- `StepUpPostgresOnce`: a row is checked, not locked, and written later without
  repeating the check.  On PostgreSQL two verifications of one challenge both
  insert a session; the in-memory database of the tests hides it.
- `EnrollmentLapse`: a write is lost to the rollback of the exception after it.
- `ConsoleList`: the page of a group is drawn over the list that was loaded
  before it.  Deleting the group opens the list's URL, and the deleted group is
  still in it.

The same causes have other effects, which the models show when asked and which
have no run of their own.  On PostgreSQL a callback code is redeemed twice, two
passkeys are enrolled through one door, two codes are usable when two are issued
at once, two overlapping PUTs of a role's permissions leave the union, and a
role that is deleted and created again keeps what was checked of its former
life.  Two overlapping replacements of a tenant's domains leave the union too.
A policy fetched before a save may be stored after it and is served for
another ttl.  In the console a new role or organization is missing from the list
one goes back to.

**Fairness.**  The specifications of the server state none and their properties
are safety properties: nothing there waits for anything but the lock of the
in-memory engine and the PDP's timeout.  In the browser a promise of `fetch`
settles, with an answer or with a failure, as long as its page is there.  So
`LoginPage` assumes weak fairness of `LoginAnswer`, for `CheckingEnds`, and
`Console` of `PolicySaved \/ PolicyFailed` and of `PolicyReloaded`, for
`SavingEnds`: all of them include the failures, so nothing is assumed of the
server.  Nothing is assumed of the person or of the authenticator, whose prompt
may stay open for ever.  Deadlock is checked in every run.

## 4. What is proved

`PolicyCacheProofs`, for any number of threads, replicas and versions and any
ttl, from the assumptions on the constants in `PolicyCache` alone:

- `Typing`: `TypeOK` is an invariant;
- `Staleness`: `BoundedStaleness` is an invariant;
- `SavedIsServed`: `SavedPolicyIsServed` is an invariant;
- `Refinement`: `Spec => PolicyRegister!Spec` under the mapping in the module.

The argument is one inductive invariant, `IInv`.  `BoundedStaleness` is about
answers and says nothing of the entries and fetches they come from, so `IInv`
adds: the recorded history of versions is in order (`PastHistory`); an entry's
version was in force at its timestamp or later (`EntriesAreOfTheirTime`); so was
a fetched version at the clock its thread read (`FetchesAreOfTheirTime`); and,
for saves, that no fetch in flight is older than the floor (`FloorsHold`).  The
key fact is that the timestamp is read before the fetch.  `Invariance` is the
induction, `Preserved` takes each action apart, and `Refinement` maps each step
to a step of the register or a stutter.

`StepUpProofs`, for any number of requests, challenges, users and passkeys, any
lifetimes and any bounds, from the assumptions on the constants in `StepUp`:

- on either engine: `Typing` (`TypeOK`), `Consumed` (`ConsumedWithItsSession`),
  `Revocation` (`NoSessionAfterRevoke`), `Confirmations`
  (`ConfirmsFollowSessions`);
- where transactions take turns: `Counters` (`SignCountGrows`), `CurrentNonce`
  (`PassedOnCurrentNonce`), `OncePerChallenge` (`serialized => PassedOnce`) and
  `Refinement` (`ImplementsSingleUse`).

The argument is in layers.  `Typed` says that a request which runs knows what it
is about; all else needs it.  `HeldIsKnown` ties a request that may still pass to
the access its user had.  `ConfirmsOwed` counts the sessions whose confirmation
has not been sent: the count of a finite set of requests, so that a confirmation
pays for one of them.  For the turns, `Turns` says that one request is inside at
a time and that its challenge is as open as when it was read, and `Ceremonies`
that nonce and counter are too; `RowsOfTheTurn` is the lemma behind both, that
nobody else writes a row meanwhile.  Without `serialized` that lemma fails, and
the run `StepUpPostgresOnce` shows how.

`CallbackProofs`, for any number of requests, sign-ins and tokens and any
lifetimes, from the assumption on the constants in `Callback` (of which the last
part says that the absence of a code is no code):

- on either engine: `Typing` (`TypeOK`) and `Disabled` (`NoTokenForDisabled`);
- where transactions take turns: `OneToken` (`OneSessionPerLogin`), `LogoutEnds`
  (`LogoutEndsLogin`) and `Refinement` (`ImplementsSingleUse`).

`Typed` and `HeldIsKnown` play the parts they play in `StepUpProofs`.
`OneSessionPerLogin` and `LogoutEndsLogin` are not inductive: an exchange writes
a session for the sign-in that the code names and deletes the one that the code
was issued with, so one must know that these belong together
(`TokensAreOwned`) and that the session read a moment ago is still there and its
code still open (`Turns`).  `AboutToRotate` draws the conclusion: what an exchange
replaces is its sign-in's only session, and no logout has ended it.  `OncePerCode`
is what the refinement is for: a ticket yields at most one thing
(`TicketsKeepTheirWord`), so a code becomes at most one token.

`TenancyProofs`, for any number of requests, tenants, domains and operators,
whatever is asked and however often operators are edited, from the assumption on
the constants in `Tenancy`:

- on either engine: `Typing` (`TypeOK`) and `PolicyFirst`
  (`PolicyPrecedesTenant`);
- `Entitlement` (`HandlersAreEntitled`) and `DomainWrites`
  (`DomainsFollowSaves`), each with its half for either engine and its half for
  transactions that take turns.

`HandlersAreEntitled` is about handlers and says nothing of the guard, so
`GuardVouches` adds what each of its steps has established: after the permissions
are read, a request that `authorize` would let through is entitled already.
`RowsHang` ties the requests of `create_tenant` and `patch_tenant` to the rows
and policies they rely on.  `CedesOwn` says that what a DELETE has found is still
its tenant's, also when another transaction has deleted and inserted in between:
that is why no overlap of replacements takes a domain from another tenant.

`EnrollmentProofs`, for any number of requests, sessions, codes, passkeys and
users and any lifetimes, from the assumptions on the constants in `Enrollment`
(doors are of two kinds and each has a user; `None` is neither a user nor a
request):

- on either engine: `Typing` (`TypeOK`) and `OptionsFollowed`
  (`PasskeyFollowsItsOptions`);
- where transactions take turns: `OneCode` (`OneUsableCode`), `ClosedDoors`
  (`ClosedDoorEnrollsNothing`), `FirstPasskeys` (`OfferIsForFirstPasskey`) and
  `DoorIsTicket`, the refinement of `SingleUse`.  `OncePerDoor` is what the
  refinement is for: it is proved of the tickets, by `TicketsKeepTheirWord`, and
  holds of doors because they implement them.

The invariant has three parts, and the step of each is proved on its own.  `Own`
carries a nonce from the row it was stored in, through the request that has read
it, to the passkey: it needs no turns, because a nonce is generated once and a
request compares what it read.  `Reserved` says that two requests never insert one
row.  `Turns` is what a request relies on between its reads and its commit: its door
is still open, the codes it voids are all there are, the user still has no passkey.
It holds because nobody else is inside (`Alone`), and side by side it does not.

`LoginProofs`, for any number of requests and users, with or without the mock OTP,
for either action of an outage, whatever the engine answers and however the directory
and the policies change, from the assumptions in `Login` (an outage never means
ALLOW; `None` is no verdict):

- on either engine: `Typing` (`TypeOK`), `Standings` (`SignInNeedsStanding`),
  `FailsClosed` (`SignInWasAllowed`), `Offers` (`OfferFollowsUsualLogin`) and
  `Answers` (`OpenChallengesCanBeAnswered`);
- where transactions take turns: `Floors` (`AlwaysPasskeyIsFloor`).

The run has one login, because logins meet only in the directory and the policies,
and these change at every step; the theorems say it of any number.  `StandingIsSeen`
makes the history useful: whatever a step finds in the directory is already seen, so
the invariant only has to keep it.  `Earned` is what a request has found by where it
is, `Reasoned` why an ALLOW stands in its local variable (the engine's, or the base
policy's, and no floor), `Answerable` that a step-up has a second factor.  `Floors`
rests on one clause of `Earned`: while a request is between its two reads it is
inside a transaction, so the user's flag is still what it read.

The second half of `LoginProofs` is about the hosted pages, for any boot records,
any bounds and any number of clicks and answers, from the assumptions in
`LoginPage` (the bounds are numbers):

- `PagesTyping`: `PageTypeOK` is an invariant;
- `LiveButtons`: `NoDeadButton` is an invariant;
- `PasskeyAndCode`: `PasskeyGoesWithItsCode` is an invariant.

`Sound` is a property of a page and the tasks it has under way, and each handler is
a function of page states, so there is a lemma for each function (`ShowSound`,
`PrepareSound`, `OutcomeSound`) and one for each way a task starts, goes on or ends
(`TapSound`, `GoOnSound`, `BackSound`); an action composes them as its handler does.
`NoDeadButton` is inductive beside the types, and the types are not by themselves: a
prompt that returns sends the code of the moment, so `CodeKnown` says that whatever
was issued for a code finds one to be sent with.  `PasskeyGoesWithItsCode` is far from
inductive: the code is read after the prompt, and what keeps it is that on the
activation page nothing is under way but its own two steps (`CodeKept`): a form that
can be sent has nothing under way, a code's options arrive alone, and an answer of
the login page never comes there, because opening the page dropped it.

`DirectoryProofs`, for any tenants, users, groups, roles, applications, permissions
and requests, from the assumptions on the constants in `Directory`:

- on either engine: `Typing` (`TypeOK`) and `NewIds` (`NewIdGrantsNothing`);
- where transactions take turns: `InTenant` (`AccessStaysInTenant`) and `OwnApp`
  (`RoleCarriesOwnApp`).

On either engine `Rooted` holds: rows refer to rows that exist (`RowsHang`), because
a foreign key refuses the others and a delete takes its references along; and the
little a request may rely on between two transactions (`Lasting`): users are never
deleted, and the group it deletes is nobody's admin group.  `TypeOK` alone is not
inductive: `patch_user` puts a user into the admin group of a tenant, which must
exist.  An id that comes into use is therefore referred to by nothing.  `KeptApart`
is for the turns: rows that refer to one another are of one tenant and one
application (`RowsAgree`), and what a request has checked still holds when it commits
(`Current`), because nobody else is inside (`InTurn`).  No theorem says it of
transactions side by side: there the check and the write are two steps, and a group
or a role may be deleted and its id given to another tenant between them.

`ConsoleProofs`, for any tenants, operators, rights and ids and any number of
requests under way, from the assumption on the constants in `ConsoleShell`:

- `Typing`: `TypeOK` is an invariant;
- `Rows`: `RowsBelongToScope` is an invariant;
- `Writes`: every step satisfies `WritesHitTheirRows`.

What a page shows comes from the answers to its reads, so the invariant is about
requests: each one under way is `Sound` for the scope the console has now.  A
read of the mounted page carries its tenant's header and has found that tenant's
rows; a write is about the rows it was clicked on or will be refused.  A step that
changes neither the scope nor the page has only to start sound requests
(`StayedOnPage`, `OnlyRequests`); one that does has to say what becomes of the
others, which is what `Mount`, `Orphaned` and `Unload` do (`MountedPage`,
`OrphansSound`, `Navigated`, `Unloaded`).  `AppFollowsTab` joins the header, read
from sessionStorage, to the key of the page, which is state of `App`.

Model-checked only is the liveness of `CheckingEnds` and `SavingEnds`: liveness
under fairness and ENABLED are out of this prover's reach.  So are what
a recursive definition computes for every input (the induction theorems take an
operator as a parameter) and modules that declare RECURSIVE operators; no module
declares one.

## 5. What is not modelled, and the plan

In this order:

1. The composition of `Tenancy` and `Directory`: the operator a user of the
   modelled directory, and the rows of `bootstrap_console`, whose ids are derived
   from the tenant's and may be taken by an application or a group of another.
2. `passkeys.py`: export and import of credentials beside a running IdP.
3. A composition of `Login`, `StepUp` and `Callback` over one set of rows:
   every token an application holds goes back to a login that was allowed.
4. Liveness of the server: with weak fairness of the request's own steps every
   login is answered, and a replica comes to serve the last policy saved.
5. Pure algorithms as operators against a definition: `client_ip`, `scored_ip`,
   redirect matching, the device ticket.
6. Proofs: the compositions of 1 and 3, once they are modelled.

**Not modelled.**  Of the console: what is in the tab's history (Back and Forward
may lead to any of its URLs), notices, search, filters and paging, the reads that only turn ids into names, and the
pages that only show (effectiveness, account).  Of the hosted pages: wording,
focus, animation, and the encodings of WebAuthn.  Of the server:
the passkeys command line, the lifetime of a console session, name and branding
of a tenant, redirect URIs and client ids of the seed, metrics,
geolocation data, the reads passed through from the audit service, and
cryptography, which appears as fresh values and as who signed what.

**Seen in the models, promised by nobody.**  The models contain these behaviours,
and no line of the repository says they should not happen, so no property does:

- `restoreSession` may be answered after the person has signed in again: it shows
  the session panel, or removes the new token;
- a tap may sign the options of a challenge that was given up and name the
  current one; the server refuses it;
- the login page reads the activation code after the prompt, so that one typed
  meanwhile goes with the passkey of the other; the server refuses that too;
- the login page ends a session without the tenant the console keeps in the tab
  (`login.js:57-59` against `api.ts:221-222`): the next operator of the tab is
  scoped to it and all of his calls are refused until the tab is closed;
- `create_tenant` writes the starter policy without looking: the loser of two
  creations, or one that fails afterwards, puts it over what the winner's
  operators have saved meanwhile, or leaves a policy without a tenant;
- a handler runs for an operator whose right, session or account was taken after
  the guard; the next request is refused;
- a boot brings back what operators took away of the seed
  (`README.md:248`: "Written on every boot if missing");
- a logout whose fetch fails leaves the page as it was;
- under the URL of another group, role or event the page of one stays mounted and
  keeps what it shows (`load.ts:10-14` loads again only for another tenant): a jump
  in the history from one to the other changes the address and not the page;
- `prepareOffer` answered late takes the person away from where he has gone;
- a reload drops what was being edited, on the page of a role, an organization
  or the policy;
- the save of a role stays enabled while it is answered, and the dialog of the
  policy confirms a second save beside the first;
- the answer of a create or a delete opens its URL wherever the operator has
  gone since.
