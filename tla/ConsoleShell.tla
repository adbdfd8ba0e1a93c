---------------------------- MODULE ConsoleShell ----------------------------
(***************************************************************************)
(* The admin console in one browser tab: its shell (App.tsx, api.ts,       *)
(* router.ts) and the hook every page loads its data with (load.ts).  The  *)
(* modules of the pages extend this one and Console composes them.         *)
(*                                                                         *)
(* The console is a React application: a handler runs at once, requests    *)
(* are answered later and in any order.  One page ("view") is mounted at a *)
(* time, under the key of the tenant shown.  An answer whose page is gone  *)
(* sets nothing, so the reads of a page leave with it; a write stays under *)
(* way, for its effect at the server and for what its handler does outside *)
(* of the page.  Names, texts, notices, search boxes and paging are left   *)
(* out, and so are the reads that only turn ids into names (the shell's of *)
(* its own tenant is one: GET /admin/api/tenant).                          *)
(*                                                                         *)
(* What is in a row is left out, and which rows there are: operators at    *)
(* other consoles change them, so any row may be in a list and any item    *)
(* gone.  Of what a page shows, the model keeps whose it is.               *)
(***************************************************************************)
EXTENDS Naturals, FiniteSets

CONSTANTS
    Tenants,        \* organizations
    Platform,       \* the one whose operators administer the others
    Operators,      \* people who may sign in at the console's login page
    HomeOf,         \* each one's tenant
    Readers,        \* those with admin:read
    Writers,        \* those with admin:write, policy:write and tenants:write
    Ids,            \* ids of rows
    AnyRow,         \* stands for the ids that no handler tells apart: of rows
                    \* without a page of their own, and of a tenant's policy
    MaxUnderWay,    \* bound: a click comes when fewer requests are under way
    None

ASSUME ConsoleAssumption ==
    /\ Platform \in Tenants
    /\ HomeOf \in [Operators -> Tenants]
    /\ Readers \subseteq Operators /\ Writers \subseteq Readers
    /\ AnyRow \in Ids
    /\ None \notin Tenants \cup Operators \cup Ids

VARIABLES
    place,      \* what the tab shows: the login page or the console
    signedIn,   \* whose token is in sessionStorage
    acting,     \* sessionStorage["rba.console.tenant"]
    app,        \* the shell's state
    route,      \* the URL: a page and possibly one of its items
    view,       \* the mounted page
    reqs,       \* requests under way (a set: two that are alike count once)
    alive       \* whether the server still has the session

vars == <<place, signedIn, acting, app, route, view, reqs, alive>>
tab == <<place, signedIn, acting>>

Pages == {"home", "events", "effectiveness", "policy", "users", "apps",
          "groups", "roles", "orgs", "account"}
ListPages == Pages \ {"policy", "account"}     \* load a list
ItemPages == {"events", "groups", "roles", "orgs"}  \* and one item by its id
IdsOf(page) == IF page \in ItemPages THEN Ids ELSE {AnyRow}

IsPlatform(o) == HomeOf[o] = Platform
scopeId == IF app.scope = None THEN HomeOf[app.user] ELSE app.scope
\* Whose rows a page of the console is about.
Owner(page) == IF page = "orgs" THEN Platform ELSE scopeId
canWrite == app.user \in Writers

-----------------------------------------------------------------------------
(* Requests and the mounted page.                                          *)

\* A read: of the list or the item of a page ("first" if its answer ends the
\* loading state), of the shell's switcher or session.  "served" once the server
\* has done it, with what it found in "got".
Read(page, slot, id, first, header) ==
    [do |-> "read", page |-> page, slot |-> slot, id |-> id, first |-> first,
     header |-> header, served |-> FALSE, got |-> None]

\* Mutant of Write: api sends a write without the header of the tenant.
WriteUnscoped(do, id, of) ==
    [do |-> do, page |-> view.page, id |-> id, of |-> of, live |-> TRUE,
     header |-> None, served |-> FALSE, got |-> None]

\* A write clicked on the mounted page: about which row, of which tenant's data
\* on show.  "live" while the page that wrote is mounted.  api reads the header
\* from sessionStorage.
Write(do, id, of) ==
    [do |-> do, page |-> view.page, id |-> id, of |-> of, live |-> TRUE,
     header |-> acting, served |-> FALSE, got |-> None]

\* How a request settles in the browser: well, if the server has done it; or
\* not: refused, lost on its way, or its answer lost.
Settles(r, ok) == ok => r.served

Reads == {r \in reqs : r.do = "read"}
PageReads == {r \in Reads : r.slot \in {"list", "item"}}
ItemReads == {r \in Reads : r.slot = "item"}
UnderWay == reqs \ Reads

\* What a page shows before its data is there.
Blank(page, id) ==
    [page |-> page, rows |-> None, loading |-> page \in ListPages,
     item |-> None, itemLoading |-> (page = "policy" \/ id # None),
     edited |-> FALSE, saving |-> FALSE, dialog |-> None]

\* useLoad's effect on mount: the reads of a page.
Loads(page, id, header) ==
    (IF page \in ListPages THEN {Read(page, "list", None, TRUE, header)} ELSE {})
        \cup
    (CASE page = "policy" -> {Read(page, "item", AnyRow, TRUE, header)}
       [] page \in ItemPages /\ id # None -> {Read(page, "item", id, TRUE, header)}
       [] OTHER -> {})

\* What is under way when the mounted page goes: writes go on without it.
Orphaned == (Reads \ PageReads) \cup {[w EXCEPT !.live = FALSE] : w \in UnderWay}

\* The page is mounted anew: on another page, or under another tenant's key.
Mount(page, id, header, others) ==
    /\ view' = Blank(page, id)
    /\ reqs' = others \cup Loads(page, id, header)

\* The page of one item stays, under the URL of another.
OtherItem(page, id) ==
    IF page = "orgs" /\ id # route.id /\ ~view.itemLoading
    THEN \E found \in {None, [of |-> Platform, id |-> id]} :
             view' = [view EXCEPT !.item = found, !.edited = FALSE]
    ELSE view' = view

\* navigate: the URL changes; the page stays mounted if it is the same one,
\* and only what shows one item comes or goes.  From one item to another that
\* stays mounted too, with what it has loaded: of an organization, that is the
\* list in which the page finds the one of the URL, or does not.
Navigate(page, id, rest) ==
    LET reads == rest \cap PageReads
        gone  == {IF r.do = "read" THEN r ELSE [r EXCEPT !.live = FALSE] : r \in rest \ reads}
        shut  == [view EXCEPT !.item = None, !.itemLoading = FALSE, !.edited = FALSE]
    IN  /\ route' = [page |-> page, id |-> id]
        /\ CASE page # route.page -> Mount(page, id, acting, gone)
             [] page = route.page /\ route.id = None /\ id # None ->
                    /\ view' = [view EXCEPT !.itemLoading = TRUE]
                    /\ reqs' = rest \cup {Read(page, "item", id, TRUE, acting)}
             [] page = route.page /\ route.id # None /\ id = None ->
                    /\ view' = shut
                    /\ reqs' = gone \cup (reads \ ItemReads)
             [] page = route.page /\ route.id = None /\ id = None ->
                    view' = view /\ reqs' = rest
             [] page = route.page /\ route.id # None /\ id # None ->
                    reqs' = rest /\ OtherItem(page, id)

InConsole == place = "console"
On(page) == InConsole /\ view.page = page
\* The operator clicks, or the timer of a page ticks; a click that writes.
Click == InConsole /\ Cardinality(reqs) < MaxUnderWay
MayWrite == canWrite /\ Click

Closed == [user |-> None, scope |-> None, tenants |-> FALSE]

\* Leaving the console for the login page: the document is unloaded.
Unload ==
    /\ place' = "login" /\ app' = Closed /\ view' = Blank("account", None)
    /\ route' = [page |-> "home", id |-> None] /\ reqs' = {}

-----------------------------------------------------------------------------
(* The login page of the tab, in what it does to the tab's storage, and    *)
(* opening the console.                                                    *)

\* login.js stores the token and goes to boot.next, which is the console.
SignIn ==
    /\ place = "login" /\ signedIn = None
    /\ \E o \in Operators :
           /\ signedIn' = o
           /\ reqs' = {Read("account", "session", None, FALSE, acting)}
    /\ place' = "boot" /\ alive' = TRUE
    /\ UNCHANGED <<acting, app, route, view>>

\* login.js signs out, or finds that the session has ended: the token goes.
LoginPageSignOut ==
    /\ place = "login" /\ signedIn # None
    /\ signedIn' = None /\ alive' = FALSE
    /\ UNCHANGED <<place, acting, app, route, view, reqs>>

\* The URLs of the console: a page's, or one of its items'.  (What follows the
\* slug of another page is read by nobody.)
Routes == {r \in [page: Pages, id: Ids \cup {None}] : r.id # None => r.page \in ItemPages}

\* A console URL is opened or reloaded: useRoute reads it, App asks who this is.
OpenConsole ==
    /\ place \in {"login", "console", "refused"} /\ signedIn # None
    /\ place' = "boot" /\ app' = Closed /\ view' = Blank("account", None)
    /\ route' \in Routes
    /\ reqs' = {Read("account", "session", None, FALSE, acting)}
    /\ UNCHANGED <<signedIn, acting, alive>>

\* The login page's URL is opened, or the link of a refused console.
OpenLoginPage ==
    /\ place \in {"console", "refused"}
    /\ Unload
    /\ UNCHANGED <<signedIn, acting, alive>>

\* GET /session answered: an operator without admin:read, or an error, ends
\* here; otherwise the shell and the page of the URL are mounted.
SessionAnswer ==
    \E r \in Reads, ok \in BOOLEAN :
        /\ r.slot = "session" /\ Settles(r, ok)
        /\ IF ok /\ signedIn \in Readers
           THEN /\ place' = "console"
                /\ app' = [user |-> signedIn, scope |-> acting, tenants |-> FALSE]
                /\ Mount(route.page, route.id, acting,
                         IF IsPlatform(signedIn)
                         THEN {Read("orgs", "tenants", None, FALSE, acting)} ELSE {})
           ELSE /\ place' = "refused" /\ reqs' = {} /\ UNCHANGED <<app, view>>
        /\ UNCHANGED <<signedIn, acting, route, alive>>

\* GET /admin/api/tenants answered: the switcher appears.
TenantsAnswer ==
    \E r \in Reads, ok \in BOOLEAN :
        /\ r.slot = "tenants" /\ Settles(r, ok)
        /\ app' = [app EXCEPT !.tenants = ok]
        /\ reqs' = reqs \ {r}
        /\ UNCHANGED <<tab, route, view, alive>>

-----------------------------------------------------------------------------
(* The shell.                                                              *)

\* actAs: the header and the key of the page change together.  From the
\* switcher the page stays where it is; from an organization it goes home, even
\* if the tenant is the one already shown.
ActAs(t, stay) ==
    LET next == IF t = HomeOf[app.user] THEN None ELSE t
        page == IF stay THEN route.page ELSE "home"
        id   == IF stay THEN route.id ELSE None
    IN  /\ next # app.scope \/ ~stay
        /\ acting' = next
        /\ app' = [app EXCEPT !.scope = next]
        /\ route' = [page |-> page, id |-> id]
        /\ Mount(page, id, next, Orphaned)
        /\ UNCHANGED <<place, signedIn, alive>>

\* Mutant of SwitchTenant: the page has no key, and stays mounted.
SwitchTenantUnkeyed ==
    /\ Click /\ app.tenants
    /\ \E t \in Tenants :
           LET next == IF t = HomeOf[app.user] THEN None ELSE t
           IN  /\ next # app.scope
               /\ acting' = next /\ app' = [app EXCEPT !.scope = next]
    /\ UNCHANGED <<place, signedIn, route, view, reqs, alive>>

\* The switcher in the side navigation.
SwitchTenant == Click /\ app.tenants /\ \E t \in Tenants : ActAs(t, TRUE)

\* The side navigation, the account menu and the breadcrumbs.
GoTo ==
    /\ Click
    /\ \E p \in Pages :
           /\ p = "orgs" => app.tenants
           /\ [page |-> p, id |-> None] # route
           /\ Navigate(p, None, reqs)
    /\ UNCHANGED <<tab, app, alive>>

\* Back and Forward: sync reads the URL anew.  What is in the tab's history is
\* left out: it may be any URL of the console.
BackOrForward ==
    /\ Click
    /\ \E r \in Routes : r # route /\ Navigate(r.page, r.id, reqs)
    /\ UNCHANGED <<tab, app, alive>>

\* "Cerrar sesion": the server first, then, whatever it answers, both keys.  When
\* the fetch itself fails nothing after it runs.
SignOut ==
    /\ Click /\ \A r \in Reads : r.slot # "logout"
    /\ reqs' = reqs \cup {Read("account", "logout", None, FALSE, None)}
    /\ UNCHANGED <<tab, app, route, view, alive>>

SignOutAnswer ==
    \E r \in Reads, answered \in BOOLEAN :
        /\ r.slot = "logout"
        /\ IF answered
           THEN signedIn' = None /\ acting' = None /\ Unload
           ELSE reqs' = reqs \ {r} /\ UNCHANGED <<tab, app, route, view>>
        /\ UNCHANGED alive

\* Any answer with status 401: api clears both keys and leaves.
Unauthorized ==
    /\ ~alive
    /\ \E r \in reqs : ~r.served /\ (r.do = "read" => r.slot # "logout")
    /\ signedIn' = None /\ acting' = None
    /\ Unload
    /\ UNCHANGED alive

\* useLoad's answer to the page that asked.  A list that fails keeps what it
\* had; an item that fails is gone ("No encontramos...").  The effects that copy
\* an item into what is being edited run on every answer: edits are dropped.
Received(v, r, ok) ==
    CASE r.slot = "list" ->
             [v EXCEPT !.rows = IF ok THEN r.got ELSE @,
                       !.loading = IF r.first THEN FALSE ELSE @]
      [] r.slot = "item" ->
             [v EXCEPT !.item = IF ok THEN r.got ELSE None,
                       !.edited = FALSE,
                       !.itemLoading = IF r.first THEN FALSE ELSE @]

\* Reads whose handler does nothing else (the policy's reload does).
Plain(r) == r.first \/ r.page # "policy"

LoadAnswer ==
    \E r \in PageReads, ok \in BOOLEAN :
        /\ Plain(r) /\ Settles(r, ok)
        /\ view' = Received(view, r, ok)
        /\ reqs' = reqs \ {r}
        /\ UNCHANGED <<tab, app, route, alive>>

-----------------------------------------------------------------------------
(* The server.                                                             *)

\* The tenant an admin call is about: its header's, which only a platform
\* operator may set to another tenant than his own; organizations are the
\* platform operators', whatever the header (None: refused).
TenantFor(r) ==
    LET home == HomeOf[signedIn]
    IN  CASE r.page = "orgs" -> IF IsPlatform(signedIn) THEN Platform ELSE None
          [] r.page # "orgs" /\ r.header \in {None, home} -> home
          [] r.page # "orgs" /\ r.header \notin {None, home} ->
                 IF IsPlatform(signedIn) THEN r.header ELSE None

\* What a read finds: the rows of a tenant, or one of them; nothing of the
\* others is kept.
Found(r) ==
    CASE r.slot = "list" -> TenantFor(r)
      [] r.slot = "item" -> [of |-> TenantFor(r), id |-> r.id]
      [] OTHER -> None
Serve(r, got) == reqs' = (reqs \ {r}) \cup {[r EXCEPT !.served = TRUE, !.got = got]}

\* A read of the rows; a session is not an admin call.  One that is refused can
\* only fail.
ServeRead(r) ==
    /\ r.do = "read" /\ ~r.served /\ alive /\ r.slot # "logout"
    /\ r.slot = "session" \/ TenantFor(r) # None
    /\ Serve(r, Found(r))
    /\ UNCHANGED <<tab, app, route, view, alive>>

\* A write is applied, in the tenant its header names.
ServeWrite(w) ==
    /\ w.do # "read" /\ ~w.served /\ alive /\ TenantFor(w) # None
    /\ Serve(w, None)
    /\ UNCHANGED <<tab, app, route, view, alive>>

\* POST /logout, which deletes the session if it still exists.
ServeLogout(r) ==
    /\ r.do = "read" /\ ~r.served /\ r.slot = "logout"
    /\ alive' = FALSE
    /\ Serve(r, None)
    /\ UNCHANGED <<tab, app, route, view>>

\* The session ends while the console is open.
Expire ==
    /\ alive /\ alive' = FALSE
    /\ UNCHANGED <<tab, app, route, view, reqs>>

-----------------------------------------------------------------------------
(* What the pages' handlers are made of.                                   *)

\* A list is on show, and a row of it is clicked: its URL opens.
ListShown(page) == On(page) /\ route.id = None /\ (view.rows # None \/ ~view.loading)
SomeRow == view.rows # None
OpenRow(page) ==
    /\ ListShown(page) /\ Click
    /\ SomeRow /\ \E id \in Ids : Navigate(page, id, reqs)
    /\ UNCHANGED <<tab, app, alive>>

\* One item is on show.
ItemShown(page) == On(page) /\ view.item # None /\ (page # "policy" => route.id # None)

\* A write starts; the page waits for it without being told so.
Submit(w) ==
    /\ reqs' = reqs \cup {w}
    /\ UNCHANGED <<tab, app, route, view, alive>>

\* A form that creates a row (the server picks the id).
Create(page) ==
    /\ ListShown(page) /\ MayWrite
    /\ \E id \in IdsOf(page) : Submit(Write("create", id, Owner(page)))

\* A write of a page answered well, or not: then a notice is all there is.
Done(w, page, do) == w.page = page /\ w.do \in do /\ w.served
Failed(page) ==
    \E w \in UnderWay :
        /\ w.page = page
        /\ reqs' = reqs \ {w}
        /\ UNCHANGED <<tab, app, route, view, alive>>

\* The handler opens a URL, whether or not its page is still there.
ThenOpen(w, page, id) ==
    /\ Navigate(page, id, reqs \ {w})
    /\ UNCHANGED <<tab, app, alive>>

\* The handler reloads what its page shows: nothing, if the page is gone.
ThenReload(w, slot) ==
    /\ reqs' = (reqs \ {w}) \cup
                   IF w.live THEN {Read(w.page, slot, IF slot = "item" THEN w.id ELSE None,
                                        FALSE, acting)}
                   ELSE {}
    /\ UNCHANGED <<tab, app, route, view, alive>>

ShellNext ==
    \/ SignIn \/ LoginPageSignOut \/ OpenConsole \/ OpenLoginPage
    \/ SessionAnswer \/ TenantsAnswer
    \/ SwitchTenant \/ GoTo \/ BackOrForward \/ SignOut \/ SignOutAnswer \/ Unauthorized \/ LoadAnswer
    \/ (\E r \in reqs : ServeRead(r) \/ ServeWrite(r) \/ ServeLogout(r)) \/ Expire

\* A tab at the login page.
ShellInit ==
    /\ place = "login" /\ signedIn = None /\ acting = None
    /\ app = Closed /\ view = Blank("account", None)
    /\ route = [page |-> "home", id |-> None] /\ reqs = {}
    /\ alive = FALSE

=============================================================================
