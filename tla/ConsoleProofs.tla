--------------------------- MODULE ConsoleProofs ---------------------------
(***************************************************************************)
(* Theorems about Console, for any tenants, operators, rights and ids, any *)
(* bound on the requests under way, and whatever order they are answered   *)
(* in.                                                                     *)
(*                                                                         *)
(* One inductive invariant carries them: every request under way is sound, *)
(* by itself, for the scope the console has now.  Only what changes the    *)
(* scope or the page has to say what becomes of the requests; for all      *)
(* other steps it is enough that the requests they start are sound.        *)
(***************************************************************************)
EXTENDS Console, TLAPS

-----------------------------------------------------------------------------
(* The inductive invariant.                                                *)

ReadRecords ==
    [do: {"read"}, page: Pages, slot: {"list", "item", "session", "tenants", "logout"},
     id: Ids \cup {None}, first: BOOLEAN, header: Tenants \cup {None},
     served: BOOLEAN, got: Tenants \cup {None} \cup [of: Tenants, id: Ids]]

WriteRecords ==
    [do: {"create", "update", "delete", "code", "put"}, page: Pages, id: Ids,
     of: Tenants, live: BOOLEAN, header: Tenants \cup {None},
     served: BOOLEAN, got: {None}]

Views ==
    [page: Pages, rows: Tenants \cup {None}, loading: BOOLEAN,
     item: [of: Tenants, id: Ids] \cup {None}, itemLoading: BOOLEAN,
     edited: BOOLEAN, saving: BOOLEAN, dialog: {None, "code", "confirm"}]

\* A read for the mounted page has its tenant in its header, and has found what
\* is that tenant's.  The session is asked for before there is a page.
SoundRead(r) ==
    /\ r \in ReadRecords
    /\ r.slot = "session" => place = "boot"
    /\ r.slot \in {"list", "item"} =>
           /\ InConsole /\ r.page = view.page /\ r.header = acting
           /\ r.slot = "item" => r.id \in Ids
           /\ r.served => r.got = IF r.slot = "list" THEN Owner(r.page)
                                  ELSE [of |-> Owner(r.page), id |-> r.id]

\* A write is about the rows it was clicked on, or is refused; the page that
\* waits for it is the one that wrote.
SoundWrite(w) ==
    /\ w \in WriteRecords /\ InConsole
    /\ w.live => w.page = view.page
    /\ w.served \/ TenantFor(w) # None => TenantFor(w) = w.of

Sound(r) == SoundRead(r) \/ SoundWrite(r)

\* The shell's state is that of the tab's storage.
AppFollowsTab ==
    /\ InConsole => app.user = signedIn /\ app.scope = acting /\ signedIn \in Operators
    /\ place # "console" => view.rows = None /\ view.item = None

IInv ==
    /\ TypeOK /\ view \in Views
    /\ AppFollowsTab
    /\ RowsBelongToScope
    /\ \A r \in reqs : Sound(r)
    /\ place = "login" => reqs = {}

-----------------------------------------------------------------------------
(* Requests.                                                               *)

(* Whatever the console asks with the header of its scope is about the     *)
(* tenant it shows, or is refused: authorize reads the same header.        *)
LEMMA HeaderOfScope ==
    ASSUME TypeOK, AppFollowsTab, InConsole, NEW r, r.page \in Pages, r.header = acting
    PROVE  /\ Owner(r.page) \in Tenants
           /\ TenantFor(r) # None => TenantFor(r) = Owner(r.page)
BY ConsoleAssumption
DEF ConsoleAssumption, TypeOK, AppFollowsTab, Owner, scopeId, TenantFor, IsPlatform, InConsole

(* As long as neither the scope nor the page changes, requests stay sound. *)
LEMMA SoundKept ==
    ASSUME NEW r, Sound(r), UNCHANGED <<tab, app>>, view'.page = view.page
    PROVE  Sound(r)'
BY DEF Sound, SoundRead, SoundWrite, ReadRecords, WriteRecords, Owner, scopeId, TenantFor,
       IsPlatform, InConsole, tab

(* A read that starts for the mounted page is sound.                       *)
LEMMA NewReadSound ==
    ASSUME IInv, InConsole, NEW slot \in {"list", "item"}, NEW id \in Ids \cup {None},
           slot = "item" => id \in Ids, NEW first \in BOOLEAN
    PROVE  Sound(Read(view.page, slot, id, first, acting))
BY DEF IInv, TypeOK, Views, Sound, SoundRead, ReadRecords, Read, InConsole

(* So is a read that is about no rows.                                     *)
LEMMA OtherReadSound ==
    ASSUME TypeOK, NEW page \in Pages, NEW slot \in {"tenants", "logout"},
           NEW header \in Tenants \cup {None}
    PROVE  Sound(Read(page, slot, None, FALSE, header))
BY DEF TypeOK, Sound, SoundRead, ReadRecords, Read

(* So is a write of rows that belong to the tenant on show.                *)
LEMMA NewWriteSound ==
    ASSUME IInv, InConsole, NEW id \in Ids,
           NEW do \in {"create", "update", "delete", "code", "put"}
    PROVE  Sound(Write(do, id, Owner(view.page)))
<1> DEFINE w == Write(do, id, Owner(view.page))
<1>1. w.page = view.page /\ w.header = acting /\ w.of = Owner(view.page) /\ w.served = FALSE
  BY DEF Write
<1>2. view.page \in Pages /\ TypeOK /\ AppFollowsTab
  BY DEF IInv, Views
<1>3. Owner(view.page) \in Tenants /\ (TenantFor(w) # None => TenantFor(w) = w.of)
  BY <1>1, <1>2, HeaderOfScope
<1>4. w \in WriteRecords
  BY <1>2, <1>3 DEF Write, WriteRecords, TypeOK
<1> QED BY <1>1, <1>3, <1>4 DEF Sound, SoundWrite

-----------------------------------------------------------------------------
(* What a step does to the page.                                           *)

(* A step that leaves the scope, the route and the page where they are     *)
(* keeps the invariant, if what it shows is of the scope and the requests  *)
(* it starts are sound.                                                    *)
LEMMA StayedOnPage ==
    ASSUME IInv, UNCHANGED <<tab, app, route>>, alive' \in BOOLEAN,
           view' \in Views, view'.page = view.page,
           view'.saving => view.saving \/ view.page = "policy",
           view'.rows = view.rows \/ (InConsole /\ view'.rows = Owner(view.page)),
           view'.item = view.item \/ view'.item = None
               \/ (InConsole /\ view'.item.of = Owner(view.page)),
           ~InConsole => view'.item = view.item,
           \A r \in reqs' : Sound(r), place = "login" => reqs' = {}
    PROVE  IInv'
<1>1. TypeOK'
  BY DEF IInv, TypeOK, Views, InConsole, tab
<1>2. AppFollowsTab'
  BY DEF IInv, AppFollowsTab, InConsole, tab
<1>3. RowsBelongToScope'
  <2>1. Owner(view.page)' = Owner(view.page)
    BY DEF Owner, scopeId
  <2> QED BY <2>1 DEF IInv, RowsBelongToScope, InConsole, tab, Owner, scopeId
<1>4. \A r \in reqs' : Sound(r)'
  BY SoundKept
<1> QED BY <1>1, <1>2, <1>3, <1>4 DEF IInv, tab

(* The same, when the page itself does not change.                         *)
LEMMA OnlyRequests ==
    ASSUME IInv, UNCHANGED <<tab, app, route, view>>, alive' \in BOOLEAN,
           \A r \in reqs' : Sound(r), place = "login" => reqs' = {}
    PROVE  IInv'
<1>1. view \in Views /\ (InConsole /\ view.item # None => view.item.of = Owner(view.page))
  BY DEF IInv, RowsBelongToScope
<1> QED BY <1>1, StayedOnPage

(* A page that is mounted shows nothing yet, and asks with the header of   *)
(* the scope.                                                              *)
LEMMA MountedPage ==
    ASSUME NEW page \in Pages, NEW id \in Ids \cup {None}, NEW header, NEW others,
           Mount(page, id, header, others), header = acting',
           place' = "console", AppFollowsTab',
           signedIn' \in Operators \cup {None}, acting' \in Tenants \cup {None},
           app' \in [user: Operators \cup {None}, scope: Tenants \cup {None}, tenants: BOOLEAN],
           route' = [page |-> page, id |-> id], alive' \in BOOLEAN,
           \A r \in others : Sound(r)'
    PROVE  IInv'
<1>1. /\ view' \in Views /\ view'.page = page /\ view'.rows = None /\ view'.item = None
      /\ view'.saving = FALSE
  BY DEF Mount, Blank, Views
<1>2. TypeOK'
  BY <1>1 DEF TypeOK
<1>3. RowsBelongToScope'
  BY <1>1 DEF RowsBelongToScope
<1>4. ASSUME NEW r \in Loads(page, id, header) PROVE Sound(r)'
  <2>1. PICK slot \in {"list", "item"}, i \in Ids \cup {None} :
            r = Read(page, slot, i, TRUE, header) /\ (slot = "item" => i \in Ids)
    BY <1>4, ConsoleAssumption DEF Loads, ConsoleAssumption
  <2> QED BY <1>1, <2>1 DEF Sound, SoundRead, ReadRecords, Read, InConsole
<1> QED BY <1>1, <1>2, <1>3, <1>4 DEF IInv, Mount

(* What is not about the mounted page stays sound wherever the console     *)
(* goes, as long as the operator stays the same.                           *)
LEMMA OrphansSound ==
    ASSUME IInv, InConsole, NEW r \in reqs, r.do = "read" => r \notin PageReads,
           signedIn' = signedIn, place' = "console",
           NEW w, w = IF r.do = "read" THEN r ELSE [r EXCEPT !.live = FALSE]
    PROVE  Sound(w)'
<1>1. CASE r.do = "read"
  BY <1>1 DEF IInv, Sound, SoundRead, SoundWrite, WriteRecords, PageReads, Reads, InConsole
<1>2. CASE r.do # "read"
  <2>1. SoundWrite(r)
    BY <1>2 DEF IInv, Sound, SoundRead, ReadRecords
  <2>2. /\ w \in WriteRecords /\ w.page = r.page /\ w.header = r.header /\ w.of = r.of
        /\ w.served = r.served /\ w.live = FALSE
    BY <1>2, <2>1 DEF SoundWrite, WriteRecords
  <2>3. TenantFor(w)' = TenantFor(r)
    BY <2>2 DEF TenantFor, IsPlatform
  <2> QED BY <2>1, <2>2, <2>3 DEF Sound, SoundWrite, InConsole
<1> QED BY <1>1, <1>2

LEMMA OrphanedSound ==
    ASSUME IInv, InConsole, signedIn' = signedIn, place' = "console"
    PROVE  \A r \in Orphaned : Sound(r)'
<1> SUFFICES ASSUME NEW r \in Orphaned PROVE Sound(r)'
  OBVIOUS
<1>1. CASE r \in Reads \ PageReads
  BY <1>1, OrphansSound DEF Reads
<1>2. CASE \E w \in UnderWay : r = [w EXCEPT !.live = FALSE]
  <2>1. PICK w \in UnderWay : r = [w EXCEPT !.live = FALSE]
    BY <1>2
  <2>2. w \in reqs /\ w.do # "read"
    BY DEF UnderWay, Reads
  <2> QED BY <2>1, <2>2, OrphansSound
<1> QED BY <1>1, <1>2 DEF Orphaned

(* A URL that opens in the console keeps the invariant.                    *)
LEMMA Navigated ==
    ASSUME IInv, InConsole, NEW page \in Pages, NEW id \in Ids \cup {None}, NEW rest,
           rest \subseteq reqs, UNCHANGED <<tab, app, alive>>, Navigate(page, id, rest)
    PROVE  IInv'
<1> DEFINE reads == rest \cap PageReads
           gone  == {IF r.do = "read" THEN r ELSE [r EXCEPT !.live = FALSE] : r \in rest \ reads}
<1>1. /\ place' = "console" /\ signedIn' = signedIn /\ acting' = acting /\ app' = app
      /\ view \in Views /\ view.page = route.page /\ TypeOK /\ AppFollowsTab
  BY DEF IInv, TypeOK, InConsole, tab
<1>2. AppFollowsTab' /\ route' = [page |-> page, id |-> id]
  BY <1>1 DEF AppFollowsTab, InConsole, Navigate
<1>3. \A r \in gone : Sound(r)'
  <2> SUFFICES ASSUME NEW r \in rest \ reads
               PROVE  Sound(IF r.do = "read" THEN r ELSE [r EXCEPT !.live = FALSE])'
    OBVIOUS
  <2> QED BY <1>1, OrphansSound DEF PageReads, Reads
<1>4. CASE page # route.page
  <2>1. Mount(page, id, acting, gone)
    BY <1>4 DEF Navigate
  <2> QED BY <1>1, <1>2, <1>3, <2>1, MountedPage DEF TypeOK
<1>5. CASE page = route.page
  <2>1. /\ view' \in Views /\ view'.page = view.page /\ view'.rows = view.rows
        /\ view'.saving = view.saving
        /\ \/ view'.item = view.item \/ view'.item = None
           \/ view'.item = [of |-> Owner(view.page), id |-> id]
    <3>1. CASE route.id # None /\ id # None
      <4>1. OtherItem(page, id)
        BY <1>5, <3>1 DEF Navigate
      <4>2. CASE page = "orgs" /\ id # route.id /\ ~view.itemLoading
        <5>1. PICK found \in {None, [of |-> Platform, id |-> id]} :
                  view' = [view EXCEPT !.item = found, !.edited = FALSE]
          BY <4>1, <4>2 DEF OtherItem
        <5>2. Platform \in Tenants /\ id \in Ids /\ Owner(view.page) = Platform
          BY <1>1, <1>5, <3>1, <4>2, ConsoleAssumption DEF ConsoleAssumption, Owner
        <5>3. found \in [of: Tenants, id: Ids] \cup {None}
          BY <5>2
        <5> QED BY <1>1, <5>1, <5>2, <5>3 DEF Views
      <4>3. CASE ~(page = "orgs" /\ id # route.id /\ ~view.itemLoading)
        BY <1>1, <4>1, <4>3 DEF OtherItem
      <4> QED BY <4>2, <4>3
    <3>2. CASE ~(route.id # None /\ id # None)
      BY <1>1, <1>5, <3>2 DEF Navigate, Views
    <3> QED BY <3>1, <3>2
  <2>2. TypeOK'
    BY <1>1, <1>2, <1>5, <2>1 DEF TypeOK, InConsole, tab, Views
  <2>3. RowsBelongToScope'
    <3>1. Owner(view.page)' = Owner(view.page)
      BY <1>1, <2>1 DEF Owner, scopeId
    <3> QED BY <1>1, <2>1, <3>1 DEF IInv, RowsBelongToScope, InConsole
  <2>4. \A r \in rest : Sound(r)'
    BY <1>1, <2>1, SoundKept DEF IInv
  <2>5. ASSUME NEW r, r = Read(page, "item", id, TRUE, acting), id # None
        PROVE  Sound(r)'
    <3>1. Sound(Read(view.page, "item", id, TRUE, acting))
      BY <2>5, NewReadSound
    <3> QED BY <1>1, <1>5, <2>1, <2>5, <3>1, SoundKept
  <2>6. CASE route.id = None /\ id # None
    <3>1. reqs' = rest \cup {Read(page, "item", id, TRUE, acting)}
      BY <1>5, <2>6 DEF Navigate
    <3>2. \A r \in reqs' : Sound(r)'
      BY <2>4, <2>5, <2>6, <3>1
    <3> QED BY <1>1, <1>2, <2>1, <2>2, <2>3, <3>2 DEF IInv
  <2>7. CASE route.id # None /\ id = None
    <3>1. reqs' = gone \cup (reads \ ItemReads)
      BY <1>5, <2>7 DEF Navigate
    <3>2. \A r \in reqs' : Sound(r)'
      BY <1>3, <2>4, <3>1
    <3> QED BY <1>1, <1>2, <2>1, <2>2, <2>3, <3>2 DEF IInv
  <2>8. CASE ~(route.id = None /\ id # None) /\ ~(route.id # None /\ id = None)
    <3>1. reqs' = rest
      BY <1>5, <2>8 DEF Navigate
    <3>2. \A r \in reqs' : Sound(r)'
      BY <2>4, <3>1
    <3> QED BY <1>1, <1>2, <2>1, <2>2, <2>3, <3>2 DEF IInv
  <2> QED BY <2>6, <2>7, <2>8
<1> QED BY <1>4, <1>5

(* A document that is left keeps nothing but the tab's storage.            *)
LEMMA Unloaded ==
    ASSUME IInv, place' \in {"login", "boot"}, app' = Closed, view' = Blank("account", None),
           route' \in [page: Pages, id: Ids \cup {None}],
           signedIn' \in Operators \cup {None}, acting' \in Tenants \cup {None},
           alive' \in BOOLEAN,
           \/ reqs' = {}
           \/ /\ place' = "boot"
              /\ reqs' = {Read("account", "session", None, FALSE, acting')}
    PROVE  IInv'
<1>1. view' \in Views /\ view'.rows = None /\ view'.item = None /\ view'.saving = FALSE
  BY DEF Blank, Views, Pages
<1>2. TypeOK'
  BY <1>1 DEF TypeOK, Closed, InConsole, Views
<1>3. AppFollowsTab' /\ RowsBelongToScope'
  BY <1>1 DEF AppFollowsTab, RowsBelongToScope, InConsole
<1>4. ASSUME NEW r \in reqs' PROVE Sound(r)'
  <2>1. r = Read("account", "session", None, FALSE, acting') /\ place' = "boot"
    BY <1>4
  <2>2. r \in ReadRecords /\ r.slot = "session"
    BY <2>1 DEF ReadRecords, Read, Pages
  <2> QED BY <2>2 DEF Sound, SoundRead
<1> QED BY <1>1, <1>2, <1>3, <1>4 DEF IInv

-----------------------------------------------------------------------------
(* What the pages' handlers are made of.                                   *)

(* The start of the tab.                                                   *)
LEMMA Initially == ShellInit => IInv
<1> SUFFICES ASSUME ShellInit PROVE IInv
  OBVIOUS
<1>1. view \in Views /\ view.rows = None /\ view.item = None /\ view.saving = FALSE
  BY DEF ShellInit, Views, Blank, Pages, ListPages
<1>2. TypeOK
  BY <1>1 DEF ShellInit, TypeOK, Closed, Pages, InConsole, Views
<1>3. AppFollowsTab /\ RowsBelongToScope
  BY <1>1 DEF ShellInit, AppFollowsTab, RowsBelongToScope, InConsole
<1> QED BY <1>1, <1>2, <1>3 DEF ShellInit, IInv

(* A request that starts.                                                  *)
LEMMA Submitted ==
    ASSUME IInv, InConsole, NEW w, Sound(w), reqs' = reqs \cup {w},
           UNCHANGED <<tab, app, route, view, alive>>
    PROVE  IInv'
BY OnlyRequests DEF IInv, TypeOK, InConsole

(* A request that is over.                                                 *)
LEMMA Settled ==
    ASSUME IInv, NEW r, reqs' = reqs \ {r}, UNCHANGED <<tab, app, route, view, alive>>
    PROVE  IInv'
BY OnlyRequests DEF IInv, TypeOK

(* A row that is created belongs to the tenant on show.                    *)
LEMMA Created ==
    ASSUME IInv, NEW page, Create(page)
    PROVE  IInv'
<1>1. PICK id \in Ids : Submit(Write("create", id, Owner(view.page)))
  BY ConsoleAssumption DEF ConsoleAssumption, Create, IdsOf, ListShown, On
<1>2. InConsole
  BY DEF Create, ListShown, On
<1> QED BY <1>1, <1>2, NewWriteSound, Submitted DEF Submit

(* A write of the rows a page shows, or of the item it shows.              *)
LEMMA Written ==
    ASSUME IInv, InConsole, NEW id, NEW of, NEW do \in {"update", "delete", "code"},
           \/ SomeRow /\ id \in Ids /\ of = view.rows
           \/ view.item # None /\ id = view.item.id /\ of = view.item.of
           \/ view.page = "orgs" /\ id \in Ids /\ of = Platform,
           Submit(Write(do, id, of))
    PROVE  IInv'
<1>1. id \in Ids /\ of = Owner(view.page)
  BY DEF IInv, TypeOK, RowsBelongToScope, SomeRow, Owner
<1> QED BY <1>1, NewWriteSound, Submitted DEF Submit

(* Nothing but the end of a write that failed.                             *)
LEMMA FailedKeeps ==
    ASSUME IInv, NEW page, Failed(page)
    PROVE  IInv'
BY Settled DEF Failed

(* The page that wrote asks again.                                         *)
LEMMA Reloads ==
    ASSUME IInv, NEW w \in UnderWay, NEW slot \in {"list", "item"}, ThenReload(w, slot)
    PROVE  IInv'
<1>1. w \in reqs /\ SoundWrite(w) /\ w.id \in Ids /\ InConsole
      /\ (w.live => w.page = view.page)
  BY DEF UnderWay, Reads, IInv, Sound, SoundRead, SoundWrite, ReadRecords, WriteRecords
<1>2. CASE w.live
  <2> DEFINE r == Read(w.page, slot, IF slot = "item" THEN w.id ELSE None, FALSE, acting)
  <2>1. Sound(r)
    BY <1>1, <1>2, NewReadSound
  <2>2. reqs' = (reqs \ {w}) \cup {r}
    BY <1>2 DEF ThenReload
  <2> QED BY <1>1, <2>1, <2>2, OnlyRequests DEF ThenReload, IInv, TypeOK, InConsole
<1>3. CASE ~w.live
  BY <1>3, Settled DEF ThenReload
<1> QED BY <1>2, <1>3

(* The handler of a write opens a URL.                                     *)
LEMMA Opens ==
    ASSUME IInv, NEW w \in UnderWay, NEW page \in Pages, NEW id \in Ids \cup {None},
           ThenOpen(w, page, id)
    PROVE  IInv'
<1>1. InConsole
  BY DEF UnderWay, Reads, IInv, Sound, SoundRead, SoundWrite, ReadRecords
<1> QED BY <1>1, Navigated DEF ThenOpen

(* A row that is clicked.                                                  *)
LEMMA RowOpens ==
    ASSUME IInv, NEW page \in Pages, OpenRow(page)
    PROVE  IInv'
<1>1. PICK id \in Ids : Navigate(page, id, reqs)
  BY DEF OpenRow
<1> QED BY <1>1, Navigated DEF OpenRow, ListShown, On

(* A page that only changes what is being edited, saved or asked.          *)
LEMMA OnlyForm ==
    ASSUME IInv, UNCHANGED <<tab, app, route, alive>>,
           NEW edited \in BOOLEAN, NEW saving \in BOOLEAN, NEW dialog \in {None, "code", "confirm"},
           view' = [view EXCEPT !.edited = edited, !.saving = saving, !.dialog = dialog],
           saving => view.saving \/ view.page = "policy",
           \A r \in reqs' : Sound(r), place = "login" => reqs' = {}
    PROVE  IInv'
<1>1. /\ view \in Views /\ alive \in BOOLEAN
      /\ InConsole /\ view.item # None => view.item.of = Owner(view.page)
  BY DEF IInv, TypeOK, RowsBelongToScope
<1>2. /\ view' \in Views /\ view'.page = view.page /\ view'.rows = view.rows
      /\ view'.item = view.item /\ view'.saving = saving
  BY <1>1 DEF Views
<1> QED BY <1>1, <1>2, StayedOnPage
(* An answer that the mounted page receives is about the tenant on show.   *)
LEMMA Answered ==
    ASSUME IInv, NEW r \in PageReads, NEW ok \in BOOLEAN, Settles(r, ok),
           NEW v, v = Received(view, r, ok)
    PROVE  /\ InConsole /\ v \in Views /\ v.page = view.page /\ v.saving = view.saving
           /\ v.rows = view.rows \/ v.rows = Owner(view.page)
           /\ v.item = view.item \/ v.item = None \/ v.item.of = Owner(view.page)
<1>1. r \in reqs /\ r.do = "read" /\ r.slot \in {"list", "item"}
  BY DEF PageReads, Reads
<1>2. /\ SoundRead(r) /\ InConsole /\ r.page = view.page /\ r.first \in BOOLEAN
      /\ view \in Views /\ TypeOK /\ AppFollowsTab
  BY <1>1 DEF IInv, Sound, SoundRead, SoundWrite, ReadRecords, WriteRecords
<1>3. Owner(view.page) \in Tenants
  BY <1>1, <1>2, HeaderOfScope DEF SoundRead, ReadRecords
<1>4. CASE r.slot = "list"
  <2>1. v = [view EXCEPT !.rows = IF ok THEN r.got ELSE view.rows,
                         !.loading = IF r.first THEN FALSE ELSE view.loading]
    BY <1>4 DEF Received
  <2>2. ok => r.got = Owner(view.page)
    BY <1>2, <1>4 DEF Settles, SoundRead
  <2> QED BY <1>2, <1>3, <2>1, <2>2 DEF Views
<1>5. CASE r.slot = "item"
  <2>1. v = [view EXCEPT !.item = IF ok THEN r.got ELSE None, !.edited = FALSE,
                         !.itemLoading = IF r.first THEN FALSE ELSE view.itemLoading]
    BY <1>5 DEF Received
  <2>2. ok => r.got = [of |-> Owner(view.page), id |-> r.id] /\ r.id \in Ids
    BY <1>2, <1>5 DEF Settles, SoundRead
  <2>3. ok => r.got \in [of: Tenants, id: Ids] /\ r.got.of = Owner(view.page)
    BY <1>3, <2>2
  <2> QED BY <1>2, <1>3, <2>1, <2>3 DEF Views
<1> QED BY <1>1, <1>4, <1>5

(* The page receives an answer; what it is editing or saving may end.      *)
LEMMA Receives ==
    ASSUME IInv, NEW r \in PageReads, NEW ok \in BOOLEAN, Settles(r, ok),
           \/ view' = Received(view, r, ok)
           \/ view' = Over(Received(view, r, ok)),
           reqs' = reqs \ {r}, UNCHANGED <<tab, app, route, alive>>
    PROVE  IInv'
<1> DEFINE v == Received(view, r, ok)
<1>1. /\ InConsole /\ v \in Views /\ v.page = view.page /\ v.saving = view.saving
      /\ v.rows = view.rows \/ v.rows = Owner(view.page)
      /\ v.item = view.item \/ v.item = None \/ v.item.of = Owner(view.page)
  BY Answered
<1>2. /\ view' \in Views /\ view'.page = view.page /\ (view'.saving => view.saving)
      /\ view'.rows = v.rows /\ view'.item = v.item
  <2> HIDE DEF v
  <2>1. view' = v \/ view' = Over(v)
    BY DEF v
  <2> QED BY <1>1, <2>1 DEF Over, Views
<1>3. \A q \in reqs' : Sound(q)
  BY DEF IInv
<1>4. alive' \in BOOLEAN /\ place # "login"
  BY <1>1 DEF IInv, TypeOK, InConsole
<1> HIDE DEF v
<1> QED BY <1>1, <1>2, <1>3, <1>4, StayedOnPage

(* The server does what a request asks for.                                *)
LEMMA Served ==
    ASSUME IInv, NEW r \in reqs, NEW got, Serve(r, got), alive' \in BOOLEAN,
           UNCHANGED <<tab, app, route, view>>,
           \/ r.do = "read" /\ r.slot # "session" /\ r.slot # "logout"
                  /\ TenantFor(r) # None /\ got = Found(r)
           \/ r.do = "read" /\ r.slot \in {"session", "logout"} /\ got = None
           \/ r.do # "read" /\ TenantFor(r) # None /\ got = None
    PROVE  IInv'
<1> DEFINE s == [r EXCEPT !.served = TRUE, !.got = got]
<1>1. Sound(r) /\ TypeOK /\ AppFollowsTab /\ place # "login"
  BY DEF IInv
<1>2. ASSUME r.do = "read" PROVE Sound(s)
  <2>1. SoundRead(r) /\ r \in ReadRecords
    BY <1>1, <1>2 DEF Sound, SoundRead, SoundWrite, WriteRecords
  <2>2. CASE r.slot \in {"list", "item"}
    <3>1. /\ InConsole /\ r.page = view.page /\ r.header = acting /\ r.page \in Pages
          /\ r.slot = "item" => r.id \in Ids
      BY <2>1, <2>2 DEF SoundRead, ReadRecords
    <3>2. TenantFor(r) = Owner(r.page) /\ Owner(r.page) \in Tenants /\ got = Found(r)
      BY <1>1, <1>2, <2>2, <3>1, HeaderOfScope
    <3>3. got = IF r.slot = "list" THEN Owner(r.page) ELSE [of |-> Owner(r.page), id |-> r.id]
      BY <2>2, <3>2 DEF Found
    <3>4. got \in Tenants \cup {None} \cup [of: Tenants, id: Ids]
      BY <2>2, <3>1, <3>2, <3>3
    <3>5. /\ s \in ReadRecords /\ s.slot = r.slot /\ s.page = r.page /\ s.header = r.header
          /\ s.id = r.id /\ s.got = got
      BY <2>1, <3>4 DEF ReadRecords
    <3> QED BY <2>2, <3>1, <3>3, <3>5 DEF Sound, SoundRead
  <2>3. CASE r.slot \notin {"list", "item"}
    <3>1. got = None
      BY <1>2, <2>3 DEF Found
    <3>2. s \in ReadRecords /\ s.slot = r.slot
      BY <2>1, <3>1 DEF ReadRecords
    <3> QED BY <2>1, <2>3, <3>2 DEF Sound, SoundRead
  <2> QED BY <2>2, <2>3
<1>3. ASSUME r.do # "read" PROVE Sound(s)
  <2>1. SoundWrite(r) /\ r \in WriteRecords /\ got = None /\ TenantFor(r) # None
    BY <1>1, <1>3 DEF Sound, SoundRead, SoundWrite, ReadRecords
  <2>2. /\ s \in WriteRecords /\ s.page = r.page /\ s.header = r.header /\ s.of = r.of
        /\ s.live = r.live
    BY <2>1 DEF WriteRecords
  <2>3. TenantFor(s) = TenantFor(r)
    BY <2>2 DEF TenantFor
  <2> QED BY <2>1, <2>2, <2>3 DEF Sound, SoundWrite
<1>4. Sound(s)
  BY <1>2, <1>3
<1>5. \A q \in reqs' : Sound(q)
  BY <1>4 DEF Serve, IInv
<1> QED BY <1>1, <1>5, OnlyRequests
(* The operator's console is about another tenant from now on.             *)
LEMMA ActsAs ==
    ASSUME IInv, InConsole, NEW t \in Tenants, NEW stay \in BOOLEAN, ActAs(t, stay)
    PROVE  IInv'
<1> DEFINE next == IF t = HomeOf[app.user] THEN None ELSE t
           page == IF stay THEN route.page ELSE "home"
           id   == IF stay THEN route.id ELSE None
<1>1. /\ acting' = next /\ app' = [app EXCEPT !.scope = next]
      /\ route' = [page |-> page, id |-> id] /\ Mount(page, id, next, Orphaned)
      /\ place' = place /\ signedIn' = signedIn /\ alive' = alive
  BY DEF ActAs
<1>2. TypeOK /\ AppFollowsTab
  BY DEF IInv
<1>3. next \in Tenants \cup {None} /\ page \in Pages /\ id \in Ids \cup {None}
  BY <1>2 DEF TypeOK, Pages
<1> HIDE DEF next, page, id
<1>4. /\ place' = "console" /\ signedIn' \in Operators \cup {None}
      /\ acting' \in Tenants \cup {None} /\ alive' \in BOOLEAN
  BY <1>1, <1>2, <1>3 DEF TypeOK, InConsole
<1>5. app' \in [user: Operators \cup {None}, scope: Tenants \cup {None}, tenants: BOOLEAN]
      /\ app'.scope = next /\ app'.user = app.user
  BY <1>1, <1>2, <1>3 DEF TypeOK
<1>6. AppFollowsTab'
  BY <1>1, <1>2, <1>4, <1>5 DEF AppFollowsTab, InConsole
<1>7. \A r \in Orphaned : Sound(r)'
  BY <1>1, <1>4, OrphanedSound
<1> QED BY <1>1, <1>3, <1>4, <1>5, <1>6, <1>7, MountedPage

(* GET /session answered.                                                  *)
LEMMA SessionAnswered == ASSUME IInv, SessionAnswer PROVE IInv'
<1>1. PICK r \in Reads, ok \in BOOLEAN : SessionAnswer!(r, ok)
  BY DEF SessionAnswer
<1>2. /\ TypeOK /\ AppFollowsTab /\ place # "login"
      /\ route.page \in Pages /\ route.id \in Ids \cup {None}
      /\ route = [page |-> route.page, id |-> route.id]
  BY DEF IInv, TypeOK, Reads
<1>3. CASE ok /\ signedIn \in Readers
  <2> DEFINE others == IF IsPlatform(signedIn)
                       THEN {Read("orgs", "tenants", None, FALSE, acting)} ELSE {}
  <2>1. /\ place' = "console" /\ Mount(route.page, route.id, acting, others)
        /\ app' = [user |-> signedIn, scope |-> acting, tenants |-> FALSE]
        /\ signedIn' = signedIn /\ acting' = acting /\ route' = route /\ alive' = alive
    BY <1>1, <1>3
  <2>2. signedIn \in Operators
    BY <1>3, ConsoleAssumption DEF ConsoleAssumption
  <2>3. AppFollowsTab'
    BY <2>1, <2>2 DEF AppFollowsTab, InConsole
  <2>4. app' \in [user: Operators \cup {None}, scope: Tenants \cup {None}, tenants: BOOLEAN]
    BY <1>2, <2>1, <2>2 DEF TypeOK
  <2>5. ASSUME NEW q \in others PROVE Sound(q)'
    <3>1. q = Read("orgs", "tenants", None, FALSE, acting)
      BY <2>5
    <3>2. q \in ReadRecords /\ q.slot = "tenants"
      BY <1>2, <3>1 DEF Read, ReadRecords, Pages, TypeOK
    <3> QED BY <3>2 DEF Sound, SoundRead
  <2> HIDE DEF others
  <2> QED BY <1>2, <2>1, <2>2, <2>3, <2>4, <2>5, MountedPage DEF TypeOK
<1>4. CASE ~(ok /\ signedIn \in Readers)
  <2>1. /\ place' = "refused" /\ reqs' = {} /\ app' = app /\ view' = view
        /\ signedIn' = signedIn /\ acting' = acting /\ route' = route /\ alive' = alive
    BY <1>1, <1>4
  <2>2. place = "boot"
    BY <1>1 DEF IInv, Reads, Sound, SoundRead, SoundWrite, WriteRecords
  <2>3. TypeOK' /\ AppFollowsTab' /\ RowsBelongToScope'
    BY <1>2, <2>1, <2>2 DEF TypeOK, AppFollowsTab, RowsBelongToScope, InConsole
  <2>4. view' \in Views
    BY <2>1 DEF IInv
  <2> QED BY <2>1, <2>3, <2>4 DEF IInv
<1> QED BY <1>3, <1>4

LEMMA FormState ==
    ASSUME IInv
    PROVE  /\ view.edited \in BOOLEAN /\ view.saving \in BOOLEAN
           /\ view.dialog \in {None, "code", "confirm"}
BY DEF IInv, Views

(* A page that is edited, saved or asked about; requests may end.          *)
LEMMA FormKeeps ==
    ASSUME IInv, UNCHANGED <<tab, app, route, alive>>, reqs' \subseteq reqs,
           NEW saving \in BOOLEAN, NEW dialog \in {None, "code", "confirm"},
           view' = [view EXCEPT !.edited = view.edited, !.saving = saving, !.dialog = dialog],
           saving => view.saving
    PROVE  IInv'
<1> QED BY FormState, OnlyForm DEF IInv

LEMMA EditKeeps ==
    ASSUME IInv, UNCHANGED <<tab, app, route, reqs, alive>>, NEW edited \in BOOLEAN,
           view' = [view EXCEPT !.edited = edited]
    PROVE  IInv'
<1>1. view' = [view EXCEPT !.edited = edited, !.saving = view.saving, !.dialog = view.dialog]
  BY DEF IInv, Views
<1> QED BY <1>1, FormState, OnlyForm DEF IInv

LEMMA WriteHasId == ASSUME IInv, NEW w \in UnderWay PROVE w.id \in Ids
BY DEF UnderWay, Reads, IInv, Sound, SoundRead, SoundWrite, ReadRecords, WriteRecords

(* Who is signed in changes only when the console is opened or left.       *)
LEMMA ConsoleStays ==
    ASSUME IInv, [Next]_vars, InConsole, InConsole'
    PROVE  signedIn' = signedIn
<1>1. CASE ShellNext
  BY <1>1 DEF ShellNext, SignIn, LoginPageSignOut, OpenConsole, OpenLoginPage, SessionAnswer,
              TenantsAnswer, SwitchTenant, ActAs, GoTo, BackOrForward, SignOut, SignOutAnswer, Unauthorized,
              LoadAnswer, ServeRead, ServeWrite, ServeLogout, Expire, Unload, InConsole, tab
<1>2. CASE ~ShellNext
  BY <1>2 DEF Next, vars, tab,
         GroupNext, OpenGroup, CreateGroup, GroupCreated, ChangeGroup, GroupChanged, DeleteGroup,
         GroupDeleted, GroupFailed,
         RoleNext, OpenRole, CreateRole, RoleCreated, TickPermission, DiscardTicks, SaveRole,
         RoleSaved, RoleFailed,
         OrgNext, OpenOrg, CreateOrg, OrgCreated, EditBranding, DiscardBranding, PatchOrg,
         SaveBranding, OrgPatched, OpenTheirConsole, OrgFailed, ActAs,
         DirectoryNext, CreateUser, ChangeUser, UserWritten, IssueCode, CodeIssued, CloseCode,
         UserFailed, CreateApp, ChangeApp, AppWritten, AppFailed, ChangeRow,
         PolicyNext, EditPolicy, DiscardPolicy, SavePolicy, AskToConfirm, ConfirmSave, CancelSave,
         PolicySaved, PolicyFailed, PolicyReloaded, Save, SaveEnabled,
         EventNext, OpenEvent, OpenAttention, Refresh,
         OpenRow, Create, Submit, Failed, ThenOpen, ThenReload
<1> QED BY <1>1, <1>2

-----------------------------------------------------------------------------
(* Every step of the shell and of the pages keeps the invariant.           *)

LEMMA ShellKeeps == ASSUME IInv, ShellNext PROVE IInv'
<1>1. CASE SignIn
  <2>1. PICK o \in Operators :
            signedIn' = o /\ reqs' = {Read("account", "session", None, FALSE, acting)}
    BY <1>1 DEF SignIn
  <2>2. ASSUME NEW r \in reqs' PROVE Sound(r)'
    <3>1. acting \in Tenants \cup {None}
      BY DEF IInv, TypeOK
    <3>2. r = Read("account", "session", None, FALSE, acting)
      BY <2>1, <2>2
    <3>3. r \in ReadRecords /\ r.slot = "session"
      BY <3>1, <3>2 DEF Read, ReadRecords, Pages
    <3> QED BY <1>1, <3>3 DEF SignIn, Sound, SoundRead
  <2> QED BY <1>1, <2>1, <2>2
          DEF SignIn, IInv, TypeOK, AppFollowsTab, RowsBelongToScope, InConsole
<1>2. CASE LoginPageSignOut
  <2>1. TypeOK' /\ AppFollowsTab' /\ RowsBelongToScope'
    BY <1>2 DEF LoginPageSignOut, IInv, TypeOK, AppFollowsTab, RowsBelongToScope, InConsole
  <2> QED BY <1>2, <2>1 DEF LoginPageSignOut, IInv
<1>3. CASE OpenConsole
  <2>1. route' \in [page: Pages, id: Ids \cup {None}]
    BY <1>3 DEF OpenConsole, Routes
  <2>2. /\ place' = "boot" /\ app' = Closed /\ view' = Blank("account", None)
        /\ reqs' = {Read("account", "session", None, FALSE, acting')}
        /\ signedIn' \in Operators \cup {None} /\ acting' \in Tenants \cup {None}
        /\ alive' \in BOOLEAN
    BY <1>3 DEF OpenConsole, IInv, TypeOK
  <2> QED BY <2>1, <2>2, Unloaded
<1>4. CASE OpenLoginPage
  BY <1>4, Unloaded DEF OpenLoginPage, Unload, IInv, TypeOK, Pages
<1>5. CASE SessionAnswer
  BY <1>5, SessionAnswered
<1>6. CASE TenantsAnswer
  <2>1. PICK r \in Reads, ok \in BOOLEAN :
            app' = [app EXCEPT !.tenants = ok] /\ reqs' = reqs \ {r}
    BY <1>6 DEF TenantsAnswer
  <2>2. /\ app' \in [user: Operators \cup {None}, scope: Tenants \cup {None}, tenants: BOOLEAN]
        /\ app'.user = app.user /\ app'.scope = app.scope
    BY <2>1 DEF IInv, TypeOK
  <2>3. UNCHANGED <<place, signedIn, acting, route, view, alive>>
    BY <1>6 DEF TenantsAnswer, tab
  <2>4. ASSUME NEW q, Sound(q) PROVE Sound(q)'
    BY <2>2, <2>3, <2>4 DEF Sound, SoundRead, SoundWrite, Owner, scopeId, TenantFor,
                            IsPlatform, InConsole
  <2>5. TypeOK' /\ AppFollowsTab'
    BY <2>2, <2>3 DEF IInv, TypeOK, AppFollowsTab, InConsole
  <2>6. RowsBelongToScope'
    BY <2>2, <2>3 DEF IInv, RowsBelongToScope, InConsole, Owner, scopeId
  <2> QED BY <2>1, <2>3, <2>4, <2>5, <2>6 DEF IInv
<1>7. CASE SwitchTenant
  BY <1>7, ActsAs DEF SwitchTenant, Click
<1>8. CASE GoTo
  BY <1>8, Navigated DEF GoTo, Click
<1>9. CASE BackOrForward
  <2>1. PICK r \in Routes : Navigate(r.page, r.id, reqs)
    BY <1>9 DEF BackOrForward
  <2>2. r.page \in Pages /\ r.id \in Ids \cup {None}
    BY DEF Routes
  <2> QED BY <1>9, <2>1, <2>2, Navigated DEF BackOrForward, Click
<1>10. CASE SignOut
  <2>1. Sound(Read("account", "logout", None, FALSE, None))
    BY OtherReadSound DEF IInv, Pages
  <2> QED BY <1>10, <2>1, Submitted DEF SignOut, Click
<1>11. CASE SignOutAnswer
  <2>1. PICK r \in Reads, answered \in BOOLEAN : SignOutAnswer!(r, answered)
    BY <1>11 DEF SignOutAnswer
  <2>2. CASE answered
    BY <2>1, <2>2, Unloaded DEF Unload, IInv, TypeOK, Pages
  <2>3. CASE ~answered
    BY <2>1, <2>3, Settled
  <2> QED BY <2>2, <2>3
<1>12. CASE Unauthorized
  BY <1>12, Unloaded DEF Unauthorized, Unload, IInv, TypeOK, Pages
<1>13. CASE LoadAnswer
  BY <1>13, Receives DEF LoadAnswer
<1>14. ASSUME NEW r \in reqs, ServeRead(r) \/ ServeWrite(r) \/ ServeLogout(r) PROVE IInv'
  <2>1. alive \in BOOLEAN
    BY DEF IInv, TypeOK
  <2>2. CASE ServeRead(r)
    <3>1. r.slot = "session" => Found(r) = None
      BY DEF Found
    <3> QED BY <2>1, <2>2, <3>1, Served DEF ServeRead
  <2>3. CASE ServeWrite(r)
    BY <2>1, <2>3, Served DEF ServeWrite
  <2>4. CASE ServeLogout(r)
    BY <2>4, Served DEF ServeLogout
  <2> QED BY <1>14, <2>2, <2>3, <2>4
<1>15. CASE Expire
  BY <1>15, OnlyRequests DEF Expire, IInv
<1> QED BY <1>1, <1>2, <1>3, <1>4, <1>5, <1>6, <1>7, <1>8, <1>9, <1>10, <1>11, <1>12, <1>13,
           <1>14, <1>15
        DEF ShellNext
LEMMA EventsKeep == ASSUME IInv, EventNext PROVE IInv'
<1>1. CASE OpenEvent
  BY <1>1, RowOpens DEF OpenEvent, Pages
<1>2. CASE OpenAttention
  BY <1>2, Navigated DEF OpenAttention, On, Pages
<1>3. CASE Refresh
  <2>1. InConsole /\ view.page = "events"
    BY <1>3 DEF Refresh, On
  <2>2. Sound(Read("events", "list", None, FALSE, acting))
    BY <2>1, NewReadSound
  <2> QED BY <1>3, <2>1, <2>2, Submitted DEF Refresh
<1> QED BY <1>1, <1>2, <1>3 DEF EventNext

LEMMA GroupsKeep == ASSUME IInv, GroupNext PROVE IInv'
<1>1. CASE OpenGroup
  BY <1>1, RowOpens DEF OpenGroup, Pages
<1>2. CASE CreateGroup
  BY <1>2, Created DEF CreateGroup
<1>3. CASE GroupCreated
  <2>1. PICK w \in UnderWay : ThenOpen(w, "groups", w.id)
    BY <1>3 DEF GroupCreated
  <2> QED BY <2>1, WriteHasId, Opens DEF Pages
<1>4. CASE ChangeGroup
  BY <1>4, Written DEF ChangeGroup, ItemShown, On
<1>5. CASE GroupChanged
  BY <1>5, Reloads DEF GroupChanged
<1>6. CASE DeleteGroup
  BY <1>6, Written DEF DeleteGroup, ItemShown, On
<1>7. CASE GroupDeleted
  BY <1>7, Opens DEF GroupDeleted, Pages
<1>8. CASE GroupFailed
  BY <1>8, FailedKeeps DEF GroupFailed
<1> QED BY <1>1, <1>2, <1>3, <1>4, <1>5, <1>6, <1>7, <1>8 DEF GroupNext

LEMMA RolesKeep == ASSUME IInv, RoleNext PROVE IInv'
<1>1. CASE OpenRole
  BY <1>1, RowOpens DEF OpenRole, Pages
<1>2. CASE CreateRole
  BY <1>2, Created DEF CreateRole
<1>3. CASE RoleCreated
  <2>1. PICK w \in UnderWay : ThenOpen(w, "roles", w.id)
    BY <1>3 DEF RoleCreated
  <2> QED BY <2>1, WriteHasId, Opens DEF Pages
<1>4. CASE TickPermission \/ DiscardTicks
  BY <1>4, EditKeeps DEF TickPermission, DiscardTicks
<1>5. CASE SaveRole
  BY <1>5, Written DEF SaveRole, ItemShown, On
<1>6. CASE RoleSaved
  BY <1>6, Reloads DEF RoleSaved
<1>7. CASE RoleFailed
  BY <1>7, FailedKeeps DEF RoleFailed
<1> QED BY <1>1, <1>2, <1>3, <1>4, <1>5, <1>6, <1>7 DEF RoleNext

LEMMA OrgsKeep == ASSUME IInv, OrgNext PROVE IInv'
<1>1. CASE OpenOrg
  BY <1>1, RowOpens DEF OpenOrg, Pages
<1>2. CASE CreateOrg
  BY <1>2, Created DEF CreateOrg
<1>3. CASE OrgCreated
  <2>1. PICK w \in UnderWay : ThenOpen(w, "orgs", w.id)
    BY <1>3 DEF OrgCreated
  <2> QED BY <2>1, WriteHasId, Opens DEF Pages
<1>4. CASE EditBranding \/ DiscardBranding
  BY <1>4, EditKeeps DEF EditBranding, DiscardBranding
<1>5. CASE PatchOrg \/ SaveBranding
  <2>1. InConsole /\ view.page = "orgs" /\ route.id # None
    BY <1>5 DEF PatchOrg, SaveBranding, OrgShown, ItemShown, On
  <2>2. route.id \in Ids
    BY <2>1 DEF IInv, TypeOK
  <2> QED BY <1>5, <2>1, <2>2, Written DEF PatchOrg, SaveBranding
<1>6. CASE OrgPatched
  BY <1>6, Reloads DEF OrgPatched
<1>7. CASE OpenTheirConsole
  BY <1>7, ActsAs DEF OpenTheirConsole, Click
<1>8. CASE OrgFailed
  BY <1>8, FailedKeeps DEF OrgFailed
<1> QED BY <1>1, <1>2, <1>3, <1>4, <1>5, <1>6, <1>7, <1>8 DEF OrgNext

LEMMA DirectoryKeeps == ASSUME IInv, DirectoryNext PROVE IInv'
<1>1. CASE CreateUser \/ CreateApp
  BY <1>1, Created DEF CreateUser, CreateApp
<1>2. ASSUME NEW page, ChangeRow(page) PROVE IInv'
  BY <1>2, Written, ConsoleAssumption DEF ConsoleAssumption, ChangeRow, ListShown, On
<1>3. CASE IssueCode
  BY <1>3, Written, ConsoleAssumption DEF ConsoleAssumption, IssueCode, ListShown, On
<1>4. CASE UserWritten \/ AppWritten
  BY <1>4, Reloads DEF UserWritten, AppWritten
<1>5. CASE CodeIssued
  <2>1. PICK w \in UnderWay :
            /\ view' = IF w.live THEN [view EXCEPT !.dialog = "code"] ELSE view
            /\ reqs' = reqs \ {w}
            /\ UNCHANGED <<tab, app, route, alive>>
    BY <1>5 DEF CodeIssued
  <2>2. CASE w.live
    <3>1. view' = [view EXCEPT !.edited = view.edited, !.saving = view.saving, !.dialog = "code"]
      BY <2>1, <2>2 DEF IInv, Views
    <3> QED BY <2>1, <3>1, FormState, FormKeeps
  <2>3. CASE ~w.live
    BY <2>1, <2>3, Settled
  <2> QED BY <2>2, <2>3
<1>6. CASE CloseCode
  <2>1. view' = [view EXCEPT !.edited = view.edited, !.saving = view.saving, !.dialog = None]
    BY <1>6 DEF CloseCode, IInv, Views
  <2> QED BY <1>6, <2>1, FormState, FormKeeps DEF CloseCode
<1>7. CASE UserFailed \/ AppFailed
  BY <1>7, FailedKeeps DEF UserFailed, AppFailed
<1> QED BY <1>1, <1>2, <1>3, <1>4, <1>5, <1>6, <1>7 DEF DirectoryNext, ChangeUser, ChangeApp

LEMMA PolicyKeeps == ASSUME IInv, PolicyNext PROVE IInv'
<1>1. CASE EditPolicy \/ DiscardPolicy
  BY <1>1, EditKeeps DEF EditPolicy, DiscardPolicy
<1>2. CASE SavePolicy \/ ConfirmSave
  <2>1. /\ InConsole /\ view.page = "policy" /\ view.item # None /\ view \in Views
        /\ Save(view) /\ TypeOK
    BY <1>2 DEF SavePolicy, ConfirmSave, SaveEnabled, ItemShown, On, IInv
  <2>2. view.item.id \in Ids /\ view.item.of = Owner(view.page)
    BY <2>1 DEF TypeOK, IInv, RowsBelongToScope
  <2>3. Sound(Write("put", view.item.id, view.item.of))
    BY <2>1, <2>2, NewWriteSound
  <2>4. \A r \in reqs' : Sound(r)
    BY <2>1, <2>3 DEF Save, IInv
  <2>5. view' = [view EXCEPT !.edited = view.edited, !.saving = TRUE, !.dialog = view.dialog]
    BY <2>1 DEF Save, Views
  <2>6. UNCHANGED <<tab, app, route, alive>> /\ place # "login"
    BY <2>1 DEF Save, InConsole
  <2> QED BY <2>1, <2>4, <2>5, <2>6, FormState, OnlyForm
<1>3. CASE AskToConfirm
  <2>1. view' = [view EXCEPT !.edited = view.edited, !.saving = view.saving, !.dialog = "confirm"]
    BY <1>3 DEF AskToConfirm, IInv, Views
  <2> QED BY <1>3, <2>1, FormState, FormKeeps DEF AskToConfirm
<1>4. CASE CancelSave
  <2>1. view' = [view EXCEPT !.edited = view.edited, !.saving = view.saving, !.dialog = None]
    BY <1>4 DEF CancelSave, IInv, Views
  <2> QED BY <1>4, <2>1, FormState, FormKeeps DEF CancelSave
<1>5. CASE PolicySaved
  BY <1>5, Reloads DEF PolicySaved
<1>6. CASE PolicyFailed
  <2>1. PICK w \in UnderWay :
            /\ view' = IF w.live THEN Over(view) ELSE view
            /\ reqs' = reqs \ {w}
            /\ UNCHANGED <<tab, app, route, alive>>
    BY <1>6 DEF PolicyFailed
  <2>2. CASE w.live
    <3>1. view' = [view EXCEPT !.edited = view.edited, !.saving = FALSE, !.dialog = None]
      BY <2>1, <2>2 DEF Over, IInv, Views
    <3> QED BY <2>1, <3>1, FormState, FormKeeps
  <2>3. CASE ~w.live
    BY <2>1, <2>3, Settled
  <2> QED BY <2>2, <2>3
<1>7. CASE PolicyReloaded
  BY <1>7, Receives DEF PolicyReloaded
<1> QED BY <1>1, <1>2, <1>3, <1>4, <1>5, <1>6, <1>7 DEF PolicyNext

-----------------------------------------------------------------------------
(* The theorems.                                                           *)

LEMMA Preserved == ASSUME IInv, [Next]_vars PROVE IInv'
<1>1. CASE Next
  BY <1>1, ShellKeeps, GroupsKeep, RolesKeep, OrgsKeep, DirectoryKeeps, PolicyKeeps, EventsKeep
     DEF Next
<1>2. CASE UNCHANGED vars
  BY <1>2, OnlyRequests DEF vars, tab, IInv, TypeOK
<1> QED BY <1>1, <1>2

(* Every request under way is sound, for the scope the console has: this   *)
(* is what App's key and api's header keep, step by step.                   *)
THEOREM Invariance == Spec => []IInv
BY Initially, Preserved, PTL DEF Spec

(* The states of the tab, the shell and the page are the ones their code   *)
(* distinguishes: the mounted page is the URL's, and only the page of the  *)
(* policy is ever saving.                                                  *)
THEOREM Typing == Spec => []TypeOK
<1>1. IInv => TypeOK
  BY DEF IInv
<1> QED BY <1>1, Invariance, PTL

(* No page shows rows of another tenant than the one the console is about, *)
(* whatever is asked, switched and answered in between: the key of the     *)
(* page in App and the header api sends together see to it.                *)
THEOREM Rows == Spec => []RowsBelongToScope
<1>1. IInv => RowsBelongToScope
  BY DEF IInv
<1> QED BY <1>1, Invariance, PTL

(* A write that the server applies, it applies to the tenant whose rows    *)
(* were on show when it was clicked, even if the operator has gone on to   *)
(* another tenant since.                                                   *)
THEOREM Writes == Spec => WritesHitTheirRows
<1>1. ASSUME IInv, [Next]_vars, NEW w \in UnderWay,
             ~w.served, [w EXCEPT !.served = TRUE] \in reqs'
      PROVE  TenantFor(w) = w.of
  <2> DEFINE s == [w EXCEPT !.served = TRUE]
  <2>1. w \in WriteRecords /\ SoundWrite(w)
    BY <1>1 DEF UnderWay, Reads, IInv, Sound, SoundRead, SoundWrite, ReadRecords
  <2>2. /\ s.do = w.do /\ s.page = w.page /\ s.header = w.header /\ s.of = w.of
        /\ s.served = TRUE
    BY <2>1 DEF WriteRecords
  <2>3. SoundWrite(s)'
    <3>1. Sound(s)'
      BY <1>1, Preserved DEF IInv
    <3> QED BY <2>1, <2>2, <3>1 DEF Sound, SoundRead, ReadRecords, WriteRecords
  <2>4. signedIn' = signedIn
    BY <1>1, <2>1, <2>3, ConsoleStays DEF SoundWrite
  <2> QED BY <2>2, <2>3, <2>4 DEF SoundWrite, TenantFor, IsPlatform
<1>2. IInv /\ [Next]_vars => [\A w \in UnderWay :
           ~w.served /\ [w EXCEPT !.served = TRUE] \in reqs' => TenantFor(w) = w.of]_vars
  BY <1>1
<1> QED BY <1>2, Invariance, PTL DEF Spec, WritesHitTheirRows
=============================================================================
