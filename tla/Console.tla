------------------------------ MODULE Console ------------------------------
(***************************************************************************)
(* The admin console: the shell with all of its pages.                     *)
(***************************************************************************)
EXTENDS GroupPages, RolePages, OrgPages, DirectoryPages, PolicyPage, EventPages

Next == ShellNext \/ GroupNext \/ RoleNext \/ OrgNext \/ DirectoryNext \/ PolicyNext \/ EventNext

\* The requests of the policy page settle, as fetch's promises do: a save, and
\* the reload after it.
Fairness == WF_vars(PolicySaved \/ PolicyFailed) /\ WF_vars(PolicyReloaded)

Spec == ShellInit /\ [][Next]_vars /\ Fairness

-----------------------------------------------------------------------------
(* Properties                                                              *)

TypeOK ==
    /\ place \in {"login", "boot", "refused", "console"}
    /\ signedIn \in Operators \cup {None} /\ acting \in Tenants \cup {None}
    /\ app \in [user: Operators \cup {None}, scope: Tenants \cup {None},
                tenants: BOOLEAN]
    /\ route \in [page: Pages, id: Ids \cup {None}]
    /\ view.page \in Pages /\ view.rows \in Tenants \cup {None}
    /\ view.item \in [of: Tenants, id: Ids] \cup {None}
    /\ InConsole => view.page = route.page
    /\ view.saving => view.page = "policy"
    /\ alive \in BOOLEAN

\* No page shows the previous tenant's rows, whatever answers are still to come
\* when the operator switches: App remounts the page, and api sends the header
\* of the moment.
RowsBelongToScope ==
    InConsole =>
        /\ view.rows # None => view.rows = Owner(view.page)
        /\ view.item # None => view.item.of = Owner(view.page)

\* A write reaches the tenant whose rows the operator was looking at.
WritesHitTheirRows ==
    [][\A w \in UnderWay :
           ~w.served /\ [w EXCEPT !.served = TRUE] \in reqs' => TenantFor(w) = w.of]_vars

\* The save button of the policy does not stay at "Guardando...".
SavingEnds == view.saving ~> ~view.saving

\* "Fetch on mount ...; reload after a write" (load.ts): the list on show after
\* a write the page has waited for has been asked for again.
ListFollowsWrites ==
    [][\A w \in UnderWay \ reqs' :
           /\ w.live /\ (UserWritten \/ AppWritten \/ GroupDeleted)
           /\ InConsole' /\ route'.id = None /\ view'.rows # None
           => \E r \in PageReads' : r.slot = "list"]_vars

=====
