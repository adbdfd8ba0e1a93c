------------------------------ MODULE OrgPages ------------------------------
(***************************************************************************)
(* Orgs.tsx: the platform's list of organizations, and the page of one,    *)
(* which finds it in a list of its own.  From both, the operator can go on *)
(* in that organization's console.                                         *)
(***************************************************************************)
EXTENDS ConsoleShell

OpenOrg == OpenRow("orgs")

CreateOrg == Create("orgs")
OrgCreated == \E w \in UnderWay : Done(w, "orgs", {"create"}) /\ ThenOpen(w, "orgs", w.id)

\* The organization of the URL is in the list the page loaded.
OrgShown == ItemShown("orgs")

EditBranding ==
    /\ OrgShown /\ canWrite /\ ~view.edited
    /\ view' = [view EXCEPT !.edited = TRUE]
    /\ UNCHANGED <<tab, app, route, reqs, alive>>
DiscardBranding ==
    /\ OrgShown /\ view.edited
    /\ view' = [view EXCEPT !.edited = FALSE]
    /\ UNCHANGED <<tab, app, route, reqs, alive>>

\* Name and domains, a form of its own; and the branding, when it was edited.
PatchOrg ==
    /\ OrgShown /\ MayWrite
    /\ Submit(Write("update", route.id, Platform))
SaveBranding ==
    /\ OrgShown /\ MayWrite /\ view.edited
    /\ Submit(Write("update", route.id, Platform))
OrgPatched == \E w \in UnderWay : Done(w, "orgs", {"update"}) /\ ThenReload(w, "item")

\* "Abrir su consola", of a row or of the page; rows do not tell which tenant.
OpenTheirConsole ==
    /\ Click
    /\ OrgShown \/ (ListShown("orgs") /\ SomeRow)
    /\ \E t \in Tenants : ActAs(t, FALSE)

OrgFailed == Failed("orgs")

OrgNext ==
    \/ OpenOrg \/ CreateOrg \/ OrgCreated \/ EditBranding \/ DiscardBranding
    \/ PatchOrg \/ SaveBranding \/ OrgPatched \/ OpenTheirConsole \/ OrgFailed

=============================================================================
