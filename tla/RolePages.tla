----------------------------- MODULE RolePages -----------------------------
(***************************************************************************)
(* Roles.tsx: the list of roles, and the page of one role, where the       *)
(* permissions are ticked and saved as a whole.                            *)
(***************************************************************************)
EXTENDS ConsoleShell

OpenRole == OpenRow("roles")

CreateRole == Create("roles")
RoleCreated == \E w \in UnderWay : Done(w, "roles", {"create"}) /\ ThenOpen(w, "roles", w.id)

\* A permission is ticked, or what was ticked is discarded.
TickPermission ==
    /\ ItemShown("roles") /\ canWrite /\ ~view.edited
    /\ view' = [view EXCEPT !.edited = TRUE]
    /\ UNCHANGED <<tab, app, route, reqs, alive>>
DiscardTicks ==
    /\ ItemShown("roles") /\ view.edited
    /\ view' = [view EXCEPT !.edited = FALSE]
    /\ UNCHANGED <<tab, app, route, reqs, alive>>

\* "Guardar": it stays enabled while the answer is awaited.
SaveRole ==
    /\ ItemShown("roles") /\ MayWrite /\ view.edited
    /\ Submit(Write("update", view.item.id, view.item.of))
RoleSaved == \E w \in UnderWay : Done(w, "roles", {"update"}) /\ ThenReload(w, "item")

RoleFailed == Failed("roles")

RoleNext ==
    \/ OpenRole \/ CreateRole \/ RoleCreated \/ TickPermission \/ DiscardTicks
    \/ SaveRole \/ RoleSaved \/ RoleFailed

=============================================================================
