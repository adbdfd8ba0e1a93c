----------------------------- MODULE GroupPages -----------------------------
(***************************************************************************)
(* Groups.tsx: the list of groups, which stays mounted behind the page of  *)
(* one group, and that page's writes.                                      *)
(***************************************************************************)
EXTENDS ConsoleShell

OpenGroup == OpenRow("groups")

\* GroupForm without a group: a new one, whose page opens.
CreateGroup == Create("groups")
GroupCreated == \E w \in UnderWay : Done(w, "groups", {"create"}) /\ ThenOpen(w, "groups", w.id)

\* A member or a role added or removed, a name changed: then the group reloads.
ChangeGroup ==
    /\ ItemShown("groups") /\ MayWrite
    /\ Submit(Write("update", view.item.id, view.item.of))
GroupChanged == \E w \in UnderWay : Done(w, "groups", {"update"}) /\ ThenReload(w, "item")

\* "Eliminar": then the list's URL opens, over the list as it was loaded.
DeleteGroup ==
    /\ ItemShown("groups") /\ MayWrite
    /\ Submit(Write("delete", view.item.id, view.item.of))
GroupDeleted == \E w \in UnderWay : Done(w, "groups", {"delete"}) /\ ThenOpen(w, "groups", None)

GroupFailed == Failed("groups")

GroupNext ==
    \/ OpenGroup \/ CreateGroup \/ GroupCreated \/ ChangeGroup \/ GroupChanged
    \/ DeleteGroup \/ GroupDeleted \/ GroupFailed

=============================================================================
