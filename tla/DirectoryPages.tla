--------------------------- MODULE DirectoryPages ---------------------------
(***************************************************************************)
(* Users.tsx and Apps.tsx: lists whose rows are changed in place, and      *)
(* which reload after every write.                                         *)
(***************************************************************************)
EXTENDS ConsoleShell

\* Of a row's menu: enable, disable, passkey always or by risk.
ChangeRow(page) ==
    /\ ListShown(page) /\ MayWrite
    /\ SomeRow /\ Submit(Write("update", AnyRow, view.rows))

CreateUser == Create("users")
ChangeUser == ChangeRow("users")
UserWritten ==
    \E w \in UnderWay : Done(w, "users", {"create", "update"}) /\ ThenReload(w, "list")

\* An activation code: issued, shown once in a dialog of the page, closed.
IssueCode ==
    /\ ListShown("users") /\ MayWrite
    /\ SomeRow /\ Submit(Write("code", AnyRow, view.rows))
CodeIssued ==
    \E w \in UnderWay :
        /\ Done(w, "users", {"code"})
        /\ view' = IF w.live THEN [view EXCEPT !.dialog = "code"] ELSE view
        /\ reqs' = reqs \ {w}
        /\ UNCHANGED <<tab, app, route, alive>>
CloseCode ==
    /\ On("users") /\ view.dialog = "code"
    /\ view' = [view EXCEPT !.dialog = None]
    /\ UNCHANGED <<tab, app, route, reqs, alive>>

UserFailed == Failed("users")

\* AppForm creates and edits; the menu enables, disables and asks for passkeys.
CreateApp == Create("apps")
ChangeApp == ChangeRow("apps")
AppWritten ==
    \E w \in UnderWay : Done(w, "apps", {"create", "update"}) /\ ThenReload(w, "list")

AppFailed == Failed("apps")

DirectoryNext ==
    \/ CreateUser \/ ChangeUser \/ UserWritten \/ IssueCode \/ CodeIssued \/ CloseCode
    \/ UserFailed \/ CreateApp \/ ChangeApp \/ AppWritten \/ AppFailed

=============================================================================
