----------------------------- MODULE EventPages -----------------------------
(***************************************************************************)
(* Events.tsx: the list of decisions, which follows new ones on its own,   *)
(* and the page of one; Home.tsx links to it.                              *)
(***************************************************************************)
EXTENDS ConsoleShell

OpenEvent == OpenRow("events")

\* "Requirieron atencion" on the home page.
OpenAttention ==
    /\ On("home") /\ Click /\ SomeRow /\ \E id \in Ids : Navigate("events", id, reqs)
    /\ UNCHANGED <<tab, app, alive>>

\* The timer of the list, or "Actualizar ahora".
Refresh ==
    /\ On("events") /\ Click /\ route.id = None
    /\ reqs' = reqs \cup {Read("events", "list", None, FALSE, acting)}
    /\ UNCHANGED <<tab, app, route, view, alive>>

EventNext == OpenEvent \/ OpenAttention \/ Refresh

=============================================================================
