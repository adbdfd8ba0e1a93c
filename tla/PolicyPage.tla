----------------------------- MODULE PolicyPage -----------------------------
(***************************************************************************)
(* Policy.tsx: the policy in force and the draft of the next one.  A save  *)
(* puts the whole draft, then reloads the policy; the buttons wait for     *)
(* both.  A change of the engine's mode is confirmed in a dialog first.    *)
(***************************************************************************)
EXTENDS ConsoleShell

EditPolicy ==
    /\ ItemShown("policy") /\ canWrite /\ view.dialog = None /\ ~view.edited
    /\ view' = [view EXCEPT !.edited = TRUE]
    /\ UNCHANGED <<tab, app, route, reqs, alive>>

DiscardPolicy ==
    /\ ItemShown("policy") /\ view.edited /\ ~view.saving /\ view.dialog = None
    /\ view' = [view EXCEPT !.edited = FALSE]
    /\ UNCHANGED <<tab, app, route, reqs, alive>>

\* save: the draft is put.
Save(v) ==
    /\ view' = [v EXCEPT !.saving = TRUE]
    /\ reqs' = reqs \cup {Write("put", view.item.id, view.item.of)}
    /\ UNCHANGED <<tab, app, route, alive>>

SaveEnabled == ItemShown("policy") /\ MayWrite /\ view.edited /\ ~view.saving
SavePolicy == SaveEnabled /\ view.dialog = None /\ Save(view)

\* With another mode: the dialog, which has no say in whether a save is on.
AskToConfirm ==
    /\ SaveEnabled /\ view.dialog = None
    /\ view' = [view EXCEPT !.dialog = "confirm"]
    /\ UNCHANGED <<tab, app, route, reqs, alive>>
ConfirmSave ==
    /\ ItemShown("policy") /\ MayWrite /\ view.dialog = "confirm"
    /\ Save(view)
CancelSave ==
    /\ On("policy") /\ view.dialog = "confirm"
    /\ view' = [view EXCEPT !.dialog = None]
    /\ UNCHANGED <<tab, app, route, reqs, alive>>

\* Mutant of Over: the save has no "finally" for its button.
OverDialogOnly(v) == [v EXCEPT !.dialog = None]

\* The save's "finally".
Over(v) == [v EXCEPT !.saving = FALSE, !.dialog = None]

PolicySaved == \E w \in UnderWay : Done(w, "policy", {"put"}) /\ ThenReload(w, "item")
PolicyFailed ==
    \E w \in UnderWay :
        /\ w.page = "policy"
        /\ view' = IF w.live THEN Over(view) ELSE view
        /\ reqs' = reqs \ {w}
        /\ UNCHANGED <<tab, app, route, alive>>
PolicyReloaded ==
    \E r \in PageReads, ok \in BOOLEAN :
        /\ r.page = "policy" /\ ~Plain(r) /\ Settles(r, ok)
        /\ view' = Over(Received(view, r, ok))
        /\ reqs' = reqs \ {r}
        /\ UNCHANGED <<tab, app, route, alive>>

PolicyNext ==
    \/ EditPolicy \/ DiscardPolicy \/ SavePolicy \/ AskToConfirm \/ ConfirmSave \/ CancelSave
    \/ PolicySaved \/ PolicyFailed \/ PolicyReloaded

=============================================================================
