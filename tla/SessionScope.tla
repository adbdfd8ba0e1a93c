---------------------------- MODULE SessionScope ----------------------------
(***************************************************************************)
(* session_scope (db/session.py): every database access of a request runs  *)
(* in a transaction of its own that commits on return and rolls back when  *)
(* an exception -- an HTTPException included -- leaves the block.           *)
(*                                                                         *)
(* The process is configured with one of two engines.  The in-memory one   *)
(* is one connection shared by all threads, and there sessions take turns  *)
(* under _MEMORY_LOCK: serialized is TRUE.  On PostgreSQL transactions run *)
(* side by side at READ COMMITTED and nothing is locked by reading:        *)
(* serialized is FALSE, a statement sees what is committed when it runs,   *)
(* and the writes appear together at the commit.                           *)
(***************************************************************************)
CONSTANT Requests   \* requests in flight, each in a thread of its own

VARIABLES
    serialized,     \* the engine shares one connection (StaticPool)
    tx              \* the requests that are inside a transaction

scope == <<serialized, tx>>

InitScope == serialized \in BOOLEAN /\ tx = {}

MayEnter == serialized => tx = {}

Enter(r) == MayEnter /\ tx' = tx \cup {r} /\ UNCHANGED serialized

Leave(r) == tx' = tx \ {r} /\ UNCHANGED serialized

=============================================================================
