--------------------------- MODULE MCPolicyCache ---------------------------
(***************************************************************************)
(* An instance of PolicyCache: two request threads of one replica, so that *)
(* a save meets a get of its own process.  What another replica does to    *)
(* this cache is to save on the PDP without invalidating it, which is what *)
(* PutUnanswered does here.                                                *)
(***************************************************************************)
EXTENDS PolicyCache

CONSTANTS t1, t2, r1

MCThreads == {t1, t2}
MCReplicas == {r1}
MCHome == [t \in MCThreads |-> r1]

=============================================================================
