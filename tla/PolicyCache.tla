---------------------------- MODULE PolicyCache ----------------------------
(***************************************************************************)
(* TenantPolicyCache (tenancy.py): the read-through cache by which the     *)
(* login path learns a tenant's engine mode, and AdminService.put_policy   *)
(* (admin.py), which saves a policy on the PDP and then drops the cached   *)
(* copy of its own process.                                                *)
(*                                                                         *)
(* One tenant's slot is modelled: entries of different tenants share only  *)
(* the lock.  Each replica of the IdP is a process with a cache of its     *)
(* own; request threads interleave, and the lock is held only around the   *)
(* two dictionary accesses, never across the call to the PDP.              *)
(***************************************************************************)
EXTENDS Integers

CONSTANTS
    Threads,    \* request threads
    Replicas,   \* processes, each with its own cache
    Home,       \* the replica each thread runs in
    Ttl,        \* settings.policy_cache_seconds
    NoEntry,    \* an empty slot of the dictionary
    MaxClock,   \* bound: time units explored
    MaxVersion  \* bound: saves explored

ASSUME TtlAssumption == Ttl \in Nat
ASSUME HomeAssumption == Home \in [Threads -> Replicas]
ASSUME BoundsAssumption == MaxClock \in Nat /\ MaxVersion \in Nat \ {0}

VARIABLES
    clock,      \* time.monotonic()
    pdp,        \* version of the tenant's policy on the PDP; 0: none
    replacedAt, \* history: when each version was superseded on the PDP
    entries,    \* per replica: NoEntry or (timestamp, policy)
    pc,         \* per thread: where it is
    now,        \* get: the clock as read on entry
    entry,      \* get: the entry as read under the lock
    policy,     \* get: the policy as fetched; put_policy: the version saved
    answer,     \* per thread: what its last get returned
    floor       \* history, per replica: newest version whose save returned
                \* with no older fetch in flight

gets == <<now, entry, answer>>
vars == <<clock, pdp, replacedAt, entries, pc, now, entry, policy, answer, floor>>

Versions == 1..MaxVersion

Entry == [ts : Nat, policy : Versions]

PCs == {"idle", "look", "fetch", "store", "invalidate"}

NoAnswer == [policy |-> 0, asked |-> 0, reached |-> FALSE]

Goto(t, from, to) == pc[t] = from /\ pc' = [pc EXCEPT ![t] = to]

(* The call returns p; its locals are gone. *)
Return(t, p, reached) ==
    /\ answer' = [answer EXCEPT ![t] =
                    [policy |-> p, asked |-> now[t], reached |-> reached]]
    /\ now' = [now EXCEPT ![t] = 0]
    /\ entry' = [entry EXCEPT ![t] = NoEntry]
    /\ policy' = [policy EXCEPT ![t] = 0]

(* The test of get(): an entry younger than ttl, counted from the clock as *)
(* it was when the call began.                                             *)
Fresh(e, at) == e # NoEntry /\ at - e.ts < Ttl

Init ==
    /\ clock = 0
    /\ pdp \in {0, 1}
    /\ replacedAt = [v \in 0..MaxVersion |-> 0]
    /\ entries = [r \in Replicas |-> NoEntry]
    /\ pc = [t \in Threads |-> "idle"]
    /\ now = [t \in Threads |-> 0]
    /\ entry = [t \in Threads |-> NoEntry]
    /\ policy = [t \in Threads |-> 0]
    /\ answer = [t \in Threads |-> NoAnswer]
    /\ floor = [r \in Replicas |-> 0]

Tick ==
    /\ clock < MaxClock
    /\ clock' = clock + 1
    /\ UNCHANGED <<pdp, replacedAt, entries, pc, gets, policy, floor>>

-----------------------------------------------------------------------------
(* TenantPolicyCache.get                                                   *)

GetBegin(t) ==
    /\ Goto(t, "idle", "look")
    /\ now' = [now EXCEPT ![t] = clock]
    /\ answer' = [answer EXCEPT ![t] = NoAnswer]
    /\ UNCHANGED <<clock, pdp, replacedAt, entries, entry, policy, floor>>

GetHit(t) ==
    /\ Goto(t, "look", "idle")
    /\ Fresh(entries[Home[t]], now[t])
    /\ Return(t, entries[Home[t]].policy, TRUE)
    /\ UNCHANGED <<clock, pdp, replacedAt, entries, floor>>

GetMiss(t) ==
    /\ Goto(t, "look", "fetch")
    /\ ~Fresh(entries[Home[t]], now[t])
    /\ entry' = [entry EXCEPT ![t] = entries[Home[t]]]
    /\ UNCHANGED <<clock, pdp, replacedAt, entries, now, policy, answer, floor>>

Fetch(t) ==
    /\ Goto(t, "fetch", "store")
    /\ pdp > 0
    /\ policy' = [policy EXCEPT ![t] = pdp]
    /\ UNCHANGED <<clock, pdp, replacedAt, entries, gets, floor>>

(* ControlPlaneUnavailable at any time, PolicyNotFound when there is none: *)
(* the last known policy, however old.                                     *)
FetchFails(t) ==
    /\ Goto(t, "fetch", "idle")
    /\ Return(t, IF entry[t] = NoEntry THEN 0 ELSE entry[t].policy, FALSE)
    /\ UNCHANGED <<clock, pdp, replacedAt, entries, floor>>

(* A mutant of Store: stamped with the time of the answer, not of the      *)
(* question.                                                               *)
StoreStampedLate(t) ==
    /\ Goto(t, "store", "idle")
    /\ entries' = [entries EXCEPT ![Home[t]] = [ts |-> clock, policy |-> policy[t]]]
    /\ Return(t, policy[t], TRUE)
    /\ UNCHANGED <<clock, pdp, replacedAt, floor>>

Store(t) ==
    /\ Goto(t, "store", "idle")
    /\ entries' = [entries EXCEPT ![Home[t]] = [ts |-> now[t], policy |-> policy[t]]]
    /\ Return(t, policy[t], TRUE)
    /\ UNCHANGED <<clock, pdp, replacedAt, floor>>

-----------------------------------------------------------------------------
(* AdminService.put_policy                                                 *)

SaveOnPdp ==
    /\ pdp < MaxVersion
    /\ pdp' = pdp + 1
    /\ replacedAt' = [replacedAt EXCEPT ![pdp] = clock]

PutSaved(t) ==
    /\ Goto(t, "idle", "invalidate")
    /\ SaveOnPdp
    /\ policy' = [policy EXCEPT ![t] = pdp + 1]
    /\ UNCHANGED <<clock, entries, gets, floor>>

(* The PDP saved the policy but its answer was lost or not understood: the *)
(* operator is told 503 and nothing is invalidated.                        *)
PutUnanswered(t) ==
    /\ pc[t] = "idle"
    /\ SaveOnPdp
    /\ UNCHANGED <<clock, entries, pc, gets, policy, floor>>

(* A get of this replica that fetched a version older than v and has not   *)
(* stored it yet.                                                          *)
OlderFetchInFlight(r, v) ==
    \E t \in Threads : Home[t] = r /\ pc[t] = "store" /\ policy[t] < v

(* A mutant of Invalidate: the save is answered and the entry stays.       *)
InvalidateNothing(t) ==
    LET r == Home[t] IN
    /\ Goto(t, "invalidate", "idle")
    /\ floor' = [floor EXCEPT ![r] =
                   IF policy[t] > @ /\ ~OlderFetchInFlight(r, policy[t])
                   THEN policy[t] ELSE @]
    /\ policy' = [policy EXCEPT ![t] = 0]
    /\ UNCHANGED <<clock, pdp, replacedAt, entries, gets>>

Invalidate(t) ==
    LET r == Home[t] IN
    /\ Goto(t, "invalidate", "idle")
    /\ entries' = [entries EXCEPT ![r] = NoEntry]
    /\ floor' = [floor EXCEPT ![r] =
                   IF policy[t] > @ /\ ~OlderFetchInFlight(r, policy[t])
                   THEN policy[t] ELSE @]
    /\ policy' = [policy EXCEPT ![t] = 0]
    /\ UNCHANGED <<clock, pdp, replacedAt, gets>>

-----------------------------------------------------------------------------

Get(t) == GetBegin(t) \/ GetHit(t) \/ GetMiss(t) \/ Fetch(t) \/ FetchFails(t) \/ Store(t)

Put(t) == PutSaved(t) \/ PutUnanswered(t) \/ Invalidate(t)

Next == Tick \/ \E t \in Threads : Get(t) \/ Put(t)

Spec == Init /\ [][Next]_vars

-----------------------------------------------------------------------------
(* Properties                                                              *)

TypeOK ==
    /\ clock \in Nat
    /\ pdp \in 0..MaxVersion
    /\ replacedAt \in [0..MaxVersion -> Nat]
    /\ entries \in [Replicas -> Entry \cup {NoEntry}]
    /\ pc \in [Threads -> PCs]
    /\ now \in [Threads -> Nat]
    /\ entry \in [Threads -> Entry \cup {NoEntry}]
    /\ policy \in [Threads -> 0..MaxVersion]
    /\ answer \in [Threads -> [policy : 0..MaxVersion, asked : Nat, reached : BOOLEAN]]
    /\ floor \in [Replicas -> 0..MaxVersion]

(* The cache implements the register of bounded staleness: a thread is     *)
(* asking from the moment get() reads the clock until it returns.          *)
Register == INSTANCE PolicyRegister WITH
    Askers <- Threads,
    asked  <- [t \in Threads |->
                 IF pc[t] \in {"look", "fetch", "store"} THEN now[t] ELSE -1]

ImplementsRegister == Register!Spec

(* What a hit or a completed fetch returns was the PDP's policy less than  *)
(* Ttl before get() was called, although the entry is read after the clock,*)
(* fetched with no lock and stored under an older timestamp.               *)
BoundedStaleness == Register!BoundedStaleness

(* Once a save has been answered, no login of that process is served an    *)
(* older version from its cache -- provided no older fetch was in flight   *)
(* when the save dropped the entry ("Forget a tenant's policy, e.g. right  *)
(* after this IdP saved a new one").                                       *)
SavedPolicyIsServed ==
    \A r \in Replicas : entries[r] # NoEntry => entries[r].policy >= floor[r]

=============================================================================
