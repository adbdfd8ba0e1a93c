-------------------------- MODULE PolicyCacheProofs --------------------------
(***************************************************************************)
(* Proofs about PolicyCache, for any number of threads and replicas, any   *)
(* ttl and any bounds: its type invariant, the bounded staleness of what   *)
(* get() returns, what put_policy guarantees to its own process, and that  *)
(* the cache implements PolicyRegister.                                    *)
(***************************************************************************)
EXTENDS PolicyCache, TLAPS

(* The latest moment at which version v was in force on the PDP. *)
Until(v) == IF v = pdp THEN clock ELSE replacedAt[v]

(* A version of the policy that was in force at the moment t or later. *)
SeenSince(v, t) == v \in 1..pdp /\ Until(v) >= t

Served(v, t) == v \in 1..pdp /\ (Until(v) >= t \/ Until(v) + Ttl > t)

PastHistory == \A v \in 0..MaxVersion : replacedAt[v] <= clock

EntriesAreOfTheirTime ==
    \A r \in Replicas :
        entries[r] # NoEntry => SeenSince(entries[r].policy, entries[r].ts)

FetchesAreOfTheirTime ==
    \A t \in Threads :
        /\ now[t] <= clock
        /\ pc[t] = "store" => SeenSince(policy[t], now[t])
        /\ pc[t] = "invalidate" => policy[t] <= pdp
        /\ entry[t] # NoEntry => entry[t].policy <= pdp

AnswersAreRecent ==
    \A t \in Threads : answer[t].reached => Served(answer[t].policy, answer[t].asked)

FloorsHold ==
    /\ \A r \in Replicas : floor[r] <= pdp
    /\ \A r \in Replicas : entries[r] # NoEntry => entries[r].policy >= floor[r]
    /\ \A t \in Threads : pc[t] = "store" => policy[t] >= floor[Home[t]]

IInv ==
    /\ TypeOK
    /\ PastHistory
    /\ EntriesAreOfTheirTime
    /\ FetchesAreOfTheirTime
    /\ AnswersAreRecent
    /\ FloorsHold

(* Every step keeps the types.  That a stored policy is a version, not the *)
(* absence of one, needs the rest of the invariant: only a fetch that found*)
(* a policy reaches the store.                                             *)
LEMMA TypePreserved == IInv /\ [Next]_vars => TypeOK'
<1> SUFFICES ASSUME IInv, [Next]_vars PROVE TypeOK'
  OBVIOUS
<1> USE BoundsAssumption, HomeAssumption DEF BoundsAssumption, HomeAssumption
<1>0. TypeOK /\ FetchesAreOfTheirTime
  BY DEF IInv
<1> USE <1>0 DEF TypeOK, PCs, Goto, gets
<1>1. CASE Tick
  BY <1>1 DEF Tick
<1>2. ASSUME NEW t \in Threads, GetBegin(t) PROVE TypeOK'
  <2>1. answer' \in [Threads -> [policy : 0..MaxVersion, asked : Nat, reached : BOOLEAN]]
    BY <1>2 DEF GetBegin, NoAnswer
  <2>2. pc' \in [Threads -> PCs] /\ now' \in [Threads -> Nat]
    BY <1>2 DEF GetBegin
  <2> QED BY <1>2, <2>1, <2>2 DEF GetBegin
<1>3. ASSUME NEW t \in Threads, GetHit(t) PROVE TypeOK'
  <2>1. entries[Home[t]] \in Entry
    BY <1>3 DEF GetHit, Fresh
  <2>2. entries[Home[t]].policy \in 0..MaxVersion
    BY <2>1 DEF Entry, Versions
  <2> QED BY <1>3, <2>2 DEF GetHit, Return
<1>4. ASSUME NEW t \in Threads, GetMiss(t) PROVE TypeOK'
  BY <1>4 DEF GetMiss
<1>5. ASSUME NEW t \in Threads, Fetch(t) PROVE TypeOK'
  BY <1>5 DEF Fetch
<1>6. ASSUME NEW t \in Threads, FetchFails(t) PROVE TypeOK'
  <2>1. (IF entry[t] = NoEntry THEN 0 ELSE entry[t].policy) \in 0..MaxVersion
    BY DEF Entry, Versions
  <2> QED BY <1>6, <2>1 DEF FetchFails, Return
<1>7. ASSUME NEW t \in Threads, Store(t) PROVE TypeOK'
  <2>1. policy[t] \in Versions
    BY <1>7 DEF Store, FetchesAreOfTheirTime, SeenSince, Versions
  <2>2. [ts |-> now[t], policy |-> policy[t]] \in Entry
    BY <2>1 DEF Entry
  <2>3. entries' \in [Replicas -> Entry \cup {NoEntry}]
    BY <1>7, <2>2 DEF Store
  <2>4. answer' \in [Threads -> [policy : 0..MaxVersion, asked : Nat, reached : BOOLEAN]]
    BY <1>7 DEF Store, Return
  <2>5. /\ now' \in [Threads -> Nat]
        /\ entry' \in [Threads -> Entry \cup {NoEntry}]
        /\ policy' \in [Threads -> 0..MaxVersion]
    BY <1>7 DEF Store, Return
  <2> QED BY <1>7, <2>3, <2>4, <2>5 DEF Store
<1>8. ASSUME SaveOnPdp
      PROVE  pdp' \in 0..MaxVersion /\ replacedAt' \in [0..MaxVersion -> Nat]
  BY <1>8 DEF SaveOnPdp
<1>9. ASSUME NEW t \in Threads, PutSaved(t) \/ PutUnanswered(t) PROVE TypeOK'
  <2>1. pdp' = pdp + 1 /\ pdp + 1 \in 0..MaxVersion
    BY <1>9 DEF PutSaved, PutUnanswered, SaveOnPdp
  <2>2. CASE PutSaved(t)
    BY <1>8, <2>1, <2>2 DEF PutSaved
  <2>3. CASE PutUnanswered(t)
    BY <1>8, <2>3 DEF PutUnanswered
  <2> QED BY <1>9, <2>2, <2>3
<1>10. ASSUME NEW t \in Threads, Invalidate(t) PROVE TypeOK'
  BY <1>10 DEF Invalidate
<1>11. CASE UNCHANGED vars
  BY <1>11 DEF vars
<1> QED
  BY <1>1, <1>2, <1>3, <1>4, <1>5, <1>6, <1>7, <1>9, <1>10, <1>11
  DEF Next, Get, Put

(* The PDP's history only grows: a version known to have been in force at  *)
(* some moment is never found, later, to have been replaced earlier.       *)
LEMMA NeverSooner ==
  ASSUME IInv, [Next]_vars
  PROVE  /\ clock <= clock'
         /\ pdp <= pdp'
         /\ \A v \in 1..pdp : v \in 1..pdp' /\ Until(v) <= Until(v)' /\ Until(v)' \in Int
<1> USE BoundsAssumption DEF BoundsAssumption, IInv, TypeOK, PastHistory, Until
<1>1. CASE Tick
  BY <1>1 DEF Tick
<1>2. CASE SaveOnPdp /\ UNCHANGED clock
  BY <1>2 DEF SaveOnPdp
<1>3. CASE UNCHANGED <<clock, pdp, replacedAt>>
  BY <1>3
<1> QED
  BY <1>1, <1>2, <1>3 DEF Next, vars, Get, Put, GetBegin, GetHit, GetMiss, Fetch,
     FetchFails, Store, PutSaved, PutUnanswered, Invalidate

(* Hence what was true of the age of a policy stays true. *)
LEMMA AgeKept ==
  ASSUME IInv, [Next]_vars
  PROVE  /\ \A v \in 0..MaxVersion, t \in Nat : SeenSince(v, t) => SeenSince(v, t)'
         /\ \A v \in 0..MaxVersion, t \in Nat : Served(v, t) => Served(v, t)'
<1>1. /\ \A v \in 1..pdp : Until(v) \in Int
      /\ \A v \in 1..pdp : v \in 1..pdp' /\ Until(v) <= Until(v)' /\ Until(v)' \in Int
  BY NeverSooner, BoundsAssumption DEF IInv, TypeOK, Until, BoundsAssumption
<1> QED BY <1>1, TtlAssumption DEF SeenSince, Served, TtlAssumption

(* The invariant is inductive. *)
LEMMA Preserved == IInv /\ [Next]_vars => IInv'
<1> SUFFICES ASSUME IInv, [Next]_vars PROVE IInv'
  OBVIOUS
<1>1. TypeOK'
  BY TypePreserved
<1>2. TypeOK /\ PastHistory /\ EntriesAreOfTheirTime /\ FetchesAreOfTheirTime
      /\ AnswersAreRecent /\ FloorsHold
  BY DEF IInv
<1>3. /\ clock <= clock'
      /\ pdp <= pdp'
  BY NeverSooner
<1> USE DEF SeenSince
<1>4. ASSUME NEW v \in 0..MaxVersion PROVE replacedAt'[v] <= clock'
  <2>1. replacedAt[v] <= clock /\ replacedAt[v] \in Nat /\ clock \in Nat /\ clock' \in Nat
    BY <1>1, <1>2 DEF TypeOK, PastHistory
  <2>2. replacedAt'[v] = replacedAt[v] \/ replacedAt'[v] = clock
    BY <1>2 DEF Next, vars, Get, Put, Tick, GetBegin, GetHit, GetMiss, Fetch,
       FetchFails, Store, PutSaved, PutUnanswered, Invalidate, SaveOnPdp, TypeOK
  <2> QED BY <1>3, <2>1, <2>2
<1>5. ASSUME NEW r \in Replicas, entries'[r] # NoEntry
      PROVE  SeenSince(entries[r].policy, entries[r].ts)'
  <2>1. ASSUME entries'[r] = entries[r]
        PROVE  SeenSince(entries[r].policy, entries[r].ts)'
    <3>1. entries[r] \in Entry /\ SeenSince(entries[r].policy, entries[r].ts)
      BY <1>2, <1>5, <2>1 DEF TypeOK, EntriesAreOfTheirTime
    <3> QED BY <2>1, <3>1, AgeKept DEF Entry, Versions
  <2>2. ASSUME NEW t \in Threads, Store(t), Home[t] = r
        PROVE  SeenSince(entries[r].policy, entries[r].ts)'
    <3>1. SeenSince(policy[t], now[t]) /\ policy[t] \in 0..MaxVersion /\ now[t] \in Nat
      BY <1>2, <2>2 DEF Store, Goto, FetchesAreOfTheirTime, TypeOK
    <3>2. entries'[r] = [ts |-> now[t], policy |-> policy[t]]
      BY <1>2, <2>2 DEF Store, TypeOK
    <3> QED BY <3>1, <3>2, AgeKept
  <2> QED
    BY <1>2, <1>5, <2>1, <2>2 DEF Next, vars, Get, Put, Tick, GetBegin, GetHit, GetMiss,
       Fetch, FetchFails, Store, PutSaved, PutUnanswered, Invalidate, TypeOK
<1>6. ASSUME NEW t \in Threads PROVE now'[t] <= clock'
  <2>1. now[t] <= clock /\ now[t] \in Nat /\ clock \in Nat /\ clock' \in Nat
    BY <1>1, <1>2 DEF TypeOK, FetchesAreOfTheirTime
  <2>2. now'[t] \in {0, clock, now[t]}
    BY <1>2 DEF Next, vars, Get, Put, Tick, GetBegin, GetHit, GetMiss, Fetch, Return,
       FetchFails, Store, PutSaved, PutUnanswered, Invalidate, gets, TypeOK
  <2> QED BY <1>3, <2>1, <2>2
<1>7. ASSUME NEW t \in Threads, pc'[t] = "store"
      PROVE  SeenSince(policy[t], now[t])'
  <2>1. ASSUME pc[t] = "store", policy'[t] = policy[t], now'[t] = now[t]
        PROVE  SeenSince(policy[t], now[t])'
    <3>1. SeenSince(policy[t], now[t]) /\ policy[t] \in 0..MaxVersion /\ now[t] \in Nat
      BY <1>2, <2>1 DEF FetchesAreOfTheirTime, TypeOK
    <3> QED BY <2>1, <3>1, AgeKept
  <2>2. ASSUME Fetch(t) PROVE SeenSince(policy[t], now[t])'
    <3>1. now[t] <= clock /\ clock \in Nat /\ now[t] \in Nat /\ pdp \in 1..pdp
      BY <1>2, <2>2 DEF FetchesAreOfTheirTime, TypeOK, Fetch
    <3>2. policy'[t] = pdp /\ now'[t] = now[t] /\ pdp' = pdp /\ clock' = clock
      BY <1>2, <2>2 DEF Fetch, TypeOK, gets
    <3> QED BY <3>1, <3>2 DEF Until
  <2> QED
    BY <1>2, <1>7, <2>1, <2>2 DEF Next, vars, Get, Put, Tick, GetBegin, GetHit, GetMiss,
       Fetch, FetchFails, Store, Return, PutSaved, PutUnanswered, Invalidate, Goto, gets, TypeOK
<1>8. ASSUME NEW t \in Threads, pc'[t] = "invalidate" PROVE policy'[t] <= pdp'
  <2>1. pdp \in Nat /\ pdp' \in Nat /\ policy[t] \in Nat
    BY <1>1, <1>2 DEF TypeOK
  <2>2. \/ pc[t] = "invalidate" /\ policy'[t] = policy[t]
        \/ pdp' = pdp + 1 /\ policy'[t] = pdp + 1
    BY <1>2, <1>8 DEF Next, vars, Get, Put, Tick, GetBegin, GetHit, GetMiss,
       Fetch, FetchFails, Store, Return, PutSaved, PutUnanswered, Invalidate, Goto, gets, TypeOK, SaveOnPdp
  <2> QED BY <1>2, <1>3, <2>1, <2>2 DEF FetchesAreOfTheirTime
<1>9. ASSUME NEW t \in Threads, entry'[t] # NoEntry PROVE entry'[t].policy <= pdp'
  <2>1. \/ entry'[t] = entry[t]
        \/ entry'[t] = entries[Home[t]] /\ Home[t] \in Replicas
    BY <1>2, <1>9, HomeAssumption DEF Next, vars, Get, Put, Tick, GetBegin, GetHit, GetMiss,
       Fetch, FetchFails, Store, Return, PutSaved, PutUnanswered, Invalidate, Goto, gets, TypeOK, HomeAssumption
  <2>2. pdp \in Nat /\ pdp' \in Nat /\ entry'[t].policy \in Nat
    BY <1>1, <1>2, <1>9 DEF TypeOK, Entry, Versions
  <2>3. entry'[t].policy <= pdp
    BY <1>2, <1>9, <2>1 DEF FetchesAreOfTheirTime, EntriesAreOfTheirTime
  <2> QED BY <1>3, <2>2, <2>3
<1>10. ASSUME NEW t \in Threads, answer'[t].reached
       PROVE  Served(answer[t].policy, answer[t].asked)'
  <2>1. answer[t] \in [policy : 0..MaxVersion, asked : Nat, reached : BOOLEAN]
    BY <1>2 DEF TypeOK
  <2>2. CASE answer'[t] = answer[t]
    BY <1>2, <1>10, <2>1, <2>2, AgeKept DEF AnswersAreRecent
  <2>3. CASE GetHit(t)
    <3> DEFINE e == entries[Home[t]]
    <3>1. e \in Entry /\ SeenSince(e.policy, e.ts) /\ now[t] - e.ts < Ttl
      BY <1>2, <2>3, HomeAssumption
      DEF GetHit, Fresh, EntriesAreOfTheirTime, TypeOK, HomeAssumption
    <3>2. Until(e.policy) \in Nat /\ e.ts \in Nat /\ now[t] \in Nat /\ e.policy \in 0..MaxVersion
      BY <1>2, <3>1 DEF Until, TypeOK, Entry, Versions
    <3>3. Served(e.policy, now[t])
      BY <3>1, <3>2, TtlAssumption DEF Served, TtlAssumption
    <3>4. answer'[t] = [policy |-> e.policy, asked |-> now[t], reached |-> TRUE]
      BY <1>2, <2>3 DEF GetHit, Return, TypeOK
    <3> QED BY <3>2, <3>3, <3>4, AgeKept
  <2>4. CASE Store(t)
    <3>1. SeenSince(policy[t], now[t]) /\ policy[t] \in 0..MaxVersion /\ now[t] \in Nat
      BY <1>2, <2>4 DEF Store, Goto, FetchesAreOfTheirTime, TypeOK
    <3>2. Served(policy[t], now[t])
      BY <3>1 DEF Served
    <3>3. answer'[t] = [policy |-> policy[t], asked |-> now[t], reached |-> TRUE]
      BY <1>2, <2>4 DEF Store, Return, TypeOK
    <3> QED BY <3>1, <3>2, <3>3, AgeKept
  <2>5. ASSUME NEW u \in Threads, Get(u) \/ Put(u)
        PROVE  \/ answer'[t] = answer[t]
               \/ answer'[t].reached = FALSE
               \/ GetHit(t) \/ Store(t)
    <3>1. CASE GetBegin(u) \/ FetchFails(u)
      BY <1>2, <3>1 DEF GetBegin, FetchFails, Return, NoAnswer, TypeOK
    <3>2. CASE GetHit(u) \/ Store(u)
      BY <1>2, <3>2 DEF GetHit, Store, Return, TypeOK
    <3>3. CASE GetMiss(u) \/ Fetch(u) \/ Put(u)
      BY <3>3 DEF GetMiss, Fetch, Put, PutSaved, PutUnanswered, Invalidate, gets
    <3> QED BY <2>5, <3>1, <3>2, <3>3 DEF Get
  <2>6. CASE Tick \/ UNCHANGED vars
    BY <2>2, <2>6 DEF Tick, vars, gets
  <2> QED
    BY <1>10, <2>2, <2>3, <2>4, <2>5, <2>6 DEF Next
<1>11. ASSUME NEW r \in Replicas
       PROVE  floor'[r] <= pdp' /\ (entries'[r] # NoEntry => entries'[r].policy >= floor'[r])
  <2>1. pdp \in Nat /\ pdp' \in Nat /\ floor[r] \in Nat /\ floor[r] <= pdp
    BY <1>1, <1>2 DEF TypeOK, FloorsHold
  <2>2. CASE floor'[r] = floor[r] /\ entries'[r] = entries[r]
    BY <1>2, <1>3, <2>1, <2>2 DEF FloorsHold
  <2>3. ASSUME NEW t \in Threads, Store(t), Home[t] = r
        PROVE  floor'[r] = floor[r] /\ entries'[r].policy = policy[t] /\ policy[t] >= floor[r]
    BY <1>2, <2>3 DEF Store, Goto, FloorsHold, TypeOK
  <2>4. ASSUME NEW t \in Threads, Invalidate(t), Home[t] = r
        PROVE  entries'[r] = NoEntry /\ floor'[r] \in {floor[r], policy[t]} /\ policy[t] <= pdp
               /\ policy[t] \in Nat
    BY <1>2, <2>4 DEF Invalidate, Goto, FetchesAreOfTheirTime, TypeOK
  <2>5. \/ floor'[r] = floor[r] /\ entries'[r] = entries[r]
        \/ \E t \in Threads : (Store(t) \/ Invalidate(t)) /\ Home[t] = r
    BY <1>2 DEF Next, vars, Get, Put, Tick, GetBegin, GetHit, GetMiss,
       Fetch, FetchFails, Store, Return, PutSaved, PutUnanswered, Invalidate, Goto, gets, TypeOK
  <2> QED BY <1>3, <2>1, <2>2, <2>3, <2>4, <2>5
<1>12. ASSUME NEW t \in Threads, pc'[t] = "store" PROVE policy'[t] >= floor'[Home[t]]
  <2>1. Home[t] \in Replicas /\ floor[Home[t]] \in Nat /\ policy[t] \in Nat /\ pdp \in Nat
    BY <1>2, HomeAssumption DEF TypeOK, HomeAssumption
  <2>2. CASE Fetch(t)
    BY <1>2, <2>1, <2>2 DEF Fetch, FloorsHold, TypeOK
  <2>3. ASSUME pc[t] = "store", policy'[t] = policy[t], floor'[Home[t]] = floor[Home[t]]
        PROVE  policy'[t] >= floor'[Home[t]]
    BY <1>2, <2>3 DEF FloorsHold
  <2>4. ASSUME NEW u \in Threads, u # t, Invalidate(u), Home[u] = Home[t]
        PROVE  policy'[t] >= floor'[Home[t]]
    <3>1. /\ policy'[t] = policy[t]
          /\ pc[t] = "store"
          /\ policy[u] \in Nat
          /\ floor'[Home[t]] = IF policy[u] > floor[Home[t]] /\ ~OlderFetchInFlight(Home[t], policy[u])
                               THEN policy[u] ELSE floor[Home[t]]
      BY <1>2, <1>12, <2>1, <2>4 DEF Invalidate, Goto, TypeOK
    <3>2. policy[t] >= floor[Home[t]]
      BY <1>2, <3>1 DEF FloorsHold
    <3>3. ~OlderFetchInFlight(Home[t], policy[u]) => policy[t] >= policy[u]
      BY <2>1, <3>1 DEF OlderFetchInFlight
    <3> QED BY <3>1, <3>2, <3>3
  <2>5. \/ Fetch(t)
        \/ pc[t] = "store" /\ policy'[t] = policy[t] /\ floor'[Home[t]] = floor[Home[t]]
        \/ \E u \in Threads : u # t /\ Invalidate(u) /\ Home[u] = Home[t]
    <3>1. ASSUME NEW u \in Threads, Get(u) \/ PutSaved(u) \/ PutUnanswered(u)
          PROVE  \/ Fetch(t)
                 \/ pc[t] = "store" /\ policy'[t] = policy[t] /\ floor' = floor
      BY <1>2, <1>12, <3>1 DEF Get, GetBegin, GetHit, GetMiss, Fetch, FetchFails, Store,
         Return, PutSaved, PutUnanswered, Goto, gets, TypeOK
    <3>2. ASSUME NEW u \in Threads, Invalidate(u)
          PROVE  /\ u # t
                 /\ pc[t] = "store" /\ policy'[t] = policy[t]
                 /\ Home[u] # Home[t] => floor'[Home[t]] = floor[Home[t]]
      BY <1>2, <1>12, <2>1, <3>2 DEF Invalidate, Goto, TypeOK
    <3>3. CASE Tick \/ UNCHANGED vars
      BY <1>12, <3>3 DEF Tick, vars
    <3> QED BY <3>1, <3>2, <3>3 DEF Next, Put
  <2> QED BY <2>2, <2>3, <2>4, <2>5
<1> QED
  BY <1>1, <1>4, <1>5, <1>6, <1>7, <1>8, <1>9, <1>10, <1>11, <1>12
  DEF IInv, PastHistory, EntriesAreOfTheirTime, FetchesAreOfTheirTime, AnswersAreRecent, FloorsHold

-----------------------------------------------------------------------------

(* The inductive invariant holds of an empty cache that nobody asks.       *)
LEMMA InitiallyInv == Init => IInv
<1> SUFFICES ASSUME Init PROVE IInv
  OBVIOUS
<1> USE BoundsAssumption DEF BoundsAssumption, Init
<1>1. TypeOK
  BY DEF TypeOK, PCs, NoAnswer
<1>2. PastHistory /\ EntriesAreOfTheirTime /\ FetchesAreOfTheirTime
  BY DEF PastHistory, EntriesAreOfTheirTime, FetchesAreOfTheirTime
<1>3. AnswersAreRecent /\ FloorsHold
  BY DEF AnswersAreRecent, NoAnswer, FloorsHold
<1> QED BY <1>1, <1>2, <1>3 DEF IInv

(* No step of a get, a save or the clock breaks it: the steps are taken    *)
(* apart in Preserved.                                                     *)
THEOREM Invariance == Spec => []IInv
BY InitiallyInv, Preserved, PTL DEF Spec

(* TypeOK is an invariant of the cache, whatever the threads interleave.   *)
THEOREM Typing == Spec => []TypeOK
<1>1. IInv => TypeOK
  BY DEF IInv
<1> QED BY <1>1, Invariance, PTL

(* A policy that get() returns as the PDP's was in force less than Ttl     *)
(* before the call: the timestamp is read before the entry and before the  *)
(* fetch, so it is never later than what it vouches for.                   *)
THEOREM Staleness == Spec => []BoundedStaleness
<1>1. IInv => BoundedStaleness
  BY DEF IInv, AnswersAreRecent, Served, Until, BoundedStaleness, Register!BoundedStaleness,
     Register!FreshAt, Register!InForceUntil
<1> QED BY <1>1, Invariance, PTL

(* After a save that no older fetch of its process overlapped, that        *)
(* process's cache holds the saved version or a newer one.                 *)
THEOREM SavedIsServed == Spec => []SavedPolicyIsServed
<1>1. IInv => SavedPolicyIsServed
  BY DEF IInv, FloorsHold, SavedPolicyIsServed
<1> QED BY <1>1, Invariance, PTL

-----------------------------------------------------------------------------

(* A get() is one question to the register: it is asked where the clock is *)
(* read and answered where the call returns; a miss and a completed fetch  *)
(* change nothing the caller sees.                                         *)
LEMMA StepRefines == IInv /\ [Next]_vars => [Register!Next]_Register!vars
<1> SUFFICES ASSUME IInv, [Next]_vars PROVE [Register!Next]_Register!vars
  OBVIOUS
<1> USE DEF Register!vars, Register!NotAsking
<1> DEFINE asks == [t \in Threads |-> IF pc[t] \in {"look", "fetch", "store"} THEN now[t] ELSE -1]
<1>0. TypeOK
  BY DEF IInv
<1>1. CASE Tick
  BY <1>1 DEF Tick, Register!Next, Register!Tick, gets
<1>2. ASSUME NEW t \in Threads, GetBegin(t) PROVE Register!Ask(t)
  <2>1. asks[t] = -1 /\ asks' = [asks EXCEPT ![t] = clock]
    BY <1>0, <1>2 DEF GetBegin, Goto, TypeOK
  <2> QED BY <1>2, <2>1 DEF GetBegin, Register!Ask, NoAnswer, Register!NoAnswer
<1>3. ASSUME NEW t \in Threads, GetMiss(t) \/ Fetch(t) PROVE UNCHANGED Register!vars
  <2>1. asks' = asks
    BY <1>0, <1>3 DEF GetMiss, Fetch, Goto, TypeOK, gets
  <2> QED BY <1>3, <2>1 DEF GetMiss, Fetch, gets
<1>4. ASSUME NEW t \in Threads,
             pc[t] \in {"look", "fetch", "store"}, pc' = [pc EXCEPT ![t] = "idle"],
             now' = [now EXCEPT ![t] = 0]
      PROVE  /\ asks[t] = now[t] /\ now[t] # -1
             /\ asks' = [asks EXCEPT ![t] = -1]
  <2>1. pc \in [Threads -> PCs] /\ now \in [Threads -> Nat]
    BY <1>0 DEF TypeOK
  <2>2. asks[t] = now[t]
    BY <1>4
  <2>3. now[t] # -1
    BY <2>1
  <2>4. asks' = [asks EXCEPT ![t] = -1]
    BY <1>4, <2>1 DEF Return
  <2> QED BY <2>2, <2>3, <2>4
<1>5. ASSUME NEW t \in Threads, GetHit(t) PROVE Register!Answer(t)
  <2> DEFINE e == entries[Home[t]]
  <2>1. e \in Entry /\ SeenSince(e.policy, e.ts) /\ now[t] - e.ts < Ttl
    BY <1>0, <1>5, HomeAssumption
    DEF GetHit, Fresh, IInv, EntriesAreOfTheirTime, TypeOK, HomeAssumption
  <2>2. Until(e.policy) \in Nat /\ e.ts \in Nat /\ now[t] \in Nat /\ e.policy \in 0..MaxVersion
    <3>1. e.policy \in 1..MaxVersion /\ e.ts \in Nat
      BY <2>1 DEF Entry, Versions
    <3>2. e.policy \in 0..MaxVersion
      BY <3>1, BoundsAssumption DEF BoundsAssumption
    <3>3. \A v \in 0..MaxVersion : Until(v) \in Nat
      BY <1>0 DEF Until, TypeOK
    <3>4. now[t] \in Nat
      BY <1>0 DEF TypeOK
    <3> QED BY <3>1, <3>2, <3>3, <3>4
  <2>3. e.policy \in 1..pdp /\ Register!FreshAt(e.policy, now[t])
    BY <2>1, <2>2, TtlAssumption DEF SeenSince, Until, Register!FreshAt, Register!InForceUntil,
       TtlAssumption
  <2>4. asks[t] = now[t] /\ now[t] # -1 /\ asks' = [asks EXCEPT ![t] = -1]
    BY <1>4, <1>5 DEF GetHit, Goto, Return
  <2> QED BY <1>5, <2>3, <2>4 DEF GetHit, Return, Register!Answer
<1>6. ASSUME NEW t \in Threads, Store(t) PROVE Register!Answer(t)
  <2>1. SeenSince(policy[t], now[t]) /\ policy[t] \in Nat /\ asks[t] = now[t]
    BY <1>0, <1>6 DEF Store, Goto, IInv, FetchesAreOfTheirTime, TypeOK
  <2>2. policy[t] \in 1..pdp /\ Register!FreshAt(policy[t], now[t])
    BY <2>1 DEF SeenSince, Until, Register!FreshAt, Register!InForceUntil
  <2>3. asks[t] = now[t] /\ now[t] # -1 /\ asks' = [asks EXCEPT ![t] = -1]
    BY <1>4, <1>6 DEF Store, Goto, Return
  <2> QED BY <1>6, <2>1, <2>2, <2>3 DEF Store, Return, Register!Answer
<1>7. ASSUME NEW t \in Threads, FetchFails(t) PROVE Register!AnswerUnreached(t)
  <2> DEFINE p == IF entry[t] = NoEntry THEN 0 ELSE entry[t].policy
  <2>1. p \in 0..pdp
    BY <1>0 DEF IInv, FetchesAreOfTheirTime, TypeOK, Entry, Versions
  <2>2. asks[t] = now[t] /\ now[t] # -1 /\ asks' = [asks EXCEPT ![t] = -1]
    BY <1>4, <1>7 DEF FetchFails, Goto, Return
  <2> QED BY <1>7, <2>1, <2>2 DEF FetchFails, Return, Register!AnswerUnreached
<1>8. ASSUME NEW t \in Threads, PutSaved(t) \/ PutUnanswered(t) PROVE Register!Save
  <2>1. asks' = asks
    BY <1>0, <1>8 DEF PutSaved, PutUnanswered, Goto, TypeOK, gets
  <2> QED BY <1>8, <2>1 DEF PutSaved, PutUnanswered, SaveOnPdp, Register!Save, gets
<1>9. ASSUME NEW t \in Threads, Invalidate(t) PROVE UNCHANGED Register!vars
  <2>1. asks' = asks
    BY <1>0, <1>9 DEF Invalidate, Goto, TypeOK, gets
  <2> QED BY <1>9, <2>1 DEF Invalidate, gets
<1>10. CASE UNCHANGED vars
  BY <1>10 DEF vars
<1> QED
  BY <1>1, <1>2, <1>3, <1>5, <1>6, <1>7, <1>8, <1>9, <1>10 DEF Next, Get, Put, Register!Next

(* The cache with its lock held only around the dictionary, its fetches in *)
(* flight and its invalidations is, to the login path, a register of       *)
(* bounded staleness.                                                      *)
THEOREM Refinement == Spec => ImplementsRegister
<1>1. Init => Register!Init
  BY DEF Init, Register!Init, Register!NotAsking, NoAnswer, Register!NoAnswer
<1> QED BY <1>1, Invariance, StepRefines, PTL DEF Spec, ImplementsRegister, Register!Spec

=============================================================================
