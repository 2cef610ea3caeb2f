------------------------- MODULE SessionLocksProofs -------------------------
(***************************************************************************)
(* Mutual exclusion of the lock caches that check for waiters, and of all  *)
(* of them while no more sessions exist than they have entries, for any    *)
(* number of tasks, keys and lock objects.  The invariant Inv of           *)
(* SessionLocks is inductive: an entry is evicted or dropped only when     *)
(* nobody holds or awaits its lock, so every task inside or queued has the *)
(* lock the cache still holds for its key, and two tasks inside for one    *)
(* key would hold one lock.  And the bound on what any of the caches keeps. *)
(***************************************************************************)
EXTENDS SessionLocks, FiniteSetTheorems, TLAPS

\* What a trim evicts is idle: not held, and with nobody queued for it.
LEMMA EvictsIdle ==
    ASSUME Sound, NEW k \in Keys, NEW gone \in SUBSET Keys, Trims(k, gone)
    PROVE  \A j \in gone : j \in Keys \ {k} /\ lock[j] # NoLock /\ Idle(lock[j])
<1>1. gone \in SUBSET Evictable(k)
  BY DEF Trims
<1>2. CASE CheckWaiters
  BY <1>1, <1>2 DEF Evictable, Cached, MayEvict
<1>3. CASE Cardinality(Keys) <= Cap
  <2>1. Cached \cup {k} \subseteq Keys
    BY DEF Cached
  <2>2. IsFiniteSet(Keys) /\ Cap \in Nat
    BY LocksAssumption
  <2>3. /\ Cardinality(Cached \cup {k}) <= Cardinality(Keys)
        /\ Cardinality(Cached \cup {k}) \in Nat /\ Cardinality(Keys) \in Nat
    BY <2>1, <2>2, FS_Subset, FS_CardinalityType
  <2>4. Cardinality(Cached \cup {k}) - Cap <= 0
    BY <1>3, <2>2, <2>3
  <2>5. gone = {}
    BY <2>2, <2>3, <2>4 DEF Trims
  <2> QED BY <2>5
<1> QED
  BY <1>2, <1>3 DEF Sound

\* A task that is not outside keeps its lock's entry: an idle lock is not its.
LEMMA IdleIsNobodys ==
    ASSUME TypeOK, HolderHolds, NEW t \in Tasks, at[t] # "out", NEW l, Idle(l)
    PROVE  mine[t] # l
BY DEF TypeOK, HolderHolds, Idle, Waiters

\* The initial state satisfies the invariant: nobody asked for a lock yet.
LEMMA InitInv == Init => Inv
BY DEF Init, Inv, TypeOK, SharesCached, HolderHolds, OneInside

\* Taking an idle or fresh lock keeps the invariant's parts about holders.
LEMMA ArriveInv ==
    ASSUME Inv, NEW t \in Tasks, NEW k \in Keys, Arrive(t, k)
    PROVE  Inv'
<1> USE LocksAssumption
<1>0. lock[k] \in Locks /\ mine' = [mine EXCEPT ![t] = lock[k]]
      /\ key' = [key EXCEPT ![t] = k] /\ lock' = lock /\ at[t] = "out"
  BY DEF Arrive, Asks, Inv, TypeOK
<1>1. CASE Idle(lock[k]) /\ Takes(t, lock[k])
  <2>0. /\ at' = [at EXCEPT ![t] = "in"]
        /\ held' = [held EXCEPT ![lock[k]] = TRUE]
    BY <1>1 DEF Takes
  <2>1. TypeOK'
    BY <1>0, <2>0 DEF Inv, TypeOK
  <2>2. SharesCached'
    BY <1>0, <2>0 DEF Inv, TypeOK, SharesCached
  <2>3. HolderHolds'
    BY <1>0, <2>0 DEF Inv, TypeOK, HolderHolds
  <2>4. \A u \in Tasks : at[u] # "out" => mine[u] # lock[k]
    BY <1>1, IdleIsNobodys DEF Inv
  <2>5. OneInside'
    BY <1>0, <2>0, <2>4 DEF Inv, TypeOK, OneInside
  <2> QED
    BY <2>1, <2>2, <2>3, <2>5 DEF Inv
<1>2. CASE at' = [at EXCEPT ![t] = "waiting"] /\ held' = held
  BY <1>0, <1>2 DEF Inv, TypeOK, SharesCached, HolderHolds, OneInside
<1> QED
  BY <1>1, <1>2 DEF Arrive

\* A new lock is nobody's, and the trim that makes room evicts only idle ones.
LEMMA ArriveNewInv ==
    ASSUME Sound, Inv, NEW t \in Tasks, NEW k \in Keys, NEW l \in Locks,
           ArriveNew(t, k, l)
    PROVE  Inv'
<1> USE LocksAssumption
<1>0. PICK gone \in SUBSET Keys :
          /\ Trims(k, gone)
          /\ lock' = [j \in Keys |-> IF j = k THEN l
                                     ELSE IF j \in gone THEN NoLock ELSE lock[j]]
  BY DEF ArriveNew
<1>1. /\ lock[k] = NoLock
      /\ Unused(l)
      /\ at[t] = "out"
      /\ key' = [key EXCEPT ![t] = k]
      /\ mine' = [mine EXCEPT ![t] = l]
      /\ at' = [at EXCEPT ![t] = "in"]
      /\ held' = [held EXCEPT ![l] = TRUE]
  BY DEF ArriveNew, Asks, Takes
<1>2. TypeOK'
  BY <1>0, <1>1 DEF Inv, TypeOK
<1>3. ASSUME NEW u \in Tasks, u # t, at[u] # "out"
      PROVE  key[u] # k /\ key[u] \notin gone /\ mine[u] # l
  <2>1. mine[u] = lock[key[u]] /\ mine[u] # NoLock /\ key[u] \in Keys
    BY <1>3 DEF Inv, TypeOK, SharesCached
  <2>2. key[u] # k
    BY <1>1, <2>1
  <2>3. key[u] \notin gone
    BY <1>0, <1>3, <2>1, EvictsIdle, IdleIsNobodys DEF Inv
  <2>4. mine[u] # l
    BY <1>1, <1>3 DEF Unused
  <2> QED
    BY <2>2, <2>3, <2>4
<1>4. SharesCached'
  BY <1>0, <1>1, <1>3 DEF Inv, TypeOK, SharesCached
<1>5. HolderHolds'
  BY <1>1, <1>3 DEF Inv, TypeOK, HolderHolds
<1>6. OneInside'
  BY <1>1, <1>3 DEF Inv, TypeOK, OneInside
<1> QED
  BY <1>2, <1>4, <1>5, <1>6 DEF Inv

\* A woken task finds the lock free, so nobody is inside with it.
LEMMA ResumeInv ==
    ASSUME Inv, NEW t \in Tasks, Resume(t)
    PROVE  Inv'
<1>0. /\ at[t] = "waiting" /\ ~held[mine[t]]
      /\ at' = [at EXCEPT ![t] = "in"]
      /\ held' = [held EXCEPT ![mine[t]] = TRUE]
      /\ UNCHANGED <<lock, key, mine>>
  BY DEF Resume, Takes
<1>1. mine[t] \in Locks
  BY <1>0 DEF Inv, TypeOK, SharesCached
<1>2. \A u \in Tasks : at[u] = "in" => mine[u] # mine[t]
  BY <1>0 DEF Inv, HolderHolds
<1> QED
  BY <1>0, <1>1, <1>2 DEF Inv, TypeOK, SharesCached, HolderHolds, OneInside

\* A task that leaves releases its own lock, which nobody else holds.
LEMMA LeaveInv ==
    ASSUME Inv, NEW t \in Tasks, Leave(t)
    PROVE  Inv'
<1>0. /\ at[t] = "in"
      /\ at' = [at EXCEPT ![t] = "out"]
      /\ held' = [held EXCEPT ![mine[t]] = FALSE]
      /\ UNCHANGED <<lock, key, mine>>
  BY DEF Leave
<1>1. \A u \in Tasks : u # t /\ at[u] = "in" => mine[u] # mine[t]
  BY <1>0 DEF Inv, OneInside
<1> QED
  BY <1>0, <1>1 DEF Inv, TypeOK, SharesCached, HolderHolds, OneInside

\* A cancelled waiter only leaves the queue.
LEMMA CancelInv ==
    ASSUME Inv, NEW t \in Tasks, Cancel(t)
    PROVE  Inv'
BY DEF Cancel, Inv, TypeOK, SharesCached, HolderHolds, OneInside

\* Dropping an idle entry takes nobody's lock away.
LEMMA DropInv ==
    ASSUME Inv, NEW k \in Keys, Drop(k)
    PROVE  Inv'
<1>0. /\ Idle(lock[k])
      /\ lock' = [lock EXCEPT ![k] = NoLock]
      /\ UNCHANGED <<held, at, key, mine>>
  BY DEF Drop
<1>1. \A u \in Tasks : at[u] # "out" => key[u] # k
  BY <1>0, IdleIsNobodys DEF Inv, SharesCached
<1> QED
  BY <1>0, <1>1 DEF Inv, TypeOK, SharesCached, HolderHolds, OneInside

\* Every step of a cache that checks for waiters keeps the invariant.
LEMMA NextInv ==
    ASSUME Sound, Inv, [Next]_vars
    PROVE  Inv'
<1>1. CASE \E t \in Tasks, k \in Keys : Arrive(t, k)
  BY <1>1, ArriveInv
<1>2. CASE \E t \in Tasks, k \in Keys, l \in Locks : ArriveNew(t, k, l)
  BY <1>2, ArriveNewInv
<1>3. CASE \E t \in Tasks : Resume(t)
  BY <1>3, ResumeInv
<1>4. CASE \E t \in Tasks : Cancel(t)
  BY <1>4, CancelInv
<1>5. CASE \E t \in Tasks : Leave(t)
  BY <1>5, LeaveInv
<1>6. CASE \E k \in Keys : Drop(k)
  BY <1>6, DropInv
<1>7. CASE UNCHANGED vars
  BY <1>7 DEF vars, Inv, TypeOK, SharesCached, HolderHolds, OneInside
<1> QED
  BY <1>1, <1>2, <1>3, <1>4, <1>5, <1>6, <1>7 DEF Next

\* LocksInvariant: the invariant of a cache whose trim spares locks with
\* waiters (_trim_exec_log_chain_lock_cache), or has nothing to trim.
THEOREM LocksInvariant == Sound => (Spec => []Inv)
<1>1. ASSUME Sound, Inv, [Next]_vars PROVE Inv'
  BY <1>1, NextInv
<1>2. CASE Sound
  <2>1. Inv /\ [Next]_vars => Inv'
    BY <1>1, <1>2
  <2> QED
    BY <2>1, InitInv, PTL DEF Spec
<1> QED
  BY <1>2

\* LocksExclude: for one session at most one task is in its critical section,
\* as audit_chain_lock.py:70-72 claims for the audit-chain locks; for create
\* and recovery locks while their caches are not outgrown.
THEOREM LocksExclude == Sound => (Spec => []MutualExclusion)
<1>1. Inv => MutualExclusion
  BY DEF Inv, SharesCached, OneInside, MutualExclusion
<1> QED
  BY <1>1, LocksInvariant, PTL

-----------------------------------------------------------------------------
(* The bound on the cache.                                                 *)

\* A lock that is locked has a task inside, and no two keys have one lock.
InUse ==
    /\ \A l \in Locks : held[l] => \E t \in Tasks : at[t] = "in" /\ mine[t] = l
    /\ \A j, k \in Cached : lock[j] = lock[k] => j = k

Bounded == TypeOK /\ InUse /\ CacheBounded

\* The bound, as a number.
LEMMA TheBound ==
    ASSUME NEW S, S \subseteq Keys
    PROVE  /\ Cap \in Nat /\ Cardinality(Tasks) \in Nat
           /\ IsFiniteSet(S) /\ Cardinality(S) \in Nat
           /\ Cardinality(S) <= (IF Cap > Cardinality(Tasks) THEN Cap ELSE Cardinality(Tasks))
                <=> Cardinality(S) <= Cap \/ Cardinality(S) <= Cardinality(Tasks)
<1>1. Cap \in Nat /\ IsFiniteSet(Tasks) /\ IsFiniteSet(Keys)
      BY LocksAssumption
<1>2. IsFiniteSet(S)
      BY <1>1, FS_Subset
<1>3. Cardinality(Tasks) \in Nat /\ Cardinality(S) \in Nat
      BY <1>1, <1>2, FS_CardinalityType
<1> QED BY <1>1, <1>2, <1>3

\* What a full trim leaves is used, by tasks other than the one that asked.
LEMMA LeftAreUsed ==
    ASSUME TypeOK, InUse, NEW t \in Tasks, at[t] = "out", NEW k \in Keys,
           NEW rest, rest = Cached \ ({k} \cup Evictable(k))
    PROVE  Cardinality(rest) <= Cardinality(Tasks) - 1
<1>1. \A j \in rest : \E u \in Tasks \ {t} : mine[u] = lock[j]
  <2> SUFFICES ASSUME NEW j \in rest PROVE \E u \in Tasks \ {t} : mine[u] = lock[j]
      OBVIOUS
  <2>1. j \in Keys /\ lock[j] # NoLock /\ ~MayEvict(j) /\ lock[j] \in Locks
        BY DEF Evictable, Cached, TypeOK
  <2>2. held[lock[j]] \/ Waiters(lock[j]) # {}
        BY <2>1 DEF MayEvict, Idle, TypeOK
  <2>3. \E u \in Tasks : at[u] # "out" /\ mine[u] = lock[j]
        BY <2>1, <2>2 DEF InUse, Waiters
  <2> QED BY <2>3
<1> DEFINE f == [j \in rest |-> CHOOSE u \in Tasks \ {t} : mine[u] = lock[j]]
<1>2. \A j \in rest : f[j] \in Tasks \ {t} /\ mine[f[j]] = lock[j]
      BY <1>1
<1>3. \A i, j \in rest : lock[i] = lock[j] => i = j
      BY DEF InUse
<1>4. f \in [rest -> Tasks \ {t}]
      BY <1>2
<1> HIDE DEF f
<1>5. \A i, j \in rest : f[i] = f[j] => i = j
      BY <1>2, <1>3
<1>6. f \in Injection(rest, Tasks \ {t})
      BY <1>4, <1>5 DEF Injection, IsInjective
<1>7. /\ IsFiniteSet(Tasks \ {t})
      /\ Cardinality(Tasks \ {t}) = Cardinality(Tasks) - 1
      BY FS_RemoveElement, LocksAssumption
<1> QED BY <1>6, <1>7, FS_Injection

\* A new entry: the trim met the cap, or left only what is used.
LEMMA ArriveNewBounded ==
    ASSUME Bounded, NEW t \in Tasks, NEW k \in Keys, NEW l \in Locks, ArriveNew(t, k, l)
    PROVE  Bounded'
<1>0. PICK gone \in SUBSET Keys :
          /\ Trims(k, gone)
          /\ lock' = [j \in Keys |-> IF j = k THEN l
                                     ELSE IF j \in gone THEN NoLock ELSE lock[j]]
  BY DEF ArriveNew
<1>1. /\ lock[k] = NoLock /\ Unused(l) /\ at[t] = "out"
      /\ key' = [key EXCEPT ![t] = k]
      /\ mine' = [mine EXCEPT ![t] = l]
      /\ at' = [at EXCEPT ![t] = "in"]
      /\ held' = [held EXCEPT ![l] = TRUE]
  BY DEF ArriveNew, Asks, Takes
<1>2. TypeOK'
  BY <1>0, <1>1 DEF Bounded, TypeOK
<1>3. k \notin gone /\ gone \subseteq Cached
  BY <1>0 DEF Trims, Evictable
<1>4. Cached' = (Cached \cup {k}) \ gone
  <2>1. l # NoLock
    BY LocksAssumption
  <2> QED BY <1>0, <1>3, <2>1 DEF Cached
<1>5. InUse'
  <2>1. \A m \in Locks : held'[m] => \E u \in Tasks : at'[u] = "in" /\ mine'[u] = m
    BY <1>1 DEF Bounded, TypeOK, InUse
  <2>2. \A i, j \in Cached' : lock'[i] = lock'[j] => i = j
    BY <1>0, <1>1, <1>4 DEF Bounded, InUse, Unused, Cached
  <2> QED BY <2>1, <2>2 DEF InUse
<1>6. /\ IsFiniteSet(Cached) /\ Cap \in Nat /\ Cardinality(Tasks) \in Nat
      /\ Cardinality(Cached') \in Nat
  <2>1. Cached \subseteq Keys /\ Cached' \subseteq Keys
    BY DEF Cached
  <2> QED BY <2>1, TheBound
<1>7. Cardinality(Cached') <= Cap \/ Cardinality(Cached') <= Cardinality(Tasks)
  <2>1. /\ IsFiniteSet(Cached \cup {k}) /\ Cardinality(Cached \cup {k}) \in Nat
        /\ (Cached \cup {k}) \cap gone = gone
        /\ IsFiniteSet(gone) /\ Cardinality(gone) \in Nat
    BY <1>3, <1>6, FS_AddElement, FS_Subset, FS_CardinalityType
  <2>2. Cardinality(Cached') = Cardinality(Cached \cup {k}) - Cardinality(gone)
    <3>1. Cardinality((Cached \cup {k}) \ gone)
            = Cardinality(Cached \cup {k}) - Cardinality((Cached \cup {k}) \cap gone)
      BY <2>1, FS_Difference
    <3> QED BY <1>4, <2>1, <3>1
  <2>3. CASE Cardinality(Cached \cup {k}) - Cap <= 0
    BY <1>6, <2>1, <2>2, <2>3
  <2>4. CASE Cardinality(gone) = Cardinality(Cached \cup {k}) - Cap
    BY <1>6, <2>1, <2>2, <2>4
  <2>5. CASE gone = Evictable(k)
    <3> DEFINE rest == Cached \ ({k} \cup Evictable(k))
    <3>1. Cardinality(rest) <= Cardinality(Tasks) - 1
      BY <1>1, LeftAreUsed DEF Bounded
    <3>2. Cached' = rest \cup {k} /\ IsFiniteSet(rest)
      BY <1>3, <1>4, <1>6, <2>5, FS_Difference
    <3>3. /\ Cardinality(rest) \in Nat
          /\ Cardinality(rest \cup {k}) = IF k \in rest THEN Cardinality(rest) ELSE Cardinality(rest) + 1
      BY <3>2, FS_AddElement, FS_CardinalityType
    <3>4. Cardinality(Cached') <= Cardinality(rest) + 1
      BY <3>2, <3>3
    <3> QED BY <1>6, <3>1, <3>3, <3>4
  <2> QED BY <1>0, <2>3, <2>4, <2>5 DEF Trims
<1>8. CacheBounded'
  <2>1. Cached' \subseteq Keys
    BY DEF Cached
  <2> QED BY <1>7, <2>1, TheBound DEF CacheBounded
<1> QED BY <1>2, <1>5, <1>8 DEF Bounded

\* No other step adds an entry.
LEMMA OthersBounded ==
    ASSUME Bounded,
           \/ \E t \in Tasks : \/ \E k \in Keys : Arrive(t, k)
                               \/ Resume(t) \/ Cancel(t) \/ Leave(t)
           \/ \E k \in Keys : Drop(k)
           \/ UNCHANGED vars
    PROVE  Bounded'
<1>1. TypeOK'
  BY DEF Arrive, Asks, Resume, Cancel, Leave, Drop, Takes, vars, Bounded, TypeOK
<1>2. \A j \in Keys : lock'[j] = lock[j] \/ lock'[j] = NoLock
  BY DEF Arrive, Asks, Resume, Cancel, Leave, Drop, Takes, vars, Bounded, TypeOK
<1>3. Cached' \subseteq Cached
  BY <1>2 DEF Cached
<1>4. \A i, j \in Cached' : lock'[i] = lock'[j] => i = j
  BY <1>2 DEF Cached, Bounded, InUse
<1>5. \A l \in Locks : held'[l] => \E u \in Tasks : at'[u] = "in" /\ mine'[u] = l
  <2>1. CASE UNCHANGED <<held, at, mine>>
    BY <2>1 DEF Bounded, InUse
  <2>2. ASSUME NEW t \in Tasks, NEW k \in Keys, Arrive(t, k)
        PROVE  \A l \in Locks : held'[l] => \E u \in Tasks : at'[u] = "in" /\ mine'[u] = l
    BY <2>2 DEF Arrive, Asks, Takes, Bounded, TypeOK, InUse
  <2>3. ASSUME NEW t \in Tasks, Resume(t)
        PROVE  \A l \in Locks : held'[l] => \E u \in Tasks : at'[u] = "in" /\ mine'[u] = l
    BY <2>3 DEF Resume, Takes, Bounded, TypeOK, InUse
  <2>4. ASSUME NEW t \in Tasks, Cancel(t)
        PROVE  \A l \in Locks : held'[l] => \E u \in Tasks : at'[u] = "in" /\ mine'[u] = l
    BY <2>4 DEF Cancel, Bounded, TypeOK, InUse
  <2>5. ASSUME NEW t \in Tasks, Leave(t)
        PROVE  \A l \in Locks : held'[l] => \E u \in Tasks : at'[u] = "in" /\ mine'[u] = l
    BY <2>5 DEF Leave, Bounded, TypeOK, InUse
  <2> QED BY <2>1, <2>2, <2>3, <2>4, <2>5 DEF Drop, vars
<1>6. CacheBounded'
  <2>1. /\ Cap \in Nat /\ Cardinality(Tasks) \in Nat /\ IsFiniteSet(Cached)
        /\ Cardinality(Cached) \in Nat
        /\ Cardinality(Cached) <= Cap \/ Cardinality(Cached) <= Cardinality(Tasks)
    <3>1. Cached \subseteq Keys
      BY DEF Cached
    <3> QED BY <3>1, TheBound DEF Bounded, CacheBounded
  <2>2. Cardinality(Cached') <= Cardinality(Cached) /\ Cardinality(Cached') \in Nat
    BY <1>3, <2>1, FS_Subset, FS_CardinalityType
  <2> QED BY <2>1, <2>2 DEF CacheBounded
<1> QED BY <1>1, <1>4, <1>5, <1>6 DEF Bounded, InUse

\* CacheStaysBounded: no cache, whether its trim asks for waiters or not,
\* keeps more entries than its cap or the tasks there are, whichever is more
\* (_trim_exec_log_chain_lock_cache, _trim_session_create_lock_cache,
\* _trim_recovery_lock_cache).
THEOREM CacheStaysBounded == Spec => []CacheBounded
<1>1. Init => Bounded
  <2> SUFFICES ASSUME Init PROVE Bounded
    OBVIOUS
  <2>1. TypeOK /\ Cached = {}
    BY DEF Init, TypeOK, Cached
  <2>2. InUse
    BY <2>1 DEF Init, InUse
  <2>3. CacheBounded
    <3>1. Cached \subseteq Keys /\ Cardinality(Cached) = 0
      BY <2>1, FS_EmptySet
    <3>2. Cap \in Nat /\ Cardinality(Cached) <= Cap
      BY <3>1, LocksAssumption
    <3> QED BY <3>1, <3>2, TheBound DEF CacheBounded
  <2> QED BY <2>1, <2>2, <2>3 DEF Bounded
<1>2. Bounded /\ [Next]_vars => Bounded'
  BY ArriveNewBounded, OthersBounded DEF Next
<1>3. Bounded => CacheBounded
  BY DEF Bounded
<1> QED BY <1>1, <1>2, <1>3, PTL DEF Spec
=============================================================================
