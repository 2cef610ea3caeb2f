---------------------------- MODULE SessionLocks ----------------------------
(***************************************************************************)
(* The bounded caches of one asyncio.Lock per session that serialise work  *)
(* on a session inside one process: the create locks and the recovery      *)
(* locks of SandboxManager (src/src/boxxkite/_manager_recovery.py) and the *)
(* audit-chain locks of the control plane (audit_chain_lock.py).  When the *)
(* cache is full only the audit-chain one spares a lock that is released   *)
(* but still has a queued waiter: CheckWaiters.  Only recovery locks are   *)
(* also dropped one by one (Drop); it is left to all three, which adds     *)
(* behaviours and takes none away.                                         *)
(*                                                                         *)
(* A critical section awaits, so any other task may run inside it.  The    *)
(* lookup and the attempt to acquire do not await between them and are one *)
(* action.  Which idle entry the LRU order evicts and which waiter         *)
(* asyncio wakes is left open.                                             *)
(***************************************************************************)
EXTENDS Integers, FiniteSets

CONSTANTS
    Tasks,          \* the tasks of the event loop
    Keys,           \* session ids
    Locks,          \* identities of asyncio.Lock objects
    NoLock,
    Cap,            \* ..._LOCK_CACHE_MAX_ENTRIES
    CheckWaiters    \* the trim spares a lock with waiters (audit chain only)

ASSUME LocksAssumption ==
    /\ NoLock \notin Locks
    /\ Cap \in Nat \ {0}
    /\ CheckWaiters \in BOOLEAN
    /\ IsFiniteSet(Tasks) /\ IsFiniteSet(Keys)

VARIABLES
    lock,    \* the cached lock of a key
    held,    \* lock.locked()
    at,      \* where a task is: outside, queued, in its critical section
    key,     \* the key a task asked for last
    mine     \* the lock object it got for it

vars == <<lock, held, at, key, mine>>

TypeOK ==
    /\ lock \in [Keys -> Locks \cup {NoLock}]
    /\ held \in [Locks -> BOOLEAN]
    /\ at \in [Tasks -> {"out", "waiting", "in"}]
    /\ key \in [Tasks -> Keys]
    /\ mine \in [Tasks -> Locks \cup {NoLock}]

Init ==
    /\ lock = [k \in Keys |-> NoLock]
    /\ held = [l \in Locks |-> FALSE]
    /\ at = [t \in Tasks |-> "out"]
    /\ key \in [Tasks -> Keys]
    /\ mine = [t \in Tasks |-> NoLock]

-----------------------------------------------------------------------------
Waiters(l) == {t \in Tasks : at[t] = "waiting" /\ mine[t] = l}
Cached     == {k \in Keys : lock[k] # NoLock}

\* Nobody refers to the object any more: it stands for a new Lock().
Unused(l) ==
    /\ \A k \in Keys : lock[k] # l
    /\ \A t \in Tasks : at[t] # "out" => mine[t] # l

Idle(l) == ~held[l] /\ Waiters(l) = {}

\* What the trim may evict: locked() alone, or the waiters as well.
MayEvict(k) == IF CheckWaiters THEN Idle(lock[k]) ELSE ~held[lock[k]]

Evictable(k) == {j \in Cached \ {k} : MayEvict(j)}

\* Mutation: the first busy entry ends the search instead of being skipped.
TrimsUpToBusy(k, gone) ==
    /\ gone \in SUBSET Evictable(k)
    /\ IF Evictable(k) = Cached \ {k}
       THEN Cardinality(gone) = Cardinality(Cached \cup {k}) - Cap
       ELSE gone = {}

\* The trim after key k was added: the cap is met, or all it may evict went.
Trims(k, gone) ==
    LET excess == Cardinality(Cached \cup {k}) - Cap
    IN  /\ gone \in SUBSET Evictable(k)
        /\ \/ excess <= 0 /\ gone = {}
           \/ excess > 0 /\ \/ Cardinality(gone) = excess
                            \/ Cardinality(gone) < excess /\ gone = Evictable(k)

Takes(t, l) ==
    /\ at' = [at EXCEPT ![t] = "in"]
    /\ held' = [held EXCEPT ![l] = TRUE]

Asks(t, k, l) ==
    /\ at[t] = "out"
    /\ key' = [key EXCEPT ![t] = k]
    /\ mine' = [mine EXCEPT ![t] = l]

\* The key has a lock: take it when it is free and nobody queues, else queue.
Arrive(t, k) ==
    /\ lock[k] # NoLock
    /\ Asks(t, k, lock[k])
    /\ \/ Idle(lock[k]) /\ Takes(t, lock[k])
       \/ ~Idle(lock[k]) /\ at' = [at EXCEPT ![t] = "waiting"] /\ UNCHANGED held
    /\ UNCHANGED lock

\* It has none: make one, trim the cache, take it.
ArriveNew(t, k, l) ==
    /\ lock[k] = NoLock
    /\ Unused(l)
    /\ Asks(t, k, l)
    /\ Takes(t, l)
    /\ \E gone \in SUBSET Keys :
          /\ Trims(k, gone)
          /\ lock' = [j \in Keys |-> IF j = k THEN l
                                     ELSE IF j \in gone THEN NoLock ELSE lock[j]]

\* A queued task is woken once the lock is free.
Resume(t) ==
    /\ at[t] = "waiting" /\ ~held[mine[t]]
    /\ Takes(t, mine[t])
    /\ UNCHANGED <<lock, key, mine>>

\* A queued task is cancelled.
Cancel(t) ==
    /\ at[t] = "waiting"
    /\ at' = [at EXCEPT ![t] = "out"]
    /\ UNCHANGED <<lock, held, key, mine>>

Leave(t) ==
    /\ at[t] = "in"
    /\ at' = [at EXCEPT ![t] = "out"]
    /\ held' = [held EXCEPT ![mine[t]] = FALSE]
    /\ UNCHANGED <<lock, key, mine>>

\* Mutation: a lock is dropped when nobody holds it, waiters or not.
DropReleased(k) ==
    /\ lock[k] # NoLock /\ ~held[lock[k]]
    /\ lock' = [lock EXCEPT ![k] = NoLock]
    /\ UNCHANGED <<held, at, key, mine>>

\* _release_recovery_lock_if_idle
Drop(k) ==
    /\ lock[k] # NoLock /\ Idle(lock[k])
    /\ lock' = [lock EXCEPT ![k] = NoLock]
    /\ UNCHANGED <<held, at, key, mine>>

Next ==
    \/ \E t \in Tasks : \/ \E k \in Keys : Arrive(t, k)
                        \/ \E k \in Keys, l \in Locks : ArriveNew(t, k, l)
                        \/ Resume(t)
                        \/ Cancel(t)
                        \/ Leave(t)
    \/ \E k \in Keys : Drop(k)

Spec == Init /\ [][Next]_vars

\* When the caches can be relied on: the trim looks at the waiters, or never
\* has anything to evict because there are no more sessions than entries.
Sound == CheckWaiters \/ Cardinality(Keys) <= Cap

-----------------------------------------------------------------------------
\* MutualExclusion: at most one task works on a session at a time, whatever
\* the cache evicted meanwhile ("so all callers share the same critical
\* section", _manager_recovery.py:117; "break the single-flight guarantee
\* this cache exists for", audit_chain_lock.py:70-72).
MutualExclusion ==
    \A t, u \in Tasks : at[t] = "in" /\ at[u] = "in" /\ key[t] = key[u] => t = u

\* CacheBounded: the cache outgrows its cap only by sessions in use when it
\* was trimmed, so the tasks bound it, not the sessions ever seen
\* (audit_chain_lock.py:57-59).
CacheBounded ==
    Cardinality(Cached) <= IF Cap > Cardinality(Tasks) THEN Cap ELSE Cardinality(Tasks)

-----------------------------------------------------------------------------
\* Why MutualExclusion holds: a task that has or awaits a lock has the one
\* the cache still holds for its key, and a lock has one holder.
SharesCached == \A t \in Tasks : at[t] # "out" => mine[t] = lock[key[t]] /\ mine[t] # NoLock
HolderHolds  == \A t \in Tasks : at[t] = "in" => held[mine[t]]
OneInside    == \A t, u \in Tasks :
                    at[t] = "in" /\ at[u] = "in" /\ mine[t] = mine[u] => t = u

Inv == TypeOK /\ SharesCached /\ HolderHolds /\ OneInside
=============================================================================
