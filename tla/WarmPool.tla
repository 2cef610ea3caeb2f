------------------------------ MODULE WarmPool ------------------------------
(***************************************************************************)
(* WarmPoolManager (src/src/boxxkite/warm_pool.py): every process that     *)
(* serves sandboxes may run one.  Its replenish passes -- one on a timer,  *)
(* one nudged by the create path -- list the namespace, delete what is     *)
(* stale by name and create what the list was short of, awaiting each new  *)
(* pod.  Its reaper lists the idle claimed pods, sleeps, looks at each     *)
(* again, flushes it and deletes it by name.  None of these steps holds a  *)
(* lock across its awaits, so each is an action of its own.                *)
(*                                                                         *)
(* Pods of one size are modelled.                                          *)
(***************************************************************************)
EXTENDS PodCluster

CONSTANTS
    Managers,    \* the processes with a running WarmPoolManager
    PassKinds,   \* the replenish tasks that run: on the timer, nudged, or both
    Target,      \* WARM_POOL_SIZE, the target of the one size modelled
    PoolMax      \* WARM_POOL_MAX

ASSUME PoolAssumption ==
    /\ PassKinds \subseteq {"timer", "manual"}
    /\ Target \in Nat
    /\ PoolMax \in Nat

\* The replenish tasks of each manager: _replenish_task, whose timer stalls
\* on a throttled runtime, and _manual_replenish_task.
Passes == Managers \X PassKinds

VARIABLES
    nudged,      \* passes that were asked for and have not scanned yet
    stale,       \* pods a pass found stale and has not deleted yet
    todo,        \* pods a pass still has to create
    waits,       \* pods a pass created and awaits the readiness of
    suspects,    \* pods a reaper found idle before it slept
    victim       \* pods a reaper found idle twice, flushed, and will delete

passvars == <<nudged, stale, todo, waits>>
reapvars == <<suspects, victim>>

PoolTypeOK ==
    /\ nudged \in SUBSET Passes
    /\ stale \in [Passes -> SUBSET Pods]
    /\ todo \in [Passes -> 0 .. Target]
    /\ waits \in [Passes -> SUBSET Pods]
    /\ suspects \in [Managers -> SUBSET Pods]
    /\ victim \in [Managers -> SUBSET Pods]

PoolInit ==
    /\ nudged = {}
    /\ stale = [t \in Passes |-> {}]
    /\ todo = [t \in Passes |-> 0]
    /\ waits = [t \in Passes |-> {}]
    /\ suspects = [m \in Managers |-> {}]
    /\ victim = [m \in Managers |-> {}]

Resting(t) == t \notin nudged /\ stale[t] = {} /\ todo[t] = 0 /\ waits[t] = {}

-----------------------------------------------------------------------------
(* Replenish.                                                               *)

\* schedule_replenish: start the manual pass unless one is in flight.
Nudge(m) ==
    nudged' = IF <<m, "manual">> \in Passes /\ Resting(<<m, "manual">>)
              THEN nudged \cup {<<m, "manual">>} ELSE nudged

StalePods == {q \in Pods : phase[q] = "Failed"}
                \cup {q \in Pods : Up(q) /\ pool[q] = "warm" /\ old[q]}

\* Mutation: the two differences are not cut off at zero.
DeficitUnclamped(warm, active) ==
    LET short  == Target - warm
        budget == PoolMax - active
    IN  IF short < budget THEN short ELSE budget

\* How many pods a pass creates after counting warm and active ones.
Deficit(warm, active) ==
    LET short  == IF warm < Target THEN Target - warm ELSE 0
        budget == IF active < PoolMax THEN PoolMax - active ELSE 0
    IN  IF short < budget THEN short ELSE budget

\* Mutation: the timer loop starts the next pass without awaiting its creates.
BeginsScanUnawaited(t) ==
    /\ IF t[2] = "timer" THEN todo[t] = 0 ELSE t \in nudged
    /\ nudged' = nudged \ {t}
    /\ UNCHANGED <<cluster, waits, reapvars>>

\* The list of one pass: on the timer, or nudged.
BeginsScan(t) ==
    /\ IF t[2] = "timer" THEN Resting(t) ELSE t \in nudged
    /\ nudged' = nudged \ {t}
    /\ UNCHANGED <<cluster, waits, reapvars>>

Scan(t) ==
    /\ BeginsScan(t)
    /\ stale' = [stale EXCEPT ![t] = StalePods]
    /\ todo' = [todo EXCEPT ![t] = Deficit(Cardinality(ReadyWarm), Cardinality(Active))]

\* The LIST fails: the pass goes on as if the namespace were empty.
ScanFails(t) ==
    /\ "scan" \in Faults
    /\ BeginsScan(t)
    /\ todo' = [todo EXCEPT ![t] = Deficit(0, 0)]
    /\ UNCHANGED stale

\* One stale pod is deleted by name, grace period 0, whatever became of it.
Sweep(t, q) ==
    /\ q \in stale[t]
    /\ stale' = [stale EXCEPT ![t] = @ \ {q}]
    /\ \/ DeletePodNow(q)
       \/ "sweep" \in Faults /\ UNCHANGED cluster
    /\ UNCHANGED <<nudged, todo, waits, reapvars>>

\* _create_warm_pod, up to the create call.
CreateWarm(t, q) ==
    /\ stale[t] = {} /\ todo[t] > 0
    /\ CreatePodObject(q, "warm", None)
    /\ todo' = [todo EXCEPT ![t] = @ - 1]
    /\ waits' = [waits EXCEPT ![t] = @ \cup {q}]
    /\ UNCHANGED <<nudged, stale, reapvars>>

\* The API refuses the pod: a fault, or the namespace is full.
Refused == "create" \in Faults \/ \A q \in Pods : phase[q] # "Absent"

CreateWarmFails(t) ==
    /\ stale[t] = {} /\ todo[t] > 0
    /\ Refused
    /\ todo' = [todo EXCEPT ![t] = @ - 1]
    /\ UNCHANGED <<cluster, nudged, stale, waits, reapvars>>

WarmReady(t, q) ==
    /\ q \in waits[t] /\ Up(q)
    /\ waits' = [waits EXCEPT ![t] = @ \ {q}]
    /\ UNCHANGED <<cluster, nudged, stale, todo, reapvars>>

\* Failed or not ready in 60 s, or the read that looks fails: _delete_pod by
\* name, whose API error is swallowed.
WarmNotReady(t, q) ==
    /\ q \in waits[t]
    /\ ~Up(q) \/ "ready" \in Faults
    /\ waits' = [waits EXCEPT ![t] = @ \ {q}]
    /\ \/ DeletePodObject(q)
       \/ "delete" \in Faults /\ UNCHANGED cluster
    /\ UNCHANGED <<nudged, stale, todo, reapvars>>

-----------------------------------------------------------------------------
(* The idle reaper.                                                         *)

\* Mutation: the reaper only looks at pods that carry a session.
IdleOwned == {q \in Pods : Up(q) /\ pool[q] = "claimed" /\ owner[q] # None /\ idle[q]}

IdleClaimed == {q \in Pods : Up(q) /\ pool[q] = "claimed" /\ idle[q]}

\* _reap_idle_pods up to its sleep.
ReapList(m) ==
    /\ suspects[m] = {} /\ victim[m] = {}
    /\ IdleClaimed # {}
    /\ suspects' = [suspects EXCEPT ![m] = IdleClaimed]
    /\ UNCHANGED <<cluster, passvars, victim>>

\* The second look at one suspect, and the flush, which resets its idle
\* clock.  The labels are not read again.
ReapConfirm(m, q) ==
    /\ q \in suspects[m] /\ victim[m] = {}
    /\ Up(q) /\ idle[q]
    /\ suspects' = [suspects EXCEPT ![m] = @ \ {q}]
    /\ victim' = [victim EXCEPT ![m] = {q}]
    /\ \/ TouchSidecar(q)
       \/ "flush" \in Faults /\ UNCHANGED cluster
    /\ UNCHANGED passvars

ReapSpare(m, q) ==
    /\ q \in suspects[m] /\ victim[m] = {}
    /\ ~(Up(q) /\ idle[q]) \/ "health" \in Faults
    /\ suspects' = [suspects EXCEPT ![m] = @ \ {q}]
    /\ UNCHANGED <<cluster, passvars, victim>>

ReapDelete(m, q) ==
    /\ q \in victim[m]
    /\ victim' = [victim EXCEPT ![m] = {}]
    /\ DeletePodObject(q)
    /\ UNCHANGED <<passvars, suspects>>

ReapDeleteFails(m, q) ==
    /\ "reap" \in Faults
    /\ q \in victim[m]
    /\ victim' = [victim EXCEPT ![m] = {}]
    /\ UNCHANGED <<cluster, passvars, suspects>>

-----------------------------------------------------------------------------
\* The process dies: its tasks are gone, what they wrote stays.
ManagerDies(w) ==
    LET its(t) == t[1] = w
    IN  /\ nudged' = {t \in nudged : ~its(t)}
        /\ stale' = [t \in Passes |-> IF its(t) THEN {} ELSE stale[t]]
        /\ todo' = [t \in Passes |-> IF its(t) THEN 0 ELSE todo[t]]
        /\ waits' = [t \in Passes |-> IF its(t) THEN {} ELSE waits[t]]
        /\ suspects' = [m \in Managers |-> IF m = w THEN {} ELSE suspects[m]]
        /\ victim' = [m \in Managers |-> IF m = w THEN {} ELSE victim[m]]

ReplenishNext(t) ==
    \/ Scan(t)
    \/ ScanFails(t)
    \/ CreateWarmFails(t)
    \/ \E q \in Pods : \/ Sweep(t, q)
                       \/ CreateWarm(t, q)
                       \/ WarmReady(t, q)
                       \/ WarmNotReady(t, q)

ReapNext(m) ==
    \/ ReapList(m)
    \/ \E q \in Pods : \/ ReapConfirm(m, q)
                       \/ ReapSpare(m, q)
                       \/ ReapDelete(m, q)
                       \/ ReapDeleteFails(m, q)

PoolNext ==
    \/ \E t \in Passes : ReplenishNext(t)
    \/ \E m \in Managers : ReapNext(m)
=============================================================================
