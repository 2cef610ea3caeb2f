------------------------ MODULE SandboxManagerProofs ------------------------
(***************************************************************************)
(* Type correctness of the sandbox fleet, for every number of pods,        *)
(* sessions, requests and workers and every combination of settings and    *)
(* faults.  The layers are taken from the bottom: the operations of        *)
(* PodCluster keep the cluster's types, the tasks of WarmPool those of the *)
(* pool and the cluster, the handlers of SandboxManager all of them.       *)
(***************************************************************************)
EXTENDS SandboxManager, FiniteSetTheorems, TLAPS

-----------------------------------------------------------------------------
(* The cluster.                                                             *)

\* A pod object that disappears leaves the types alone.
LEMMA RemoveTypes ==
    ASSUME ClusterTypeOK, NEW q, Remove(q)
    PROVE  ClusterTypeOK'
<1>1. phase' \in [Pods -> Phases] /\ pool' \in [Pods -> Pools]
  BY DEF Remove, ClusterTypeOK, Phases, Pools
<1>2. owner' \in [Pods -> Sessions \cup {None}] /\ sidecar' \in [Pods -> Sessions \cup {None}]
  BY DEF Remove, ClusterTypeOK
<1>3. idle' \in [Pods -> BOOLEAN] /\ old' \in [Pods -> BOOLEAN]
  BY DEF Remove, ClusterTypeOK
<1>4. policy' \in [Pods -> Sessions \cup {None}] /\ readers' \in [Clients -> SUBSET Pods]
  BY DEF Remove, Bump, ClusterTypeOK
<1> QED BY <1>1, <1>2, <1>3, <1>4 DEF ClusterTypeOK

\* Every write to a pod object, a sidecar or a NetworkPolicy keeps the types
\* (the calls of kubernetes_asyncio and httpx in warm_pool.py and manager.py).
LEMMA ClusterWrites ==
    ASSUME ClusterTypeOK, NEW q, NEW kind \in Pools, NEW s \in Sessions \cup {None}
    PROVE  /\ CreatePodObject(q, kind, s) => ClusterTypeOK'
           /\ MergeLabels(q, kind, s) => ClusterTypeOK'
           /\ SetPolicy(q, s) => ClusterTypeOK'
           /\ ConfigureSidecar(q, s) => ClusterTypeOK'
           /\ TouchSidecar(q) => ClusterTypeOK'
<1>1. CreatePodObject(q, kind, s) => ClusterTypeOK'
  <2> SUFFICES ASSUME CreatePodObject(q, kind, s) PROVE ClusterTypeOK'
    OBVIOUS
  <2>1. phase' \in [Pods -> Phases]
    BY DEF CreatePodObject, ClusterTypeOK, Phases
  <2>2. pool' \in [Pods -> Pools] /\ owner' \in [Pods -> Sessions \cup {None}]
    BY DEF CreatePodObject, ClusterTypeOK
  <2> QED BY <2>1, <2>2 DEF CreatePodObject, ClusterTypeOK
<1>2. MergeLabels(q, kind, s) => ClusterTypeOK'
  BY DEF MergeLabels, Bump, ClusterTypeOK
<1>3. SetPolicy(q, s) => ClusterTypeOK'
  BY DEF SetPolicy, ClusterTypeOK
<1>4. ConfigureSidecar(q, s) => ClusterTypeOK'
  BY DEF ConfigureSidecar, ClusterTypeOK
<1>5. TouchSidecar(q) => ClusterTypeOK'
  BY DEF TouchSidecar, ClusterTypeOK
<1> QED BY <1>1, <1>2, <1>3, <1>4, <1>5

\* A step that leaves the cluster alone keeps its types.
LEMMA ClusterKept ==
    ASSUME ClusterTypeOK, UNCHANGED cluster
    PROVE  ClusterTypeOK'
BY DEF ClusterTypeOK, cluster

\* A claim and both deletes of a pod object keep the types.
LEMMA ClusterClaims ==
    ASSUME ClusterTypeOK, NEW q, NEW c
    PROVE  /\ CasClaim(c, q) => ClusterTypeOK'
           /\ DeletePodObject(q) => ClusterTypeOK'
           /\ DeletePodNow(q) => ClusterTypeOK'
<1>1. CasClaim(c, q) => ClusterTypeOK'
  BY DEF CasClaim, ClusterTypeOK, Pools
<1>2. Remove(q) => ClusterTypeOK'
  BY RemoveTypes
<1>3. UNCHANGED cluster => ClusterTypeOK'
  BY ClusterKept
<1>4. DeletePodObject(q) => ClusterTypeOK'
  <2>1. CASE phase[q] = "Running" /\ phase' = [phase EXCEPT ![q] = "Terminating"] /\ Bump(q)
                /\ UNCHANGED <<pool, owner, sidecar, idle, old, policy>>
    BY <2>1 DEF Bump, ClusterTypeOK, Phases
  <2> QED BY <1>2, <1>3, <2>1 DEF DeletePodObject
<1>5. DeletePodNow(q) => ClusterTypeOK'
  BY <1>2, <1>3 DEF DeletePodNow
<1> QED BY <1>1, <1>4, <1>5

\* What the cluster does on its own keeps the types.
LEMMA ClusterAlone ==
    ASSUME ClusterTypeOK, ClusterNext
    PROVE  ClusterTypeOK'
<1> PICK q \in Pods : \/ BecomeReady(q) \/ Vanish(q) \/ DeadlineExpires(q)
                      \/ GoIdle(q) \/ GrowOld(q)
  BY DEF ClusterNext
<1>1. CASE BecomeReady(q)
  BY <1>1 DEF BecomeReady, ClusterTypeOK, Phases
<1>2. CASE Vanish(q)
  BY <1>2, RemoveTypes DEF Vanish
<1>3. CASE DeadlineExpires(q)
  BY <1>3 DEF DeadlineExpires, Bump, ClusterTypeOK, Phases
<1>4. CASE GoIdle(q)
  BY <1>4 DEF GoIdle, ClusterTypeOK
<1>5. CASE GrowOld(q)
  BY <1>5 DEF GrowOld, ClusterTypeOK
<1> QED BY <1>1, <1>2, <1>3, <1>4, <1>5

-----------------------------------------------------------------------------
(* The warm pool.                                                           *)

\* A pass never plans fewer than no pods or more than its target, whatever it
\* counted (_replenish, warm_pool.py:1239-1248).
LEMMA DeficitRange ==
    ASSUME NEW warm \in Nat, NEW active \in Nat
    PROVE  Deficit(warm, active) \in 0 .. Target
BY PoolAssumption DEF Deficit

\* The counts of a pass are numbers.
LEMMA CountsAreNats ==
    Cardinality(ReadyWarm) \in Nat /\ Cardinality(Active) \in Nat
<1>1. IsFiniteSet(ReadyWarm) /\ IsFiniteSet(Active)
  BY ClusterAssumption, FS_Subset DEF ReadyWarm, Active
<1> QED BY <1>1, FS_CardinalityType

\* Every step of a replenish pass keeps the types.
LEMMA ReplenishTypes ==
    ASSUME ClusterTypeOK, PoolTypeOK, NEW t \in Passes, ReplenishNext(t)
    PROVE  ClusterTypeOK' /\ PoolTypeOK'
<1>1. CASE Scan(t)
  <2>1. StalePods \in SUBSET Pods
    BY DEF StalePods
  <2>2. Deficit(Cardinality(ReadyWarm), Cardinality(Active)) \in 0 .. Target
    BY CountsAreNats, DeficitRange
  <2>3. PoolTypeOK'
    BY <1>1, <2>1, <2>2 DEF Scan, BeginsScan, PoolTypeOK, reapvars
  <2> QED BY <1>1, <2>3, ClusterKept DEF Scan, BeginsScan
<1>2. CASE ScanFails(t)
  <2>1. Deficit(0, 0) \in 0 .. Target
    BY DeficitRange
  <2>2. PoolTypeOK'
    BY <1>2, <2>1 DEF ScanFails, BeginsScan, PoolTypeOK, reapvars
  <2> QED BY <1>2, <2>2, ClusterKept DEF ScanFails, BeginsScan
<1>3. CASE CreateWarmFails(t)
  <2>1. PoolTypeOK'
    BY <1>3, PoolAssumption DEF CreateWarmFails, PoolTypeOK, reapvars
  <2> QED BY <1>3, <2>1, ClusterKept DEF CreateWarmFails
<1>4. ASSUME NEW q \in Pods, Sweep(t, q) PROVE ClusterTypeOK' /\ PoolTypeOK'
  <2>1. PoolTypeOK'
    BY <1>4 DEF Sweep, PoolTypeOK, reapvars
  <2> QED BY <1>4, <2>1, ClusterKept, ClusterClaims DEF Sweep
<1>5. ASSUME NEW q \in Pods, CreateWarm(t, q) PROVE ClusterTypeOK' /\ PoolTypeOK'
  <2>1. PoolTypeOK'
    BY <1>5, PoolAssumption DEF CreateWarm, PoolTypeOK, reapvars
  <2> QED BY <1>5, <2>1, ClusterWrites DEF CreateWarm, Pools
<1>6. ASSUME NEW q \in Pods, WarmReady(t, q) PROVE ClusterTypeOK' /\ PoolTypeOK'
  <2>1. PoolTypeOK'
    BY <1>6 DEF WarmReady, PoolTypeOK, reapvars
  <2> QED BY <1>6, <2>1, ClusterKept DEF WarmReady
<1>7. ASSUME NEW q \in Pods, WarmNotReady(t, q) PROVE ClusterTypeOK' /\ PoolTypeOK'
  <2>1. PoolTypeOK'
    BY <1>7 DEF WarmNotReady, PoolTypeOK, reapvars
  <2> QED BY <1>7, <2>1, ClusterKept, ClusterClaims DEF WarmNotReady
<1> QED BY <1>1, <1>2, <1>3, <1>4, <1>5, <1>6, <1>7 DEF ReplenishNext

\* Every step of an idle reaper keeps the types.
LEMMA ReapTypes ==
    ASSUME ClusterTypeOK, PoolTypeOK, NEW m \in Managers, ReapNext(m)
    PROVE  ClusterTypeOK' /\ PoolTypeOK'
<1>1. CASE ReapList(m)
  <2>1. IdleClaimed \in SUBSET Pods
    BY DEF IdleClaimed
  <2>2. PoolTypeOK'
    BY <1>1, <2>1 DEF ReapList, PoolTypeOK, passvars
  <2> QED BY <1>1, <2>2, ClusterKept DEF ReapList
<1>2. ASSUME NEW q \in Pods, ReapConfirm(m, q) PROVE ClusterTypeOK' /\ PoolTypeOK'
  <2>1. PoolTypeOK'
    BY <1>2 DEF ReapConfirm, PoolTypeOK, passvars
  <2>2. ASSUME TouchSidecar(q) PROVE ClusterTypeOK'
    BY <2>2, ClusterWrites DEF Pools
  <2> QED BY <1>2, <2>1, <2>2, ClusterKept DEF ReapConfirm
<1>3. ASSUME NEW q \in Pods, ReapSpare(m, q) PROVE ClusterTypeOK' /\ PoolTypeOK'
  <2>1. PoolTypeOK'
    BY <1>3 DEF ReapSpare, PoolTypeOK, passvars
  <2> QED BY <1>3, <2>1, ClusterKept DEF ReapSpare
<1>4. ASSUME NEW q \in Pods, ReapDelete(m, q) PROVE ClusterTypeOK' /\ PoolTypeOK'
  <2>1. PoolTypeOK'
    BY <1>4 DEF ReapDelete, PoolTypeOK, passvars
  <2> QED BY <1>4, <2>1, ClusterClaims DEF ReapDelete
<1>5. ASSUME NEW q \in Pods, ReapDeleteFails(m, q) PROVE ClusterTypeOK' /\ PoolTypeOK'
  <2>1. PoolTypeOK'
    BY <1>5 DEF ReapDeleteFails, PoolTypeOK, passvars
  <2> QED BY <1>5, <2>1, ClusterKept DEF ReapDeleteFails
<1> QED BY <1>1, <1>2, <1>3, <1>4, <1>5 DEF ReapNext

\* A nudge keeps the types, and so does the death of a manager
\* (schedule_replenish, warm_pool.py:1026-1050).
LEMMA NudgeTypes ==
    ASSUME PoolTypeOK, NEW w, Nudge(w), UNCHANGED <<stale, todo, waits, reapvars>>
    PROVE  PoolTypeOK'
BY DEF Nudge, PoolTypeOK, reapvars

LEMMA DeathTypes ==
    ASSUME PoolTypeOK, NEW w, ManagerDies(w)
    PROVE  PoolTypeOK'
<1>1. nudged' \in SUBSET Passes /\ stale' \in [Passes -> SUBSET Pods]
  BY DEF ManagerDies, PoolTypeOK
<1>2. todo' \in [Passes -> 0 .. Target] /\ waits' \in [Passes -> SUBSET Pods]
  BY PoolAssumption DEF ManagerDies, PoolTypeOK
<1>3. suspects' \in [Managers -> SUBSET Pods] /\ victim' \in [Managers -> SUBSET Pods]
  BY DEF ManagerDies, PoolTypeOK
<1> QED BY <1>1, <1>2, <1>3 DEF PoolTypeOK

\* A step that leaves the tasks of the warm pool alone keeps their types.
LEMMA PoolKept ==
    ASSUME PoolTypeOK, UNCHANGED <<passvars, reapvars>>
    PROVE  PoolTypeOK'
BY DEF PoolTypeOK, passvars, reapvars

-----------------------------------------------------------------------------
(* The requests.                                                            *)

\* The ways a handler goes on keep the types of its request.
LEMMA ControlTypes ==
    ASSUME RequestTypeOK, NEW p \in Procs
    PROVE  /\ Ends(p) => RequestTypeOK'
           /\ TornDown(p) => RequestTypeOK'
           /\ CleansUp(p) => RequestTypeOK'
           /\ \A to \in CreatePCs \cup TeardownPCs : Moves(p, to) => RequestTypeOK'
<1>1. Ends(p) => RequestTypeOK'
  BY DEF Ends, Goto, RequestTypeOK
<1>2. TornDown(p) => RequestTypeOK'
  BY <1>1 DEF TornDown, Goto, RequestTypeOK, CreatePCs
<1>3. CleansUp(p) => RequestTypeOK'
  BY DEF CleansUp, Goto, RequestTypeOK, TeardownPCs
<1>4. \A to \in CreatePCs \cup TeardownPCs : Moves(p, to) => RequestTypeOK'
  BY DEF Moves, Goto, RequestTypeOK
<1> QED BY <1>1, <1>2, <1>3, <1>4

\* The types of everything but the number of crashes.
Typed == ClusterTypeOK /\ PoolTypeOK /\ RequestTypeOK

\* A handler that leaves the tasks of the pool alone.
LEMMA HandlerKeepsPool ==
    ASSUME Typed, NEW p, NEW from, At(p, from), UNCHANGED passvars
    PROVE  PoolTypeOK'
BY PoolKept DEF At, Typed

\* Every step of create_session keeps the types.
LEMMA CreateTypes ==
    ASSUME Typed, NEW p \in Procs, CreateNext(p)
    PROVE  Typed'
<1>1. ASSUME NEW s \in Sessions, StartCreate(p, s) PROVE Typed'
  <2>1. ClusterTypeOK'
    BY <1>1, ClusterKept DEF StartCreate, Typed
  <2>2. PoolTypeOK'
    BY <1>1, HandlerKeepsPool DEF StartCreate
  <2>3. RequestTypeOK'
    BY <1>1 DEF StartCreate, RequestTypeOK, Typed, Goto, CreatePCs, TeardownPCs, OwnedBy
  <2> QED BY <2>1, <2>2, <2>3 DEF Typed
<1>2. ASSUME Reuse(p) PROVE Typed'
  <2>1. ClusterTypeOK'
    BY <1>2, ClusterWrites DEF Reuse, Typed, Pools
  <2>2. PoolTypeOK'
    BY <1>2, HandlerKeepsPool DEF Reuse
  <2>3. RequestTypeOK'
    BY <1>2, ControlTypes DEF Reuse, Typed, CreatePCs, TeardownPCs
  <2> QED BY <2>1, <2>2, <2>3 DEF Typed
<1>3. ASSUME ReuseFails(p) PROVE Typed'
  <2>1. ClusterTypeOK'
    BY <1>3, ClusterKept DEF ReuseFails, Typed
  <2>2. PoolTypeOK'
    BY <1>3, HandlerKeepsPool DEF ReuseFails
  <2>3. RequestTypeOK'
    BY <1>3 DEF ReuseFails, RequestTypeOK, Typed, Goto, CreatePCs, TeardownPCs, OwnedBy
  <2> QED BY <2>1, <2>2, <2>3 DEF Typed
<1>4. ASSUME ListWarm(p) PROVE Typed'
  <2>1. ClusterTypeOK'
    BY <1>4 DEF ListWarm, Typed, ClusterTypeOK, ReadyWarm
  <2>2. PoolTypeOK'
    BY <1>4, HandlerKeepsPool DEF ListWarm
  <2>3. RequestTypeOK'
    BY <1>4 DEF ListWarm, RequestTypeOK, Typed, Goto, CreatePCs, TeardownPCs, ReadyWarm
  <2> QED BY <2>1, <2>2, <2>3 DEF Typed
<1>5. ASSUME SkipClaim(p) PROVE Typed'
  <2>1. ClusterTypeOK'
    BY <1>5, ClusterKept DEF SkipClaim, Typed
  <2>2. PoolTypeOK'
    BY <1>5, HandlerKeepsPool DEF SkipClaim
  <2>3. RequestTypeOK'
    BY <1>5, ControlTypes DEF SkipClaim, Typed, CreatePCs, TeardownPCs
  <2> QED BY <2>1, <2>2, <2>3 DEF Typed
<1>6. ASSUME NEW q \in Pods, Claim(p, q) PROVE Typed'
  <2>1. ClusterTypeOK'
    BY <1>6, ClusterClaims, ClusterKept DEF Claim, Typed
  <2>2. PoolTypeOK'
    BY <1>6, HandlerKeepsPool DEF Claim
  <2>3. RequestTypeOK'
    BY <1>6 DEF Claim, RequestTypeOK, Typed, Goto, CreatePCs, TeardownPCs
  <2> QED BY <2>1, <2>2, <2>3 DEF Typed
<1>7. ASSUME NEW q \in Pods, ClaimLost(p, q) PROVE Typed'
  <2>1. ClusterTypeOK'
    BY <1>7 DEF ClaimLost, Typed, ClusterTypeOK
  <2>2. PoolTypeOK'
    BY <1>7, HandlerKeepsPool DEF ClaimLost
  <2>3. RequestTypeOK'
    BY <1>7 DEF ClaimLost, RequestTypeOK, Typed, Goto, CreatePCs, TeardownPCs
  <2> QED BY <2>1, <2>2, <2>3 DEF Typed
<1>8. ASSUME NEW q \in Pods, ClaimUnheard(p, q) PROVE Typed'
  <2>1. ClusterTypeOK'
    BY <1>8, ClusterClaims, ClusterKept DEF ClaimUnheard, Typed
  <2>2. PoolTypeOK'
    BY <1>8, HandlerKeepsPool DEF ClaimUnheard
  <2>3. RequestTypeOK'
    BY <1>8 DEF ClaimUnheard, RequestTypeOK, Typed, Goto, CreatePCs, TeardownPCs
  <2> QED BY <2>1, <2>2, <2>3 DEF Typed
<1>9. ASSUME NEW q \in Pods, CreateCold(p, q) PROVE Typed'
  <2>1. ClusterTypeOK'
    BY <1>9, ClusterWrites, ClusterKept DEF CreateCold, Typed, RequestTypeOK, Pools
  <2>2. PoolTypeOK'
    BY <1>9, HandlerKeepsPool DEF CreateCold
  <2>3. RequestTypeOK'
    BY <1>9 DEF CreateCold, RequestTypeOK, Typed, Goto, CreatePCs, TeardownPCs
  <2> QED BY <2>1, <2>2, <2>3 DEF Typed
<1>10. ASSUME NoneClaimed(p) PROVE Typed'
  <2>1. ClusterTypeOK'
    BY <1>10, ClusterKept DEF NoneClaimed, Typed
  <2>2. PoolTypeOK'
    BY <1>10, HandlerKeepsPool DEF NoneClaimed
  <2>3. RequestTypeOK'
    BY <1>10, ControlTypes DEF NoneClaimed, Typed, CreatePCs, TeardownPCs
  <2> QED BY <2>1, <2>2, <2>3 DEF Typed
<1>11. ASSUME CreateColdFails(p) PROVE Typed'
  <2>1. ClusterTypeOK'
    BY <1>11, ClusterKept DEF CreateColdFails, Typed
  <2>2. PoolTypeOK'
    BY <1>11, HandlerKeepsPool DEF CreateColdFails
  <2>3. RequestTypeOK'
    BY <1>11, ControlTypes DEF CreateColdFails, Typed, CreatePCs, TeardownPCs
  <2> QED BY <2>1, <2>2, <2>3 DEF Typed
<1>12. ASSUME ColdReady(p) PROVE Typed'
  <2>1. ClusterTypeOK'
    BY <1>12, ClusterKept DEF ColdReady, Typed
  <2>2. PoolTypeOK'
    BY <1>12, HandlerKeepsPool DEF ColdReady
  <2>3. RequestTypeOK'
    BY <1>12, ControlTypes DEF ColdReady, Typed, CreatePCs, TeardownPCs
  <2> QED BY <2>1, <2>2, <2>3 DEF Typed
<1>13. ASSUME ColdNotReady(p) PROVE Typed'
  <2>1. ClusterTypeOK'
    BY <1>13, ClusterKept DEF ColdNotReady, Typed
  <2>2. PoolTypeOK'
    BY <1>13, HandlerKeepsPool DEF ColdNotReady
  <2>3. RequestTypeOK'
    BY <1>13, ControlTypes DEF ColdNotReady, Typed, CreatePCs, TeardownPCs
  <2> QED BY <2>1, <2>2, <2>3 DEF Typed
<1>14. ASSUME Configure(p) PROVE Typed'
  <2>1. ClusterTypeOK'
    BY <1>14, ClusterWrites, ClusterKept DEF Configure, Typed, RequestTypeOK, Pools
  <2>2. PoolTypeOK'
    BY <1>14, NudgeTypes DEF Configure, At, Typed
  <2>3. RequestTypeOK'
    BY <1>14, ControlTypes DEF Configure, Typed, CreatePCs, TeardownPCs
  <2> QED BY <2>1, <2>2, <2>3 DEF Typed
<1>15. ASSUME ConfigureFails(p) PROVE Typed'
  <2>1. ClusterTypeOK'
    BY <1>15, ClusterWrites, ClusterKept DEF ConfigureFails, Typed, RequestTypeOK, Pools
  <2>2. PoolTypeOK'
    BY <1>15, NudgeTypes DEF ConfigureFails, At, Typed
  <2>3. RequestTypeOK'
    BY <1>15, ControlTypes DEF ConfigureFails, Typed, CreatePCs, TeardownPCs
  <2> QED BY <2>1, <2>2, <2>3 DEF Typed
<1>16. ASSUME Label(p) PROVE Typed'
  <2>1. ClusterTypeOK'
    BY <1>16, ClusterWrites, ClusterKept DEF Label, Typed, RequestTypeOK, Pools
  <2>2. PoolTypeOK'
    BY <1>16, HandlerKeepsPool DEF Label
  <2>3. RequestTypeOK'
    BY <1>16, ControlTypes DEF Label, Typed, CreatePCs, TeardownPCs
  <2> QED BY <2>1, <2>2, <2>3 DEF Typed
<1>17. ASSUME LabelFails(p) PROVE Typed'
  <2>1. ClusterTypeOK'
    BY <1>17, ClusterWrites, ClusterKept DEF LabelFails, Typed, RequestTypeOK, Pools
  <2>2. PoolTypeOK'
    BY <1>17, HandlerKeepsPool DEF LabelFails
  <2>3. RequestTypeOK'
    BY <1>17, ControlTypes DEF LabelFails, Typed, CreatePCs, TeardownPCs
  <2> QED BY <2>1, <2>2, <2>3 DEF Typed
<1>18. ASSUME SyncPolicy(p) PROVE Typed'
  <2>1. ClusterTypeOK'
    BY <1>18, ClusterWrites, ClusterKept DEF SyncPolicy, Typed, RequestTypeOK, Pools
  <2>2. PoolTypeOK'
    BY <1>18, HandlerKeepsPool DEF SyncPolicy
  <2>3. RequestTypeOK'
    BY <1>18, ControlTypes DEF SyncPolicy, Typed, CreatePCs, TeardownPCs
  <2> QED BY <2>1, <2>2, <2>3 DEF Typed
<1>19. ASSUME NEW q \in Pods, CreateColdUnheard(p, q) PROVE Typed'
  <2>1. ClusterTypeOK'
    BY <1>19, ClusterWrites, ClusterKept DEF CreateColdUnheard, Typed, RequestTypeOK, Pools
  <2>2. PoolTypeOK'
    BY <1>19, HandlerKeepsPool DEF CreateColdUnheard
  <2>3. RequestTypeOK'
    BY <1>19, ControlTypes DEF CreateColdUnheard, Typed
  <2> QED BY <2>1, <2>2, <2>3 DEF Typed
<1> QED BY <1>1, <1>2, <1>3, <1>4, <1>5, <1>6, <1>7, <1>8, <1>9, <1>10, <1>11, <1>12, <1>13, <1>14, <1>15, <1>16, <1>17, <1>18, <1>19 DEF CreateNext

\* Every step of destroy_session keeps the types.
LEMMA DestroyTypes ==
    ASSUME Typed, NEW p \in Procs, DestroyNext(p)
    PROVE  Typed'
<1>1. ASSUME NEW s \in Sessions, StartDestroy(p, s) PROVE Typed'
  <2>1. ClusterTypeOK'
    BY <1>1, ClusterKept DEF StartDestroy, Typed
  <2>2. PoolTypeOK'
    BY <1>1, HandlerKeepsPool DEF StartDestroy
  <2>3. RequestTypeOK'
    BY <1>1 DEF StartDestroy, RequestTypeOK, Typed, Goto, CreatePCs, TeardownPCs, OwnedBy
  <2> QED BY <2>1, <2>2, <2>3 DEF Typed
<1>2. ASSUME Wipe(p) PROVE Typed'
  <2>1. ClusterTypeOK'
    BY <1>2, ClusterWrites, ClusterKept DEF Wipe, Typed, RequestTypeOK, Pools
  <2>2. PoolTypeOK'
    BY <1>2, HandlerKeepsPool DEF Wipe
  <2>3. RequestTypeOK'
    BY <1>2, ControlTypes DEF Wipe, Typed, CreatePCs, TeardownPCs
  <2> QED BY <2>1, <2>2, <2>3 DEF Typed
<1>3. ASSUME WipeFails(p) PROVE Typed'
  <2>1. ClusterTypeOK'
    BY <1>3, ClusterWrites, ClusterKept DEF WipeFails, Typed, RequestTypeOK, Pools
  <2>2. PoolTypeOK'
    BY <1>3, HandlerKeepsPool DEF WipeFails
  <2>3. RequestTypeOK'
    BY <1>3, ControlTypes DEF WipeFails, Typed, CreatePCs, TeardownPCs
  <2> QED BY <2>1, <2>2, <2>3 DEF Typed
<1>4. ASSUME Capacity(p) PROVE Typed'
  <2>1. ClusterTypeOK'
    BY <1>4, ClusterKept DEF Capacity, Typed
  <2>2. PoolTypeOK'
    BY <1>4, HandlerKeepsPool DEF Capacity
  <2>3. RequestTypeOK'
    BY <1>4, ControlTypes DEF Capacity, Typed, CreatePCs, TeardownPCs
  <2> QED BY <2>1, <2>2, <2>3 DEF Typed
<1>5. ASSUME CapacityFails(p) PROVE Typed'
  <2>1. ClusterTypeOK'
    BY <1>5, ClusterKept DEF CapacityFails, Typed
  <2>2. PoolTypeOK'
    BY <1>5, HandlerKeepsPool DEF CapacityFails
  <2>3. RequestTypeOK'
    BY <1>5, ControlTypes DEF CapacityFails, Typed, CreatePCs, TeardownPCs
  <2> QED BY <2>1, <2>2, <2>3 DEF Typed
<1>6. ASSUME Relabel(p) PROVE Typed'
  <2>1. ClusterTypeOK'
    BY <1>6, ClusterWrites, ClusterKept DEF Relabel, Typed, RequestTypeOK, Pools
  <2>2. PoolTypeOK'
    BY <1>6, HandlerKeepsPool DEF Relabel
  <2>3. RequestTypeOK'
    BY <1>6, ControlTypes DEF Relabel, Typed, CreatePCs, TeardownPCs
  <2> QED BY <2>1, <2>2, <2>3 DEF Typed
<1>7. ASSUME RelabelFails(p) PROVE Typed'
  <2>1. ClusterTypeOK'
    BY <1>7, ClusterWrites, ClusterKept DEF RelabelFails, Typed, RequestTypeOK, Pools
  <2>2. PoolTypeOK'
    BY <1>7, HandlerKeepsPool DEF RelabelFails
  <2>3. RequestTypeOK'
    BY <1>7, ControlTypes DEF RelabelFails, Typed, CreatePCs, TeardownPCs
  <2> QED BY <2>1, <2>2, <2>3 DEF Typed
<1>8. ASSUME Unpolicy(p) PROVE Typed'
  <2>1. ClusterTypeOK'
    BY <1>8, ClusterWrites, ClusterKept DEF Unpolicy, Typed, RequestTypeOK, Pools
  <2>2. PoolTypeOK'
    BY <1>8, HandlerKeepsPool DEF Unpolicy
  <2>3. RequestTypeOK'
    BY <1>8, ControlTypes DEF Unpolicy, Typed, CreatePCs, TeardownPCs
  <2> QED BY <2>1, <2>2, <2>3 DEF Typed
<1>9. ASSUME DeletePod(p) PROVE Typed'
  <2>1. ClusterTypeOK'
    BY <1>9, ClusterClaims, ClusterKept DEF DeletePod, Typed
  <2>2. PoolTypeOK'
    BY <1>9, HandlerKeepsPool DEF DeletePod
  <2>3. RequestTypeOK'
    BY <1>9, ControlTypes DEF DeletePod, Typed, CreatePCs, TeardownPCs
  <2> QED BY <2>1, <2>2, <2>3 DEF Typed
<1>10. ASSUME DeletePodFails(p) PROVE Typed'
  <2>1. ClusterTypeOK'
    BY <1>10, ClusterKept DEF DeletePodFails, Typed
  <2>2. PoolTypeOK'
    BY <1>10, HandlerKeepsPool DEF DeletePodFails
  <2>3. RequestTypeOK'
    BY <1>10, ControlTypes DEF DeletePodFails, Typed, CreatePCs, TeardownPCs
  <2> QED BY <2>1, <2>2, <2>3 DEF Typed
<1>11. ASSUME DelPolicy(p) PROVE Typed'
  <2>1. ClusterTypeOK'
    BY <1>11, ClusterWrites, ClusterKept DEF DelPolicy, Typed, RequestTypeOK, Pools
  <2>2. PoolTypeOK'
    BY <1>11, HandlerKeepsPool DEF DelPolicy
  <2>3. RequestTypeOK'
    BY <1>11, ControlTypes DEF DelPolicy, Typed, CreatePCs, TeardownPCs
  <2> QED BY <2>1, <2>2, <2>3 DEF Typed
<1> QED BY <1>1, <1>2, <1>3, <1>4, <1>5, <1>6, <1>7, <1>8, <1>9, <1>10, <1>11 DEF DestroyNext

\* A crash forgets requests, locks and tasks and writes nothing to the cluster.
LEMMA CrashTypes ==
    ASSUME TypeOK, NEW w \in Workers, Crash(w)
    PROVE  TypeOK'
<1>1. readers' \in [Clients -> SUBSET Pods]
  BY ManagerAssumption DEF TypeOK, ClusterTypeOK, Crash
<1>2. ClusterTypeOK'
  BY <1>1 DEF TypeOK, ClusterTypeOK, Crash
<1>3. PoolTypeOK'
  BY DeathTypes DEF TypeOK, Crash
<1>4. RequestTypeOK'
  BY DEF TypeOK, RequestTypeOK, Crash
<1>5. crashes' \in 0 .. MaxCrashes
  BY ManagerAssumption DEF TypeOK, Crash
<1> QED BY <1>2, <1>3, <1>4, <1>5 DEF TypeOK

LEMMA InitTypes == Init => TypeOK
<1> SUFFICES ASSUME Init PROVE TypeOK
  OBVIOUS
<1>1. ClusterTypeOK
  BY DEF Init, ClusterInit, ClusterTypeOK, Phases, Pools
<1>2. PoolTypeOK
  BY PoolAssumption DEF Init, PoolInit, PoolTypeOK
<1>3. RequestTypeOK
  BY DEF Init, RequestTypeOK
<1>4. crashes \in 0 .. MaxCrashes
  BY ManagerAssumption DEF Init
<1> QED BY <1>1, <1>2, <1>3, <1>4 DEF TypeOK

\* No handler, pass, reaper, crash or act of the cluster breaks the types.
LEMMA NextTypes == TypeOK /\ [Next]_vars => TypeOK'
<1> SUFFICES ASSUME TypeOK, [Next]_vars PROVE TypeOK'
  OBVIOUS
<1>1. ASSUME NEW p \in Procs, CreateNext(p) \/ DestroyNext(p) PROVE TypeOK'
  <2>1. Typed'
    BY <1>1, CreateTypes, DestroyTypes DEF Typed, TypeOK
  <2>2. UNCHANGED crashes
    BY <1>1 DEF CreateNext, DestroyNext, At, StartCreate, Reuse, ReuseFails,
        ListWarm, SkipClaim, Claim, ClaimLost, ClaimUnheard, CreateCold,
        CreateColdUnheard, NoneClaimed, CreateColdFails, ColdReady, ColdNotReady, Configure,
        ConfigureFails, Label, LabelFails, SyncPolicy, StartDestroy, Wipe,
        WipeFails, Capacity, CapacityFails, Relabel, RelabelFails, Unpolicy,
        DeletePod, DeletePodFails, DelPolicy
  <2> QED BY <2>1, <2>2 DEF Typed, TypeOK
<1>2. CASE PoolNext /\ UNCHANGED <<requests, crashes>>
  <2>1. ClusterTypeOK' /\ PoolTypeOK'
    BY <1>2, ReplenishTypes, ReapTypes DEF PoolNext, TypeOK
  <2>2. RequestTypeOK'
    BY <1>2 DEF requests, RequestTypeOK, TypeOK
  <2> QED BY <1>2, <2>1, <2>2 DEF TypeOK
<1>3. CASE ClusterNext /\ UNCHANGED <<passvars, reapvars, requests, crashes>>
  <2>1. ClusterTypeOK' /\ PoolTypeOK'
    BY <1>3, ClusterAlone, PoolKept DEF TypeOK
  <2>2. RequestTypeOK'
    BY <1>3 DEF requests, RequestTypeOK, TypeOK
  <2> QED BY <1>3, <2>1, <2>2 DEF TypeOK
<1>4. ASSUME NEW w \in Workers, Crash(w) PROVE TypeOK'
  BY <1>4, CrashTypes
<1>5. CASE UNCHANGED vars
  <2>1. ClusterTypeOK' /\ PoolTypeOK'
    BY <1>5, ClusterKept, PoolKept DEF TypeOK, vars
  <2>2. RequestTypeOK'
    BY <1>5 DEF vars, requests, RequestTypeOK, TypeOK
  <2> QED BY <1>5, <2>1, <2>2 DEF TypeOK, vars
<1> QED BY <1>1, <1>2, <1>3, <1>4, <1>5 DEF Next

\* TypeOK: in every reachable state of every fleet the pods, the tasks of the
\* warm pools and the requests are what the code takes them for; a pass never
\* has more than its target left to create (warm_pool.py:1239-1248).
THEOREM FleetTypes == Spec => []TypeOK
<1>1. Init => TypeOK
  BY InitTypes
<1>2. TypeOK /\ [Next]_vars => TypeOK'
  BY NextTypes
<1> QED BY <1>1, <1>2, PTL DEF Spec

=============================================================================
