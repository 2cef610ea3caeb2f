----------------------------- MODULE FleetProofs -----------------------------
(***************************************************************************)
(* What else holds of the whole fleet, on top of Ownership: it implements  *)
(* PodLease, a session has one pod, no pod serves under the policy of      *)
(* another session, and the warm pool stays within twice its target.       *)
(*                                                                         *)
(* Each needs an invariant of its own. What the code itself does not       *)
(* guarantee, about failures, crashes or settings, is a hypothesis of the  *)
(* theorem: no failing prefetch, PoliciesFollow, OnePlanner.               *)
(***************************************************************************)
EXTENDS OwnershipProofs, PodsLeft

-----------------------------------------------------------------------------
(* What everything but a request does to pods.                             *)

\* A pod that runs, or will, or still does while it is being deleted.
LivePhases == {"Pending", "Running", "Terminating"}

\* What a pass, the reaper or the cluster may do to pod q that shows in its phase,
\* labels or policy: create it blank, move it on, or remove it.
Touched(q) ==
    /\ UNCHANGED policy
    /\ \/ CreatePodObject(q, "warm", None)
       \/ /\ phase[q] \in LivePhases
          /\ \E f \in {"Running", "Terminating", "Failed"} :
                phase' = [phase EXCEPT ![q] = f]
          /\ UNCHANGED <<pool, owner>>
       \/ phase[q] # "Absent" /\ Remove(q)

\* Nothing of that sort happens.
Untouched == UNCHANGED <<phase, pool, owner, policy>>

\* Both deletes by name are of this kind (_delete_pod, _sweep_stale_pods).
LEMMA DeleteTouches ==
    ASSUME NEW q, DeletePodObject(q) \/ DeletePodNow(q)
    PROVE  Untouched \/ Touched(q)
BY DEF DeletePodObject, DeletePodNow, Remove, cluster, Exists, Touched, Untouched,
    LivePhases

\* Whatever is not a request does one of these to at most one pod (WarmPoolManager,
\* the namespace).
LEMMA OthersTouch ==
    ASSUME PoolNext \/ ClusterNext
    PROVE  Untouched \/ \E q \in Pods : Touched(q)
<1>1. ASSUME NEW t \in Passes, ReplenishNext(t)
      PROVE  Untouched \/ \E q \in Pods : Touched(q)
  <2>1. ASSUME NEW q \in Pods, CreateWarm(t, q) PROVE Touched(q)
    BY <2>1 DEF CreateWarm, CreatePodObject, Touched
  <2>2. ASSUME NEW q \in Pods,
               Sweep(t, q) \/ WarmReady(t, q) \/ WarmNotReady(t, q)
        PROVE  Untouched \/ Touched(q)
    BY <2>2, DeleteTouches DEF Sweep, WarmReady, WarmNotReady, cluster, Untouched
  <2>3. CASE Scan(t) \/ ScanFails(t) \/ CreateWarmFails(t)
    BY <2>3 DEF Scan, ScanFails, BeginsScan, CreateWarmFails, cluster, Untouched
  <2> QED BY <1>1, <2>1, <2>2, <2>3 DEF ReplenishNext
<1>2. ASSUME NEW m \in Managers, ReapNext(m)
      PROVE  Untouched \/ \E q \in Pods : Touched(q)
  <2>1. ASSUME NEW q \in Pods, ReapDelete(m, q) PROVE Untouched \/ Touched(q)
    BY <2>1, DeleteTouches DEF ReapDelete
  <2>2. ASSUME NEW q \in Pods,
               ReapConfirm(m, q) \/ ReapSpare(m, q) \/ ReapDeleteFails(m, q)
        PROVE  Untouched
    BY <2>2 DEF ReapConfirm, ReapSpare, ReapDeleteFails, TouchSidecar, cluster, Untouched
  <2>3. CASE ReapList(m)
    BY <2>3 DEF ReapList, cluster, Untouched
  <2> QED BY <1>2, <2>1, <2>2, <2>3 DEF ReapNext
<1>3. ASSUME NEW q \in Pods,
             \/ BecomeReady(q) \/ Vanish(q) \/ DeadlineExpires(q)
             \/ GoIdle(q) \/ GrowOld(q)
      PROVE  Untouched \/ Touched(q)
  BY <1>3 DEF BecomeReady, Vanish, DeadlineExpires, GoIdle, GrowOld, Remove, Touched,
      Untouched, LivePhases
<1> QED BY <1>1, <1>2, <1>3 DEF PoolNext, ClusterNext

-----------------------------------------------------------------------------
(* The leases of the pods.                                                 *)

\* LeaseOf, case by case: what it says of a pod of each kind.
LeaseShape ==
    \A q \in Pods :
        /\ phase[q] = "Absent" => LeaseOf(q) = "Unborn"
        /\ phase[q] \in {"Failed", "Gone"} => LeaseOf(q) = "Gone"
        /\ phase[q] \in LivePhases =>
              /\ pool[q] = "warm" => LeaseOf(q) = "Free"
              /\ pool[q] = "claimed" =>
                    /\ \A p \in Obtained(q) : LeaseOf(q) = sess[p]
                    /\ Obtained(q) = {} =>
                          LeaseOf(q) = IF owner[q] # None THEN owner[q] ELSE "Orphan"

\* At most one request has obtained a pod, so LeaseOf does not depend on a choice.
LEMMA ShapeHolds == ASSUME TypeOK, Ownership PROVE LeaseShape
<1> SUFFICES ASSUME NEW q \in Pods
             PROVE  LeaseShape!(q)
  BY DEF LeaseShape
<1> DEFINE O == Obtained(q)
<1>1. \A p, r \in O : p = r
  BY DEF Obtained, Obtaining, Ownership, ObtainsAlone
<1>2. ASSUME NEW p \in O PROVE (CHOOSE r \in O : TRUE) = p
  <2>1. (CHOOSE r \in O : TRUE) \in O
    BY <1>2
  <2> QED BY <1>1, <1>2, <2>1
<1>3. phase[q] \in Phases /\ pool[q] \in Pools
  BY DEF TypeOK, ClusterTypeOK
<1> HIDE DEF O
<1> QED BY <1>2, <1>3 DEF LeaseOf, LivePhases, Exists, Pools, Phases, O

\* A live claimed pod is leased to a session, or nobody knows whose it is.
LEMMA Leased ==
    ASSUME TypeOK, Ownership, LeaseShape, NEW q \in Pods,
           phase[q] \in LivePhases, pool[q] = "claimed"
    PROVE  /\ \A p \in Obtained(q) : sess[p] \in Sessions
           /\ LeaseOf(q) \in Sessions \cup {"Orphan"}
<1>1. \A p \in Obtained(q) : sess[p] \in Sessions
  BY DEF TypeOK, RequestTypeOK, Ownership, HasPod, Obtained
<1>2. owner[q] \in Sessions \cup {None}
  BY DEF TypeOK, ClusterTypeOK
<1> QED BY <1>1, <1>2 DEF LeaseShape

\* A lease is one of the states PodLease knows.
LEMMA LeaseTyped ==
    ASSUME TypeOK, Ownership, LeaseShape, NEW q \in Pods
    PROVE  LeaseOf(q) \in Lease!States \cup Sessions
<1>1. phase[q] \in Phases /\ pool[q] \in Pools
  BY DEF TypeOK, ClusterTypeOK
<1> QED BY <1>1, Leased DEF LeaseShape, Lease!States, Phases, Pools, LivePhases

\* The pod keeps its labels, it stays live or as it was, and at most a request
\* lets go of it.
Retained(q) ==
    /\ \/ phase'[q] = phase[q]
       \/ phase[q] \in LivePhases /\ phase'[q] \in LivePhases
    /\ pool'[q] = pool[q] /\ owner'[q] = owner[q]
    /\ \A p \in Procs : p \in Obtained(q)' => p \in Obtained(q) /\ sess'[p] = sess[p]

\* It ends.
Ended(q) == phase[q] # "Absent" /\ phase'[q] \in {"Failed", "Gone"}

\* It is created for the warm pool.
Provisioned(q) == phase[q] = "Absent" /\ phase'[q] = "Pending" /\ pool'[q] = "warm"

\* A request obtains it, created for it or claimed.
Granting(q) ==
    /\ phase[q] = "Absent" \/ (phase[q] \in LivePhases /\ pool[q] = "warm")
    /\ phase'[q] \in LivePhases /\ pool'[q] = "claimed"
    /\ \E p \in Procs : p \in Obtained(q)' /\ sess'[p] \in Sessions

\* The request that obtained it labels it with its session, or fails to go on.
Labelling(q) ==
    /\ phase[q] \in LivePhases /\ phase'[q] \in LivePhases
    /\ pool[q] = "claimed" /\ pool'[q] = "claimed"
    /\ \E p \in Obtained(q) : owner'[q] = sess[p]
    /\ Obtained(q)' = {}

\* It is relabelled warm.
Returning(q) ==
    /\ phase[q] \in LivePhases /\ phase'[q] \in LivePhases
    /\ pool[q] = "claimed" /\ pool'[q] = "warm"
    /\ owner[q] \in Sessions

\* It is claimed, and the claimer does not hear of it.
Mislaying(q) ==
    /\ phase[q] \in LivePhases /\ phase'[q] \in LivePhases
    /\ pool[q] = "warm" /\ pool'[q] = "claimed"
    /\ owner'[q] = None /\ Obtained(q)' = {}

\* It is created for a session, and the request that asked does not hear of it.
Unclaimed(q) ==
    /\ phase[q] = "Absent" /\ phase'[q] \in LivePhases
    /\ pool'[q] = "claimed" /\ owner'[q] \in Sessions /\ Obtained(q)' = {}

\* What one step may do to a pod.
Moved(q) ==
    \/ Retained(q)
    \/ Ended(q)
    \/ Provisioned(q)
    \/ Granting(q)
    \/ Labelling(q)
    \/ Returning(q)
    \/ Mislaying(q)
    \/ Unclaimed(q)

\* Each of these is a step of PodLease, or none.
LEMMA MovedSteps ==
    ASSUME TypeOK, Ownership, LeaseShape, LeaseShape', TypeOK', NEW q \in Pods, Moved(q)
    PROVE  LeaseOf(q)' = LeaseOf(q) \/ Lease!Step(q)
<1> DEFINE was == LeaseOf(q)
           is == LeaseOf(q)'
<1>1. phase[q] \in Phases /\ pool[q] \in Pools /\ phase'[q] \in Phases /\ pool'[q] \in Pools
  BY DEF TypeOK, ClusterTypeOK
<1>2. /\ is = was => (is = was \/ Lease!Step(q))
      /\ was = "Unborn" /\ is = "Free" => Lease!Step(q)
      /\ was \in {"Unborn", "Free"} /\ is \in Sessions => Lease!Step(q)
      /\ was \in Sessions /\ is = "Free" => Lease!Step(q)
      /\ was \in {"Free"} \cup Sessions /\ is = "Orphan" => Lease!Step(q)
      /\ was \in {"Free", "Orphan"} \cup Sessions /\ is = "Gone" => Lease!Step(q)
  BY DEF Lease!Step, Lease!Provision, Lease!Grant, Lease!Return, Lease!Mislay, Lease!End,
      Lease!Becomes
<1>3. phase[q] \in LivePhases /\ pool[q] = "claimed" =>
        /\ \A p \in Obtained(q) : sess[p] \in Sessions
        /\ was \in Sessions \cup {"Orphan"}
  BY Leased
<1>4. /\ phase[q] = "Absent" => was = "Unborn"
      /\ phase[q] \in {"Failed", "Gone"} => was = "Gone"
      /\ phase[q] \in LivePhases /\ pool[q] = "warm" => was = "Free"
      /\ phase[q] \in LivePhases /\ pool[q] = "claimed" =>
            /\ \A p \in Obtained(q) : was = sess[p]
            /\ Obtained(q) = {} => was = IF owner[q] # None THEN owner[q] ELSE "Orphan"
  BY DEF LeaseShape
<1>5. /\ phase'[q] = "Absent" => is = "Unborn"
      /\ phase'[q] \in {"Failed", "Gone"} => is = "Gone"
      /\ phase'[q] \in LivePhases /\ pool'[q] = "warm" => is = "Free"
      /\ phase'[q] \in LivePhases /\ pool'[q] = "claimed" =>
            /\ \A p \in Procs : p \in Obtained(q)' => is = sess'[p]
            /\ Obtained(q)' = {} => is = IF owner'[q] # None THEN owner'[q] ELSE "Orphan"
  BY DEF LeaseShape, Obtained
<1>6. /\ Obtained(q) \subseteq Procs
      /\ Obtained(q)' # {} => \E p \in Procs : p \in Obtained(q)'
  BY DEF Obtained
<1>7. CASE Retained(q)
  <2>1. CASE phase[q] \notin LivePhases
    BY <1>1, <1>2, <1>4, <1>5, <1>7, <2>1 DEF Retained, LivePhases, Phases
  <2>2. CASE phase[q] \in LivePhases /\ pool[q] = "warm"
    BY <1>2, <1>4, <1>5, <1>7, <2>2 DEF Retained, LivePhases
  <2>3. CASE phase[q] \in LivePhases /\ pool[q] = "claimed" /\ Obtained(q) = {}
    <3>1. Obtained(q)' = {}
      BY <1>6, <1>7, <2>3 DEF Retained
    <3> QED BY <1>2, <1>4, <1>5, <1>7, <2>3, <3>1 DEF Retained, LivePhases
  <2>4. CASE phase[q] \in LivePhases /\ pool[q] = "claimed" /\ Obtained(q) # {}
    <3>1. PICK p \in Obtained(q) : was = sess[p] /\ sess[p] \in Sessions
      BY <1>3, <1>4, <2>4
    <3>2. owner[q] \in {None, sess[p]}
      BY <2>4, <3>1 DEF Ownership, ObtainsAlone, Obtained, Obtaining, Exists, LivePhases
    <3>3. CASE Obtained(q)' = {}
      BY <1>2, <1>5, <1>7, <2>4, <3>1, <3>2, <3>3 DEF Retained
    <3>4. CASE Obtained(q)' # {}
      <4>1. PICK r \in Procs : r \in Obtained(q)'
        BY <1>6, <3>4
      <4>2. r \in Obtained(q) /\ sess'[r] = sess[r] /\ was = sess[r]
        BY <1>4, <1>7, <2>4, <4>1 DEF Retained
      <4> QED BY <1>2, <1>5, <1>7, <2>4, <4>1, <4>2 DEF Retained
    <3> QED BY <3>3, <3>4
  <2> QED BY <1>1, <2>1, <2>2, <2>3, <2>4 DEF Pools
<1>8. CASE Ended(q)
  BY <1>1, <1>2, <1>3, <1>4, <1>5, <1>8 DEF Ended, LivePhases, Phases, Pools
<1>9. CASE Provisioned(q)
  BY <1>2, <1>4, <1>5, <1>9 DEF Provisioned, LivePhases
<1>10. CASE Granting(q)
  BY <1>2, <1>4, <1>5, <1>10 DEF Granting
<1>11. CASE Labelling(q)
  <2>1. PICK p \in Obtained(q) : owner'[q] = sess[p]
    BY <1>11 DEF Labelling
  <2>2. owner'[q] \in Sessions /\ owner'[q] # None
    BY <1>3, <1>11, <2>1, ClusterAssumption DEF Labelling
  <2> QED BY <1>2, <1>4, <1>5, <1>11, <2>1, <2>2 DEF Labelling
<1>12. CASE Returning(q)
  <2>1. was \in Sessions
    <3>1. owner[q] # None
      BY <1>12, ClusterAssumption DEF Returning
    <3>2. CASE Obtained(q) = {}
      BY <1>4, <1>12, <3>1, <3>2 DEF Returning
    <3>3. CASE Obtained(q) # {}
      BY <1>3, <1>4, <1>12, <3>3 DEF Returning
    <3> QED BY <3>2, <3>3
  <2> QED BY <1>2, <1>5, <1>12, <2>1 DEF Returning
<1>13. CASE Mislaying(q)
  BY <1>2, <1>4, <1>5, <1>13 DEF Mislaying
<1>14. CASE Unclaimed(q)
  BY <1>2, <1>4, <1>5, <1>14, ClusterAssumption DEF Unclaimed
<1> QED BY <1>7, <1>8, <1>9, <1>10, <1>11, <1>12, <1>13, <1>14 DEF Moved

\* The steps of create_session that leave every pod as it is, or only let go of it.
LEMMA CreateRetains ==
    ASSUME TypeOK, NEW x \in Pods, NEW p \in Procs,
           \/ \E s \in Sessions : StartCreate(p, s)
           \/ Reuse(p)
           \/ ReuseFails(p)
           \/ ListWarm(p)
           \/ SkipClaim(p)
           \/ \E q \in Pods : ClaimLost(p, q)
           \/ NoneClaimed(p)
           \/ CreateColdFails(p)
           \/ ColdReady(p)
           \/ ColdNotReady(p)
           \/ Configure(p)
           \/ ConfigureFails(p)
           \/ SyncPolicy(p)
    PROVE  Retained(x)
<1> USE DEF TypeOK, RequestTypeOK, Retained, Obtained, At, Goto, cluster
<1>1. ASSUME NEW s \in Sessions, StartCreate(p, s) PROVE Retained(x)
  BY <1>1 DEF StartCreate, OwnedBy
<1>2. CASE Reuse(p)
  BY <1>2 DEF Reuse, Ends, TouchSidecar
<1>3. CASE ReuseFails(p)
  BY <1>3 DEF ReuseFails, OwnedBy
<1>4. CASE ListWarm(p)
  BY <1>4 DEF ListWarm
<1>5. CASE SkipClaim(p)
  BY <1>5 DEF SkipClaim, Moves
<1>6. ASSUME NEW q \in Pods, ClaimLost(p, q) PROVE Retained(x)
  BY <1>6 DEF ClaimLost
<1>7. CASE NoneClaimed(p)
  BY <1>7 DEF NoneClaimed, Moves
<1>8. CASE CreateColdFails(p)
  BY <1>8 DEF CreateColdFails, Ends
<1>9. CASE ColdReady(p)
  BY <1>9 DEF ColdReady, Moves
<1>10. CASE ColdNotReady(p)
  BY <1>10 DEF ColdNotReady, CleansUp
<1>11. CASE Configure(p)
  BY <1>11 DEF Configure, ConfigureSidecar, Moves
<1>12. CASE ConfigureFails(p)
  BY <1>12 DEF ConfigureFails, ConfigureSidecar, Ends
<1>13. CASE SyncPolicy(p)
  BY <1>13 DEF SyncPolicy, SetPolicy, Ends
<1> QED BY <1>1, <1>2, <1>3, <1>4, <1>5, <1>6, <1>7, <1>8, <1>9, <1>10, <1>11, <1>12,
    <1>13

\* The steps of destroy_session that do.
LEMMA DestroyRetains ==
    ASSUME TypeOK, NEW x \in Pods, NEW p \in Procs,
           \/ \E s \in Sessions : StartDestroy(p, s)
           \/ Wipe(p)
           \/ WipeFails(p)
           \/ Capacity(p)
           \/ CapacityFails(p)
           \/ Unpolicy(p)
           \/ DeletePodFails(p)
           \/ DelPolicy(p)
    PROVE  Retained(x)
<1> USE DEF TypeOK, RequestTypeOK, Retained, Obtained, At, Goto, cluster
<1>1. ASSUME NEW s \in Sessions, StartDestroy(p, s) PROVE Retained(x)
  BY <1>1 DEF StartDestroy, OwnedBy
<1>2. CASE Wipe(p)
  BY <1>2 DEF Wipe, ConfigureSidecar, Moves
<1>3. CASE WipeFails(p)
  BY <1>3 DEF WipeFails, ConfigureSidecar, TouchSidecar, Moves
<1>4. CASE Capacity(p)
  BY <1>4 DEF Capacity, Moves
<1>5. CASE CapacityFails(p)
  BY <1>5 DEF CapacityFails, Moves
<1>6. CASE Unpolicy(p)
  BY <1>6 DEF Unpolicy, SetPolicy, TornDown, Ends
<1>7. CASE DeletePodFails(p)
  BY <1>7 DEF DeletePodFails, TornDown, Moves, Ends
<1>8. CASE DelPolicy(p)
  BY <1>8 DEF DelPolicy, SetPolicy, TornDown, Ends
<1> QED BY <1>1, <1>2, <1>3, <1>4, <1>5, <1>6, <1>7, <1>8

\* Every step of create_session moves each pod so; who claims a pod finds it blank.
LEMMA CreateMoves ==
    ASSUME TypeOK, Ownership, Ownership', NEW x \in Pods, NEW p \in Procs, CreateNext(p)
    PROVE  Moved(x)
<1> USE DEF TypeOK, ClusterTypeOK, RequestTypeOK, Obtained, At, Goto, cluster
<1>1. ASSUME NEW q \in Pods, Claim(p, q) PROVE Moved(x)
  <2>1. Exists(q) /\ pool[q] = "warm" /\ sess[p] \in Sessions
    BY <1>1 DEF Claim, CasClaim, CasWins, Ownership, HasPod
  <2>2. CASE x # q
    BY <1>1, <2>2 DEF Claim, CasClaim, Retained, Moved
  <2>3. CASE x = q /\ phase[q] \in LivePhases
    BY <1>1, <2>1, <2>3 DEF Claim, CasClaim, Granting, Moved
  <2>4. CASE x = q /\ phase[q] = "Failed"
    BY <1>1, <2>4 DEF Claim, CasClaim, Ended, Moved
  <2> QED BY <2>1, <2>2, <2>3, <2>4 DEF Exists, LivePhases
<1>2. ASSUME NEW q \in Pods, ClaimUnheard(p, q) PROVE Moved(x)
  <2>1. Exists(q) /\ pool[q] = "warm"
    BY <1>2 DEF ClaimUnheard, CasClaim, CasWins
  <2>2. CASE x # q
    BY <1>2, <2>2 DEF ClaimUnheard, CasClaim, Retained, Moved
  <2>3. CASE x = q /\ phase[q] \in LivePhases
    <3>1. owner[q] = None
      BY <2>1 DEF Ownership, Labelled
    <3>2. \A r \in Procs : ~(pc[r] \in Obtaining /\ cand[r] = q)
      BY <2>1 DEF Ownership, ObtainsAlone
    <3>3. Obtained(q)' = {}
      BY <1>2, <3>2 DEF ClaimUnheard, CasClaim, Obtaining
    <3> QED BY <1>2, <2>1, <2>3, <3>1, <3>3 DEF ClaimUnheard, CasClaim, Mislaying, Moved
  <2>4. CASE x = q /\ phase[q] = "Failed"
    BY <1>2, <2>4 DEF ClaimUnheard, CasClaim, Ended, Moved
  <2> QED BY <2>1, <2>2, <2>3, <2>4 DEF Exists, LivePhases
<1>3. ASSUME NEW q \in Pods, CreateCold(p, q) PROVE Moved(x)
  <2>1. sess[p] \in Sessions
    BY <1>3 DEF CreateCold, Ownership, HasPod
  <2>2. CASE x # q
    BY <1>3, <2>2 DEF CreateCold, CreatePodObject, Retained, Moved
  <2>3. CASE x = q
    <3>1. phase[x] = "Absent" /\ phase'[x] \in LivePhases /\ pool'[x] = "claimed"
      BY <1>3, <2>3 DEF CreateCold, CreatePodObject, LivePhases
    <3>2. \E r \in Procs : r \in Obtained(x)' /\ sess'[r] \in Sessions
      BY <1>3, <2>1, <2>3 DEF CreateCold
    <3>3. Granting(x)
      BY <3>1, <3>2, Zenon DEF Granting
    <3> QED BY <3>3 DEF Moved
  <2> QED BY <2>2, <2>3
<1>4. ASSUME Label(p) \/ LabelFails(p) PROVE Moved(x)
  <2>1. CASE owner' = owner /\ pool' = pool
    BY <1>4, <2>1 DEF Label, LabelFails, CleansUp, Moves, Ends, MergeLabels, Retained,
        Moved
  <2>2. CASE MergeLabels(cand[p], "claimed", sess[p])
    <3>1. /\ cand[p] \in Pods /\ pool[cand[p]] = "claimed" /\ Exists(cand[p])
          /\ p \in Obtained(cand[p]) /\ \A r \in Obtained(cand[p]) : r = p
      BY <1>4, <2>2 DEF Label, LabelFails, MergeLabels, Ownership, HasPod, ObtainsAlone,
          Obtaining
    <3>2. CASE x # cand[p]
      BY <1>4, <2>2, <3>2 DEF Label, LabelFails, CleansUp, Moves, Ends, MergeLabels,
          Retained, Moved
    <3>3. CASE x = cand[p] /\ phase[x] \in LivePhases
      <4>1. Obtained(x)' = {}
        BY <1>4, <2>2, <3>1, <3>3 DEF Label, LabelFails, CleansUp, Moves, Ends
      <4> QED BY <2>2, <3>1, <3>3, <4>1 DEF MergeLabels, Labelling, Moved
    <3>4. CASE x = cand[p] /\ phase[x] = "Failed"
      BY <2>2, <3>4 DEF MergeLabels, Ended, Moved
    <3> QED BY <3>1, <3>2, <3>3, <3>4 DEF Exists, LivePhases
  <2> QED BY <1>4, <2>1, <2>2 DEF Label, LabelFails
<1>5. \/ Retained(x)
      \/ \E q \in Pods : \/ Claim(p, q) \/ ClaimUnheard(p, q)
                         \/ CreateCold(p, q) \/ CreateColdUnheard(p, q)
      \/ Label(p) \/ LabelFails(p)
  BY CreateRetains DEF CreateNext
<1>6. ASSUME NEW q \in Pods, CreateColdUnheard(p, q) PROVE Moved(x)
  <2>1. sess[p] \in Sessions /\ phase[q] = "Absent"
    BY <1>6 DEF CreateColdUnheard, CreatePodObject, Ownership, HasPod
  <2>2. CASE x # q
    BY <1>6, <2>2 DEF CreateColdUnheard, CreatePodObject, Ends, Retained, Moved
  <2>3. CASE x = q
    <3>1. Obtained(q)' = {}
      BY <1>6, <2>1 DEF CreateColdUnheard, Ends, Ownership, HasPod, Obtaining
    <3> QED BY <1>6, <2>1, <2>3, <3>1 DEF CreateColdUnheard, CreatePodObject, LivePhases, Unclaimed,
          Moved
  <2> QED BY <2>2, <2>3
<1> QED BY <1>1, <1>2, <1>3, <1>4, <1>5, <1>6 DEF Moved

\* Every step of destroy_session does; what it relabels is its own.
LEMMA DestroyMoves ==
    ASSUME TypeOK, Ownership, NEW x \in Pods, NEW p \in Procs, DestroyNext(p)
    PROVE  Moved(x)
<1> USE DEF TypeOK, ClusterTypeOK, RequestTypeOK, Obtained, At, Goto, cluster
<1>1. ASSUME Relabel(p) \/ RelabelFails(p) PROVE Moved(x)
  <2>1. CASE owner' = owner /\ pool' = pool
    BY <1>1, <2>1 DEF Relabel, RelabelFails, TornDown, Moves, Ends, MergeLabels,
        Retained, Moved
  <2>2. CASE MergeLabels(cand[p], "warm", None)
    <3>1. /\ cand[p] \in Pods /\ pool[cand[p]] = "claimed" /\ Exists(cand[p])
          /\ owner[cand[p]] \in Sessions
      BY <1>1, <2>2 DEF Relabel, RelabelFails, MergeLabels, Ownership, HasPod, ServesOwn,
          Serving
    <3>2. CASE x # cand[p]
      BY <1>1, <2>2, <3>2 DEF Relabel, RelabelFails, TornDown, Moves, Ends, MergeLabels,
          Retained, Moved
    <3>3. CASE x = cand[p] /\ phase[x] \in LivePhases
      BY <2>2, <3>1, <3>3 DEF MergeLabels, Returning, Moved
    <3>4. CASE x = cand[p] /\ phase[x] = "Failed"
      BY <2>2, <3>4 DEF MergeLabels, Ended, Moved
    <3> QED BY <3>1, <3>2, <3>3, <3>4 DEF Exists, LivePhases
  <2> QED BY <1>1, <2>1, <2>2 DEF Relabel, RelabelFails
<1>2. ASSUME DeletePod(p) PROVE Moved(x)
  BY <1>2 DEF DeletePod, DeletePodObject, Remove, TornDown, Moves, Ends, Retained, Ended,
      Moved, LivePhases
<1>3. Retained(x) \/ Relabel(p) \/ RelabelFails(p) \/ DeletePod(p)
  BY DestroyRetains DEF DestroyNext
<1> QED BY <1>1, <1>2, <1>3 DEF Moved

\* So does what passes, reapers and the cluster do,
LEMMA TouchMoves ==
    ASSUME TypeOK, NEW x \in Pods, NEW q \in Pods, Touched(q), UNCHANGED requests
    PROVE  Moved(x)
<1> USE DEF TypeOK, ClusterTypeOK, requests, Obtained
<1>1. CASE CreatePodObject(q, "warm", None)
  BY <1>1 DEF CreatePodObject, Retained, Provisioned, Moved
<1>2. ASSUME phase[q] \in LivePhases, NEW f \in {"Running", "Terminating", "Failed"},
             phase' = [phase EXCEPT ![q] = f], UNCHANGED <<pool, owner>>
      PROVE  Moved(x)
  BY <1>2 DEF LivePhases, Retained, Ended, Moved
<1>3. CASE phase[q] # "Absent" /\ Remove(q)
  BY <1>3 DEF Remove, Retained, Ended, Moved
<1> QED BY <1>1, <1>2, <1>3 DEF Touched

\* and what they leave alone.
LEMMA UntouchedStays ==
    ASSUME NEW x \in Pods, Untouched, UNCHANGED requests
    PROVE  Moved(x)
BY DEF Untouched, requests, Obtained, Retained, Moved

\* A crash makes requests let go, of several pods at once.
LEMMA CrashMoves ==
    ASSUME TypeOK, NEW x \in Pods, NEW w \in Workers, Crash(w)
    PROVE  Moved(x)
BY DEF TypeOK, RequestTypeOK, Crash, Obtained, Retained, Moved

\* The type of PodLease, of the leases of the fleet.
LeaseTypes == \A q \in Pods : LeaseOf(q) \in Lease!States \cup Sessions

\* LeaseKept: the fleet implements PodLease.  Every step of every handler, pass,
\* reaper and crash (manager.py, warm_pool.py) takes each pod from lease to lease
\* as PodLease allows, or leaves it.
THEOREM FleetKeepsLeases == Serial => (Spec => LeaseKept)
<1> SUFFICES ASSUME Serial PROVE Spec => LeaseKept
  OBVIOUS
<1>1. Init => Lease!LeaseInit
  <2>1. ASSUME Init, NEW q \in Pods PROVE LeaseOf(q) = "Unborn"
    BY <2>1 DEF Init, ClusterInit, LeaseOf, Exists
  <2> QED BY <2>1 DEF Lease!LeaseInit
<1>2. TypeOK /\ Ownership => LeaseShape /\ LeaseTypes
  BY ShapeHolds, LeaseTyped DEF LeaseTypes
<1>3. /\ TypeOK /\ Ownership /\ LeaseShape
      /\ TypeOK' /\ Ownership' /\ LeaseShape' /\ LeaseTypes'
      /\ [Next]_vars
      => [Lease!LeaseNext]_([q \in Pods |-> LeaseOf(q)])
  <2> SUFFICES ASSUME TypeOK, Ownership, LeaseShape,
                      TypeOK', Ownership', LeaseShape', LeaseTypes', [Next]_vars
               PROVE  Lease!LeaseNext
    OBVIOUS
  <2>1. ASSUME NEW x \in Pods PROVE Moved(x)
    <3>1. ASSUME NEW p \in Procs, CreateNext(p) \/ DestroyNext(p) PROVE Moved(x)
      BY <3>1, CreateMoves, DestroyMoves
    <3>2. CASE (PoolNext \/ ClusterNext) /\ UNCHANGED <<requests, crashes>>
      BY <3>2, OthersTouch, TouchMoves, UntouchedStays
    <3>3. ASSUME NEW w \in Workers, Crash(w) PROVE Moved(x)
      BY <3>3, CrashMoves
    <3>4. CASE UNCHANGED vars
      BY <3>4, UntouchedStays DEF vars, cluster, Untouched
    <3> QED BY <3>1, <3>2, <3>3, <3>4 DEF Next
  <2>2. \A q \in Pods : LeaseOf(q)' = LeaseOf(q) \/ Lease!Step(q)
    BY <2>1, MovedSteps
  <2>3. Lease!LeaseTypeOK'
    BY DEF Lease!LeaseTypeOK, LeaseTypes
  <2> QED BY <2>2, <2>3 DEF Lease!LeaseNext
<1>4. Spec => []TypeOK
  BY FleetTypes
<1>5. Spec => []Ownership
  BY OwnershipInvariant
<1> QED BY <1>1, <1>2, <1>3, <1>4, <1>5, PTL DEF Spec, LeaseKept, Lease!LeaseSpec

-----------------------------------------------------------------------------
(* One pod for a session, and one more for each that was left behind.       *)

\* The awaits at which a request is about to take a pod, and at which it has one.
Creating == {"list", "cas", "cold"}
Having   == {"ready", "configure", "label", "reuse"}

\* The pods that session s has, up or not.
PodsOf(s) == {q \in Pods : phase[q] \in LivePhases /\ owner[q] = s}

\* The pods of session s but for one, if there are too many, are accounted for.
Covered(s, S) == Cardinality(S) <= Cardinality(left[s])

\* A create that will take a pod, after it tore one down or at once.
Taking(p) == pc[p] \in Creating \/ (op[p] = "create" /\ pc[p] \in TeardownPCs)

\* All pods of a session but one were left behind, as far as their number goes;
Bounded == \A s \in Sessions : Cardinality(PodsOf(s)) <= 1 + Cardinality(left[s])

\* if a request is about to take one, all of them were;
TakesFirst == \A p \in Procs : Taking(p) => Covered(sess[p], PodsOf(sess[p]))

\* if it has one, all the others were.
HasOne == \A p \in Procs : pc[p] \in Having => Covered(sess[p], PodsOf(sess[p]) \ {cand[p]})

\* A pod of a session that is not up is in the hands of that session or left behind.
PendingKnown ==
    \A q \in Pods : phase[q] = "Pending" /\ owner[q] # None =>
        \/ q \in left[owner[q]]
        \/ \E p \in Procs : cand[p] = q

HoldsOwn ==
    \A p \in Procs, q \in Pods :
        cand[p] = q /\ phase[q] = "Pending" /\ owner[q] # None => sess[p] = owner[q]

\* Who labels or reuses a pod found it up.
StartedPod == \A p \in Procs : pc[p] \in {"label", "reuse"} => phase[cand[p]] # "Pending"

\* Only what was created is left behind.
LeftBorn == \A s \in Sessions : \A q \in left[s] : phase[q] # "Absent"

\* The inductive invariant behind OnePodPerSession.
OnePod ==
    /\ HistoryTypeOK
    /\ Bounded /\ TakesFirst /\ HasOne
    /\ PendingKnown /\ HoldsOwn /\ StartedPod /\ LeftBorn

\* What is left behind stays so.
Recorded == left' = [s \in Sessions |-> left[s] \cup Unattended(s)']

LEMMA LeftGrows ==
    ASSUME HistoryTypeOK, Recorded
    PROVE  /\ HistoryTypeOK'
           /\ \A s \in Sessions :
                /\ left[s] \subseteq left'[s]
                /\ Cardinality(left[s]) \in Nat /\ Cardinality(left'[s]) \in Nat
                /\ Cardinality(left[s]) <= Cardinality(left'[s])
<1>1. HistoryTypeOK'
  BY DEF HistoryTypeOK, Recorded, Unattended
<1>2. ASSUME NEW s \in Sessions
      PROVE  left[s] \subseteq left'[s] /\ left'[s] \subseteq Pods
  BY <1>1 DEF HistoryTypeOK, Recorded
<1>3. \A s \in Sessions : IsFiniteSet(left'[s])
  BY <1>2, ClusterAssumption, FS_Subset
<1> QED BY <1>1, <1>2, <1>3, FS_Subset, FS_CardinalityType

\* A pod that was created is never again one that was not.
Aged == \A q \in Pods : /\ phase[q] # "Absent" => phase'[q] # "Absent"
                        /\ phase[q] \notin {"Absent", "Pending"} => phase'[q] # "Pending"

\* The history itself keeps what it says about pods that are not up.
LEMMA RecordKeeps ==
    ASSUME TypeOK, TypeOK', OnePod, Recorded, Aged, HoldsOwn'
    PROVE  PendingKnown' /\ LeftBorn'
<1>1. PendingKnown'
  BY DEF TypeOK, ClusterTypeOK, PendingKnown, Recorded, Unattended
<1>2. LeftBorn'
  BY DEF OnePod, LeftBorn, HistoryTypeOK, Recorded, Unattended, Aged
<1> QED BY <1>1, <1>2

\* Fewer pods of a session are as well accounted for.
LEMMA CoveredStays ==
    ASSUME HistoryTypeOK, Recorded, NEW s \in Sessions,
           NEW S \in SUBSET Pods, NEW T \in SUBSET Pods, T \subseteq S
    PROVE  /\ Cardinality(T) \in Nat /\ Cardinality(S) \in Nat
           /\ Cardinality(T) <= Cardinality(S)
           /\ Cardinality(S) <= Cardinality(left[s])
                => Cardinality(T) <= Cardinality(left'[s])
           /\ Cardinality(S) <= 1 + Cardinality(left[s])
                => Cardinality(T) <= 1 + Cardinality(left'[s])
<1>1. IsFiniteSet(S) /\ IsFiniteSet(T)
  BY ClusterAssumption, FS_Subset
<1>2. Cardinality(T) \in Nat /\ Cardinality(S) \in Nat /\ Cardinality(T) <= Cardinality(S)
  BY <1>1, FS_Subset, FS_CardinalityType
<1> QED BY <1>2, LeftGrows

\* Session s gets no pod.
Narrows(s) == PodsOf(s)' \subseteq PodsOf(s)

\* Request p stays at what it does, or stops doing it.
Proceeds(p) ==
    /\ Taking(p)' => Taking(p) /\ sess'[p] = sess[p]
    /\ pc'[p] \in Having =>
          /\ sess'[p] = sess[p]
          /\ Taking(p) \/ (pc[p] \in Having /\ cand'[p] = cand[p])

\* The requests other than p are where they were.
Waits(p) ==
    \A r \in Procs \ {p} :
        pc'[r] = pc[r] /\ op'[r] = op[r] /\ sess'[r] = sess[r] /\ cand'[r] = cand[r]

\* What a request has is accounted for after a step that takes no pod for its session.
LEMMA ProceedsKeeps ==
    ASSUME TypeOK, OnePod, Recorded, NEW p \in Procs, \A s \in Sessions : Narrows(s),
           Proceeds(p),
           pc'[p] # "idle" => sess'[p] \in Sessions
    PROVE  /\ Taking(p)' => Covered(sess[p], PodsOf(sess[p]))'
           /\ pc'[p] \in Having => Covered(sess[p], PodsOf(sess[p]) \ {cand[p]})'
<1> USE DEF OnePod, TypeOK, RequestTypeOK, Covered
<1>1. ASSUME Taking(p)' PROVE Covered(sess[p], PodsOf(sess[p]))'
  <2>1. Taking(p) /\ sess'[p] = sess[p] /\ sess[p] \in Sessions
    BY <1>1 DEF Proceeds, Taking, Creating, TeardownPCs
  <2>2. PodsOf(sess[p])' \subseteq PodsOf(sess[p])
    BY <2>1, ClusterAssumption DEF Narrows, PodsOf
  <2>3. PodsOf(sess[p]) \in SUBSET Pods /\ PodsOf(sess[p])' \in SUBSET Pods
    BY DEF PodsOf
  <2> QED BY <2>1, <2>2, <2>3, CoveredStays DEF TakesFirst
<1>2. ASSUME pc'[p] \in Having PROVE Covered(sess[p], PodsOf(sess[p]) \ {cand[p]})'
  <2>1. sess'[p] = sess[p] /\ sess[p] \in Sessions
    BY <1>2 DEF Proceeds, Having
  <2>2. PodsOf(sess[p])' \subseteq PodsOf(sess[p])
    BY <2>1, ClusterAssumption DEF Narrows, PodsOf
  <2>3. PodsOf(sess[p]) \in SUBSET Pods /\ PodsOf(sess[p])' \in SUBSET Pods
    BY DEF PodsOf
  <2>4. CASE Taking(p)
    BY <2>1, <2>2, <2>3, <2>4, CoveredStays DEF TakesFirst
  <2>5. CASE pc[p] \in Having /\ cand'[p] = cand[p]
    <3>1. (PodsOf(sess[p]) \ {cand[p]})' \subseteq PodsOf(sess[p]) \ {cand[p]}
      BY <2>2, <2>5
    <3>2. Cardinality(PodsOf(sess[p]) \ {cand[p]}) <= Cardinality(left[sess[p]])
      BY <2>5 DEF HasOne
    <3> QED BY <2>1, <2>3, <3>1, <3>2, CoveredStays
  <2> QED BY <1>2, <2>4, <2>5 DEF Proceeds
<1> QED BY <1>1, <1>2

\* What others have stays accounted for, if only p acts and only its session gets a pod.
LEMMA WaitsKeeps ==
    ASSUME TypeOK, OneRequest, HasPod, OnePod, Recorded, NEW p \in Procs, Waits(p),
           \A s \in Sessions : s # sess[p] => Narrows(s)
    PROVE  \A r \in Procs \ {p} :
             /\ Taking(r)' => Covered(sess[r], PodsOf(sess[r]))'
             /\ pc'[r] \in Having => Covered(sess[r], PodsOf(sess[r]) \ {cand[r]})'
<1> SUFFICES ASSUME NEW r \in Procs \ {p}, Taking(r)' \/ pc'[r] \in Having
             PROVE  /\ Taking(r)' => Covered(sess[r], PodsOf(sess[r]))'
                    /\ pc'[r] \in Having => Covered(sess[r], PodsOf(sess[r]) \ {cand[r]})'
  OBVIOUS
<1> USE DEF OnePod, Covered
<1>1. /\ pc'[r] = pc[r] /\ op'[r] = op[r] /\ sess'[r] = sess[r] /\ cand'[r] = cand[r]
      /\ sess[r] \in Sessions /\ sess[r] # sess[p]
  BY ClusterAssumption DEF Waits, TypeOK, RequestTypeOK, OneRequest, HasPod, Taking, Creating,
      TeardownPCs, Having
<1>2. PodsOf(sess[r])' \subseteq PodsOf(sess[r])
  BY <1>1 DEF Narrows, PodsOf
<1>3. PodsOf(sess[r]) \in SUBSET Pods /\ PodsOf(sess[r])' \in SUBSET Pods
  BY DEF PodsOf
<1>4. ASSUME Taking(r)' PROVE Covered(sess[r], PodsOf(sess[r]))'
  <2>1. Taking(r)
    BY <1>1, <1>4 DEF Taking
  <2> QED BY <1>1, <1>2, <1>3, <2>1, CoveredStays DEF TakesFirst
<1>5. ASSUME pc'[r] \in Having PROVE Covered(sess[r], PodsOf(sess[r]) \ {cand[r]})'
  <2>1. (PodsOf(sess[r]) \ {cand[r]})' \subseteq PodsOf(sess[r]) \ {cand[r]}
    BY <1>1, <1>2
  <2>2. Cardinality(PodsOf(sess[r]) \ {cand[r]}) <= Cardinality(left[sess[r]])
    BY <1>1, <1>5 DEF HasOne
  <2> QED BY <1>1, <1>3, <2>1, <2>2, CoveredStays
<1> QED BY <1>4, <1>5

\* So does the count of a session that gets no pod.
LEMMA NarrowsKeeps ==
    ASSUME OnePod, Recorded, NEW s \in Sessions, Narrows(s)
    PROVE  Cardinality(PodsOf(s)') <= 1 + Cardinality(left'[s])
BY CoveredStays DEF OnePod, Bounded, Narrows, PodsOf

\* A request that takes no pod for its session, by what it does to pods and to itself.
Modest(p) ==
    /\ \A s \in Sessions : Narrows(s)
    /\ Proceeds(p) /\ Waits(p)

LEMMA ModestKeeps ==
    ASSUME TypeOK, TypeOK', Ownership, Ownership', OnePod, Recorded, NEW p \in Procs, Modest(p)
    PROVE  Bounded' /\ TakesFirst' /\ HasOne'
<1>1. Bounded'
  BY NarrowsKeeps DEF Bounded, Modest
<1>2. pc'[p] # "idle" => sess'[p] \in Sessions
  BY DEF TypeOK, RequestTypeOK, Ownership, HasPod
<1>3. \A r \in Procs :
        /\ Taking(r)' => Covered(sess[r], PodsOf(sess[r]))'
        /\ pc'[r] \in Having => Covered(sess[r], PodsOf(sess[r]) \ {cand[r]})'
  BY <1>2, ProceedsKeeps, WaitsKeeps DEF Modest, Ownership
<1> QED BY <1>1, <1>3 DEF TakesFirst, HasOne

\* A step of create_session or destroy_session moves pods on, and who holds a pod that
\* is not up holds it for its session.
Ages == Aged /\ HoldsOwn' /\ StartedPod'

LEMMA CreateAges ==
    ASSUME TypeOK, HasPod, Labelled, ObtainsAlone, HoldsOwn, StartedPod, NEW p \in Procs, CreateNext(p)
    PROVE  Ages
<1> USE DEF TypeOK, ClusterTypeOK, RequestTypeOK, Exists, Up, At, Goto, cluster, Obtaining,
    Serving, HasPod, Labelled, ObtainsAlone, Ages, Aged, HoldsOwn,
    StartedPod
<1>1. ASSUME NEW s \in Sessions, StartCreate(p, s) PROVE Ages
  BY <1>1 DEF StartCreate, OwnedBy
<1>2. ASSUME Reuse(p) PROVE Ages
  BY <1>2, ManagerAssumption DEF Reuse, TouchSidecar, Ends
<1>3. ASSUME ReuseFails(p) PROVE Ages
  BY <1>3, ManagerAssumption DEF ReuseFails, OwnedBy
<1>4. ASSUME ListWarm(p) PROVE Ages
  BY <1>4 DEF ListWarm
<1>5. ASSUME SkipClaim(p) PROVE Ages
  BY <1>5 DEF SkipClaim, Moves
<1>6. ASSUME NEW q \in Pods, Claim(p, q) PROVE Ages
  BY <1>6 DEF Claim, CasClaim, CasWins
<1>7. ASSUME NEW q \in Pods, ClaimLost(p, q) PROVE Ages
  BY <1>7 DEF ClaimLost
<1>8. ASSUME NEW q \in Pods, ClaimUnheard(p, q) PROVE Ages
  BY <1>8 DEF ClaimUnheard, CasClaim
<1>9. ASSUME NEW q \in Pods, CreateCold(p, q) PROVE Ages
  BY <1>9 DEF CreateCold, CreatePodObject
<1>10. ASSUME NEW q \in Pods, CreateColdUnheard(p, q) PROVE Ages
  BY <1>10, ManagerAssumption DEF CreateColdUnheard, CreatePodObject, Ends
<1>11. ASSUME NoneClaimed(p) PROVE Ages
  BY <1>11 DEF NoneClaimed, Moves
<1>12. ASSUME CreateColdFails(p) PROVE Ages
  BY <1>12, ManagerAssumption DEF CreateColdFails, Ends
<1>13. ASSUME ColdReady(p) PROVE Ages
  BY <1>13 DEF ColdReady, Moves
<1>14. ASSUME ColdNotReady(p) PROVE Ages
  BY <1>14 DEF ColdNotReady, CleansUp
<1>15. ASSUME Configure(p) PROVE Ages
  BY <1>15 DEF Configure, ConfigureSidecar, Moves
<1>16. ASSUME ConfigureFails(p) PROVE Ages
  BY <1>16, ManagerAssumption DEF ConfigureFails, ConfigureSidecar, Ends
<1>17. ASSUME Label(p) PROVE Ages
  BY <1>17, ManagerAssumption DEF Label, MergeLabels, Moves, Ends
<1>18. ASSUME LabelFails(p) PROVE Ages
  BY <1>18 DEF LabelFails, MergeLabels, CleansUp
<1>19. ASSUME SyncPolicy(p) PROVE Ages
  BY <1>19, ManagerAssumption DEF SyncPolicy, SetPolicy, Ends
<1> QED BY <1>1, <1>2, <1>3, <1>4, <1>5, <1>6, <1>7, <1>8, <1>9, <1>10, <1>11, <1>12, <1>13, <1>14, <1>15, <1>16, <1>17, <1>18, <1>19 DEF CreateNext

LEMMA DestroyAges ==
    ASSUME TypeOK, HasPod, Labelled, ObtainsAlone, HoldsOwn, StartedPod, NEW p \in Procs, DestroyNext(p)
    PROVE  Ages
<1> USE DEF TypeOK, ClusterTypeOK, RequestTypeOK, Exists, Up, At, Goto, cluster, Obtaining,
    Serving, HasPod, Labelled, ObtainsAlone, Ages, Aged, HoldsOwn,
    StartedPod
<1>1. ASSUME NEW s \in Sessions, StartDestroy(p, s) PROVE Ages
  BY <1>1 DEF StartDestroy, OwnedBy
<1>2. ASSUME Wipe(p) PROVE Ages
  BY <1>2 DEF Wipe, ConfigureSidecar, Moves
<1>3. ASSUME WipeFails(p) PROVE Ages
  BY <1>3 DEF WipeFails, ConfigureSidecar, TouchSidecar, Moves
<1>4. ASSUME Capacity(p) PROVE Ages
  BY <1>4 DEF Capacity, Moves
<1>5. ASSUME CapacityFails(p) PROVE Ages
  BY <1>5 DEF CapacityFails, Moves
<1>6. ASSUME Relabel(p) PROVE Ages
  BY <1>6, ManagerAssumption DEF Relabel, MergeLabels, TornDown, Moves, Ends
<1>7. ASSUME RelabelFails(p) PROVE Ages
  BY <1>7 DEF RelabelFails, MergeLabels, Moves
<1>8. ASSUME Unpolicy(p) PROVE Ages
  BY <1>8, ManagerAssumption DEF Unpolicy, SetPolicy, TornDown, Ends
<1>9. ASSUME DeletePod(p) PROVE Ages
  <2> USE <1>9, ManagerAssumption DEF DeletePod, DeletePodObject, Remove, TornDown, Moves, Ends
  <2>1. Aged
    OBVIOUS
  <2>2. HoldsOwn'
    OBVIOUS
  <2>3. StartedPod'
    OBVIOUS
  <2> QED BY <2>1, <2>2, <2>3
<1>10. ASSUME DeletePodFails(p) PROVE Ages
  BY <1>10, ManagerAssumption DEF DeletePodFails, TornDown, Moves, Ends
<1>11. ASSUME DelPolicy(p) PROVE Ages
  BY <1>11, ManagerAssumption DEF DelPolicy, SetPolicy, TornDown, Ends
<1> QED BY <1>1, <1>2, <1>3, <1>4, <1>5, <1>6, <1>7, <1>8, <1>9, <1>10, <1>11 DEF DestroyNext

\* Most of them take no pod for their session.
LEMMA CreateModest ==
    ASSUME TypeOK, NEW p \in Procs, CreateNext(p)
    PROVE  \/ \E s \in Sessions : StartCreate(p, s)
           \/ ReuseFails(p)
           \/ \E q \in Pods : CreateCold(p, q) \/ CreateColdUnheard(p, q)
           \/ Label(p) \/ LabelFails(p)
           \/ Modest(p)
<1> USE DEF TypeOK, ClusterTypeOK, RequestTypeOK, Modest, Narrows, PodsOf, Proceeds, Waits,
    Taking, Creating, Having, TeardownPCs, At, Goto, cluster, LivePhases
<1>1. ASSUME Reuse(p) PROVE Modest(p)
  BY <1>1 DEF Reuse, TouchSidecar, Ends
<1>2. ASSUME ListWarm(p) PROVE Modest(p)
  BY <1>2 DEF ListWarm
<1>3. ASSUME SkipClaim(p) PROVE Modest(p)
  BY <1>3 DEF SkipClaim, Moves
<1>4. ASSUME NEW q \in Pods, Claim(p, q) PROVE Modest(p)
  BY <1>4 DEF Claim, CasClaim, CasWins
<1>5. ASSUME NEW q \in Pods, ClaimLost(p, q) PROVE Modest(p)
  BY <1>5 DEF ClaimLost
<1>6. ASSUME NEW q \in Pods, ClaimUnheard(p, q) PROVE Modest(p)
  BY <1>6 DEF ClaimUnheard, CasClaim
<1>7. ASSUME NoneClaimed(p) PROVE Modest(p)
  BY <1>7 DEF NoneClaimed, Moves
<1>8. ASSUME CreateColdFails(p) PROVE Modest(p)
  BY <1>8 DEF CreateColdFails, Ends
<1>9. ASSUME ColdReady(p) PROVE Modest(p)
  BY <1>9 DEF ColdReady, Moves
<1>10. ASSUME ColdNotReady(p) PROVE Modest(p)
  BY <1>10 DEF ColdNotReady, CleansUp
<1>11. ASSUME Configure(p) PROVE Modest(p)
  BY <1>11 DEF Configure, ConfigureSidecar, Moves
<1>12. ASSUME ConfigureFails(p) PROVE Modest(p)
  BY <1>12 DEF ConfigureFails, ConfigureSidecar, Ends
<1>13. ASSUME SyncPolicy(p) PROVE Modest(p)
  BY <1>13 DEF SyncPolicy, SetPolicy, Ends
<1> QED BY <1>1, <1>2, <1>3, <1>4, <1>5, <1>6, <1>7, <1>8, <1>9, <1>10, <1>11, <1>12, <1>13 DEF CreateNext

LEMMA DestroyModest ==
    ASSUME TypeOK, NEW p \in Procs, DestroyNext(p)
    PROVE  Modest(p)
<1> USE DEF TypeOK, ClusterTypeOK, RequestTypeOK, Modest, Narrows, PodsOf, Proceeds, Waits,
    Taking, Creating, Having, TeardownPCs, At, Goto, cluster, LivePhases
<1>1. ASSUME NEW s \in Sessions, StartDestroy(p, s) PROVE Modest(p)
  BY <1>1 DEF StartDestroy, OwnedBy
<1>2. ASSUME Wipe(p) PROVE Modest(p)
  BY <1>2 DEF Wipe, ConfigureSidecar, Moves
<1>3. ASSUME WipeFails(p) PROVE Modest(p)
  BY <1>3 DEF WipeFails, ConfigureSidecar, TouchSidecar, Moves
<1>4. ASSUME Capacity(p) PROVE Modest(p)
  BY <1>4 DEF Capacity, Moves
<1>5. ASSUME CapacityFails(p) PROVE Modest(p)
  BY <1>5 DEF CapacityFails, Moves
<1>6. ASSUME Relabel(p) PROVE Modest(p)
  BY <1>6, ClusterAssumption DEF Relabel, MergeLabels, TornDown, Moves, Ends
<1>7. ASSUME RelabelFails(p) PROVE Modest(p)
  BY <1>7, ClusterAssumption DEF RelabelFails, MergeLabels, Moves
<1>8. ASSUME Unpolicy(p) PROVE Modest(p)
  BY <1>8 DEF Unpolicy, SetPolicy, TornDown, Ends
<1>9. ASSUME DeletePod(p) PROVE Modest(p)
  BY <1>9 DEF DeletePod, DeletePodObject, Remove, TornDown, Moves, Ends
<1>10. ASSUME DeletePodFails(p) PROVE Modest(p)
  BY <1>10 DEF DeletePodFails, TornDown, Moves, Ends
<1>11. ASSUME DelPolicy(p) PROVE Modest(p)
  BY <1>11 DEF DelPolicy, SetPolicy, TornDown, Ends
<1> QED BY <1>1, <1>2, <1>3, <1>4, <1>5, <1>6, <1>7, <1>8, <1>9, <1>10, <1>11 DEF DestroyNext

\* What is left to show of a step that does take one, or starts to.
LEMMA TakesKeeps ==
    ASSUME TypeOK, Ownership, OnePod, Recorded, NEW p \in Procs, Waits(p),
           \A s \in Sessions : s # sess[p] => Narrows(s),
           \A s \in Sessions : s = sess[p] => Cardinality(PodsOf(s)') <= 1 + Cardinality(left'[s]),
           Taking(p)' => Covered(sess[p], PodsOf(sess[p]))',
           pc'[p] \in Having => Covered(sess[p], PodsOf(sess[p]) \ {cand[p]})'
    PROVE  Bounded' /\ TakesFirst' /\ HasOne'
<1>1. Bounded'
  BY NarrowsKeeps DEF Bounded
<1>2. \A r \in Procs :
        /\ Taking(r)' => Covered(sess[r], PodsOf(sess[r]))'
        /\ pc'[r] \in Having => Covered(sess[r], PodsOf(sess[r]) \ {cand[r]})'
  BY WaitsKeeps DEF Ownership
<1> QED BY <1>1, <1>2 DEF TakesFirst, HasOne

\* A pod more is at most one more.
LEMMA OneMore ==
    ASSUME NEW S \in SUBSET Pods, NEW q \in Pods
    PROVE  /\ Cardinality(S \cup {q}) \in Nat /\ Cardinality(S) \in Nat
           /\ Cardinality(S \ {q}) \in Nat
           /\ Cardinality(S \cup {q}) <= Cardinality(S) + 1
           /\ q \notin S => Cardinality(S \cup {q}) = Cardinality(S) + 1
           /\ q \in S => Cardinality(S \ {q}) = Cardinality(S) - 1
<1>1. IsFiniteSet(S) /\ IsFiniteSet(S \cup {q}) /\ IsFiniteSet(S \ {q})
  BY ClusterAssumption, FS_Subset
<1> QED BY <1>1, FS_CardinalityType, FS_AddElement, FS_RemoveElement

\* The six steps of create_session that are not modest: it looks for a pod of its
\* session first, and finds any that is up; and nobody else makes one while it goes on.
LEMMA CreateKeepsOne ==
    ASSUME Serial, "prefetch" \notin Faults, TypeOK, TypeOK', Ownership, Ownership', OnePod,
           Recorded, NEW p \in Procs, CreateNext(p)
    PROVE  Bounded' /\ TakesFirst' /\ HasOne'
<1> USE DEF TypeOK, ClusterTypeOK, RequestTypeOK, LivePhases, Creating, Having, TeardownPCs,
    Up, At, Goto, cluster, Covered
<1>1. ASSUME NEW s \in Sessions, StartCreate(p, s) PROVE Bounded' /\ TakesFirst' /\ HasOne'
  <2>1. Waits(p) /\ (\A t \in Sessions : Narrows(t)) /\ sess'[p] = s /\ sess[p] \notin Sessions
    BY <1>1, ClusterAssumption DEF StartCreate, Waits, Narrows, PodsOf, Ownership, HasPod
  <2>2. PodsOf(s) \in SUBSET Pods /\ PodsOf(s)' = PodsOf(s)
    BY <1>1 DEF StartCreate, PodsOf
  <2>3. ASSUME NEW q \in OwnedBy(s), cand' = [cand EXCEPT ![p] = q], Goto(p, "reuse")
        PROVE  Bounded' /\ TakesFirst' /\ HasOne'
    <3>1. q \in PodsOf(s) /\ q \in Pods /\ cand'[p] = q /\ ~Taking(p)'
      BY <1>1, <2>3 DEF StartCreate, OwnedBy, PodsOf, Taking
    <3>2. Cardinality(PodsOf(s) \ {q}) <= Cardinality(left[s])
      <4>1. Cardinality(PodsOf(s)) <= 1 + Cardinality(left[s]) /\ Cardinality(left[s]) \in Nat
        BY LeftGrows DEF OnePod, Bounded
      <4>2. /\ Cardinality(PodsOf(s) \ {q}) = Cardinality(PodsOf(s)) - 1
            /\ Cardinality(PodsOf(s)) \in Nat
        BY <2>2, <3>1, OneMore
      <4> QED BY <4>1, <4>2
    <3>3. Cardinality(PodsOf(s) \ {q}) <= Cardinality(left'[s])
      BY <2>2, <3>2, CoveredStays DEF OnePod
    <3>4. Covered(sess[p], PodsOf(sess[p]) \ {cand[p]})'
      BY <2>1, <2>2, <3>1, <3>3
    <3> QED BY <2>1, <3>1, <3>4, TakesKeeps
  <2>4. CASE OwnedBy(s) = {} /\ Goto(p, "list") /\ UNCHANGED cand
    <3>1. Busy(s) = {}
      BY <1>1, StartsAlone DEF StartCreate
    <3>2. \A q \in PodsOf(s) : q \in left[s]
      BY <2>4, <3>1, ClusterAssumption DEF OwnedBy, PodsOf, Ownership, Labelled, Pools, OnePod,
          PendingKnown, HoldsOwn, Busy
    <3>3. PodsOf(s) \subseteq left'[s] /\ left'[s] \in SUBSET Pods
      BY <3>2, LeftGrows DEF OnePod, HistoryTypeOK
    <3>4. IsFiniteSet(left'[s])
      BY <3>3, ClusterAssumption, FS_Subset
    <3>5. Cardinality(PodsOf(s)) <= Cardinality(left'[s])
      BY <3>3, <3>4, FS_Subset
    <3>6. Covered(sess[p], PodsOf(sess[p]))' /\ pc'[p] \notin Having
      BY <1>1, <2>1, <2>2, <2>4, <3>5 DEF StartCreate
    <3> QED BY <2>1, <3>6, TakesKeeps
  <2> QED BY <1>1, <2>3, <2>4 DEF StartCreate
<1>2. ASSUME ReuseFails(p) PROVE Bounded' /\ TakesFirst' /\ HasOne'
  <2>1. /\ Waits(p) /\ (\A t \in Sessions : Narrows(t))
        /\ sess' = sess /\ sess[p] \in Sessions
        /\ pc[p] = "reuse" /\ pc'[p] \notin Having /\ ~Up(cand[p])
    BY <1>2, ClusterAssumption DEF ReuseFails, Waits, Narrows, PodsOf, Ownership, HasPod
  <2>2. cand[p] \notin PodsOf(sess[p])
    BY <2>1 DEF PodsOf, OnePod, StartedPod
  <2>3. Cardinality(PodsOf(sess[p])) <= Cardinality(left[sess[p]])
    BY <2>1, <2>2 DEF OnePod, HasOne
  <2>4. PodsOf(sess[p]) \in SUBSET Pods /\ PodsOf(sess[p])' = PodsOf(sess[p])
    BY <1>2 DEF ReuseFails, PodsOf
  <2>5. Covered(sess[p], PodsOf(sess[p]))'
    BY <2>1, <2>3, <2>4, CoveredStays DEF OnePod
  <2> QED BY <2>1, <2>5, NarrowsKeeps, TakesKeeps
<1>3. ASSUME NEW q \in Pods, CreateCold(p, q) PROVE Bounded' /\ TakesFirst' /\ HasOne'
  <2>1. /\ Waits(p) /\ (\A t \in Sessions : t # sess[p] => Narrows(t))
        /\ sess' = sess /\ sess[p] \in Sessions
        /\ Taking(p) /\ ~Taking(p)' /\ cand'[p] = q /\ q \notin PodsOf(sess[p])
    BY <1>3, ClusterAssumption DEF CreateCold, CreatePodObject, Waits, Narrows, PodsOf, Ownership,
        HasPod, Taking
  <2>2. PodsOf(sess[p])' = PodsOf(sess[p]) \cup {q} /\ PodsOf(sess[p]) \in SUBSET Pods
    BY <1>3 DEF CreateCold, CreatePodObject, PodsOf
  <2>3. Cardinality(PodsOf(sess[p])) <= Cardinality(left'[sess[p]])
    BY <2>1, <2>2, CoveredStays DEF OnePod, TakesFirst
  <2>4. Covered(sess[p], PodsOf(sess[p]) \ {cand[p]})'
    <3>1. (PodsOf(sess[p]) \ {cand[p]})' = PodsOf(sess[p])
      BY <2>1, <2>2
    <3> QED BY <2>1, <2>3, <3>1
  <2>5. Cardinality(PodsOf(sess[p])') <= 1 + Cardinality(left'[sess[p]])
    <3>1. /\ Cardinality(PodsOf(sess[p]) \cup {q}) <= Cardinality(PodsOf(sess[p])) + 1
          /\ Cardinality(PodsOf(sess[p]) \cup {q}) \in Nat /\ Cardinality(PodsOf(sess[p])) \in Nat
      BY <2>2, OneMore
    <3>2. Cardinality(left'[sess[p]]) \in Nat
      BY <2>1, LeftGrows DEF OnePod
    <3> QED BY <2>2, <2>3, <3>1, <3>2
  <2>6. \A s \in Sessions : s = sess[p] => Cardinality(PodsOf(s)') <= 1 + Cardinality(left'[s])
    BY <2>1, <2>5 DEF PodsOf
  <2> QED BY <2>1, <2>4, <2>6, TakesKeeps
<1>4. ASSUME NEW q \in Pods, CreateColdUnheard(p, q) PROVE Bounded' /\ TakesFirst' /\ HasOne'
  <2>1. /\ Waits(p) /\ (\A t \in Sessions : t # sess[p] => Narrows(t))
        /\ sess[p] \in Sessions
        /\ Taking(p) /\ ~Taking(p)' /\ pc'[p] \notin Having
    BY <1>4, ClusterAssumption DEF CreateColdUnheard, CreatePodObject, Ends, Waits, Narrows, PodsOf,
        Ownership, HasPod, Taking
  <2>2. ASSUME NEW s \in Sessions, s = sess[p]
        PROVE  Cardinality(PodsOf(s)') <= 1 + Cardinality(left'[s])
    <3>1. PodsOf(s)' = PodsOf(s) \cup {q} /\ PodsOf(s) \in SUBSET Pods
      BY <1>4, <2>2 DEF CreateColdUnheard, CreatePodObject, PodsOf
    <3>2. Cardinality(PodsOf(s)) <= Cardinality(left'[s])
      BY <2>1, <2>2, <3>1, CoveredStays DEF OnePod, TakesFirst
    <3>3. /\ Cardinality(PodsOf(s) \cup {q}) <= Cardinality(PodsOf(s)) + 1
          /\ Cardinality(PodsOf(s) \cup {q}) \in Nat /\ Cardinality(PodsOf(s)) \in Nat
      BY <3>1, OneMore
    <3>4. Cardinality(left'[s]) \in Nat
      BY LeftGrows DEF OnePod
    <3> QED BY <3>1, <3>2, <3>3, <3>4
  <2> QED BY <2>1, <2>2, TakesKeeps
<1>5. ASSUME Label(p) \/ LabelFails(p) PROVE Bounded' /\ TakesFirst' /\ HasOne'
  <2>1. /\ Waits(p) /\ (\A t \in Sessions : t # sess[p] => Narrows(t))
        /\ sess[p] \in Sessions /\ cand[p] \in Pods
        /\ pc[p] = "label" /\ ~Taking(p)' /\ pc'[p] \notin Having
    BY <1>5, ClusterAssumption DEF Label, LabelFails, MergeLabels, Moves, Ends, CleansUp, Waits,
        Narrows, PodsOf, Ownership, HasPod, Obtaining, Taking
  <2>2. ASSUME NEW s \in Sessions, s = sess[p]
        PROVE  Cardinality(PodsOf(s)') <= 1 + Cardinality(left'[s])
    <3>1. /\ PodsOf(s)' \subseteq PodsOf(s) \cup {cand[p]}
          /\ PodsOf(s) \in SUBSET Pods /\ PodsOf(s)' \in SUBSET Pods
      BY <1>5, <2>2 DEF Label, LabelFails, MergeLabels, PodsOf
    <3>2. Cardinality(PodsOf(s) \ {cand[p]}) <= Cardinality(left[s])
      BY <2>1, <2>2 DEF OnePod, HasOne
    <3>3. Cardinality(PodsOf(s) \cup {cand[p]}) <= 1 + Cardinality(left[s])
      <4>1. PodsOf(s) \cup {cand[p]} = (PodsOf(s) \ {cand[p]}) \cup {cand[p]}
        OBVIOUS
      <4>2. PodsOf(s) \ {cand[p]} \in SUBSET Pods
        BY <3>1
      <4>3. /\ Cardinality(PodsOf(s) \cup {cand[p]}) <= Cardinality(PodsOf(s) \ {cand[p]}) + 1
            /\ Cardinality(PodsOf(s) \cup {cand[p]}) \in Nat
            /\ Cardinality(PodsOf(s) \ {cand[p]}) \in Nat
        BY <2>1, <4>1, <4>2, OneMore
      <4>4. Cardinality(left[s]) \in Nat
        BY LeftGrows DEF OnePod
      <4> QED BY <3>2, <4>3, <4>4
    <3> QED BY <2>1, <3>1, <3>3, CoveredStays DEF OnePod
  <2> QED BY <2>1, <2>2, TakesKeeps
<1> QED BY <1>1, <1>2, <1>3, <1>4, <1>5, CreateModest, ModestKeeps

\* Passes, reapers and the cluster give no session a pod.
LEMMA TouchKeepsOne ==
    ASSUME TypeOK, TypeOK', HasPod, OnePod, Recorded, Untouched \/ \E q \in Pods : Touched(q),
           UNCHANGED requests
    PROVE  OnePod'
<1> USE DEF TypeOK, ClusterTypeOK, RequestTypeOK, LivePhases, requests, Touched, Untouched,
    CreatePodObject, Remove
<1>1. \A s \in Sessions : PodsOf(s)' \subseteq PodsOf(s)
  BY ClusterAssumption DEF PodsOf
<1>2. \A s \in Sessions : PodsOf(s) \in SUBSET Pods /\ PodsOf(s)' \in SUBSET Pods
  BY DEF PodsOf
<1>3. Bounded'
  BY <1>1, <1>2, CoveredStays DEF OnePod, Bounded
<1>4. ASSUME NEW p \in Procs, Taking(p)' PROVE Covered(sess[p], PodsOf(sess[p]))'
  <2>1. Taking(p) /\ sess' = sess /\ sess[p] \in Sessions
    BY <1>4, ClusterAssumption DEF Taking, HasPod, Creating, TeardownPCs
  <2>2. PodsOf(sess[p])' \subseteq PodsOf(sess[p])
    BY <1>1, <2>1 DEF PodsOf
  <2>3. PodsOf(sess[p]) \in SUBSET Pods /\ PodsOf(sess[p])' \in SUBSET Pods
    BY DEF PodsOf
  <2> QED BY <2>1, <2>2, <2>3, CoveredStays DEF Covered, OnePod, TakesFirst
<1>5. ASSUME NEW p \in Procs, pc'[p] \in Having
      PROVE  Covered(sess[p], PodsOf(sess[p]) \ {cand[p]})'
  <2>1. pc[p] \in Having /\ cand' = cand /\ sess' = sess /\ sess[p] \in Sessions
    BY <1>5, ClusterAssumption DEF HasPod, Having
  <2>2. PodsOf(sess[p])' \subseteq PodsOf(sess[p])
    BY <1>1, <2>1 DEF PodsOf
  <2>3. PodsOf(sess[p]) \in SUBSET Pods /\ PodsOf(sess[p])' \in SUBSET Pods
    BY DEF PodsOf
  <2>4. (PodsOf(sess[p]) \ {cand[p]})' \subseteq PodsOf(sess[p]) \ {cand[p]}
    BY <2>1, <2>2
  <2>5. Cardinality(PodsOf(sess[p]) \ {cand[p]}) <= Cardinality(left[sess[p]])
    BY <2>1 DEF OnePod, HasOne, Covered
  <2> QED BY <2>1, <2>3, <2>4, <2>5, CoveredStays DEF Covered, OnePod
<1>6. Aged
  BY DEF Aged
<1>7. HoldsOwn' /\ StartedPod'
  BY DEF OnePod, HoldsOwn, StartedPod, HasPod, Obtaining, Serving
<1> QED BY <1>3, <1>4, <1>5, <1>6, <1>7, LeftGrows, RecordKeeps DEF OnePod, TakesFirst, HasOne

\* A crash only ends requests.
LEMMA CrashKeepsOne ==
    ASSUME TypeOK, TypeOK', OnePod, Recorded, NEW w \in Workers, Crash(w), HasPod
    PROVE  OnePod'
<1> USE DEF TypeOK, ClusterTypeOK, RequestTypeOK, Crash
<1>1. \A p \in Procs :
        \/ pc'[p] = "idle" /\ cand'[p] = None
        \/ pc'[p] = pc[p] /\ op'[p] = op[p] /\ sess'[p] = sess[p] /\ cand'[p] = cand[p]
  OBVIOUS
<1>2. phase' = phase /\ owner' = owner /\ Aged
  BY DEF Aged
<1>3. Bounded'
  <2>1. \A s \in Sessions : PodsOf(s)' = PodsOf(s) /\ PodsOf(s) \in SUBSET Pods
    BY <1>2 DEF PodsOf
  <2> QED BY <2>1, CoveredStays DEF OnePod, Bounded
<1>4. ASSUME NEW p \in Procs, Taking(p)' PROVE Covered(sess[p], PodsOf(sess[p]))'
  <2>1. Taking(p) /\ sess'[p] = sess[p] /\ sess[p] \in Sessions
    BY <1>1, <1>4, ClusterAssumption DEF Taking, HasPod, Creating, TeardownPCs
  <2>2. PodsOf(sess[p])' = PodsOf(sess[p]) /\ PodsOf(sess[p]) \in SUBSET Pods
    BY <1>2, <2>1 DEF PodsOf
  <2> QED BY <2>1, <2>2, CoveredStays DEF Covered, OnePod, TakesFirst
<1>5. ASSUME NEW p \in Procs, pc'[p] \in Having
      PROVE  Covered(sess[p], PodsOf(sess[p]) \ {cand[p]})'
  <2>1. pc[p] \in Having /\ cand'[p] = cand[p] /\ sess'[p] = sess[p] /\ sess[p] \in Sessions
    BY <1>1, <1>5, ClusterAssumption DEF HasPod, Having
  <2>2. PodsOf(sess[p])' = PodsOf(sess[p]) /\ PodsOf(sess[p]) \in SUBSET Pods
    BY <1>2, <2>1 DEF PodsOf
  <2> QED BY <2>1, <2>2, CoveredStays DEF Covered, OnePod, HasOne
<1>6. HoldsOwn' /\ StartedPod'
  BY <1>1, <1>2, ManagerAssumption DEF OnePod, HoldsOwn, StartedPod
<1> QED BY <1>2, <1>3, <1>4, <1>5, <1>6, LeftGrows, RecordKeeps DEF OnePod, TakesFirst, HasOne

\* OnePodPerSession: where creates for one session are ordered and prefetches arrive, a
\* session has at most one pod and one for each left behind, whatever else fails and
\* whoever crashes (create_session, _resolve_session).
THEOREM FleetOnePodPerSession ==
    Serial /\ "prefetch" \notin Faults => (HistorySpec => []OnePodPerSession)
<1> SUFFICES ASSUME Serial, "prefetch" \notin Faults PROVE HistorySpec => []OnePodPerSession
  OBVIOUS
<1>1. HistoryInit => OnePod
  <2> SUFFICES ASSUME HistoryInit PROVE OnePod
    OBVIOUS
  <2>1. HistoryTypeOK /\ PendingKnown /\ HoldsOwn /\ StartedPod /\ LeftBorn
    BY DEF HistoryInit, Init, ClusterInit, HistoryTypeOK, PendingKnown, HoldsOwn, StartedPod, LeftBorn
  <2>2. \A s \in Sessions : PodsOf(s) = {} /\ left[s] = {}
    BY DEF HistoryInit, Init, ClusterInit, PodsOf, LivePhases
  <2>3. Bounded
    BY <2>2, FS_EmptySet DEF Bounded
  <2>4. TakesFirst /\ HasOne
    BY DEF HistoryInit, Init, TakesFirst, HasOne, Taking, Creating, TeardownPCs, Having
  <2> QED BY <2>1, <2>3, <2>4 DEF OnePod
<1>2. TypeOK /\ TypeOK' /\ Ownership /\ Ownership' /\ OnePod /\ [HistoryNext]_history => OnePod'
  <2> SUFFICES ASSUME TypeOK, TypeOK', Ownership, Ownership', OnePod, [HistoryNext]_history
               PROVE  OnePod'
    OBVIOUS
  <2>1. CASE UNCHANGED history
    BY <2>1 DEF history, vars, cluster, requests, OnePod, HistoryTypeOK, Bounded, TakesFirst, HasOne,
        PendingKnown, HoldsOwn, StartedPod, LeftBorn, PodsOf, Covered, Taking
  <2>2. ASSUME HistoryNext, NEW p \in Procs, CreateNext(p) \/ DestroyNext(p) PROVE OnePod'
    <3>1. Recorded
      BY <2>2 DEF HistoryNext, Recorded
    <3>2. Ages
      BY <2>2, CreateAges, DestroyAges DEF Ownership, OnePod
    <3>3. Bounded' /\ TakesFirst' /\ HasOne'
      BY <2>2, <3>1, CreateKeepsOne, DestroyModest, ModestKeeps
    <3> QED BY <3>1, <3>2, <3>3, LeftGrows, RecordKeeps DEF OnePod, Ages
  <2>3. ASSUME HistoryNext, PoolNext \/ ClusterNext, UNCHANGED requests PROVE OnePod'
    BY <2>3, OthersTouch, TouchKeepsOne DEF HistoryNext, Recorded, Ownership
  <2>4. ASSUME HistoryNext, NEW w \in Workers, Crash(w) PROVE OnePod'
    BY <2>4, CrashKeepsOne DEF HistoryNext, Recorded, Ownership
  <2> QED BY <2>1, <2>2, <2>3, <2>4 DEF HistoryNext, Next
<1>3. TypeOK /\ OnePod => OnePodPerSession
  <2> SUFFICES ASSUME TypeOK, OnePod, NEW s \in Sessions
               PROVE  Cardinality(OwnedBy(s)) <= 1 + Cardinality(left[s])
    BY DEF OnePodPerSession
  <2>1. OwnedBy(s) \subseteq PodsOf(s) /\ PodsOf(s) \in SUBSET Pods /\ left[s] \in SUBSET Pods
    BY DEF OwnedBy, Up, PodsOf, LivePhases, OnePod, HistoryTypeOK
  <2>2. IsFiniteSet(PodsOf(s)) /\ IsFiniteSet(left[s])
    BY <2>1, ClusterAssumption, FS_Subset
  <2>3. /\ Cardinality(OwnedBy(s)) <= Cardinality(PodsOf(s))
        /\ Cardinality(OwnedBy(s)) \in Nat /\ Cardinality(PodsOf(s)) \in Nat
        /\ Cardinality(left[s]) \in Nat
    BY <2>1, <2>2, FS_Subset, FS_CardinalityType
  <2>4. Cardinality(PodsOf(s)) <= 1 + Cardinality(left[s])
    BY DEF OnePod, Bounded
  <2> QED BY <2>3, <2>4
<1>4. HistorySpec => Spec
  <2>1. HistoryInit => Init
    BY DEF HistoryInit
  <2>2. [HistoryNext]_history => [Next]_vars
    BY DEF HistoryNext, history
  <2> QED BY <2>1, <2>2, PTL DEF HistorySpec, Spec
<1>5. Spec => []TypeOK
  BY FleetTypes
<1>6. Spec => []Ownership
  BY OwnershipInvariant
<1> QED BY <1>1, <1>2, <1>3, <1>4, <1>5, <1>6, PTL DEF HistorySpec

-----------------------------------------------------------------------------
(* Whose policy a pod stands under.                                        *)

\* Pod q stands under a policy that was not built for the session of its label.
Foreign(q) == Exists(q) /\ policy[q] \notin {None, owner[q]}

\* A pod is created without a policy, and none is built where the setting is off.
PolicyBorn ==
    /\ \A q \in Pods : phase[q] = "Absent" \/ ~SecretsPolicy => policy[q] = None
    /\ \A p \in Procs : pc[p] = "policy" => SecretsPolicy

\* If that pod serves a session, a request is at work that will replace or delete
\* the policy.
SomeoneDrops ==
    \A q \in Pods : Foreign(q) /\ owner[q] # None =>
        \E p \in Procs : cand[p] = q /\ pc[p] \in {"policy", "unpolicy", "delete", "delpolicy"}

\* As long as nothing crashed there are even two: the one whose session the policy
\* was built for, and the one that labelled the pod.
BothDrop ==
    crashes = 0 => \A q \in Pods : Foreign(q) =>
        /\ \E p \in Procs : /\ cand[p] = q /\ sess[p] = policy[q]
                            /\ pc[p] \in {"unpolicy", "delete", "delpolicy"}
        /\ owner[q] # None =>
              \E p \in Procs : /\ cand[p] = q /\ sess[p] = owner[q]
                               /\ pc[p] \in {"policy", "delete", "delpolicy"}

\* The inductive invariant behind PolicyNotForeign.
Dropped == PolicyBorn /\ SomeoneDrops /\ BothDrop

\* What PolicyNotForeign needs besides: policy calls that arrive, and at most one
\* worker that dies, with one request in it.
PoliciesFollow ==
    /\ "policy" \notin Faults
    /\ \/ MaxCrashes = 0
       \/ MaxCrashes = 1 /\ \A p, r \in Procs : Runs[p] = Runs[r] => p = r

\* The awaits before a request replaces or deletes a policy.
Dropping == {"policy", "unpolicy", "delete", "delpolicy"}

\* The step of p has nothing to do with a policy or the label of a pod.
Apart(p) ==
    /\ UNCHANGED <<phase, owner, policy, crashes>>
    /\ pc[p] \notin Dropping /\ pc'[p] # "policy"
    /\ \A r \in Procs \ {p} :
          pc'[r] = pc[r] /\ cand'[r] = cand[r] /\ sess'[r] = sess[r]

\* Such a step keeps it.
LEMMA ApartKeepsDropped ==
    ASSUME Dropped, NEW p \in Procs, Apart(p)
    PROVE  Dropped'
<1>1. PolicyBorn'
  BY DEF Apart, Dropped, PolicyBorn
<1>2. SomeoneDrops'
  BY DEF Apart, Dropping, Dropped, SomeoneDrops, Foreign, Exists
<1>3. BothDrop'
  BY DEF Apart, Dropping, Dropped, BothDrop, Foreign, Exists
<1> QED BY <1>1, <1>2, <1>3 DEF Dropped

\* Every step of create_session keeps it: whoever labels a pod sets its policy next,
\* or deletes the pod and then the policy.
LEMMA CreateKeepsDropped ==
    ASSUME Serial, PoliciesFollow, TypeOK, Ownership, Dropped, NEW p \in Procs, CreateNext(p)
    PROVE  Dropped'
<1> USE DEF TypeOK, ClusterTypeOK, RequestTypeOK, Ownership, PoliciesFollow, Dropped,
    Foreign, CreatePCs, TeardownPCs, Exists, Up, At, Goto, cluster
<1>1. CASE \/ \E s \in Sessions : StartCreate(p, s)
           \/ Reuse(p)
           \/ ReuseFails(p)
           \/ ListWarm(p)
           \/ SkipClaim(p)
           \/ \E q \in Pods : Claim(p, q)
           \/ \E q \in Pods : ClaimLost(p, q)
           \/ \E q \in Pods : ClaimUnheard(p, q)
           \/ NoneClaimed(p)
           \/ CreateColdFails(p)
           \/ ColdReady(p)
           \/ ColdNotReady(p)
           \/ Configure(p)
           \/ ConfigureFails(p)
  <2>1. Apart(p)
    <3>1. ASSUME NEW s \in Sessions, StartCreate(p, s) PROVE Apart(p)
      BY <3>1 DEF StartCreate, Apart, Dropping
    <3>2. CASE Reuse(p)
      BY <3>2 DEF Reuse, Ends, TouchSidecar, Apart, Dropping
    <3>3. CASE ReuseFails(p)
      BY <3>3 DEF ReuseFails, Apart, Dropping
    <3>4. CASE ListWarm(p)
      BY <3>4 DEF ListWarm, Apart, Dropping
    <3>5. CASE SkipClaim(p)
      BY <3>5 DEF SkipClaim, Moves, Apart, Dropping
    <3>6. ASSUME NEW q \in Pods, Claim(p, q) PROVE Apart(p)
      BY <3>6 DEF Claim, CasClaim, CasWins, Apart, Dropping
    <3>7. ASSUME NEW q \in Pods, ClaimLost(p, q) PROVE Apart(p)
      BY <3>7 DEF ClaimLost, Apart, Dropping
    <3>8. ASSUME NEW q \in Pods, ClaimUnheard(p, q) PROVE Apart(p)
      BY <3>8 DEF ClaimUnheard, CasClaim, CasWins, Apart, Dropping
    <3>9. CASE NoneClaimed(p)
      BY <3>9 DEF NoneClaimed, Moves, Apart, Dropping
    <3>10. CASE CreateColdFails(p)
      BY <3>10 DEF CreateColdFails, Ends, Apart, Dropping
    <3>11. CASE ColdReady(p)
      BY <3>11 DEF ColdReady, Moves, Apart, Dropping
    <3>12. CASE ColdNotReady(p)
      BY <3>12 DEF ColdNotReady, CleansUp, Apart, Dropping
    <3>13. CASE Configure(p)
      BY <3>13 DEF Configure, ConfigureSidecar, Moves, Apart, Dropping
    <3>14. CASE ConfigureFails(p)
      BY <3>14 DEF ConfigureFails, ConfigureSidecar, Ends, Apart, Dropping
    <3> QED BY <1>1, <3>1, <3>2, <3>3, <3>4, <3>5, <3>6, <3>7, <3>8, <3>9, <3>10, <3>11,
        <3>12, <3>13, <3>14
  <2> QED BY <2>1, ApartKeepsDropped
<1>2. ASSUME NEW q \in Pods, CreateCold(p, q) PROVE Dropped'
  <2> USE <1>2 DEF CreateCold, CreatePodObject
  <2>1. PolicyBorn'
    BY DEF PolicyBorn, HasPod, Serving
  <2>2. SomeoneDrops'
    BY DEF SomeoneDrops, PolicyBorn, OneRequest, HasPod, Labelled, ObtainsAlone,
        ServesOwn, Obtaining, Serving
  <2>3. BothDrop'
    BY DEF BothDrop, PolicyBorn, OneRequest, HasPod, Labelled, ObtainsAlone, ServesOwn,
        Obtaining, Serving
  <2> QED BY <2>1, <2>2, <2>3
<1>3. ASSUME Label(p) PROVE Dropped'
  <2> USE <1>3 DEF Label, MergeLabels, Moves, Ends
  <2>1. PolicyBorn'
    BY DEF PolicyBorn, HasPod, Serving
  <2>2. SomeoneDrops'
    BY DEF SomeoneDrops, PolicyBorn, OneRequest, HasPod, Labelled, ObtainsAlone,
        ServesOwn, Obtaining, Serving
  <2>3. BothDrop'
    BY DEF BothDrop, PolicyBorn, OneRequest, HasPod, Labelled, ObtainsAlone, ServesOwn,
        Obtaining, Serving
  <2> QED BY <2>1, <2>2, <2>3
<1>4. ASSUME LabelFails(p) PROVE Dropped'
  <2> USE <1>4 DEF LabelFails, MergeLabels, CleansUp
  <2>1. PolicyBorn'
    BY DEF PolicyBorn, HasPod, Serving
  <2>2. SomeoneDrops'
    BY DEF SomeoneDrops, PolicyBorn, OneRequest, HasPod, Labelled, ObtainsAlone,
        ServesOwn, Obtaining, Serving
  <2>3. BothDrop'
    BY DEF BothDrop, PolicyBorn, OneRequest, HasPod, Labelled, ObtainsAlone, ServesOwn,
        Obtaining, Serving
  <2> QED BY <2>1, <2>2, <2>3
<1>5. ASSUME SyncPolicy(p) PROVE Dropped'
  <2>1. PICK x \in Pods : x = cand[p] /\ (Exists(x) => owner[x] = sess[p])
    BY <1>5 DEF SyncPolicy, HasPod, ServesOwn, Serving
  <2>2. /\ \E s \in {None, sess[p]} : policy' = [policy EXCEPT ![x] = s]
        /\ UNCHANGED <<phase, owner, crashes>>
    BY <1>5, <2>1 DEF SyncPolicy, SetPolicy
  <2>3. ~Foreign(x)'
    BY <2>1, <2>2
  <2>4. \A r \in Procs : cand[r] # x =>
            cand'[r] = cand[r] /\ pc'[r] = pc[r] /\ sess'[r] = sess[r]
    BY <1>5, <2>1 DEF SyncPolicy, Ends
  <2>5. \A q \in Pods : Foreign(q)' =>
            q # x /\ Foreign(q) /\ policy'[q] = policy[q] /\ owner'[q] = owner[q]
    BY <2>2, <2>3
  <2>6. PolicyBorn'
    BY <1>5, <2>1, <2>2 DEF PolicyBorn, SyncPolicy, Ends, HasPod
  <2>7. SomeoneDrops'
    BY <2>4, <2>5 DEF SomeoneDrops
  <2>8. BothDrop'
    BY <2>2, <2>4, <2>5 DEF BothDrop
  <2> QED BY <2>6, <2>7, <2>8
<1>6. ASSUME NEW q \in Pods, CreateColdUnheard(p, q) PROVE Dropped'
  <2> USE <1>6 DEF CreateColdUnheard, CreatePodObject, Ends
  <2>1. PolicyBorn'
    BY DEF PolicyBorn, HasPod, Serving
  <2>2. SomeoneDrops'
    BY DEF SomeoneDrops, PolicyBorn, OneRequest, HasPod
  <2>3. BothDrop'
    BY DEF BothDrop, PolicyBorn, OneRequest, HasPod
  <2> QED BY <2>1, <2>2, <2>3
<1> QED BY <1>1, <1>2, <1>3, <1>4, <1>5, <1>6 DEF CreateNext

\* Every step of destroy_session keeps it: a policy that a relabel leaves behind is
\* deleted by the same request.
LEMMA DestroyKeepsDropped ==
    ASSUME Serial, PoliciesFollow, TypeOK, Ownership, Dropped, NEW p \in Procs, DestroyNext(p)
    PROVE  Dropped'
<1> USE DEF TypeOK, ClusterTypeOK, RequestTypeOK, Ownership, PoliciesFollow, Dropped,
    Foreign, CreatePCs, TeardownPCs, Exists, Up, At, Goto, cluster
<1>1. CASE \/ \E s \in Sessions : StartDestroy(p, s)
           \/ Wipe(p)
           \/ WipeFails(p)
           \/ Capacity(p)
           \/ CapacityFails(p)
  <2>1. Apart(p)
    <3>1. ASSUME NEW s \in Sessions, StartDestroy(p, s) PROVE Apart(p)
      BY <3>1 DEF StartDestroy, OwnedBy, Apart, Dropping
    <3>2. CASE Wipe(p)
      BY <3>2 DEF Wipe, ConfigureSidecar, Moves, Apart, Dropping
    <3>3. CASE WipeFails(p)
      BY <3>3 DEF WipeFails, ConfigureSidecar, TouchSidecar, Moves, Apart, Dropping
    <3>4. CASE Capacity(p)
      BY <3>4 DEF Capacity, Moves, Apart, Dropping
    <3>5. CASE CapacityFails(p)
      BY <3>5 DEF CapacityFails, Moves, Apart, Dropping
    <3> QED BY <1>1, <3>1, <3>2, <3>3, <3>4, <3>5
  <2> QED BY <2>1, ApartKeepsDropped
<1>2. ASSUME Relabel(p) PROVE Dropped'
  <2> USE <1>2 DEF Relabel, MergeLabels, TornDown, Moves, Ends
  <2>1. PolicyBorn'
    BY DEF PolicyBorn, HasPod, Serving
  <2>2. SomeoneDrops'
    BY DEF SomeoneDrops, PolicyBorn, OneRequest, HasPod, Labelled, ObtainsAlone,
        ServesOwn, Obtaining, Serving
  <2>3. BothDrop'
    BY DEF BothDrop, PolicyBorn, OneRequest, HasPod, Labelled, ObtainsAlone, ServesOwn,
        Obtaining, Serving
  <2> QED BY <2>1, <2>2, <2>3
<1>3. ASSUME RelabelFails(p) PROVE Dropped'
  <2> USE <1>3 DEF RelabelFails, MergeLabels, Moves
  <2>1. PolicyBorn'
    BY DEF PolicyBorn, HasPod, Serving
  <2>2. SomeoneDrops'
    BY DEF SomeoneDrops, PolicyBorn, OneRequest, HasPod, Labelled, ObtainsAlone,
        ServesOwn, Obtaining, Serving
  <2>3. BothDrop'
    BY DEF BothDrop, PolicyBorn, OneRequest, HasPod, Labelled, ObtainsAlone, ServesOwn,
        Obtaining, Serving
  <2> QED BY <2>1, <2>2, <2>3
<1>4. ASSUME Unpolicy(p) PROVE Dropped'
  <2> USE <1>4 DEF Unpolicy, SetPolicy, TornDown, Ends
  <2>1. PolicyBorn'
    BY DEF PolicyBorn, HasPod, Serving
  <2>2. SomeoneDrops'
    BY DEF SomeoneDrops, PolicyBorn, OneRequest, HasPod, Labelled, ObtainsAlone,
        ServesOwn, Obtaining, Serving
  <2>3. BothDrop'
    BY DEF BothDrop, PolicyBorn, OneRequest, HasPod, Labelled, ObtainsAlone, ServesOwn,
        Obtaining, Serving
  <2> QED BY <2>1, <2>2, <2>3
<1>5. ASSUME DeletePod(p) PROVE Dropped'
  <2> USE <1>5 DEF DeletePod, DeletePodObject, Remove, TornDown, Moves, Ends
  <2>1. PolicyBorn'
    BY DEF PolicyBorn, HasPod, Serving
  <2>2. SomeoneDrops'
    BY DEF SomeoneDrops, PolicyBorn, OneRequest, HasPod, Labelled, ObtainsAlone,
        ServesOwn, Obtaining, Serving
  <2>3. BothDrop'
    BY DEF BothDrop, PolicyBorn, OneRequest, HasPod, Labelled, ObtainsAlone, ServesOwn,
        Obtaining, Serving
  <2> QED BY <2>1, <2>2, <2>3
<1>6. ASSUME DeletePodFails(p) PROVE Dropped'
  <2> USE <1>6 DEF DeletePodFails, TornDown, Moves, Ends
  <2>1. PolicyBorn'
    BY DEF PolicyBorn, HasPod, Serving
  <2>2. SomeoneDrops'
    BY DEF SomeoneDrops, PolicyBorn, OneRequest, HasPod, Labelled, ObtainsAlone,
        ServesOwn, Obtaining, Serving
  <2>3. BothDrop'
    BY DEF BothDrop, PolicyBorn, OneRequest, HasPod, Labelled, ObtainsAlone, ServesOwn,
        Obtaining, Serving
  <2> QED BY <2>1, <2>2, <2>3
<1>7. ASSUME DelPolicy(p) PROVE Dropped'
  <2> USE <1>7 DEF DelPolicy, SetPolicy, TornDown, Ends
  <2>1. PolicyBorn'
    BY DEF PolicyBorn, HasPod, Serving
  <2>2. SomeoneDrops'
    BY DEF SomeoneDrops, PolicyBorn, OneRequest, HasPod, Labelled, ObtainsAlone,
        ServesOwn, Obtaining, Serving
  <2>3. BothDrop'
    BY DEF BothDrop, PolicyBorn, OneRequest, HasPod, Labelled, ObtainsAlone, ServesOwn,
        Obtaining, Serving
  <2> QED BY <2>1, <2>2, <2>3
<1> QED BY <1>1, <1>2, <1>3, <1>4, <1>5, <1>6, <1>7 DEF DestroyNext

\* So does what passes, reapers and the cluster do,
LEMMA TouchKeepsDropped ==
    ASSUME TypeOK, Ownership, Dropped, NEW q \in Pods, Touched(q), UNCHANGED <<requests, crashes>>
    PROVE  Dropped'
<1> USE DEF TypeOK, ClusterTypeOK, RequestTypeOK, Ownership, Dropped, Foreign, Exists,
    requests, Touched, CreatePodObject, Remove, LivePhases
<1>1. PolicyBorn'
  BY DEF PolicyBorn
<1>2. SomeoneDrops'
  BY DEF SomeoneDrops, PolicyBorn
<1>3. BothDrop'
  BY DEF BothDrop, PolicyBorn
<1> QED BY <1>1, <1>2, <1>3

\* and what they leave alone.
LEMMA UntouchedKeepsDropped ==
    ASSUME Dropped, Untouched, UNCHANGED <<requests, crashes>>
    PROVE  Dropped'
BY DEF Untouched, requests, Dropped, PolicyBorn, SomeoneDrops, BothDrop, Foreign, Exists

\* A crash takes one of the two away.
LEMMA CrashKeepsDropped ==
    ASSUME PoliciesFollow, TypeOK, Ownership, Dropped, NEW w \in Workers, Crash(w)
    PROVE  Dropped'
<1>1. crashes = 0 /\ crashes' = 1 /\ \A p, r \in Procs : Runs[p] = Runs[r] => p = r
  BY DEF Crash, PoliciesFollow, TypeOK
<1>2. PolicyBorn'
  BY DEF Crash, Dropped, PolicyBorn
<1>3. BothDrop'
  BY <1>1 DEF BothDrop
<1>4. ASSUME NEW q \in Pods, Foreign(q), owner[q] # None
      PROVE  \E p \in Procs : /\ cand'[p] = q
                              /\ pc'[p] \in {"policy", "unpolicy", "delete", "delpolicy"}
  <2>1. PICK p \in Procs : /\ cand[p] = q /\ sess[p] = policy[q]
                           /\ pc[p] \in {"unpolicy", "delete", "delpolicy"}
    BY <1>1, <1>4 DEF Dropped, BothDrop
  <2>2. PICK r \in Procs : /\ cand[r] = q /\ sess[r] = owner[q]
                           /\ pc[r] \in {"policy", "delete", "delpolicy"}
    BY <1>1, <1>4 DEF Dropped, BothDrop
  <2>3. p # r
    BY <1>4, <2>1, <2>2 DEF Foreign
  <2>4. Runs[p] # w \/ Runs[r] # w
    BY <1>1, <2>3
  <2> QED BY <2>1, <2>2, <2>4 DEF Crash
<1>5. SomeoneDrops'
  BY <1>4 DEF SomeoneDrops, Crash, Foreign, Exists
<1> QED BY <1>2, <1>3, <1>5 DEF Dropped

\* PolicyNotForeign: a pod that serves a session, and that no request is at work on,
\* has the policy of that session or none
\* (_sync_secrets_egress_network_policy, _delete_secrets_egress_network_policy).
THEOREM FleetPolicyNotForeign ==
    Serial /\ PoliciesFollow => (Spec => []PolicyNotForeign)
<1> SUFFICES ASSUME Serial, PoliciesFollow PROVE Spec => []PolicyNotForeign
  OBVIOUS
<1>1. Init => Dropped
  BY DEF Init, ClusterInit, Dropped, PolicyBorn, SomeoneDrops, BothDrop, Foreign, Exists
<1>2. TypeOK /\ Ownership /\ Dropped /\ [Next]_vars => Dropped'
  <2> SUFFICES ASSUME TypeOK, Ownership, Dropped, [Next]_vars PROVE Dropped'
    OBVIOUS
  <2>1. ASSUME NEW p \in Procs, CreateNext(p) \/ DestroyNext(p) PROVE Dropped'
    BY <2>1, CreateKeepsDropped, DestroyKeepsDropped
  <2>2. CASE (PoolNext \/ ClusterNext) /\ UNCHANGED <<requests, crashes>>
    BY <2>2, OthersTouch, TouchKeepsDropped, UntouchedKeepsDropped
  <2>3. ASSUME NEW w \in Workers, Crash(w) PROVE Dropped'
    BY <2>3, CrashKeepsDropped
  <2>4. CASE UNCHANGED vars
    BY <2>4, UntouchedKeepsDropped DEF vars, cluster, Untouched
  <2> QED BY <2>1, <2>2, <2>3, <2>4 DEF Next
<1>3. TypeOK /\ Dropped => PolicyNotForeign
  BY DEF PolicyNotForeign, Settled, Up, Exists, Dropped, SomeoneDrops, Foreign
<1>4. Spec => []TypeOK
  BY FleetTypes
<1>5. Spec => []Ownership
  BY OwnershipInvariant
<1> QED BY <1>1, <1>2, <1>3, <1>4, <1>5, PTL DEF Spec

-----------------------------------------------------------------------------
(* The size of the warm pool.                                              *)

\* What pass t has still to create.
LeftOf(t) == IF t \in Passes THEN todo[t] ELSE 0
\* The one manager there is, and its two passes.
Manager == CHOOSE m : Managers \subseteq {m}
Timer  == <<Manager, "timer">>
Manual == <<Manager, "manual">>

\* The warm pods there are and those the passes will create.
Planned == Cardinality(Claimable) + LeftOf(Timer) + LeftOf(Manual) <= 2 * Target
\* What a pass awaits and what it has still to create are within one target.
EachPlan == \A t \in Passes : Cardinality(waits[t]) + todo[t] <= Target
\* A warm pod that is not up yet is awaited by a pass.
PendingAwaited ==
    \A q \in Pods : phase[q] = "Pending" /\ pool[q] = "warm" =>
        \E t \in Passes : q \in waits[t]
\* A pass that was asked for has nothing left to do.
NudgedRests == \A t \in nudged : todo[t] = 0 /\ waits[t] = {}
\* No pod is on its way back to the pool.
NoneRecycled == \A p \in Procs : pc[p] \notin {"capacity", "relabel"}

\* The inductive invariant behind WarmWithinTwoTargets.
Budgeted == Planned /\ EachPlan /\ PendingAwaited /\ NudgedRests /\ NoneRecycled

\* What WarmWithinTwoTargets needs: one manager that does not die, no recycling,
\* lists that are answered and deletes that arrive.
OnePlanner ==
    /\ \A m, n \in Managers : m = n
    /\ ~Recycle
    /\ {"scan", "delete"} \cap Faults = {}
    /\ MaxCrashes = 0

\* There are at most two passes.
LEMMA TwoPasses == ASSUME OnePlanner PROVE Passes \subseteq {Timer, Manual}
<1>1. \E m : Managers \subseteq {m}
  BY DEF OnePlanner
<1>2. Managers \subseteq {Manager}
  BY <1>1 DEF Manager
<1>3. ASSUME NEW t \in Passes PROVE t \in {Timer, Manual}
  <2>1. PICK m \in Managers, k \in PassKinds : t = <<m, k>>
    BY DEF Passes
  <2>2. m = Manager /\ k \in {"timer", "manual"}
    BY <1>2, PoolAssumption
  <2> QED BY <2>1, <2>2 DEF Timer, Manual
<1> QED BY <1>3

\* A set of pods can be counted.
LEMMA Counted ==
    ASSUME NEW S, S \subseteq Pods
    PROVE  IsFiniteSet(S) /\ Cardinality(S) \in Nat
BY ClusterAssumption, FS_Subset, FS_CardinalityType

\* Twice the target is a number.
LEMMA TwiceTarget == 2 * Target \in Nat
BY PoolAssumption

\* The step adds no warm pod and plans none.
Calm ==
    /\ Claimable' \subseteq Claimable
    /\ \A q \in Pods : phase'[q] = "Pending" /\ pool'[q] = "warm"
                          => phase[q] = "Pending" /\ pool[q] = "warm"
    /\ UNCHANGED <<todo, waits>>
    /\ \A t \in nudged' : t \in nudged \/ Resting(t)

\* Such a step keeps the counts.
LEMMA CalmKeeps ==
    ASSUME TypeOK, Budgeted, Calm
    PROVE  Planned' /\ EachPlan' /\ PendingAwaited' /\ NudgedRests'
<1>1. Claimable \subseteq Pods
  BY DEF Claimable
<1>2. /\ Cardinality(Claimable') <= Cardinality(Claimable)
      /\ Cardinality(Claimable) \in Nat /\ Cardinality(Claimable') \in Nat
  BY <1>1, Counted, FS_Subset DEF Calm
<1>3. LeftOf(Timer)' = LeftOf(Timer) /\ LeftOf(Manual)' = LeftOf(Manual)
  BY DEF Calm, LeftOf
<1>4. LeftOf(Timer) \in Nat /\ LeftOf(Manual) \in Nat
  BY PoolAssumption DEF LeftOf, TypeOK, PoolTypeOK
<1>5. Planned'
  BY <1>2, <1>3, <1>4, TwiceTarget DEF Budgeted, Planned
<1>6. EachPlan' /\ PendingAwaited' /\ NudgedRests'
  BY DEF Budgeted, Calm, EachPlan, PendingAwaited, NudgedRests, Resting
<1> QED BY <1>5, <1>6

\* A step that leaves phases, labels and ages alone is calm.
LEMMA SameCalm ==
    ASSUME UNCHANGED <<phase, pool, old, todo, waits>>,
           \A t \in nudged' : t \in nudged \/ Resting(t)
    PROVE  Calm
BY DEF Calm, Claimable

\* So is one that moves one pod on, removes it, or claims it.
LEMMA BefallsCalm ==
    ASSUME TypeOK, NEW q \in Pods, UNCHANGED <<todo, waits>>,
           \A t \in nudged' : t \in nudged \/ Resting(t),
           \/ UNCHANGED <<phase, pool>> /\ \A x \in Pods : old[x] => old'[x]
           \/ CreatePodObject(q, "claimed", owner'[q])
           \/ /\ \/ phase[q] = "Pending" /\ phase' = [phase EXCEPT ![q] = "Running"]
                 \/ \E f \in {"Terminating", "Failed"} : phase' = [phase EXCEPT ![q] = f]
              /\ UNCHANGED <<pool, old>>
           \/ Remove(q)
           \/ pool' = [pool EXCEPT ![q] = "claimed"] /\ UNCHANGED <<phase, old>>
    PROVE  Calm
BY DEF TypeOK, ClusterTypeOK, Calm, Claimable, CreatePodObject, Remove

\* Both deletes by name are calm.
LEMMA DeleteCalm ==
    ASSUME TypeOK, NEW q \in Pods, UNCHANGED <<todo, waits>>,
           \A t \in nudged' : t \in nudged \/ Resting(t),
           DeletePodObject(q) \/ DeletePodNow(q)
    PROVE  Calm
<1>1. \/ UNCHANGED cluster
      \/ /\ phase' = [phase EXCEPT ![q] = "Terminating"]
         /\ UNCHANGED <<pool, old>>
      \/ Remove(q)
  BY DEF DeletePodObject, DeletePodNow
<1> QED BY <1>1, BefallsCalm DEF cluster

\* A nudge asks for a pass only when that one rests (schedule_replenish).
LEMMA NudgeRests ==
    ASSUME NEW w, Nudge(w)
    PROVE  \A t \in nudged' : t \in nudged \/ Resting(t)
BY DEF Nudge

\* Without recycling every step of destroy_session is calm.
LEMMA DestroyCalm ==
    ASSUME OnePlanner, TypeOK, Budgeted, NEW p \in Procs, DestroyNext(p)
    PROVE  Calm /\ NoneRecycled'
<1> USE DEF OnePlanner, TypeOK, RequestTypeOK, Budgeted, At, Goto, cluster, passvars
<1>1. ASSUME NEW s \in Sessions, StartDestroy(p, s) PROVE Calm /\ NoneRecycled'
  BY <1>1, SameCalm DEF StartDestroy, NoneRecycled
<1>2. CASE WipeFails(p)
  BY <1>2, SameCalm DEF WipeFails, ConfigureSidecar, TouchSidecar, Moves, NoneRecycled
<1>3. CASE Unpolicy(p) \/ DelPolicy(p)
  BY <1>3, SameCalm DEF Unpolicy, DelPolicy, SetPolicy, TornDown, Moves, Ends,
      NoneRecycled
<1>4. CASE DeletePodFails(p)
  BY <1>4 DEF DeletePodFails
<1>5. CASE DeletePod(p)
  <2>1. NoneRecycled'
    BY <1>5 DEF DeletePod, TornDown, Moves, Ends, NoneRecycled
  <2>2. CASE cand[p] \in Pods
    BY <1>5, <2>1, <2>2, DeleteCalm DEF DeletePod
  <2>3. CASE cand[p] \notin Pods
    <3>1. UNCHANGED <<phase, pool, old>>
      BY <1>5, <2>3 DEF DeletePod, DeletePodObject, Remove, ClusterTypeOK
    <3> QED BY <1>5, <2>1, <3>1, SameCalm DEF DeletePod
  <2> QED BY <2>2, <2>3
<1> QED BY <1>1, <1>2, <1>3, <1>4, <1>5 DEF DestroyNext, Wipe, Capacity, CapacityFails,
    Relabel, RelabelFails, NoneRecycled

\* Every step of create_session is calm.
LEMMA CreateCalm ==
    ASSUME OnePlanner, TypeOK, Budgeted, NEW p \in Procs, CreateNext(p)
    PROVE  Calm /\ NoneRecycled'
<1> USE DEF OnePlanner, TypeOK, RequestTypeOK, Budgeted, At, Goto, cluster, passvars
<1>1. ASSUME NEW s \in Sessions, StartCreate(p, s) PROVE Calm /\ NoneRecycled'
  BY <1>1, SameCalm DEF StartCreate, NoneRecycled
<1>2. CASE Reuse(p) \/ ReuseFails(p)
  BY <1>2, SameCalm DEF Reuse, ReuseFails, TouchSidecar, Ends, NoneRecycled
<1>3. CASE ListWarm(p) \/ SkipClaim(p) \/ NoneClaimed(p) \/ CreateColdFails(p)
           \/ ColdReady(p) \/ ColdNotReady(p)
  BY <1>3, SameCalm DEF ListWarm, SkipClaim, NoneClaimed, CreateColdFails, ColdReady,
      ColdNotReady, CleansUp, Moves, Ends, NoneRecycled
<1>4. ASSUME NEW q \in Pods, Claim(p, q) \/ ClaimUnheard(p, q) PROVE Calm /\ NoneRecycled'
  <2>1. pool' = [pool EXCEPT ![q] = "claimed"] /\ UNCHANGED <<phase, old, todo, waits, nudged>>
    BY <1>4 DEF Claim, ClaimUnheard, CasClaim
  <2>2. NoneRecycled'
    BY <1>4 DEF Claim, ClaimUnheard, NoneRecycled
  <2> QED BY <2>1, <2>2, BefallsCalm
<1>5. ASSUME NEW q \in Pods, ClaimLost(p, q) PROVE Calm /\ NoneRecycled'
  BY <1>5, SameCalm DEF ClaimLost, NoneRecycled
<1>6. ASSUME NEW q \in Pods, CreateCold(p, q) \/ CreateColdUnheard(p, q)
      PROVE  Calm /\ NoneRecycled'
  <2>1. CreatePodObject(q, "claimed", owner'[q]) /\ UNCHANGED <<todo, waits, nudged>>
    BY <1>6 DEF CreateCold, CreateColdUnheard, CreatePodObject, ClusterTypeOK
  <2>2. NoneRecycled'
    BY <1>6 DEF CreateCold, CreateColdUnheard, Ends, NoneRecycled
  <2> QED BY <2>1, <2>2, BefallsCalm
<1>7. CASE Configure(p) \/ ConfigureFails(p)
  BY <1>7, SameCalm, NudgeRests DEF Configure, ConfigureFails, ConfigureSidecar, Moves,
      Ends, NoneRecycled
<1>8. CASE Label(p) \/ LabelFails(p)
  <2>1. UNCHANGED <<todo, waits, nudged>> /\ NoneRecycled'
    BY <1>8 DEF Label, LabelFails, CleansUp, Moves, Ends, NoneRecycled
  <2>2. \/ UNCHANGED <<phase, pool, old>>
        \/ pool' = [pool EXCEPT ![cand[p]] = "claimed"] /\ UNCHANGED <<phase, old>>
    BY <1>8 DEF Label, LabelFails, MergeLabels
  <2>3. CASE cand[p] \in Pods
    BY <2>1, <2>2, <2>3, BefallsCalm
  <2>4. CASE cand[p] \notin Pods
    <3>1. UNCHANGED <<phase, pool, old>>
      BY <2>2, <2>4 DEF ClusterTypeOK
    <3> QED BY <2>1, <3>1, SameCalm
  <2> QED BY <2>3, <2>4
<1>9. CASE SyncPolicy(p)
  BY <1>9, SameCalm DEF SyncPolicy, SetPolicy, Ends, NoneRecycled
<1> QED BY <1>1, <1>2, <1>3, <1>4, <1>5, <1>6, <1>7, <1>8, <1>9 DEF CreateNext

\* What the cluster does is calm.
LEMMA ClusterCalm ==
    ASSUME TypeOK, ClusterNext, UNCHANGED passvars
    PROVE  Calm
<1>1. PICK q \in Pods : \/ BecomeReady(q) \/ Vanish(q) \/ DeadlineExpires(q)
                        \/ GoIdle(q) \/ GrowOld(q)
  BY DEF ClusterNext
<1>2. CASE GoIdle(q) \/ GrowOld(q)
  BY <1>2, BefallsCalm DEF GoIdle, GrowOld, TypeOK, ClusterTypeOK, passvars
<1>3. CASE BecomeReady(q) \/ Vanish(q) \/ DeadlineExpires(q)
  BY <1>3, BefallsCalm DEF BecomeReady, Vanish, DeadlineExpires, passvars
<1> QED BY <1>1, <1>2, <1>3

\* The reaper is calm.
LEMMA ReapCalm ==
    ASSUME TypeOK, NEW m \in Managers, ReapNext(m)
    PROVE  Calm
<1>1. CASE ReapList(m)
  BY <1>1, SameCalm DEF ReapList, cluster, passvars
<1>2. ASSUME NEW q \in Pods, ReapConfirm(m, q) \/ ReapSpare(m, q) \/ ReapDeleteFails(m, q)
      PROVE  Calm
  BY <1>2, SameCalm DEF ReapConfirm, ReapSpare, ReapDeleteFails, TouchSidecar, cluster,
      passvars
<1>3. ASSUME NEW q \in Pods, ReapDelete(m, q) PROVE Calm
  BY <1>3, DeleteCalm DEF ReapDelete, passvars
<1> QED BY <1>1, <1>2, <1>3 DEF ReapNext

\* A scan plans no more than the target lacks of the warm pods it counts; the pods
\* it does not count are those the other pass awaits (_replenish).
LEMMA ScanKeeps ==
    ASSUME OnePlanner, TypeOK, Budgeted, NEW t \in Passes, Scan(t)
    PROVE  Planned' /\ EachPlan' /\ PendingAwaited' /\ NudgedRests'
<1> DEFINE rw == Cardinality(ReadyWarm)
           d == Deficit(Cardinality(ReadyWarm), Cardinality(Active))
<1>1. /\ t \notin nudged' /\ UNCHANGED <<phase, pool, old, waits>>
      /\ todo' = [todo EXCEPT ![t] = d] /\ nudged' \subseteq nudged
      /\ todo[t] = 0 /\ waits[t] = {}
  BY DEF Scan, BeginsScan, Resting, Budgeted, NudgedRests, cluster
<1>2. /\ todo \in [Passes -> 0 .. Target] /\ waits \in [Passes -> SUBSET Pods]
      /\ nudged \subseteq Passes /\ Target \in Nat
  BY PoolAssumption DEF TypeOK, PoolTypeOK
<1>3. rw \in Nat /\ Cardinality(Active) \in Nat
  BY Counted DEF ReadyWarm, Active
<1>4. d \in 0 .. Target /\ (IF rw < Target THEN d <= Target - rw ELSE d = 0)
  BY <1>2, <1>3, PoolAssumption DEF Deficit
<1>5. PendingAwaited'
  BY <1>1 DEF Budgeted, PendingAwaited
<1>6. NudgedRests'
  BY <1>1, <1>2 DEF Budgeted, NudgedRests
<1>7. EachPlan'
  <2>1. ASSUME NEW u \in Passes, u # t PROVE Cardinality(waits'[u]) + todo'[u] <= Target
    BY <1>1, <1>2, <2>1 DEF Budgeted, EachPlan
  <2>2. Cardinality(waits'[t]) + todo'[t] <= Target
    BY <1>1, <1>2, <1>4, FS_EmptySet
  <2> QED BY <2>1, <2>2 DEF EachPlan
<1>8. Planned'
  <2>1. \E u : {t, u} = {Timer, Manual} /\ t # u
    <3>1. Timer # Manual
      BY DEF Timer, Manual
    <3>2. t = Timer \/ t = Manual
      BY TwoPasses
    <3> QED BY <3>1, <3>2
  <2> PICK u : {t, u} = {Timer, Manual} /\ t # u
    BY <2>1
  <2> DEFINE W == IF u \in Passes THEN waits[u] ELSE {}
             C == Claimable
             l == LeftOf(u)
  <2>2. LeftOf(t) = 0 /\ LeftOf(t)' = d /\ LeftOf(u)' = l /\ l \in Nat
    BY <1>1, <1>2, <2>1 DEF LeftOf
  <2>3. /\ IsFiniteSet(W) /\ W \subseteq Pods
        /\ Cardinality(W) \in Nat /\ Cardinality(W) + l <= Target
    <3>1. CASE u \in Passes
      BY <1>2, <3>1, Counted DEF LeftOf, Budgeted, EachPlan
    <3>2. CASE u \notin Passes
      BY <1>2, <3>2, FS_EmptySet DEF LeftOf
    <3> QED BY <3>1, <3>2
  <2>4. C \subseteq ReadyWarm \cup W
    <3>1. \A q \in Pods : phase[q] = "Pending" /\ pool[q] = "warm" => q \in W
      BY <1>1, <2>1, TwoPasses DEF Budgeted, PendingAwaited
    <3> QED BY <3>1 DEF Claimable, ReadyWarm, Up
  <2>5. Cardinality(C) \in Nat /\ Cardinality(C) <= rw + Cardinality(W)
    <3>1. /\ ReadyWarm \subseteq Pods
          /\ ReadyWarm \cup W \subseteq Pods /\ ReadyWarm \cap W \subseteq Pods
      BY <2>3 DEF ReadyWarm
    <3>2. /\ Cardinality(C) \in Nat /\ Cardinality(C) <= Cardinality(ReadyWarm \cup W)
      BY <2>4, <3>1, Counted, FS_Subset DEF Claimable
    <3>3. Cardinality(ReadyWarm \cup W)
            = rw + Cardinality(W) - Cardinality(ReadyWarm \cap W)
      BY <2>3, <3>1, Counted, FS_Union
    <3>4. Cardinality(ReadyWarm \cap W) \in Nat
      BY <3>1, Counted
    <3> HIDE DEF W, C
    <3> QED BY <1>3, <2>3, <3>2, <3>3, <3>4
  <2>6. Cardinality(C) + LeftOf(t) + l <= 2 * Target
    <3>1. LeftOf(t) \in Nat /\ l \in Nat /\ Cardinality(C) \in Nat
      BY <2>2, <2>5
    <3> QED BY <2>1, <3>1 DEF Budgeted, Planned
  <2>7. Cardinality(C) + d + l <= 2 * Target
    <3> HIDE DEF W, C, l, d, rw
    <3> QED BY <1>2, <1>3, <1>4, <2>2, <2>3, <2>5, <2>6
  <2>8. Claimable' = C
    BY <1>1 DEF Claimable
  <2>9. Cardinality(C) \in Nat /\ d \in Nat
    BY <1>2, <1>4, <2>5
  <2> HIDE DEF C, l, d
  <2> QED BY <2>1, <2>2, <2>7, <2>8, <2>9 DEF Planned
<1> QED BY <1>5, <1>6, <1>7, <1>8

\* A pass that takes one pod off its plan may add one.
LEMMA PlanKept ==
    ASSUME OnePlanner, TypeOK, Budgeted, NEW t \in Passes,
           todo[t] > 0, todo' = [todo EXCEPT ![t] = @ - 1],
           Cardinality(Claimable') \in Nat,
           Cardinality(Claimable') <= Cardinality(Claimable) + 1
    PROVE  Planned'
<1>1. todo \in [Passes -> 0 .. Target] /\ Target \in Nat
  BY PoolAssumption DEF TypeOK, PoolTypeOK
<1>2. Cardinality(Claimable) \in Nat
  BY Counted DEF Claimable
<1>3. Timer # Manual /\ (t = Timer \/ t = Manual)
  BY TwoPasses DEF Timer, Manual
<1>4. CASE t = Timer
  <2>1. LeftOf(Timer)' = LeftOf(Timer) - 1 /\ LeftOf(Manual)' = LeftOf(Manual)
    BY <1>1, <1>3, <1>4 DEF LeftOf
  <2>2. LeftOf(Timer) \in Nat /\ LeftOf(Manual) \in Nat
    BY <1>1 DEF LeftOf
  <2> QED BY <1>1, <1>2, <2>1, <2>2 DEF Planned, Budgeted
<1>5. CASE t = Manual
  <2>1. LeftOf(Manual)' = LeftOf(Manual) - 1 /\ LeftOf(Timer)' = LeftOf(Timer)
    BY <1>1, <1>3, <1>5 DEF LeftOf
  <2>2. LeftOf(Timer) \in Nat /\ LeftOf(Manual) \in Nat
    BY <1>1 DEF LeftOf
  <2> QED BY <1>1, <1>2, <2>1, <2>2 DEF Planned, Budgeted
<1> QED BY <1>3, <1>4, <1>5

\* Creating a planned pod keeps the counts (_create_warm_pod).
LEMMA CreateWarmKeeps ==
    ASSUME OnePlanner, TypeOK, Budgeted, NEW t \in Passes, NEW q \in Pods, CreateWarm(t, q)
    PROVE  Planned' /\ EachPlan' /\ PendingAwaited' /\ NudgedRests'
<1> USE DEF CreateWarm, CreatePodObject
<1>1. /\ todo \in [Passes -> 0 .. Target] /\ waits \in [Passes -> SUBSET Pods]
      /\ nudged \subseteq Passes /\ Target \in Nat
      /\ phase \in [Pods -> Phases] /\ pool \in [Pods -> Pools]
  BY PoolAssumption DEF TypeOK, PoolTypeOK, ClusterTypeOK
<1>2. Planned'
  <2>1. Claimable' \subseteq Claimable \cup {q} /\ Claimable \subseteq Pods
    BY <1>1 DEF Claimable
  <2>2. /\ IsFiniteSet(Claimable) /\ IsFiniteSet(Claimable \cup {q})
        /\ Cardinality(Claimable) \in Nat /\ Cardinality(Claimable') \in Nat
    BY <2>1, Counted
  <2>3. Cardinality(Claimable \cup {q}) <= Cardinality(Claimable) + 1
    BY <2>2, FS_AddElement
  <2>4. Cardinality(Claimable') <= Cardinality(Claimable \cup {q})
    BY <2>1, <2>2, FS_Subset
  <2>5. Cardinality(Claimable \cup {q}) \in Nat
    BY <2>1, Counted
  <2>6. Cardinality(Claimable') <= Cardinality(Claimable) + 1
    BY <2>2, <2>3, <2>4, <2>5
  <2> QED BY <2>2, <2>6, PlanKept
<1>3. EachPlan'
  <2>1. ASSUME NEW u \in Passes PROVE Cardinality(waits'[u]) + todo'[u] <= Target
    <3>1. CASE u # t
      BY <1>1, <3>1 DEF Budgeted, EachPlan
    <3>2. CASE u = t
      <4>1. Cardinality(waits[t]) \in Nat /\ IsFiniteSet(waits[t])
        BY <1>1, Counted
      <4>2. waits'[t] \subseteq Pods
        BY <1>1
      <4>3. /\ Cardinality(waits'[t]) \in Nat
            /\ Cardinality(waits'[t]) <= Cardinality(waits[t]) + 1
        BY <1>1, <4>1, <4>2, Counted, FS_AddElement
      <4>4. Cardinality(waits[t]) + todo[t] <= Target /\ todo[t] \in Nat
            /\ todo'[t] = todo[t] - 1
        BY <1>1 DEF Budgeted, EachPlan
      <4> QED BY <1>1, <3>2, <4>1, <4>3, <4>4
    <3> QED BY <3>1, <3>2
  <2> QED BY <2>1 DEF EachPlan
<1>4. PendingAwaited'
  BY <1>1 DEF Budgeted, PendingAwaited
<1>5. NudgedRests'
  BY <1>1 DEF Budgeted, NudgedRests
<1> QED BY <1>2, <1>3, <1>4, <1>5

\* So does failing to.
LEMMA CreateWarmFailsKeeps ==
    ASSUME OnePlanner, TypeOK, Budgeted, NEW t \in Passes, CreateWarmFails(t)
    PROVE  Planned' /\ EachPlan' /\ PendingAwaited' /\ NudgedRests'
<1> USE DEF CreateWarmFails, cluster
<1>1. /\ todo \in [Passes -> 0 .. Target] /\ waits \in [Passes -> SUBSET Pods]
      /\ nudged \subseteq Passes /\ Target \in Nat
  BY PoolAssumption DEF TypeOK, PoolTypeOK
<1>2. Planned'
  <2>1. Claimable' = Claimable /\ Cardinality(Claimable) \in Nat
    BY Counted DEF Claimable
  <2>2. /\ Cardinality(Claimable') \in Nat
        /\ Cardinality(Claimable') <= Cardinality(Claimable) + 1
    BY <2>1
  <2>3. todo[t] > 0 /\ todo' = [todo EXCEPT ![t] = @ - 1]
    OBVIOUS
  <2> QED BY <2>2, <2>3, PlanKept
<1>3. EachPlan'
  <2>1. ASSUME NEW u \in Passes PROVE Cardinality(waits'[u]) + todo'[u] <= Target
    <3>1. Cardinality(waits[u]) \in Nat /\ Cardinality(waits[u]) + todo[u] <= Target
      BY <1>1, Counted DEF Budgeted, EachPlan
    <3> QED BY <1>1, <3>1
  <2> QED BY <2>1 DEF EachPlan
<1>4. PendingAwaited'
  BY DEF Budgeted, PendingAwaited
<1>5. NudgedRests'
  BY <1>1 DEF Budgeted, NudgedRests
<1> QED BY <1>2, <1>3, <1>4, <1>5

\* So does a pod that became ready, or was given up and deleted.
LEMMA WarmDoneKeeps ==
    ASSUME OnePlanner, TypeOK, Budgeted, NEW t \in Passes, NEW q \in Pods,
           WarmReady(t, q) \/ WarmNotReady(t, q)
    PROVE  Planned' /\ EachPlan' /\ PendingAwaited' /\ NudgedRests'
<1>1. /\ todo \in [Passes -> 0 .. Target] /\ waits \in [Passes -> SUBSET Pods]
      /\ nudged \subseteq Passes /\ Target \in Nat
      /\ phase \in [Pods -> Phases] /\ pool \in [Pods -> Pools]
      /\ old \in [Pods -> BOOLEAN]
  BY PoolAssumption DEF TypeOK, PoolTypeOK, ClusterTypeOK
<1>2. /\ UNCHANGED <<todo, nudged>> /\ waits' = [waits EXCEPT ![t] = @ \ {q}]
      /\ \/ UNCHANGED cluster
         \/ phase' = [phase EXCEPT ![q] = "Terminating"] /\ UNCHANGED <<pool, old>>
         \/ Remove(q)
      /\ phase'[q] # "Pending"
  BY <1>1 DEF WarmReady, WarmNotReady, DeletePodObject, Remove, Up, cluster, OnePlanner
<1>3. Planned'
  <2>1. Claimable' \subseteq Claimable /\ Claimable \subseteq Pods
    BY <1>1, <1>2 DEF Claimable, cluster, Remove
  <2>2. /\ Cardinality(Claimable') <= Cardinality(Claimable)
        /\ Cardinality(Claimable) \in Nat /\ Cardinality(Claimable') \in Nat
    BY <2>1, Counted, FS_Subset
  <2>3. LeftOf(Timer)' = LeftOf(Timer) /\ LeftOf(Manual)' = LeftOf(Manual)
    BY <1>2 DEF LeftOf
  <2>4. LeftOf(Timer) \in Nat /\ LeftOf(Manual) \in Nat
    BY <1>1 DEF LeftOf
  <2> QED BY <2>2, <2>3, <2>4, TwiceTarget DEF Budgeted, Planned
<1>4. EachPlan'
  <2>1. ASSUME NEW u \in Passes PROVE Cardinality(waits'[u]) + todo'[u] <= Target
    <3>1. waits'[u] \subseteq waits[u] /\ waits[u] \subseteq Pods /\ todo'[u] = todo[u]
      BY <1>1, <1>2
    <3>2. /\ Cardinality(waits'[u]) <= Cardinality(waits[u])
          /\ Cardinality(waits[u]) \in Nat /\ Cardinality(waits'[u]) \in Nat
      BY <3>1, Counted, FS_Subset
    <3>3. Cardinality(waits[u]) + todo[u] <= Target /\ todo[u] \in Nat
      BY <1>1 DEF Budgeted, EachPlan
    <3> QED BY <1>1, <3>1, <3>2, <3>3
  <2> QED BY <2>1 DEF EachPlan
<1>5. PendingAwaited'
  BY <1>1, <1>2 DEF Budgeted, PendingAwaited, cluster, Remove
<1>6. NudgedRests'
  BY <1>1, <1>2 DEF Budgeted, NudgedRests
<1> QED BY <1>3, <1>4, <1>5, <1>6

\* Every step of the warm pool keeps them.
LEMMA PoolKeepsBudget ==
    ASSUME OnePlanner, TypeOK, Budgeted, PoolNext, UNCHANGED requests
    PROVE  Budgeted'
<1> DEFINE Kept == Planned' /\ EachPlan' /\ PendingAwaited' /\ NudgedRests'
<1>1. ASSUME NEW t \in Passes, ReplenishNext(t) PROVE Kept
  <2>1. CASE Scan(t)
    BY <2>1, ScanKeeps
  <2>2. CASE CreateWarmFails(t)
    BY <2>2, CreateWarmFailsKeeps
  <2>3. ASSUME NEW q \in Pods, Sweep(t, q) PROVE Kept
    <3>1. Calm
      BY <2>3, SameCalm, DeleteCalm DEF Sweep, cluster
    <3> QED BY <3>1, CalmKeeps
  <2>4. ASSUME NEW q \in Pods, CreateWarm(t, q) PROVE Kept
    BY <2>4, CreateWarmKeeps
  <2>5. ASSUME NEW q \in Pods, WarmReady(t, q) \/ WarmNotReady(t, q) PROVE Kept
    BY <2>5, WarmDoneKeeps
  <2>6. ~ScanFails(t)
    BY DEF ScanFails, OnePlanner
  <2> QED BY <1>1, <2>1, <2>2, <2>3, <2>4, <2>5, <2>6 DEF ReplenishNext
<1>2. ASSUME NEW m \in Managers, ReapNext(m) PROVE Kept
  BY <1>2, ReapCalm, CalmKeeps
<1>3. NoneRecycled'
  BY DEF requests, Budgeted, NoneRecycled
<1> QED BY <1>1, <1>2, <1>3 DEF PoolNext, Budgeted

\* WarmWithinTwoTargets: the two passes of one manager, which count before they
\* create and do not see the work of each other, leave at most twice the target of
\* warm pods that can be claimed (_replenish, schedule_replenish).
THEOREM FleetWarmWithinTwoTargets ==
    OnePlanner => (Spec => []WarmWithinTwoTargets)
<1> SUFFICES ASSUME OnePlanner PROVE Spec => []WarmWithinTwoTargets
  OBVIOUS
<1>1. Init => Budgeted
  <2> SUFFICES ASSUME Init PROVE Budgeted
    OBVIOUS
  <2> USE DEF Init, ClusterInit, PoolInit
  <2>1. Claimable = {} /\ LeftOf(Timer) = 0 /\ LeftOf(Manual) = 0
    BY DEF Claimable, LeftOf
  <2>2. Planned
    BY <2>1, FS_EmptySet, TwiceTarget DEF Planned
  <2>3. EachPlan
    BY FS_EmptySet, PoolAssumption DEF EachPlan
  <2> QED BY <2>2, <2>3 DEF Budgeted, PendingAwaited, NudgedRests, NoneRecycled
<1>2. TypeOK /\ Budgeted /\ [Next]_vars => Budgeted'
  <2> SUFFICES ASSUME TypeOK, Budgeted, [Next]_vars PROVE Budgeted'
    OBVIOUS
  <2>1. ASSUME NEW p \in Procs, CreateNext(p) \/ DestroyNext(p) PROVE Budgeted'
    BY <2>1, CreateCalm, DestroyCalm, CalmKeeps DEF Budgeted
  <2>2. CASE PoolNext /\ UNCHANGED <<requests, crashes>>
    BY <2>2, PoolKeepsBudget
  <2>3. CASE ClusterNext /\ UNCHANGED <<passvars, reapvars, requests, crashes>>
    <3>1. NoneRecycled'
      BY <2>3 DEF requests, Budgeted, NoneRecycled
    <3> QED BY <2>3, <3>1, ClusterCalm, CalmKeeps DEF Budgeted
  <2>4. ASSUME NEW w \in Workers, Crash(w) PROVE Budgeted'
    BY <2>4 DEF Crash, OnePlanner, TypeOK
  <2>5. CASE UNCHANGED vars
    <3>1. Calm /\ NoneRecycled'
      BY <2>5, SameCalm DEF vars, cluster, passvars, requests, Budgeted, NoneRecycled
    <3> QED BY <3>1, CalmKeeps DEF Budgeted
  <2> QED BY <2>1, <2>2, <2>3, <2>4, <2>5 DEF Next
<1>3. TypeOK /\ Budgeted => WarmWithinTwoTargets
  <2> SUFFICES ASSUME TypeOK, Budgeted PROVE WarmWithinTwoTargets
    OBVIOUS
  <2>1. LeftOf(Timer) \in Nat /\ LeftOf(Manual) \in Nat
    BY PoolAssumption DEF LeftOf, TypeOK, PoolTypeOK
  <2>2. Cardinality(Claimable) \in Nat
    BY Counted DEF Claimable
  <2> QED BY <2>1, <2>2, TwiceTarget DEF Budgeted, Planned, WarmWithinTwoTargets
<1>4. Spec => []TypeOK
  BY FleetTypes
<1> QED BY <1>1, <1>2, <1>3, <1>4, PTL DEF Spec
=============================================================================
