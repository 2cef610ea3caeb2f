--------------------------- MODULE OwnershipProofs ---------------------------
(***************************************************************************)
(* OneHolder and WarmIsClean for every fleet whose requests for one        *)
(* session do not overlap (Serial), with any number of pods, workers,      *)
(* passes and reapers and any failures and crashes.                        *)
(*                                                                         *)
(* Ownership is inductive.  Three things can happen to a pod: the cluster  *)
(* or a task of the warm pool creates it blank or takes it away (Befalls), *)
(* which cannot hurt; a request writes to the pod it has, and then nobody  *)
(* else has it, for the labels name the request's session and a session    *)
(* has one request; or a claim takes it, and then it was blank.            *)
(***************************************************************************)
EXTENDS SandboxManagerProofs

-----------------------------------------------------------------------------
\* A request starts only when its session has no other (the caller's order,
\* or the create lock of _manager_create.py:193).
LEMMA StartsAlone ==
    ASSUME Serial, NEW p \in Procs, NEW s \in Sessions
    PROVE  /\ MayOverlap(s, "create") /\ LockFree(p, s) => Busy(s) = {}
           /\ MayOverlap(s, "destroy") => Busy(s) = {}
<1>1. \A r \in Busy(s) : Runs[r] \in Workers /\ Runs[p] \in Workers
  BY ManagerAssumption DEF Busy
<1>2. ASSUME MayOverlap(s, "create"), LockFree(p, s), NEW r \in Busy(s) PROVE FALSE
  <2>1. "create" \in Overlap /\ (op[r] = "destroy" => "destroy" \in Overlap)
    BY <1>2 DEF MayOverlap
  <2>2. Runs[r] = Runs[p] /\ "destroy" \notin Overlap
    BY <1>1, <2>1 DEF Serial
  <2> QED BY <1>2, <2>1, <2>2 DEF LockFree
<1>3. ASSUME MayOverlap(s, "destroy"), NEW r \in Busy(s) PROVE FALSE
  BY <1>3 DEF MayOverlap, Serial
<1> QED BY <1>2, <1>3

\* The step changes nothing of a pod that Ownership speaks of.
Same == UNCHANGED <<phase, pool, owner, sidecar>>

LEMMA LabelledKept ==
    ASSUME Labelled, Same
    PROVE  Labelled'
BY DEF Labelled, Same, Exists

\* Such a step keeps Ownership, if it is not one of a request.
LEMMA SameOwns ==
    ASSUME Ownership, Same, UNCHANGED requests
    PROVE  Ownership'
<1>1. OneRequest' /\ HasPod' /\ ObtainsAlone' /\ ServesOwn'
  BY DEF Same, requests, Ownership, OneRequest, HasPod, ObtainsAlone,
      ServesOwn, Exists
<1> QED BY <1>1, LabelledKept DEF Ownership

\* Every step of create_session keeps Ownership.
LEMMA CreateOwns ==
    ASSUME Serial, TypeOK, Ownership, NEW p \in Procs, CreateNext(p)
    PROVE  Ownership'
<1> USE DEF TypeOK, ClusterTypeOK, RequestTypeOK, Ownership, Exists, Up,
            Obtaining, Serving, Wiped, CreatePCs, TeardownPCs
<1>1. ASSUME NEW s \in Sessions, StartCreate(p, s) PROVE Ownership'
  <2> USE <1>1 DEF StartCreate, At, Goto, OwnedBy
  <2>1. OneRequest'
    BY StartsAlone DEF OneRequest, HasPod, Busy
  <2>2. HasPod'
    BY ClusterAssumption, ManagerAssumption DEF HasPod, cluster
  <2>3. Same
    BY DEF Same, cluster
  <2>4. Labelled'
    BY <2>3, LabelledKept
  <2>5. ObtainsAlone'
    BY DEF OneRequest, HasPod, Labelled, ObtainsAlone, ServesOwn, cluster
  <2>6. ServesOwn'
    BY DEF OneRequest, HasPod, Labelled, ObtainsAlone, ServesOwn, cluster
  <2> QED BY <2>1, <2>2, <2>4, <2>5, <2>6
<1>2. ASSUME Reuse(p) PROVE Ownership'
  <2> USE <1>2 DEF Reuse, At, Ends, TouchSidecar, Goto
  <2>1. OneRequest'
    BY DEF OneRequest
  <2>2. HasPod'
    BY ClusterAssumption, ManagerAssumption DEF HasPod, cluster
  <2>3. Same
    BY DEF Same, cluster
  <2>4. Labelled'
    BY <2>3, LabelledKept
  <2>5. ObtainsAlone'
    BY DEF OneRequest, HasPod, Labelled, ObtainsAlone, ServesOwn, cluster
  <2>6. ServesOwn'
    BY DEF OneRequest, HasPod, Labelled, ObtainsAlone, ServesOwn, cluster
  <2> QED BY <2>1, <2>2, <2>4, <2>5, <2>6
<1>3. ASSUME ReuseFails(p) PROVE Ownership'
  <2> USE <1>3 DEF ReuseFails, At, Goto, OwnedBy
  <2>1. OneRequest'
    BY DEF OneRequest
  <2>2. HasPod'
    BY ClusterAssumption, ManagerAssumption DEF HasPod, cluster
  <2>3. Same
    BY DEF Same, cluster
  <2>4. Labelled'
    BY <2>3, LabelledKept
  <2>5. ObtainsAlone'
    BY DEF OneRequest, HasPod, Labelled, ObtainsAlone, ServesOwn, cluster
  <2>6. ServesOwn'
    BY DEF OneRequest, HasPod, Labelled, ObtainsAlone, ServesOwn, cluster
  <2> QED BY <2>1, <2>2, <2>4, <2>5, <2>6
<1>4. ASSUME ListWarm(p) PROVE Ownership'
  <2> USE <1>4 DEF ListWarm, At, Goto
  <2>1. OneRequest'
    BY DEF OneRequest
  <2>2. HasPod'
    BY ClusterAssumption, ManagerAssumption DEF HasPod, cluster
  <2>3. Same
    BY DEF Same, cluster
  <2>4. Labelled'
    BY <2>3, LabelledKept
  <2>5. ObtainsAlone'
    BY DEF OneRequest, HasPod, Labelled, ObtainsAlone, ServesOwn, cluster
  <2>6. ServesOwn'
    BY DEF OneRequest, HasPod, Labelled, ObtainsAlone, ServesOwn, cluster
  <2> QED BY <2>1, <2>2, <2>4, <2>5, <2>6
<1>5. ASSUME SkipClaim(p) PROVE Ownership'
  <2> USE <1>5 DEF SkipClaim, At, Moves, Goto
  <2>1. OneRequest'
    BY DEF OneRequest
  <2>2. HasPod'
    BY ClusterAssumption, ManagerAssumption DEF HasPod, cluster
  <2>3. Same
    BY DEF Same, cluster
  <2>4. Labelled'
    BY <2>3, LabelledKept
  <2>5. ObtainsAlone'
    BY DEF OneRequest, HasPod, Labelled, ObtainsAlone, ServesOwn, cluster
  <2>6. ServesOwn'
    BY DEF OneRequest, HasPod, Labelled, ObtainsAlone, ServesOwn, cluster
  <2> QED BY <2>1, <2>2, <2>4, <2>5, <2>6
<1>6. ASSUME NEW q \in Pods, Claim(p, q) PROVE Ownership'
  <2> USE <1>6 DEF Claim, At, Goto, CasClaim, CasWins
  <2>1. OneRequest'
    BY DEF OneRequest
  <2>2. HasPod'
    BY ClusterAssumption, ManagerAssumption DEF HasPod, cluster
  <2>4. Labelled'
    BY DEF Labelled, cluster
  <2>5. ObtainsAlone'
    BY DEF OneRequest, HasPod, Labelled, ObtainsAlone, ServesOwn, cluster
  <2>6. ServesOwn'
    BY DEF OneRequest, HasPod, Labelled, ObtainsAlone, ServesOwn, cluster
  <2> QED BY <2>1, <2>2, <2>4, <2>5, <2>6
<1>7. ASSUME NEW q \in Pods, ClaimLost(p, q) PROVE Ownership'
  <2> USE <1>7 DEF ClaimLost, At, CasWins
  <2>1. OneRequest'
    BY DEF OneRequest
  <2>2. HasPod'
    BY ClusterAssumption, ManagerAssumption DEF HasPod, cluster
  <2>3. Same
    BY DEF Same, cluster
  <2>4. Labelled'
    BY <2>3, LabelledKept
  <2>5. ObtainsAlone'
    BY DEF OneRequest, HasPod, Labelled, ObtainsAlone, ServesOwn, cluster
  <2>6. ServesOwn'
    BY DEF OneRequest, HasPod, Labelled, ObtainsAlone, ServesOwn, cluster
  <2> QED BY <2>1, <2>2, <2>4, <2>5, <2>6
<1>8. ASSUME NEW q \in Pods, ClaimUnheard(p, q) PROVE Ownership'
  <2> USE <1>8 DEF ClaimUnheard, At, Goto, CasClaim, CasWins
  <2>1. OneRequest'
    BY DEF OneRequest
  <2>2. HasPod'
    BY ClusterAssumption, ManagerAssumption DEF HasPod, cluster
  <2>4. Labelled'
    BY DEF Labelled, cluster
  <2>5. ObtainsAlone'
    BY DEF OneRequest, HasPod, Labelled, ObtainsAlone, ServesOwn, cluster
  <2>6. ServesOwn'
    BY DEF OneRequest, HasPod, Labelled, ObtainsAlone, ServesOwn, cluster
  <2> QED BY <2>1, <2>2, <2>4, <2>5, <2>6
<1>9. ASSUME NEW q \in Pods, CreateCold(p, q) PROVE Ownership'
  <2> USE <1>9 DEF CreateCold, At, Goto, CreatePodObject
  <2>1. OneRequest'
    BY DEF OneRequest
  <2>2. HasPod'
    BY ClusterAssumption, ManagerAssumption DEF HasPod, cluster
  <2>4. Labelled'
    BY DEF Labelled, cluster
  <2>5. ObtainsAlone'
    BY DEF OneRequest, HasPod, Labelled, ObtainsAlone, ServesOwn, cluster
  <2>6. ServesOwn'
    BY DEF OneRequest, HasPod, Labelled, ObtainsAlone, ServesOwn, cluster
  <2> QED BY <2>1, <2>2, <2>4, <2>5, <2>6
<1>10. ASSUME NoneClaimed(p) PROVE Ownership'
  <2> USE <1>10 DEF NoneClaimed, At, Moves, Goto
  <2>1. OneRequest'
    BY DEF OneRequest
  <2>2. HasPod'
    BY ClusterAssumption, ManagerAssumption DEF HasPod, cluster
  <2>3. Same
    BY DEF Same, cluster
  <2>4. Labelled'
    BY <2>3, LabelledKept
  <2>5. ObtainsAlone'
    BY DEF OneRequest, HasPod, Labelled, ObtainsAlone, ServesOwn, cluster
  <2>6. ServesOwn'
    BY DEF OneRequest, HasPod, Labelled, ObtainsAlone, ServesOwn, cluster
  <2> QED BY <2>1, <2>2, <2>4, <2>5, <2>6
<1>11. ASSUME CreateColdFails(p) PROVE Ownership'
  <2> USE <1>11 DEF CreateColdFails, At, Ends, Goto
  <2>1. OneRequest'
    BY DEF OneRequest
  <2>2. HasPod'
    BY ClusterAssumption, ManagerAssumption DEF HasPod, cluster
  <2>3. Same
    BY DEF Same, cluster
  <2>4. Labelled'
    BY <2>3, LabelledKept
  <2>5. ObtainsAlone'
    BY DEF OneRequest, HasPod, Labelled, ObtainsAlone, ServesOwn, cluster
  <2>6. ServesOwn'
    BY DEF OneRequest, HasPod, Labelled, ObtainsAlone, ServesOwn, cluster
  <2> QED BY <2>1, <2>2, <2>4, <2>5, <2>6
<1>12. ASSUME ColdReady(p) PROVE Ownership'
  <2> USE <1>12 DEF ColdReady, At, Moves, Goto
  <2>1. OneRequest'
    BY DEF OneRequest
  <2>2. HasPod'
    BY ClusterAssumption, ManagerAssumption DEF HasPod, cluster
  <2>3. Same
    BY DEF Same, cluster
  <2>4. Labelled'
    BY <2>3, LabelledKept
  <2>5. ObtainsAlone'
    BY DEF OneRequest, HasPod, Labelled, ObtainsAlone, ServesOwn, cluster
  <2>6. ServesOwn'
    BY DEF OneRequest, HasPod, Labelled, ObtainsAlone, ServesOwn, cluster
  <2> QED BY <2>1, <2>2, <2>4, <2>5, <2>6
<1>13. ASSUME ColdNotReady(p) PROVE Ownership'
  <2> USE <1>13 DEF ColdNotReady, At, CleansUp, Goto
  <2>1. OneRequest'
    BY DEF OneRequest
  <2>2. HasPod'
    BY ClusterAssumption, ManagerAssumption DEF HasPod, cluster
  <2>3. Same
    BY DEF Same, cluster
  <2>4. Labelled'
    BY <2>3, LabelledKept
  <2>5. ObtainsAlone'
    BY DEF OneRequest, HasPod, Labelled, ObtainsAlone, ServesOwn, cluster
  <2>6. ServesOwn'
    BY DEF OneRequest, HasPod, Labelled, ObtainsAlone, ServesOwn, cluster
  <2> QED BY <2>1, <2>2, <2>4, <2>5, <2>6
<1>14. ASSUME Configure(p) PROVE Ownership'
  <2> USE <1>14 DEF Configure, At, Moves, ConfigureSidecar, Goto
  <2>1. OneRequest'
    BY DEF OneRequest
  <2>2. HasPod'
    BY ClusterAssumption, ManagerAssumption DEF HasPod, cluster
  <2>4. Labelled'
    BY DEF Labelled, HasPod, ObtainsAlone, cluster
  <2>5. ObtainsAlone'
    BY DEF OneRequest, HasPod, Labelled, ObtainsAlone, ServesOwn, cluster
  <2>6. ServesOwn'
    BY DEF OneRequest, HasPod, Labelled, ObtainsAlone, ServesOwn, cluster
  <2> QED BY <2>1, <2>2, <2>4, <2>5, <2>6
<1>15. ASSUME ConfigureFails(p) PROVE Ownership'
  <2> USE <1>15 DEF ConfigureFails, At, Ends, ConfigureSidecar, Goto
  <2>1. OneRequest'
    BY DEF OneRequest
  <2>2. HasPod'
    BY ClusterAssumption, ManagerAssumption DEF HasPod, cluster
  <2>4. Labelled'
    BY DEF Labelled, HasPod, ObtainsAlone, cluster
  <2>5. ObtainsAlone'
    BY DEF OneRequest, HasPod, Labelled, ObtainsAlone, ServesOwn, cluster
  <2>6. ServesOwn'
    BY DEF OneRequest, HasPod, Labelled, ObtainsAlone, ServesOwn, cluster
  <2> QED BY <2>1, <2>2, <2>4, <2>5, <2>6
<1>16. ASSUME Label(p) PROVE Ownership'
  <2> USE <1>16 DEF Label, At, Ends, Moves, MergeLabels, Goto
  <2>1. OneRequest'
    BY DEF OneRequest
  <2>2. HasPod'
    BY ClusterAssumption, ManagerAssumption DEF HasPod, cluster
  <2>4. Labelled'
    BY DEF Labelled, HasPod, ObtainsAlone, cluster
  <2>5. ObtainsAlone'
    BY DEF OneRequest, HasPod, Labelled, ObtainsAlone, ServesOwn, cluster
  <2>6. ServesOwn'
    BY DEF OneRequest, HasPod, Labelled, ObtainsAlone, ServesOwn, cluster
  <2> QED BY <2>1, <2>2, <2>4, <2>5, <2>6
<1>17. ASSUME LabelFails(p) PROVE Ownership'
  <2> USE <1>17 DEF LabelFails, At, CleansUp, MergeLabels, Goto
  <2>1. OneRequest'
    BY DEF OneRequest
  <2>2. HasPod'
    BY ClusterAssumption, ManagerAssumption DEF HasPod, cluster
  <2>4. Labelled'
    BY DEF Labelled, HasPod, ObtainsAlone, cluster
  <2>5. ObtainsAlone'
    BY DEF OneRequest, HasPod, Labelled, ObtainsAlone, ServesOwn, cluster
  <2>6. ServesOwn'
    BY DEF OneRequest, HasPod, Labelled, ObtainsAlone, ServesOwn, cluster
  <2> QED BY <2>1, <2>2, <2>4, <2>5, <2>6
<1>18. ASSUME SyncPolicy(p) PROVE Ownership'
  <2> USE <1>18 DEF SyncPolicy, At, Ends, SetPolicy, Goto
  <2>1. OneRequest'
    BY DEF OneRequest
  <2>2. HasPod'
    BY ClusterAssumption, ManagerAssumption DEF HasPod, cluster
  <2>3. Same
    BY DEF Same, cluster
  <2>4. Labelled'
    BY <2>3, LabelledKept
  <2>5. ObtainsAlone'
    BY DEF OneRequest, HasPod, Labelled, ObtainsAlone, ServesOwn, cluster
  <2>6. ServesOwn'
    BY DEF OneRequest, HasPod, Labelled, ObtainsAlone, ServesOwn, cluster
  <2> QED BY <2>1, <2>2, <2>4, <2>5, <2>6
<1>19. ASSUME NEW q \in Pods, CreateColdUnheard(p, q) PROVE Ownership'
  <2> USE <1>19 DEF CreateColdUnheard, At, Ends, Goto, CreatePodObject
  <2>1. OneRequest'
    BY DEF OneRequest
  <2>2. HasPod'
    BY ClusterAssumption, ManagerAssumption DEF HasPod
  <2>4. Labelled'
    BY ClusterAssumption DEF Labelled, HasPod
  <2>5. ObtainsAlone'
    BY DEF OneRequest, HasPod, Labelled, ObtainsAlone, ServesOwn
  <2>6. ServesOwn'
    BY DEF OneRequest, HasPod, Labelled, ObtainsAlone, ServesOwn
  <2> QED BY <2>1, <2>2, <2>4, <2>5, <2>6
<1> QED BY <1>1, <1>2, <1>3, <1>4, <1>5, <1>6, <1>7, <1>8, <1>9, <1>10,
    <1>11, <1>12, <1>13, <1>14, <1>15, <1>16, <1>17, <1>18, <1>19 DEF CreateNext

\* Every step of destroy_session keeps Ownership.
LEMMA DestroyOwns ==
    ASSUME Serial, TypeOK, Ownership, NEW p \in Procs, DestroyNext(p)
    PROVE  Ownership'
<1> USE DEF TypeOK, ClusterTypeOK, RequestTypeOK, Ownership, Exists, Up,
            Obtaining, Serving, Wiped, CreatePCs, TeardownPCs
<1>1. ASSUME NEW s \in Sessions, StartDestroy(p, s) PROVE Ownership'
  <2> USE <1>1 DEF StartDestroy, At, Goto, OwnedBy
  <2>1. OneRequest'
    BY StartsAlone DEF OneRequest, HasPod, Busy
  <2>2. HasPod'
    BY ClusterAssumption, ManagerAssumption DEF HasPod, cluster
  <2>3. Same
    BY DEF Same, cluster
  <2>4. Labelled'
    BY <2>3, LabelledKept
  <2>5. ObtainsAlone'
    BY DEF OneRequest, HasPod, Labelled, ObtainsAlone, ServesOwn, cluster
  <2>6. ServesOwn'
    BY DEF OneRequest, HasPod, Labelled, ObtainsAlone, ServesOwn, cluster
  <2> QED BY <2>1, <2>2, <2>4, <2>5, <2>6
<1>2. ASSUME Wipe(p) PROVE Ownership'
  <2> USE <1>2 DEF Wipe, At, Moves, ConfigureSidecar, Goto
  <2>1. OneRequest'
    BY DEF OneRequest
  <2>2. HasPod'
    BY ClusterAssumption, ManagerAssumption DEF HasPod, cluster
  <2>4. Labelled'
    BY DEF Labelled, cluster
  <2>5. ObtainsAlone'
    BY DEF OneRequest, HasPod, Labelled, ObtainsAlone, ServesOwn, cluster
  <2>6. ServesOwn'
    BY DEF OneRequest, HasPod, Labelled, ObtainsAlone, ServesOwn, cluster
  <2> QED BY <2>1, <2>2, <2>4, <2>5, <2>6
<1>3. ASSUME WipeFails(p) PROVE Ownership'
  <2> USE <1>3 DEF WipeFails, At, Moves, TouchSidecar, ConfigureSidecar,
      Goto
  <2>1. OneRequest'
    BY DEF OneRequest
  <2>2. HasPod'
    BY ClusterAssumption, ManagerAssumption DEF HasPod, cluster
  <2>4. Labelled'
    BY DEF Labelled, cluster
  <2>5. ObtainsAlone'
    BY DEF OneRequest, HasPod, Labelled, ObtainsAlone, ServesOwn, cluster
  <2>6. ServesOwn'
    BY DEF OneRequest, HasPod, Labelled, ObtainsAlone, ServesOwn, cluster
  <2> QED BY <2>1, <2>2, <2>4, <2>5, <2>6
<1>4. ASSUME Capacity(p) PROVE Ownership'
  <2> USE <1>4 DEF Capacity, At, Moves, Goto
  <2>1. OneRequest'
    BY DEF OneRequest
  <2>2. HasPod'
    BY ClusterAssumption, ManagerAssumption DEF HasPod, cluster
  <2>3. Same
    BY DEF Same, cluster
  <2>4. Labelled'
    BY <2>3, LabelledKept
  <2>5. ObtainsAlone'
    BY DEF OneRequest, HasPod, Labelled, ObtainsAlone, ServesOwn, cluster
  <2>6. ServesOwn'
    BY DEF OneRequest, HasPod, Labelled, ObtainsAlone, ServesOwn, cluster
  <2> QED BY <2>1, <2>2, <2>4, <2>5, <2>6
<1>5. ASSUME CapacityFails(p) PROVE Ownership'
  <2> USE <1>5 DEF CapacityFails, At, Moves, Goto
  <2>1. OneRequest'
    BY DEF OneRequest
  <2>2. HasPod'
    BY ClusterAssumption, ManagerAssumption DEF HasPod, cluster
  <2>3. Same
    BY DEF Same, cluster
  <2>4. Labelled'
    BY <2>3, LabelledKept
  <2>5. ObtainsAlone'
    BY DEF OneRequest, HasPod, Labelled, ObtainsAlone, ServesOwn, cluster
  <2>6. ServesOwn'
    BY DEF OneRequest, HasPod, Labelled, ObtainsAlone, ServesOwn, cluster
  <2> QED BY <2>1, <2>2, <2>4, <2>5, <2>6
<1>6. ASSUME Relabel(p) PROVE Ownership'
  <2> USE <1>6 DEF Relabel, At, TornDown, Moves, MergeLabels, Goto, Ends
  <2>1. OneRequest'
    BY DEF OneRequest
  <2>2. HasPod'
    BY ClusterAssumption, ManagerAssumption DEF HasPod, cluster
  <2>4. Labelled'
    BY DEF Labelled, HasPod, ServesOwn, cluster
  <2>5. ObtainsAlone'
    BY DEF OneRequest, HasPod, Labelled, ObtainsAlone, ServesOwn, cluster
  <2>6. ServesOwn'
    BY DEF OneRequest, HasPod, Labelled, ObtainsAlone, ServesOwn, cluster
  <2> QED BY <2>1, <2>2, <2>4, <2>5, <2>6
<1>7. ASSUME RelabelFails(p) PROVE Ownership'
  <2> USE <1>7 DEF RelabelFails, At, Moves, MergeLabels, Goto
  <2>1. OneRequest'
    BY DEF OneRequest
  <2>2. HasPod'
    BY ClusterAssumption, ManagerAssumption DEF HasPod, cluster
  <2>4. Labelled'
    BY DEF Labelled, HasPod, ServesOwn, cluster
  <2>5. ObtainsAlone'
    BY DEF OneRequest, HasPod, Labelled, ObtainsAlone, ServesOwn, cluster
  <2>6. ServesOwn'
    BY DEF OneRequest, HasPod, Labelled, ObtainsAlone, ServesOwn, cluster
  <2> QED BY <2>1, <2>2, <2>4, <2>5, <2>6
<1>8. ASSUME Unpolicy(p) PROVE Ownership'
  <2> USE <1>8 DEF Unpolicy, At, TornDown, SetPolicy, Goto, Ends
  <2>1. OneRequest'
    BY DEF OneRequest
  <2>2. HasPod'
    BY ClusterAssumption, ManagerAssumption DEF HasPod, cluster
  <2>3. Same
    BY DEF Same, cluster
  <2>4. Labelled'
    BY <2>3, LabelledKept
  <2>5. ObtainsAlone'
    BY DEF OneRequest, HasPod, Labelled, ObtainsAlone, ServesOwn, cluster
  <2>6. ServesOwn'
    BY DEF OneRequest, HasPod, Labelled, ObtainsAlone, ServesOwn, cluster
  <2> QED BY <2>1, <2>2, <2>4, <2>5, <2>6
<1>9. ASSUME DeletePod(p) PROVE Ownership'
  <2> USE <1>9 DEF DeletePod, At, TornDown, Moves, DeletePodObject, Goto,
      Ends, Remove
  <2>1. OneRequest'
    BY DEF OneRequest
  <2>2. HasPod'
    BY ClusterAssumption, ManagerAssumption DEF HasPod, cluster
  <2>4. Labelled'
    BY DEF Labelled, HasPod, cluster
  <2>5. ObtainsAlone'
    BY DEF OneRequest, HasPod, Labelled, ObtainsAlone, ServesOwn, cluster
  <2>6. ServesOwn'
    BY DEF OneRequest, HasPod, Labelled, ObtainsAlone, ServesOwn, cluster
  <2> QED BY <2>1, <2>2, <2>4, <2>5, <2>6
<1>10. ASSUME DeletePodFails(p) PROVE Ownership'
  <2> USE <1>10 DEF DeletePodFails, At, TornDown, Moves, Goto, Ends
  <2>1. OneRequest'
    BY DEF OneRequest
  <2>2. HasPod'
    BY ClusterAssumption, ManagerAssumption DEF HasPod, cluster
  <2>3. Same
    BY DEF Same, cluster
  <2>4. Labelled'
    BY <2>3, LabelledKept
  <2>5. ObtainsAlone'
    BY DEF OneRequest, HasPod, Labelled, ObtainsAlone, ServesOwn, cluster
  <2>6. ServesOwn'
    BY DEF OneRequest, HasPod, Labelled, ObtainsAlone, ServesOwn, cluster
  <2> QED BY <2>1, <2>2, <2>4, <2>5, <2>6
<1>11. ASSUME DelPolicy(p) PROVE Ownership'
  <2> USE <1>11 DEF DelPolicy, At, TornDown, SetPolicy, Goto, Ends
  <2>1. OneRequest'
    BY DEF OneRequest
  <2>2. HasPod'
    BY ClusterAssumption, ManagerAssumption DEF HasPod, cluster
  <2>3. Same
    BY DEF Same, cluster
  <2>4. Labelled'
    BY <2>3, LabelledKept
  <2>5. ObtainsAlone'
    BY DEF OneRequest, HasPod, Labelled, ObtainsAlone, ServesOwn, cluster
  <2>6. ServesOwn'
    BY DEF OneRequest, HasPod, Labelled, ObtainsAlone, ServesOwn, cluster
  <2> QED BY <2>1, <2>2, <2>4, <2>5, <2>6
<1> QED BY <1>1, <1>2, <1>3, <1>4, <1>5, <1>6, <1>7, <1>8, <1>9, <1>10,
    <1>11 DEF DestroyNext

-----------------------------------------------------------------------------
\* What happens to pod q without a request: it is created blank, its object
\* stays in whatever phase, it is removed, or nothing Ownership speaks of.
Befalls(q) ==
    \/ Same
    \/ CreatePodObject(q, "warm", None)
    \/ /\ Exists(q)
       /\ \E f \in {"Running", "Terminating", "Failed"} : phase' = [phase EXCEPT ![q] = f]
       /\ UNCHANGED <<pool, owner, sidecar>>
    \/ Remove(q)

\* Nobody's Ownership is hurt by what the cluster, a pass or a reaper does.
LEMMA BefallsOwns ==
    ASSUME TypeOK, Ownership, NEW q \in Pods, Befalls(q), UNCHANGED requests
    PROVE  Ownership'
<1> USE DEF TypeOK, ClusterTypeOK, RequestTypeOK, Ownership, Exists, requests,
            Befalls, Same, CreatePodObject, Remove
<1>1. OneRequest'
  BY DEF OneRequest
<1>2. HasPod'
  BY DEF HasPod
<1>3. Labelled'
  BY DEF Labelled
<1>4. ObtainsAlone'
  BY DEF HasPod, ObtainsAlone, Obtaining
<1>5. ServesOwn'
  BY DEF HasPod, ServesOwn, Serving, Wiped
<1> QED BY <1>1, <1>2, <1>3, <1>4, <1>5

\* The two ways the warm pool deletes a pod by name are of that kind.
LEMMA DeleteBefalls ==
    ASSUME NEW q, DeletePodObject(q) \/ DeletePodNow(q)
    PROVE  Befalls(q)
BY DEF DeletePodObject, DeletePodNow, Befalls, Same, cluster, Exists

\* Every step of a replenish pass keeps Ownership.
LEMMA ReplenishOwns ==
    ASSUME TypeOK, Ownership, NEW t \in Passes, ReplenishNext(t), UNCHANGED requests
    PROVE  Ownership'
<1>1. CASE Scan(t) \/ ScanFails(t) \/ CreateWarmFails(t)
  BY <1>1, SameOwns DEF Scan, ScanFails, BeginsScan, CreateWarmFails, Same, cluster
<1>2. ASSUME NEW q \in Pods, Sweep(t, q) PROVE Ownership'
  <2>1. Befalls(q)
    BY <1>2, DeleteBefalls DEF Sweep, Befalls, Same, cluster
  <2> QED BY <2>1, BefallsOwns
<1>3. ASSUME NEW q \in Pods, CreateWarm(t, q) PROVE Ownership'
  BY <1>3, BefallsOwns DEF CreateWarm, Befalls
<1>4. ASSUME NEW q \in Pods, WarmReady(t, q) PROVE Ownership'
  BY <1>4, SameOwns DEF WarmReady, Same, cluster
<1>5. ASSUME NEW q \in Pods, WarmNotReady(t, q) PROVE Ownership'
  <2>1. Befalls(q)
    BY <1>5, DeleteBefalls DEF WarmNotReady, Befalls, Same, cluster
  <2> QED BY <2>1, BefallsOwns
<1> QED BY <1>1, <1>2, <1>3, <1>4, <1>5 DEF ReplenishNext

\* Every step of the idle reaper keeps Ownership.
LEMMA ReapOwns ==
    ASSUME TypeOK, Ownership, NEW m \in Managers, ReapNext(m), UNCHANGED requests
    PROVE  Ownership'
<1>1. CASE ReapList(m)
  BY <1>1, SameOwns DEF ReapList, Same, cluster
<1>2. ASSUME NEW q \in Pods,
             \/ ReapConfirm(m, q) \/ ReapSpare(m, q)
             \/ ReapDelete(m, q) \/ ReapDeleteFails(m, q)
      PROVE  Ownership'
  <2>1. Befalls(q)
    BY <1>2, DeleteBefalls DEF ReapConfirm, ReapSpare, ReapDelete,
        ReapDeleteFails, TouchSidecar, Befalls, Same, cluster
  <2> QED BY <2>1, BefallsOwns
<1> QED BY <1>1, <1>2 DEF ReapNext

\* What the cluster and the clock do keeps Ownership.
LEMMA ClusterOwns ==
    ASSUME TypeOK, Ownership, ClusterNext, UNCHANGED requests
    PROVE  Ownership'
<1>1. PICK q \in Pods : \/ BecomeReady(q) \/ Vanish(q) \/ DeadlineExpires(q)
                        \/ GoIdle(q) \/ GrowOld(q)
  BY DEF ClusterNext
<1>2. Befalls(q)
  BY <1>1 DEF BecomeReady, Vanish, DeadlineExpires, GoIdle, GrowOld, Befalls,
      Same, Exists
<1> QED BY <1>2, BefallsOwns

\* A crash keeps Ownership: the requests it ends had pods, and no request
\* takes these over except by their labels.
LEMMA CrashOwns ==
    ASSUME TypeOK, Ownership, NEW w \in Workers, Crash(w)
    PROVE  Ownership'
<1> USE DEF TypeOK, RequestTypeOK, Ownership, Exists, Crash
<1>1. OneRequest'
  BY DEF OneRequest
<1>2. HasPod'
  BY ManagerAssumption DEF HasPod, Obtaining, Serving
<1>3. Labelled'
  BY LabelledKept DEF Same
<1>4. ObtainsAlone'
  BY DEF ObtainsAlone, Obtaining
<1>5. ServesOwn'
  BY DEF ServesOwn, Serving, Wiped
<1> QED BY <1>1, <1>2, <1>3, <1>4, <1>5

-----------------------------------------------------------------------------
\* Ownership: in every fleet whose requests for one session do not overlap,
\* a request between taking a pod and giving it up is the only one who has it,
\* across recycling, reaping, sweeping, lost answers and crashes.
THEOREM OwnershipInvariant == Serial => (Spec => []Ownership)
<1> SUFFICES ASSUME Serial PROVE Spec => []Ownership
  OBVIOUS
<1>1. Init => Ownership
  BY ManagerAssumption DEF Init, ClusterInit, Ownership, OneRequest, HasPod,
      Labelled, ObtainsAlone, ServesOwn, Obtaining, Serving, Exists
<1>2. TypeOK /\ Ownership /\ [Next]_vars => Ownership'
  <2> SUFFICES ASSUME TypeOK, Ownership, [Next]_vars PROVE Ownership'
    OBVIOUS
  <2>1. ASSUME NEW p \in Procs, CreateNext(p) \/ DestroyNext(p) PROVE Ownership'
    BY <2>1, CreateOwns, DestroyOwns
  <2>2. CASE PoolNext /\ UNCHANGED <<requests, crashes>>
    BY <2>2, ReplenishOwns, ReapOwns DEF PoolNext
  <2>3. CASE ClusterNext /\ UNCHANGED <<passvars, reapvars, requests, crashes>>
    BY <2>3, ClusterOwns
  <2>4. ASSUME NEW w \in Workers, Crash(w) PROVE Ownership'
    BY <2>4, CrashOwns
  <2>5. CASE UNCHANGED vars
    BY <2>5, SameOwns DEF vars, Same, cluster
  <2> QED BY <2>1, <2>2, <2>3, <2>4, <2>5 DEF Next
<1>3. Spec => []TypeOK
  BY FleetTypes
<1> QED BY <1>1, <1>2, <1>3, PTL DEF Spec

\* A set of at most one element has at most one element.
LEMMA AtMostOne ==
    ASSUME NEW S, \A x, y \in S : x = y
    PROVE  Cardinality(S) <= 1
<1>1. CASE S = {}
  BY <1>1, FS_EmptySet
<1>2. CASE S # {}
  <2>1. PICK x \in S : S = {x}
    BY <1>2
  <2> QED BY <2>1, FS_Singleton
<1> QED BY <1>1, <1>2

\* Ownership rules out two holders.
LEMMA OwnedOnce == ASSUME TypeOK, Ownership PROVE OneHolder
<1> SUFFICES ASSUME NEW q \in Pods
             PROVE  Cardinality(Holders(q)) <= 1 /\ Cardinality(Obtained(q)) <= 1
  BY DEF OneHolder
<1> USE DEF Ownership, Obtained, Obtaining, TypeOK, ClusterTypeOK
<1>1. \A p, r \in Obtained(q) : p = r
  BY DEF ObtainsAlone
<1>2. ASSUME NEW p \in Obtained(q)
      PROVE  owner[q] \in {None, sess[p]} /\ sidecar[q] \in {None, sess[p]}
  BY <1>2 DEF ObtainsAlone, Labelled
<1>3. owner[q] = None \/ sidecar[q] \in {None, owner[q]}
  BY DEF Labelled
<1>4. \A x, y \in Holders(q) : x = y
  BY <1>1, <1>2, <1>3 DEF Holders
<1> QED BY <1>1, <1>4, AtMostOne

\* OneHolder: in every such fleet no pod is ever in use for two sessions, and
\* no two requests take the same pod (_claim_warm_pod_via_k8s,
\* _recycle_pod_via_k8s).
THEOREM FleetOneHolder == Serial => (Spec => []OneHolder)
<1> SUFFICES ASSUME Serial PROVE Spec => []OneHolder
  OBVIOUS
<1>1. TypeOK /\ Ownership => OneHolder
  BY OwnedOnce
<1>2. Spec => []TypeOK
  BY FleetTypes
<1>3. Spec => []Ownership
  BY OwnershipInvariant
<1> QED BY <1>1, <1>2, <1>3, PTL

\* WarmIsClean: in every such fleet a pod that can be claimed carries nothing
\* of an earlier session in its labels or its sidecar (_recycle_pod_via_k8s).
THEOREM FleetWarmIsClean == Serial => (Spec => []WarmIsClean)
<1> SUFFICES ASSUME Serial PROVE Spec => []WarmIsClean
  OBVIOUS
<1>1. TypeOK /\ Ownership => WarmIsClean
  <2> SUFFICES ASSUME Ownership, NEW q \in Pods, Exists(q), pool[q] = "warm"
               PROVE  Holders(q) = {}
    BY DEF WarmIsClean
  <2>1. Obtained(q) = {}
    BY DEF Ownership, ObtainsAlone, Obtained, Obtaining
  <2>2. owner[q] = None /\ sidecar[q] = None
    BY DEF Ownership, Labelled
  <2> QED BY <2>1, <2>2 DEF Holders
<1>2. Spec => []TypeOK
  BY FleetTypes
<1>3. Spec => []Ownership
  BY OwnershipInvariant
<1> QED BY <1>1, <1>2, <1>3, PTL

=============================================================================
