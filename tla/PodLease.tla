------------------------------ MODULE PodLease ------------------------------
(***************************************************************************)
(* What the sandbox fleet promises about a pod, without saying how: a pod  *)
(* is leased to one session at a time.  It is born free, for the warm      *)
(* pool, or leased, for a cold create; a free pod is leased by a claim; a  *)
(* lease ends by recycling the pod, by deleting it, or by losing track of  *)
(* it.  It never passes from a session straight to another one, and a pod  *)
(* that was lost track of is never leased or offered again.                *)
(***************************************************************************)
CONSTANTS Pods, Sessions

\* What a pod is when no session leases it; no session has one of these names.
States == {"Unborn", "Free", "Orphan", "Gone"}

VARIABLE lease

LeaseTypeOK == lease \in [Pods -> States \cup Sessions]

LeaseInit == lease = [q \in Pods |-> "Unborn"]

Becomes(q, from, to) == lease[q] \in from /\ lease'[q] = to

\* The warm pool creates a pod.
Provision(q) == Becomes(q, {"Unborn"}, "Free")

\* A session gets a pod of its own, created for it or claimed.
Grant(q, s) == Becomes(q, {"Unborn", "Free"}, s)

\* The session ends and its pod goes back to the pool.
Return(q) == Becomes(q, Sessions, "Free")

\* Nobody knows who has the pod: the answer to a claim was lost, or a
\* request failed or died between taking the pod and labelling it.
Mislay(q) == Becomes(q, {"Free"} \cup Sessions, "Orphan")

\* The pod is deleted or dies.
End(q) == Becomes(q, {"Free", "Orphan"} \cup Sessions, "Gone")

Step(q) ==
    \/ Provision(q)
    \/ \E s \in Sessions : Grant(q, s)
    \/ Return(q)
    \/ Mislay(q)
    \/ End(q)

\* A crash may mislay several pods at once.
LeaseNext ==
    /\ LeaseTypeOK'
    /\ \A q \in Pods : lease'[q] = lease[q] \/ Step(q)

LeaseSpec == LeaseInit /\ [][LeaseNext]_lease
=============================================================================
