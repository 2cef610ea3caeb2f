----------------------------- MODULE PodCluster -----------------------------
(***************************************************************************)
(* The Kubernetes namespace the sandbox pods live in, as the code under    *)
(* src/src/boxxkite uses it: pod objects with a phase and the labels the   *)
(* claim protocol writes, the resourceVersion a compare-and-swap tests,    *)
(* the session each pod's sidecar is configured for, whether that sidecar  *)
(* has been idle past the timeout, and the per-pod secrets-egress          *)
(* NetworkPolicy.                                                          *)
(*                                                                         *)
(* The API server applies one request at a time, so each operator below is *)
(* one atomic change.  It is written without parameters of its own so that *)
(* the handlers of WarmPool and SandboxManager are built from it.          *)
(*                                                                         *)
(* A resourceVersion is only ever compared for equality with the one a     *)
(* client read, so it is modelled by what the comparison asks: readers[c]  *)
(* is the set of pods client c listed and nobody has written since.        *)
(*                                                                         *)
(* Faults names the calls that may fail, so that a configuration says      *)
(* which failures it looks at: a call to the API server or to a sidecar    *)
(* whose kind is not in Faults fails only for a reason in the state (the   *)
(* pod is gone).  With "age" in it pods reach their maximal age, with      *)
(* "idle" sidecars reach the idle timeout.                                 *)
(***************************************************************************)
EXTENDS Naturals, FiniteSets

CONSTANTS
    Pods,        \* pod names; a name is never used for a second pod (uuid4)
    Sessions,    \* session ids
    Granted,     \* the sessions created with secret grants
    Clients,     \* who lists pods and compares-and-swaps them
    Faults,      \* the kinds of call that may fail for no visible reason
    None         \* no session

ASSUME ClusterAssumption ==
    /\ IsFiniteSet(Pods)
    /\ Granted \subseteq Sessions
    /\ None \notin Sessions

VARIABLES
    phase,       \* status.phase; "Terminating" is Running with a deletionTimestamp
    pool,        \* labels pool and sandbox.boxxkite.dev/status, always written together
    owner,       \* label and annotation session-id
    sidecar,     \* the sidecar's current_session.session_id
    idle,        \* idle_seconds >= SANDBOX_IDLE_TIMEOUT_SECONDS
    old,         \* age >= max_claimable_age
    policy,      \* the session the pod's secrets-egress NetworkPolicy was built for
    readers      \* the resourceVersions clients hold that are still current

cluster == <<phase, pool, owner, sidecar, idle, old, policy, readers>>

Phases == {"Absent", "Pending", "Running", "Terminating", "Failed", "Gone"}
Pools  == {"warm", "claimed"}

ClusterTypeOK ==
    /\ phase \in [Pods -> Phases]
    /\ pool \in [Pods -> Pools]
    /\ owner \in [Pods -> Sessions \cup {None}]
    /\ sidecar \in [Pods -> Sessions \cup {None}]
    /\ idle \in [Pods -> BOOLEAN]
    /\ old \in [Pods -> BOOLEAN]
    /\ policy \in [Pods -> Sessions \cup {None}]
    /\ readers \in [Clients -> SUBSET Pods]

ClusterInit ==
    /\ phase = [q \in Pods |-> "Absent"]
    /\ pool = [q \in Pods |-> "warm"]
    /\ owner = [q \in Pods |-> None]
    /\ sidecar = [q \in Pods |-> None]
    /\ idle = [q \in Pods |-> FALSE]
    /\ old = [q \in Pods |-> FALSE]
    /\ policy = [q \in Pods |-> None]
    /\ readers = [c \in Clients |-> {}]

-----------------------------------------------------------------------------
(* What a LIST or a GET returns.  A pod being deleted keeps phase Running   *)
(* until its grace period ends, and no caller looks at deletionTimestamp.   *)

Exists(q)  == phase[q] \in {"Pending", "Running", "Terminating", "Failed"}
Up(q)      == phase[q] \in {"Running", "Terminating"}
Active     == {q \in Pods : phase[q] \in {"Pending", "Running", "Terminating"}}
ReadyWarm  == {q \in Pods : Up(q) /\ pool[q] = "warm" /\ ~old[q]}

\* Mutation: the lookup selects by status and forgets the session.
OwnedByAnyone(s) == {q \in Pods : Up(q) /\ pool[q] = "claimed"}

\* The running claimed pods whose identity annotation is session s.
OwnedBy(s) == {q \in Pods : Up(q) /\ pool[q] = "claimed" /\ owner[q] = s}

-----------------------------------------------------------------------------
(* Writes.  Each bumps the pod's resourceVersion.                           *)

Bump(q) == readers' = [c \in Clients |-> readers[c] \ {q}]

\* create_namespaced_pod: a fresh name, with the labels of its template.
CreatePodObject(q, kind, s) ==
    /\ phase[q] = "Absent"
    /\ phase' = [phase EXCEPT ![q] = "Pending"]
    /\ pool' = [pool EXCEPT ![q] = kind]
    /\ owner' = [owner EXCEPT ![q] = s]
    /\ UNCHANGED <<sidecar, idle, old, policy, readers>>

\* Mutation: the patch does not test what it replaces.
CasWinsUntested(c, q) == Exists(q)

\* The JSON patch that tests resourceVersion and both labels before it
\* replaces them.  Fails with 409/422 when CasWins is false.
CasWins(c, q) == Exists(q) /\ q \in readers[c] /\ pool[q] = "warm"

\* A winner has no further use for the versions it read.  The annotation it
\* starts a task for may bump the version once more: another's lost CAS.
CasClaim(c, q) ==
    /\ CasWins(c, q)
    /\ pool' = [pool EXCEPT ![q] = "claimed"]
    /\ readers' = [d \in Clients |-> IF d = c THEN {} ELSE readers[d] \ {q}]
    /\ UNCHANGED <<phase, owner, sidecar, idle, old, policy>>

\* A merge patch of the labels: no test, last writer wins, 404 if gone.
MergeLabels(q, kind, s) ==
    /\ Exists(q)
    /\ pool' = [pool EXCEPT ![q] = kind]
    /\ owner' = [owner EXCEPT ![q] = s]
    /\ Bump(q)
    /\ UNCHANGED <<phase, sidecar, idle, old, policy>>

\* The pod object is gone, and what it carried with it.
Remove(q) ==
    /\ phase' = [phase EXCEPT ![q] = "Gone"]
    /\ pool' = [pool EXCEPT ![q] = "warm"]
    /\ owner' = [owner EXCEPT ![q] = None]
    /\ sidecar' = [sidecar EXCEPT ![q] = None]
    /\ idle' = [idle EXCEPT ![q] = FALSE]
    /\ old' = [old EXCEPT ![q] = FALSE]
    /\ Bump(q)
    /\ UNCHANGED policy

\* delete_namespaced_pod by name with a grace period; a 404 is tolerated.
DeletePodObject(q) ==
    \/ /\ phase[q] = "Running"
       /\ phase' = [phase EXCEPT ![q] = "Terminating"]
       /\ Bump(q)
       /\ UNCHANGED <<pool, owner, sidecar, idle, old, policy>>
    \/ phase[q] \in {"Pending", "Failed"} /\ Remove(q)
    \/ phase[q] \in {"Absent", "Terminating", "Gone"} /\ UNCHANGED cluster

\* delete_namespaced_pod with grace_period_seconds=0.
DeletePodNow(q) == IF Exists(q) THEN Remove(q) ELSE UNCHANGED cluster

\* replace or create (s a session) or delete (s = None) the pod's
\* secrets-egress NetworkPolicy; it is a separate object that outlives the pod.
SetPolicy(q, s) ==
    /\ policy' = [policy EXCEPT ![q] = s]
    /\ UNCHANGED <<phase, pool, owner, sidecar, idle, old, readers>>

\* POST /configure: wipe, then take on session s.  Counts as activity.
ConfigureSidecar(q, s) ==
    /\ Up(q)
    /\ sidecar' = [sidecar EXCEPT ![q] = s]
    /\ idle' = [idle EXCEPT ![q] = FALSE]
    /\ UNCHANGED <<phase, pool, owner, old, policy, readers>>

\* Any other sidecar request than /health resets the idle clock.
TouchSidecar(q) ==
    /\ Up(q)
    /\ idle' = [idle EXCEPT ![q] = FALSE]
    /\ UNCHANGED <<phase, pool, owner, sidecar, old, policy, readers>>

-----------------------------------------------------------------------------
(* What the cluster and the clock do on their own.                          *)

BecomeReady(q) ==
    /\ phase[q] = "Pending"
    /\ phase' = [phase EXCEPT ![q] = "Running"]
    /\ UNCHANGED <<pool, owner, sidecar, idle, old, policy, readers>>

\* The grace period of a deleted pod ends.
Vanish(q) == phase[q] = "Terminating" /\ Remove(q)

\* activeDeadlineSeconds expires; the pod object stays, its sidecar is dead.
DeadlineExpires(q) ==
    /\ phase[q] = "Running" /\ old[q]
    /\ phase' = [phase EXCEPT ![q] = "Failed"]
    /\ Bump(q)
    /\ UNCHANGED <<pool, owner, sidecar, idle, old, policy>>

GoIdle(q) ==
    /\ "idle" \in Faults
    /\ Up(q) /\ ~idle[q]
    /\ idle' = [idle EXCEPT ![q] = TRUE]
    /\ UNCHANGED <<phase, pool, owner, sidecar, old, policy, readers>>

GrowOld(q) ==
    /\ "age" \in Faults
    /\ Up(q) /\ ~old[q]
    /\ old' = [old EXCEPT ![q] = TRUE]
    /\ UNCHANGED <<phase, pool, owner, sidecar, idle, policy, readers>>

ClusterNext ==
    \E q \in Pods : \/ BecomeReady(q)
                    \/ Vanish(q)
                    \/ DeadlineExpires(q)
                    \/ GoIdle(q)
                    \/ GrowOld(q)
=============================================================================
