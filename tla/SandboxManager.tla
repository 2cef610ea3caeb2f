--------------------------- MODULE SandboxManager ---------------------------
(***************************************************************************)
(* SandboxManager (src/src/boxxkite/manager.py and its mixins) in          *)
(* Kubernetes mode, with the warm pools of the same processes beside it.   *)
(*                                                                         *)
(* A request process runs one create_session or one destroy_session at a   *)
(* time inside a worker process.  Every await of the handlers -- a call to *)
(* the API server or to a sidecar -- is one action, so any other request,  *)
(* pass or reaper may run between two of them.  What serialises requests   *)
(* is only what the code has: a lock per session inside one worker while a *)
(* session is created (see SessionLocks for the lock itself), the          *)
(* compare-and-swap of a claim, and the identity labels on the pods.       *)
(*                                                                         *)
(* A worker finds the pod of a session from those labels.  Its endpoint    *)
(* cache is revalidated against the same labels before every use, so it    *)
(* only narrows which of several pods is picked; picking any covers it.    *)
(***************************************************************************)
EXTENDS WarmPool

CONSTANTS
    Procs,           \* request processes
    Workers,         \* worker processes (one event loop each)
    Runs,            \* Runs[p]: the worker that request process p runs in
    Recycle,         \* WARM_POOL_RECYCLE
    SecretsPolicy,   \* BOXXKITE_SECRETS_NETWORK_POLICY_ENABLED
    Overlap,         \* kinds of request that may overlap others of their session
    MaxCrashes       \* bound on the number of crashed workers

ASSUME ManagerAssumption ==
    /\ Clients = Procs
    /\ Runs \in [Procs -> Workers]
    /\ Managers \subseteq Workers
    /\ None \notin Pods \cup Workers
    /\ Recycle \in BOOLEAN /\ SecretsPolicy \in BOOLEAN
    /\ Overlap \subseteq {"create", "destroy"}
    /\ MaxCrashes \in Nat

VARIABLES
    pc,       \* the await a request is at
    op,       \* what the request does; "fail": it cleans up and will raise
    sess,     \* its session
    cand,     \* its pod_name
    listed,   \* the warm pods of its LIST it has not tried yet
    crashes   \* history: workers crashed so far

requests == <<pc, op, sess, cand, listed>>
vars == <<cluster, passvars, reapvars, requests, crashes>>

CreatePCs   == {"reuse", "list", "cas", "cold", "ready", "configure", "label", "policy"}
TeardownPCs == {"wipe", "capacity", "relabel", "unpolicy", "delete", "delpolicy"}

RequestTypeOK ==
    /\ pc \in [Procs -> {"idle"} \cup CreatePCs \cup TeardownPCs]
    /\ op \in [Procs -> {"none", "create", "destroy", "fail"}]
    /\ sess \in [Procs -> Sessions \cup {None}]
    /\ cand \in [Procs -> Pods \cup {None}]
    /\ listed \in [Procs -> SUBSET Pods]

TypeOK ==
    /\ ClusterTypeOK
    /\ PoolTypeOK
    /\ RequestTypeOK
    /\ crashes \in 0 .. MaxCrashes

Init ==
    /\ ClusterInit
    /\ PoolInit
    /\ pc = [p \in Procs |-> "idle"]
    /\ op = [p \in Procs |-> "none"]
    /\ sess = [p \in Procs |-> None]
    /\ cand = [p \in Procs |-> None]
    /\ listed = [p \in Procs |-> {}]
    /\ crashes = 0

-----------------------------------------------------------------------------
(* Control flow of a request.                                               *)

\* p takes the step at label from, and the variables of its pool stay.
At(p, from) == pc[p] = from /\ UNCHANGED <<reapvars, crashes>>

Goto(p, to) == pc' = [pc EXCEPT ![p] = to]

\* The request returns or raises.
Ends(p) ==
    /\ Goto(p, "idle")
    /\ op' = [op EXCEPT ![p] = "none"]
    /\ sess' = [sess EXCEPT ![p] = None]
    /\ cand' = [cand EXCEPT ![p] = None]
    /\ listed' = [listed EXCEPT ![p] = {}]

\* destroy_session returns: to the client, or into the create it repairs.
TornDown(p) ==
    IF op[p] = "create"
    THEN /\ Goto(p, "list")
         /\ cand' = [cand EXCEPT ![p] = None]
         /\ UNCHANGED <<op, sess, listed>>
    ELSE Ends(p)

\* The step to label to keeps everything else of the request.
Moves(p, to) == Goto(p, to) /\ UNCHANGED <<op, sess, cand, listed>>

\* A failed create cleans its pod up and raises.
CleansUp(p) ==
    /\ Goto(p, "delete")
    /\ op' = [op EXCEPT ![p] = "fail"]
    /\ UNCHANGED <<sess, cand, listed>>

Busy(s) == {p \in Procs : sess[p] = s}

\* What the clients are assumed to do: two requests for one session are in
\* flight together only if both are of a kind in Overlap.
MayOverlap(s, kind) ==
    \A r \in Busy(s) :
        {kind, IF op[r] = "destroy" THEN "destroy" ELSE "create"} \subseteq Overlap

\* Mutation: creates of one session do not wait for each other.
LockIgnored(p, s) == TRUE

\* async with self._get_session_create_lock(session_id)
LockFree(p, s) == \A r \in Busy(s) : Runs[r] = Runs[p] => op[r] = "destroy"

-----------------------------------------------------------------------------
(* create_session.                                                          *)

\* The lock is taken and _resolve_session looks for a running claimed pod.
StartCreate(p, s) ==
    /\ At(p, "idle")
    /\ MayOverlap(s, "create")
    /\ LockFree(p, s)
    /\ op' = [op EXCEPT ![p] = "create"]
    /\ sess' = [sess EXCEPT ![p] = s]
    /\ \/ \E q \in OwnedBy(s) : cand' = [cand EXCEPT ![p] = q] /\ Goto(p, "reuse")
       \/ OwnedBy(s) = {} /\ Goto(p, "list") /\ UNCHANGED cand
    /\ UNCHANGED <<cluster, passvars, listed>>

\* The pod is reused: its sidecar prefetches the uploads and the request returns.
Reuse(p) ==
    /\ At(p, "reuse")
    /\ TouchSidecar(cand[p])
    /\ Ends(p)
    /\ UNCHANGED passvars

\* The prefetch fails: destroy_session, which resolves again, then create anew.
ReuseFails(p) ==
    /\ At(p, "reuse")
    /\ "prefetch" \in Faults \/ ~Up(cand[p])
    /\ \/ \E q \in OwnedBy(sess[p]) : cand' = [cand EXCEPT ![p] = q] /\ Goto(p, "wipe")
       \/ /\ OwnedBy(sess[p]) = {}
          /\ cand' = [cand EXCEPT ![p] = None]
          /\ Goto(p, "list")
    /\ UNCHANGED <<cluster, passvars, op, sess, listed>>

\* _claim_warm_pod_via_k8s: the LIST and its filter.
ListWarm(p) ==
    /\ At(p, "list")
    /\ listed' = [listed EXCEPT ![p] = ReadyWarm]
    /\ readers' = [readers EXCEPT ![p] = ReadyWarm]
    /\ Goto(p, "cas")
    /\ UNCHANGED <<phase, pool, owner, sidecar, idle, old, policy,
                   passvars, op, sess, cand>>

\* The session forces a cold create, or the LIST fails.
SkipClaim(p) ==
    /\ At(p, "list")
    /\ Moves(p, "cold")
    /\ UNCHANGED <<cluster, passvars>>

Claim(p, q) ==
    /\ At(p, "cas") /\ q \in listed[p]
    /\ CasClaim(p, q)
    /\ cand' = [cand EXCEPT ![p] = q]
    /\ listed' = [listed EXCEPT ![p] = {}]
    /\ Goto(p, "configure")
    /\ UNCHANGED <<passvars, op, sess>>

\* 409, 422 or another API error: the next pod of the list.  A connection
\* that fails before the server abandons the list: as if every CAS were lost.
ClaimLost(p, q) ==
    /\ At(p, "cas") /\ q \in listed[p]
    /\ ~CasWins(p, q) \/ "cas" \in Faults
    /\ listed' = [listed EXCEPT ![p] = @ \ {q}]
    /\ readers' = [readers EXCEPT ![p] = @ \ {q}]
    /\ UNCHANGED <<phase, pool, owner, sidecar, idle, old, policy,
                   passvars, pc, op, sess, cand>>

\* The claim is applied, but its answer is lost or the secret read after it
\* fails: the loop is left and a cold pod is created instead.
ClaimUnheard(p, q) ==
    /\ At(p, "cas") /\ q \in listed[p]
    /\ "cas" \in Faults
    /\ CasClaim(p, q)
    /\ listed' = [listed EXCEPT ![p] = {}]
    /\ Goto(p, "cold")
    /\ UNCHANGED <<passvars, op, sess, cand>>

NoneClaimed(p) ==
    /\ At(p, "cas") /\ listed[p] = {}
    /\ Moves(p, "cold")
    /\ UNCHANGED <<cluster, passvars>>

\* _create_pod: a pod under a fresh name that carries the session from the start.
CreateCold(p, q) ==
    /\ At(p, "cold")
    /\ CreatePodObject(q, "claimed", sess[p])
    /\ cand' = [cand EXCEPT ![p] = q]
    /\ Goto(p, "ready")
    /\ UNCHANGED <<passvars, op, sess, listed>>

\* The API server refuses the pod, or never gets the call.
CreateColdFails(p) ==
    /\ At(p, "cold")
    /\ Refused
    /\ Ends(p)
    /\ UNCHANGED <<cluster, passvars>>

\* The pod is created, but the answer is lost: the error is raised again
\* before the code that would clean the pod up, and nobody deletes it.
CreateColdUnheard(p, q) ==
    /\ At(p, "cold")
    /\ "create" \in Faults
    /\ CreatePodObject(q, "claimed", sess[p])
    /\ Ends(p)
    /\ UNCHANGED passvars

ColdReady(p) ==
    /\ At(p, "ready")
    /\ Up(cand[p])
    /\ Moves(p, "configure")
    /\ UNCHANGED <<cluster, passvars>>

\* The pod is not ready in time, or the read that looks fails.
ColdNotReady(p) ==
    /\ At(p, "ready")
    /\ ~Up(cand[p]) \/ "ready" \in Faults
    /\ CleansUp(p)
    /\ UNCHANGED <<cluster, passvars>>

\* The replenish nudge, then POST /configure.
Configure(p) ==
    /\ At(p, "configure")
    /\ Nudge(Runs[p])
    /\ ConfigureSidecar(cand[p], sess[p])
    /\ Moves(p, "label")
    /\ UNCHANGED <<stale, todo, waits>>

\* /configure raises, applied or not; nothing cleans the pod up.
ConfigureFails(p) ==
    /\ At(p, "configure")
    /\ Nudge(Runs[p])
    /\ \/ "configure" \in Faults /\ ConfigureSidecar(cand[p], sess[p])
       \/ "configure" \in Faults /\ UNCHANGED cluster
       \/ ~Up(cand[p]) /\ UNCHANGED cluster
    /\ Ends(p)
    /\ UNCHANGED <<stale, todo, waits>>

\* The merge patch that makes the pod the session's.
Label(p) ==
    /\ At(p, "label")
    /\ MergeLabels(cand[p], "claimed", sess[p])
    /\ IF SecretsPolicy THEN Moves(p, "policy") ELSE Ends(p)
    /\ UNCHANGED passvars

LabelFails(p) ==
    /\ At(p, "label")
    /\ \/ "label" \in Faults /\ MergeLabels(cand[p], "claimed", sess[p])
       \/ "label" \in Faults /\ UNCHANGED cluster
       \/ ~Exists(cand[p]) /\ UNCHANGED cluster
    /\ CleansUp(p)
    /\ UNCHANGED passvars

\* Mutation: a session without grants leaves the pod's policy alone.
SyncGrantsOnly(p) ==
    /\ At(p, "policy")
    /\ IF sess[p] \in Granted THEN SetPolicy(cand[p], sess[p]) ELSE UNCHANGED cluster
    /\ Ends(p)
    /\ UNCHANGED passvars

\* _sync_secrets_egress_network_policy: a failure is logged, and the
\* request returns either way.
SyncPolicy(p) ==
    /\ At(p, "policy")
    /\ \/ SetPolicy(cand[p], IF sess[p] \in Granted THEN sess[p] ELSE None)
       \/ "policy" \in Faults /\ UNCHANGED cluster
    /\ Ends(p)
    /\ UNCHANGED passvars

-----------------------------------------------------------------------------
(* destroy_session.  One that finds no pod returns without a change.        *)

StartDestroy(p, s) ==
    /\ At(p, "idle")
    /\ MayOverlap(s, "destroy")
    /\ \E q \in OwnedBy(s) : cand' = [cand EXCEPT ![p] = q]
    /\ op' = [op EXCEPT ![p] = "destroy"]
    /\ sess' = [sess EXCEPT ![p] = s]
    /\ Goto(p, "wipe")
    /\ UNCHANGED <<cluster, passvars, listed>>

\* Kill the processes, flush, and wipe with /configure {session_id: None}.
Wipe(p) ==
    /\ At(p, "wipe")
    /\ Recycle
    /\ ConfigureSidecar(cand[p], None)
    /\ Moves(p, "capacity")
    /\ UNCHANGED passvars

\* Mutation: a failed wipe is logged and the pod is recycled all the same.
WipeBestEffort(p) ==
    /\ At(p, "wipe")
    /\ Recycle
    /\ UNCHANGED cluster
    /\ Moves(p, "capacity")
    /\ UNCHANGED passvars

\* Recycling is disabled, and the flush is all there is; or the wipe fails,
\* applied or not, and the flush before it may have failed as well.
WipeFails(p) ==
    /\ At(p, "wipe")
    /\ \/ ~Recycle /\ TouchSidecar(cand[p])
       \/ "wipe" \in Faults /\ ConfigureSidecar(cand[p], None)
       \/ "wipe" \in Faults /\ (TouchSidecar(cand[p]) \/ UNCHANGED cluster)
       \/ ~Up(cand[p]) /\ UNCHANGED cluster
    /\ Moves(p, "delete")
    /\ UNCHANGED passvars

\* The cap on active pods; a LIST that fails deletes the pod as well.
Capacity(p) ==
    /\ At(p, "capacity")
    /\ Moves(p, IF Cardinality(Active) > PoolMax THEN "delete" ELSE "relabel")
    /\ UNCHANGED <<cluster, passvars>>

CapacityFails(p) ==
    /\ At(p, "capacity")
    /\ "list" \in Faults
    /\ Moves(p, "delete")
    /\ UNCHANGED <<cluster, passvars>>

\* The merge patch back to warm, without a test of who holds the pod.
Relabel(p) ==
    /\ At(p, "relabel")
    /\ MergeLabels(cand[p], "warm", None)
    /\ IF SecretsPolicy THEN Moves(p, "unpolicy") ELSE TornDown(p)
    /\ UNCHANGED passvars

RelabelFails(p) ==
    /\ At(p, "relabel")
    /\ \/ "label" \in Faults /\ MergeLabels(cand[p], "warm", None)
       \/ "label" \in Faults /\ UNCHANGED cluster
       \/ ~Exists(cand[p]) /\ UNCHANGED cluster
    /\ Moves(p, "delete")
    /\ UNCHANGED passvars

\* _delete_secrets_egress_network_policy, after the pod is already warm.
Unpolicy(p) ==
    /\ At(p, "unpolicy")
    /\ \/ SetPolicy(cand[p], None)
       \/ "policy" \in Faults /\ UNCHANGED cluster
    /\ TornDown(p)
    /\ UNCHANGED passvars

\* _delete_pod, whose API error is logged and swallowed.
DeletePod(p) ==
    /\ At(p, "delete")
    /\ DeletePodObject(cand[p])
    /\ IF SecretsPolicy THEN Moves(p, "delpolicy") ELSE TornDown(p)
    /\ UNCHANGED passvars

DeletePodFails(p) ==
    /\ At(p, "delete")
    /\ "delete" \in Faults
    /\ IF SecretsPolicy THEN Moves(p, "delpolicy") ELSE TornDown(p)
    /\ UNCHANGED <<cluster, passvars>>

DelPolicy(p) ==
    /\ At(p, "delpolicy")
    /\ \/ SetPolicy(cand[p], None)
       \/ "policy" \in Faults /\ UNCHANGED cluster
    /\ TornDown(p)
    /\ UNCHANGED passvars

-----------------------------------------------------------------------------
\* A worker crashes and restarts: its requests, its locks and its pool
\* manager's tasks are gone; the cluster is as it was.
Crash(w) ==
    /\ crashes < MaxCrashes
    /\ crashes' = crashes + 1
    /\ ManagerDies(w)
    /\ LET died(p) == Runs[p] = w
       IN  /\ pc' = [p \in Procs |-> IF died(p) THEN "idle" ELSE pc[p]]
           /\ op' = [p \in Procs |-> IF died(p) THEN "none" ELSE op[p]]
           /\ sess' = [p \in Procs |-> IF died(p) THEN None ELSE sess[p]]
           /\ cand' = [p \in Procs |-> IF died(p) THEN None ELSE cand[p]]
           /\ listed' = [p \in Procs |-> IF died(p) THEN {} ELSE listed[p]]
           /\ readers' = [p \in Procs |-> IF died(p) THEN {} ELSE readers[p]]
    /\ UNCHANGED <<phase, pool, owner, sidecar, idle, old, policy>>

CreateNext(p) ==
    \/ \E s \in Sessions : StartCreate(p, s)
    \/ Reuse(p)
    \/ ReuseFails(p)
    \/ ListWarm(p)
    \/ SkipClaim(p)
    \/ \E q \in Pods : \/ Claim(p, q)
                       \/ ClaimLost(p, q)
                       \/ ClaimUnheard(p, q)
                       \/ CreateCold(p, q)
                       \/ CreateColdUnheard(p, q)
    \/ NoneClaimed(p)
    \/ CreateColdFails(p)
    \/ ColdReady(p)
    \/ ColdNotReady(p)
    \/ Configure(p)
    \/ ConfigureFails(p)
    \/ Label(p)
    \/ LabelFails(p)
    \/ SyncPolicy(p)

DestroyNext(p) ==
    \/ \E s \in Sessions : StartDestroy(p, s)
    \/ Wipe(p)
    \/ WipeFails(p)
    \/ Capacity(p)
    \/ CapacityFails(p)
    \/ Relabel(p)
    \/ RelabelFails(p)
    \/ Unpolicy(p)
    \/ DeletePod(p)
    \/ DeletePodFails(p)
    \/ DelPolicy(p)

Next ==
    \/ \E p \in Procs : CreateNext(p) \/ DestroyNext(p)
    \/ PoolNext /\ UNCHANGED <<requests, crashes>>
    \/ ClusterNext /\ UNCHANGED <<passvars, reapvars, requests, crashes>>
    \/ \E w \in Workers : Crash(w)

Spec == Init /\ [][Next]_vars

(* Fairness, for the reaper: its loop catches every error and runs for as   *)
(* long as the process does; a sidecar nobody calls reaches the idle        *)
(* timeout; a call that is tried again and again does not fail for ever.    *)
ReaperFairness ==
    /\ \A m \in Managers : WF_vars(ReapList(m) /\ UNCHANGED <<requests, crashes>>)
    /\ \A m \in Managers, q \in Pods :
        /\ WF_vars(ReapSpare(m, q) /\ UNCHANGED <<requests, crashes>>)
        /\ SF_vars(ReapConfirm(m, q) /\ UNCHANGED <<requests, crashes>>)
        /\ SF_vars(ReapDelete(m, q) /\ UNCHANGED <<requests, crashes>>)
    /\ \A q \in Pods : WF_vars(GoIdle(q) /\ UNCHANGED <<passvars, reapvars, requests, crashes>>)

FairSpec == Spec /\ ReaperFairness

-----------------------------------------------------------------------------
(* Properties.                                                              *)

\* The requests that obtained a pod and have not written its labels yet.
Obtained(q) == {p \in Procs : cand[p] = q /\ pc[p] \in {"ready", "configure", "label"}}

\* Everybody who has a reason to use pod q as the pod of one session: the
\* requests about to configure or label it, the label, the sidecar.
Holders(q) ==
    ({sess[p] : p \in Obtained(q)} \cup {owner[q], sidecar[q]}) \ {None}

\* The state of pod q's lease: a live claimed pod is leased to the session of
\* the request that obtained it, else to that of its label.
LeaseOf(q) ==
    CASE phase[q] = "Absent"           -> "Unborn"
      [] phase[q] \in {"Failed", "Gone"} -> "Gone"
      [] Exists(q) /\ phase[q] # "Failed" /\ pool[q] = "warm" -> "Free"
      [] OTHER -> IF Obtained(q) # {} THEN sess[CHOOSE p \in Obtained(q) : TRUE]
                  ELSE IF owner[q] # None THEN owner[q] ELSE "Orphan"

Lease == INSTANCE PodLease WITH lease <- [q \in Pods |-> LeaseOf(q)]

\* LeaseKept: the fleet implements PodLease -- every step of every handler,
\* pass, reaper and crash takes a pod from lease to lease only as it allows.
LeaseKept == Lease!LeaseSpec

\* OneHolder: no pod is ever in use for two sessions, whichever request,
\* label or sidecar one asks ("One session per pod",
\* docs/SELF-HOSTED-MULTI-TENANCY.md:38), and no two requests take the same
\* pod.  Concerns the compare-and-swap of _claim_warm_pod_via_k8s against
\* recycling, reaping and failed creates.
OneHolder ==
    \A q \in Pods : Cardinality(Holders(q)) <= 1 /\ Cardinality(Obtained(q)) <= 1

\* WarmIsClean: a pod that can be claimed carries nothing of the session it
\* served before, in its labels or in its sidecar.  Concerns the order wipe,
\* capacity, relabel of _recycle_pod_via_k8s and its early returns.
WarmIsClean ==
    \A q \in Pods : Exists(q) /\ pool[q] = "warm" => Holders(q) = {}

\* No request is at work on pod q.
Settled(q) == \A p \in Procs : cand[p] # q

\* PolicyNotForeign: a pod that serves a session never stands under an
\* egress policy built for another one.  Concerns
\* _sync_secrets_egress_network_policy and the delete after a recycle.
PolicyNotForeign ==
    \A q \in Pods : Up(q) /\ owner[q] # None /\ Settled(q)
                        => policy[q] \in {owner[q], None}

\* GrantedKeepsPolicy: once its create returned, a session with grants has
\* its egress policy until it ends ("provisions a fresh one if that NEW
\* session itself was granted secrets", _manager_warm_pool.py:376-379).
GrantedKeepsPolicy ==
    \A q \in Pods :
        /\ phase[q] = "Running" /\ pool[q] = "claimed" /\ Settled(q)
        /\ owner[q] \in Granted /\ sidecar[q] = owner[q]
        => policy[q] = owner[q]

\* CreateConfigures: when a create returns a pod it found, that pod's sidecar
\* is configured for the session ("Configures the sidecar with session info",
\* _manager_create.py:30).
CreateConfigures ==
    [][\A p \in Procs : Reuse(p) => sidecar[cand[p]] = sess[p]]_vars

\* WarmWithinTwoTargets: the two replenish passes of one manager, which count
\* before they create and do not see each other's work, leave at most twice
\* the target of warm pods that can still be claimed.  Concerns _replenish
\* and schedule_replenish; a LIST that fails (ScanFails) voids it.
Claimable == {q \in Pods : phase[q] \in {"Pending", "Running"} /\ pool[q] = "warm" /\ ~old[q]}
WarmWithinTwoTargets == Cardinality(Claimable) <= 2 * Target

\* OrphanReaped: a claimed pod that no request holds and no session owns --
\* after a failed /configure, a lost claim or a crash -- does not run for
\* ever.  Only the idle reaper ends it (_manager_warm_pool.py:151-157,
\* manager.py:158, warm_pool.py:1275-1339).
Orphaned(q) == LeaseOf(q) = "Orphan" /\ phase[q] = "Running"
OrphanReaped == \A q \in Pods : Orphaned(q) ~> phase[q] # "Running"

-----------------------------------------------------------------------------
(* Why OneHolder and WarmIsClean hold, if the requests for one session do   *)
(* not overlap: who may touch a pod is settled by its labels.               *)

\* The awaits at which a request has a pod that its labels need not show yet,
\* at which they must show its session, and at which the sidecar is wiped.
Obtaining == {"ready", "configure", "label"}
Serving   == {"reuse", "policy", "wipe", "capacity", "relabel"}
Wiped     == {"capacity", "relabel"}

\* When requests for one session cannot overlap: callers do not send them so,
\* or they only send concurrent creates to a single worker, whose lock orders them.
Serial == Overlap \subseteq {"create"} /\ (Overlap = {} \/ \A v, w \in Workers : v = w)

\* A session has one request.
OneRequest ==
    \A p, r \in Procs : sess[p] = sess[r] /\ sess[p] # None => p = r

\* A request at work has a session, and where it needs a pod, one that was created.
HasPod ==
    \A p \in Procs :
        /\ pc[p] = "idle" <=> sess[p] = None
        /\ pc[p] \in Obtaining \cup Serving => cand[p] \in Pods
        /\ cand[p] \in Pods => phase[cand[p]] # "Absent"

\* Nothing that can be claimed carries a session; label and sidecar agree.
Labelled ==
    \A q \in Pods :
        /\ ~Exists(q) => pool[q] = "warm"
        /\ pool[q] = "warm" => owner[q] = None /\ sidecar[q] = None
        /\ owner[q] = None \/ sidecar[q] \in {None, owner[q]}

\* A request that obtained a pod is the only one who did, and the pod is
\* claimed for nobody or for its session.
ObtainsAlone ==
    \A p \in Procs : pc[p] \in Obtaining =>
        /\ \A r \in Procs : pc[r] \in Obtaining /\ cand[r] = cand[p] => r = p
        /\ Exists(cand[p]) => /\ pool[cand[p]] = "claimed"
                              /\ owner[cand[p]] \in {None, sess[p]}
                              /\ sidecar[cand[p]] \in {None, sess[p]}

\* A request that reuses, finishes or tears down a pod finds its session on it.
ServesOwn ==
    \A p \in Procs : pc[p] \in Serving =>
        /\ Exists(cand[p]) => pool[cand[p]] = "claimed" /\ owner[cand[p]] = sess[p]
        /\ pc[p] \in Wiped => sidecar[cand[p]] = None

\* Ownership: the inductive invariant behind OneHolder and WarmIsClean.  While
\* a request of create_session or destroy_session is between taking a pod and
\* giving it up, no other request, whatever it listed before, has a claim on it.
Ownership == OneRequest /\ HasPod /\ Labelled /\ ObtainsAlone /\ ServesOwn
=============================================================================
