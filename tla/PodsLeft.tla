------------------------------ MODULE PodsLeft ------------------------------
(***************************************************************************)
(* SandboxManager with a history of the pods it leaves behind: pods that   *)
(* carry a session but were not up when the last request let go of them.   *)
(* _resolve_session only sees pods that run (_manager_sessions_lookup.py), *)
(* so the next create for the session passes over such a pod and makes     *)
(* another.                                                                *)
(***************************************************************************)
EXTENDS SandboxManager

VARIABLE
    left    \* history: left[s] is the pods of session s left behind so far

history == <<vars, left>>

HistoryTypeOK == left \in [Sessions -> SUBSET Pods]

\* The pods that carry session s, are not up and are in no request's hands: a
\* create lost its answer, a worker crashed, or a cleanup failed.
Unattended(s) ==
    {q \in Pods : phase[q] = "Pending" /\ owner[q] = s /\ \A p \in Procs : cand[p] # q}

HistoryInit == Init /\ left = [s \in Sessions |-> {}]

HistoryNext == Next /\ left' = [s \in Sessions |-> left[s] \cup Unattended(s)']

HistorySpec == HistoryInit /\ [][HistoryNext]_history

\* OnePodPerSession: a session has at most one pod, and one more for each that
\* was left behind, however its creates are retried, reused or failed.
\* Concerns the create lock and the resolve under it
\* (_manager_create.py:193-198); it holds where the creates for one session
\* are all sent to one worker and prefetches arrive.
OnePodPerSession ==
    \A s \in Sessions : Cardinality(OwnedBy(s)) <= 1 + Cardinality(left[s])
=============================================================================
