----------------------------- MODULE UsagePolicy -----------------------------
(***************************************************************************)
(* UsagePolicy (src/control-plane/src/control_plane/usage_policy.py): the  *)
(* row a sandbox session has in the control plane's database, the caps     *)
(* counted over those rows, and the two ways a session ends: DELETE and    *)
(* the session reaper of every replica (reaper.py).                        *)
(*                                                                         *)
(* A create counts and reserves inside a critical section, leaves it, and  *)
(* only then asks SandboxManager for a pod; every await in between is an   *)
(* action.  The pod is SandboxManager's, reduced to whether the session    *)
(* has one: that module says what stands behind the calls.                 *)
(***************************************************************************)
EXTENDS Naturals, FiniteSets, Sequences

CONSTANTS
    Callers,         \* requests, one at a time each
    Replicas,        \* control-plane processes
    ServedBy,        \* ServedBy[c]: the replica request c runs in
    Accounts,
    AccountOf,       \* AccountOf[c]: the account request c is authenticated as
    SessionIds,      \* uuid4: never used twice
    AccountCap,      \* BOXXKITE_MAX_CONCURRENT_SANDBOXES
    GlobalCap,       \* BOXXKITE_GLOBAL_MAX_CONCURRENT_SANDBOXES
    LockBackend,     \* BOXXKITE_USAGE_LOCK_BACKEND
    EarlyTeardown,   \* a session may be torn down while its create is in flight
    CallFaults,      \* the calls that may fail
    MaxRestarts      \* bound on the number of crashed replicas

NoSession == "no session"
NoAccount == "no account"

ASSUME UsageAssumption ==
    /\ ServedBy \in [Callers -> Replicas] /\ AccountOf \in [Callers -> Accounts]
    /\ IsFiniteSet(SessionIds)
    /\ AccountCap \in Nat /\ GlobalCap \in Nat /\ MaxRestarts \in Nat
    /\ LockBackend \in {"memory", "postgres"}
    /\ EarlyTeardown \in BOOLEAN
    /\ NoSession \notin SessionIds /\ NoAccount \notin Accounts

VARIABLES
    row,        \* sandbox_sessions: none, reserved (pod_name NULL), live, closed
    account,    \* the account_id of the row
    aged,       \* rows past BOXXKITE_MAX_SESSION_MINUTES
    running,    \* sessions SandboxManager has a pod for
    pc,         \* the await a request is at
    on,         \* the session it is about
    expired,    \* what a reaper's query returned and it has not come to yet
    reaping,    \* the session whose pods a reaper has just torn down
    restarts    \* history: crashed replicas

requestvars == <<pc, on>>
reapervars  == <<expired, reaping>>
usagevars   == <<row, account, aged, running, requestvars, reapervars, restarts>>

Critical   == {"count", "reserve"}
CreateAt   == {"total"} \cup Critical \cup {"manager", "record", "undo", "created"}
TeardownAt == {"teardown", "close"}

UsageTypeOK ==
    /\ row \in [SessionIds -> {"none", "reserved", "live", "closed"}]
    /\ account \in [SessionIds -> Accounts \cup {NoAccount}]
    /\ aged \subseteq SessionIds /\ running \subseteq SessionIds
    /\ pc \in [Callers -> {"idle"} \cup CreateAt \cup TeardownAt]
    /\ on \in [Callers -> SessionIds \cup {NoSession}]
    /\ expired \in [Replicas -> SUBSET SessionIds]
    /\ reaping \in [Replicas -> SessionIds \cup {NoSession}]
    /\ restarts \in 0 .. MaxRestarts

UsageInit ==
    /\ row = [s \in SessionIds |-> "none"]
    /\ account = [s \in SessionIds |-> NoAccount]
    /\ aged = {} /\ running = {}
    /\ pc = [c \in Callers |-> "idle"]
    /\ on = [c \in Callers |-> NoSession]
    /\ expired = [r \in Replicas |-> {}]
    /\ reaping = [r \in Replicas |-> NoSession]
    /\ restarts = 0

-----------------------------------------------------------------------------
(* The rows.                                                                *)

Open         == {s \in SessionIds : row[s] \in {"reserved", "live"}}
OpenOf(a)    == {s \in Open : account[s] = a}
Creating(s)  == \E c \in Callers : on[c] = s /\ pc[c] \in CreateAt

\* mark_destroyed: nothing happens to a row that is not there.
Close(s) == row' = IF row[s] = "none" THEN row ELSE [row EXCEPT ![s] = "closed"]

Steps(c, from, to) == pc[c] = from /\ pc' = [pc EXCEPT ![c] = to]

\* The request is answered, with success or an error.
Answers(c) ==
    /\ pc' = [pc EXCEPT ![c] = "idle"]
    /\ on' = [on EXCEPT ![c] = NoSession]

-----------------------------------------------------------------------------
(* create_session.                                                          *)

\* Mutation: the section is only exclusive inside one process.
SectionFreeHere(c) ==
    \A d \in Callers : pc[d] \in {"total"} \cup Critical => ServedBy[d] # ServedBy[c]

\* _create_session_critical_section: the process's asyncio.Lock, or the
\* advisory lock of the database, which its transaction holds.
SectionFree(c) ==
    \A d \in Callers : pc[d] \in {"total"} \cup Critical
        => LockBackend = "memory" /\ ServedBy[d] # ServedBy[c]

\* uuid4: an id nobody has had.  Which one makes no difference.
UnusedIds == {s \in SessionIds : account[s] = NoAccount /\ \A d \in Callers : on[d] # s}

\* The request is validated, gets a session id and enters the section.
EnterSection(c) ==
    /\ Steps(c, "idle", "total")
    /\ SectionFree(c)
    /\ UnusedIds # {}
    /\ on' = [on EXCEPT ![c] = CHOOSE s \in UnusedIds : TRUE]
    /\ UNCHANGED <<row, account, aged, running, reapervars, restarts>>

\* count_active_total against the global cap.
CountTotal(c) ==
    /\ pc[c] = "total"
    /\ IF Cardinality(Open) >= GlobalCap THEN Answers(c)
       ELSE Steps(c, "total", "count") /\ UNCHANGED on
    /\ UNCHANGED <<row, account, aged, running, reapervars, restarts>>

\* count_active_for_account, then the hours of the month.
CountAccount(c) ==
    /\ pc[c] = "count"
    /\ \/ Cardinality(OpenOf(AccountOf[c])) >= AccountCap /\ Answers(c)
       \/ "hours" \in CallFaults /\ Answers(c)
       \/ /\ Cardinality(OpenOf(AccountOf[c])) < AccountCap
          /\ Steps(c, "count", "reserve") /\ UNCHANGED on
    /\ UNCHANGED <<row, account, aged, running, reapervars, restarts>>

\* The row is inserted without a pod name; its commit ends the section.
Reserve(c) ==
    /\ Steps(c, "reserve", "manager")
    /\ row' = [row EXCEPT ![on[c]] = "reserved"]
    /\ account' = [account EXCEPT ![on[c]] = AccountOf[c]]
    /\ UNCHANGED <<aged, running, on, reapervars, restarts>>

\* SandboxManager.create_session returns.
PodCreated(c) ==
    /\ Steps(c, "manager", "record")
    /\ running' = running \cup {on[c]}
    /\ UNCHANGED <<row, account, aged, on, reapervars, restarts>>

\* It raises: the row is deleted, whatever became of it.  With "orphan" a pod
\* was left behind (a pod whose /configure failed).
PodRefused(c) ==
    /\ pc[c] = "manager"
    /\ running' \in {running} \cup {running \cup {on[c]} : f \in CallFaults \cap {"orphan"}}
    /\ row' = [row EXCEPT ![on[c]] = "none"]
    /\ Answers(c)
    /\ UNCHANGED <<account, aged, reapervars, restarts>>

\* set_pod_name; the row may have been closed meanwhile, and stays so.
Record(c) ==
    /\ Steps(c, "record", "created")
    /\ row' = [row EXCEPT ![on[c]] = IF @ = "reserved" THEN "live" ELSE @]
    /\ UNCHANGED <<account, aged, running, on, reapervars, restarts>>

\* Mutation: an error of set_pod_name is passed on, and the pod stays.
RecordFailsBare(c) ==
    /\ pc[c] = "record"
    /\ "record" \in CallFaults
    /\ row' = [row EXCEPT ![on[c]] = "none"]
    /\ Answers(c)
    /\ UNCHANGED <<account, aged, running, reapervars, restarts>>

RecordFails(c) ==
    /\ Steps(c, "record", "undo")
    /\ "record" \in CallFaults
    /\ UNCHANGED <<row, account, aged, running, on, reapervars, restarts>>

\* The pod is torn down again, the reservation stays and the error is raised.
UndoPod(c) ==
    /\ pc[c] = "undo"
    /\ running' \in {running \ {on[c]}} \cup {running : f \in CallFaults \cap {"destroy"}}
    /\ Answers(c)
    /\ UNCHANGED <<row, account, aged, reapervars, restarts>>

\* sandbox.created is enqueued (WebhookDelivery) and the request returns.
TellCreated(c) ==
    /\ pc[c] = "created"
    /\ Answers(c)
    /\ UNCHANGED <<row, account, aged, running, reapervars, restarts>>

-----------------------------------------------------------------------------
(* destroy_session, from DELETE and from the reapers.                       *)

\* Only a caller that knows the id of a session still being created, or a
\* create slower than the longest session, tears down early.
MayTearDown(s) == EarlyTeardown \/ ~Creating(s)

\* delete_sandbox: the row of the caller's account, if it is not closed.
StartDelete(c, s) ==
    /\ Steps(c, "idle", "teardown")
    /\ s \in OpenOf(AccountOf[c]) /\ MayTearDown(s)
    /\ on' = [on EXCEPT ![c] = s]
    /\ UNCHANGED <<row, account, aged, running, reapervars, restarts>>

\* SandboxManager.destroy_session; an error is logged.
TearDown(s) == running' \in {running \ {s}} \cup {running : f \in CallFaults \cap {"destroy"}}

DeletePods(c) ==
    /\ Steps(c, "teardown", "close")
    /\ TearDown(on[c])
    /\ UNCHANGED <<row, account, aged, on, reapervars, restarts>>

\* mark_destroyed, then sandbox.destroyed.
DeleteRow(c) ==
    /\ pc[c] = "close"
    /\ Close(on[c])
    /\ Answers(c)
    /\ UNCHANGED <<account, aged, running, reapervars, restarts>>

\* _reap_once: list_active_older_than.
ListExpired(r) ==
    /\ expired[r] = {} /\ reaping[r] = NoSession
    /\ {s \in Open \cap aged : MayTearDown(s)} # {}
    /\ expired' = [expired EXCEPT ![r] = {s \in Open \cap aged : MayTearDown(s)}]
    /\ UNCHANGED <<row, account, aged, running, requestvars, reaping, restarts>>

ReapPods(r, s) ==
    /\ s \in expired[r] /\ reaping[r] = NoSession
    /\ expired' = [expired EXCEPT ![r] = @ \ {s}]
    /\ reaping' = [reaping EXCEPT ![r] = s]
    /\ TearDown(s)
    /\ UNCHANGED <<row, account, aged, requestvars, restarts>>

\* Mutation: the reaper removes the pods and forgets the row.
ReapRowForgets(r) ==
    /\ reaping[r] # NoSession
    /\ reaping' = [reaping EXCEPT ![r] = NoSession]
    /\ UNCHANGED <<row, account, aged, running, requestvars, expired, restarts>>

ReapRow(r) ==
    LET s == reaping[r]
    IN  /\ s # NoSession
        /\ reaping' = [reaping EXCEPT ![r] = NoSession]
        /\ Close(s)
        /\ UNCHANGED <<account, aged, running, requestvars, expired, restarts>>

-----------------------------------------------------------------------------
Age(s) ==
    /\ s \in Open \ aged
    /\ aged' = aged \cup {s}
    /\ UNCHANGED <<row, account, running, requestvars, reapervars, restarts>>

\* A replica dies: its transactions roll back, its requests and its reaper's
\* list are gone.
Restart(r) ==
    /\ restarts < MaxRestarts
    /\ restarts' = restarts + 1
    /\ pc' = [c \in Callers |-> IF ServedBy[c] = r THEN "idle" ELSE pc[c]]
    /\ on' = [c \in Callers |-> IF ServedBy[c] = r THEN NoSession ELSE on[c]]
    /\ expired' = [expired EXCEPT ![r] = {}]
    /\ reaping' = [reaping EXCEPT ![r] = NoSession]
    /\ UNCHANGED <<row, account, aged, running>>

ReaperNext(r) ==
    \/ ListExpired(r)
    \/ \E s \in SessionIds : ReapPods(r, s)
    \/ ReapRow(r)

UsageNext ==
    \/ \E c \in Callers :
        \/ EnterSection(c) \/ \E s \in SessionIds : StartDelete(c, s)
        \/ CountTotal(c) \/ CountAccount(c) \/ Reserve(c)
        \/ PodCreated(c) \/ PodRefused(c)
        \/ Record(c) \/ RecordFails(c) \/ UndoPod(c) \/ TellCreated(c)
        \/ DeletePods(c) \/ DeleteRow(c)
    \/ \E r \in Replicas : ReaperNext(r) \/ Restart(r)
    \/ \E s \in SessionIds : Age(s)

UsageFairness ==
    /\ \A s \in SessionIds : WF_usagevars(Age(s))
    /\ \A r \in Replicas : WF_usagevars(ReaperNext(r))

UsageSpec == UsageInit /\ [][UsageNext]_usagevars

-----------------------------------------------------------------------------
\* The caps hold over the whole fleet when every replica takes the database's
\* lock: the count and the insert that follows it are awaits apart.
Capped ==
    /\ Cardinality(Open) <= GlobalCap
    /\ \A a \in Accounts : Cardinality(OpenOf(a)) <= AccountCap

\* No pod runs behind a row that is closed or gone: such a pod is invisible to
\* the reaper and to the counts.  create_session's two cleanups and the order
\* of destroy_session are what keeps it, over a crash of any replica too.
Accounted == running \subseteq Open

\* A slot that was taken is freed in the end, whether its create finished,
\* failed or died half way, and whether or not anyone asks for it.
SlotFreed == \A s \in SessionIds : s \in Open ~> s \notin Open
=============================================================================
