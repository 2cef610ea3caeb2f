--------------------------- MODULE AdmissionProofs ---------------------------
(***************************************************************************)
(* What the control plane promises whoever opens a session, for any number *)
(* of accounts, callers, replicas and requests: the caps of UsagePolicy    *)
(* when its section is one lock for all replicas (pg_advisory_xact_lock),  *)
(* the accounting of every pod when a delete waits for the create and      *)
(* removes what it says it removes, and the one effect per Idempotency-Key *)
(* of Idempotency; and whoever asks for an image or a volume: what the     *)
(* scan gate of ImageBuilds lets through, what a build leaves behind, what *)
(* Volumes hands out to mount, and by how much their caps can be exceeded; *)
(* and whoever exchanges a code or a refresh token: OAuthGrants has one    *)
(* live token for a consent, and none after a walk that passed none by.    *)
(*                                                                         *)
(* The caps are a matter of who is in the section: what its owner counted  *)
(* can only become less until it inserts, since nobody else inserts. The   *)
(* accounting is a matter of who may remove: the create of a session is    *)
(* over when anybody tears it down, so a pod cannot appear behind the      *)
(* teardown. For the key, the row tells at most one of its attempts to     *)
(* run. Images and volumes count without a lock: there the callers that    *)
(* have counted and not inserted are counted with the rows.  A consent has *)
(* one head, its live token or the request about to insert one, and a walk *)
(* that has not come to the head of a chain has still to visit one of its  *)
(* line.                                                                   *)
(***************************************************************************)
EXTENDS UsagePolicy, Idempotency, ImageBuilds, Volumes, OAuthGrants,
        FiniteSetTheorems, TLAPS

-----------------------------------------------------------------------------
(* The usage policy.                                                       *)

\* The callers that hold the lock of _tenant_session_cap_lock.
Section == {"total"} \cup Critical

\* A session id belongs to the create that drew it; a row was reserved for
\* every session that anybody looks at afterwards.
Drawn ==
    /\ \A c \in Callers : pc[c] = "idle" <=> on[c] = NoSession
    /\ \A c, d \in Callers : pc[c] \in CreateAt /\ pc[d] \in CreateAt /\ on[c] = on[d] => c = d
    /\ \A c \in Callers : pc[c] \in Section => account[on[c]] = NoAccount
    /\ \A c \in Callers : pc[c] \notin Section \cup {"idle"} => account[on[c]] # NoAccount
    /\ \A s \in SessionIds : account[s] = NoAccount => row[s] = "none"
    /\ \A r \in Replicas : \A s \in expired[r] : account[s] # NoAccount
    /\ \A r \in Replicas : reaping[r] # NoSession => account[reaping[r]] # NoAccount

UsageInv == UsageTypeOK /\ Drawn

\* Inside the section what was counted stays true until the insert.
Counted ==
    /\ \A c, d \in Callers : pc[c] \in Section /\ pc[d] \in Section => c = d
    /\ \A c \in Callers : pc[c] \in Critical => Cardinality(Open) < GlobalCap
    /\ \A c \in Callers : pc[c] = "reserve" => Cardinality(OpenOf(AccountOf[c])) < AccountCap
    /\ Capped

\* A session is torn down after its create, ...
TornLate ==
    /\ \A c \in Callers : pc[c] \in TeardownAt => ~Creating(on[c])
    /\ \A r \in Replicas : \A s \in expired[r] \cup {reaping[r]} : ~Creating(s)

\* ... by somebody who has removed the pod when it comes to the row; a create
\* gets a pod for a row that is there.
PodsRemoved ==
    /\ \A c \in Callers : pc[c] = "close" => on[c] \notin running
    /\ \A r \in Replicas : reaping[r] \notin running
    /\ \A s \in SessionIds : account[s] = NoAccount => s \notin running
    /\ \A c \in Callers : pc[c] = "manager" => on[c] \notin running
    /\ \A c \in Callers : pc[c] \in {"manager", "record", "undo"} => on[c] \in Open
    /\ Accounted

TornDown == TornLate /\ PodsRemoved

\* The first state: nobody has a session.
LEMMA UsageStart == UsageInit => UsageInv
BY UsageAssumption DEF UsageInit, UsageInv, UsageTypeOK, Drawn, CreateAt, TeardownAt, Critical, Section

\* Every step of create_session, delete_session and the reaper keeps who drew
\* which session id and whose row there is.
LEMMA UsageStep == UsageInv /\ [UsageNext]_usagevars => UsageInv'
<1> SUFFICES ASSUME UsageInv, [UsageNext]_usagevars PROVE UsageInv'
    OBVIOUS
<1> USE UsageAssumption DEF UsageInv, UsageTypeOK, Drawn, CreateAt, TeardownAt, Critical, Section,
        Steps, Answers, requestvars, reapervars
<1>1. ASSUME NEW c \in Callers, EnterSection(c) PROVE UsageInv'
  <2>1. PICK s \in UnusedIds : on' = [on EXCEPT ![c] = s]
        BY <1>1 DEF EnterSection
  <2> QED BY <1>1, <2>1 DEF EnterSection, UnusedIds
<1>2. ASSUME NEW c \in Callers, CountTotal(c) \/ CountAccount(c) PROVE UsageInv'
      BY <1>2 DEF CountTotal, CountAccount
<1>3. ASSUME NEW c \in Callers, Reserve(c) PROVE UsageInv'
      BY <1>3 DEF Reserve
<1>4. ASSUME NEW c \in Callers, PodCreated(c) \/ PodRefused(c) PROVE UsageInv'
      BY <1>4 DEF PodCreated, PodRefused
<1>5. ASSUME NEW c \in Callers, Record(c) \/ RecordFails(c) \/ UndoPod(c) \/ TellCreated(c)
      PROVE  UsageInv'
      BY <1>5 DEF Record, RecordFails, UndoPod, TellCreated
<1>6. ASSUME NEW c \in Callers, NEW s \in SessionIds, StartDelete(c, s) PROVE UsageInv'
      BY <1>6 DEF StartDelete, Open, OpenOf
<1>7. ASSUME NEW c \in Callers, DeletePods(c) \/ DeleteRow(c) PROVE UsageInv'
      BY <1>7 DEF DeletePods, DeleteRow, TearDown, Close
<1>8. ASSUME NEW r \in Replicas, ReaperNext(r) PROVE UsageInv'
      BY <1>8 DEF ReaperNext, ListExpired, ReapPods, ReapRow, TearDown, Close, Open
<1>9. ASSUME NEW r \in Replicas, Restart(r) PROVE UsageInv'
      BY <1>9 DEF Restart
<1>10. ASSUME NEW s \in SessionIds, Age(s) PROVE UsageInv'
       BY <1>10 DEF Age, Open
<1>11. CASE UNCHANGED usagevars
       BY <1>11 DEF usagevars
<1> QED BY <1>1, <1>2, <1>3, <1>4, <1>5, <1>6, <1>7, <1>8, <1>9, <1>10, <1>11 DEF UsageNext

\* Only the insert opens a row, and no row changes its account.
LEMMA OpenShrinks ==
    ASSUME UsageInv, [UsageNext]_usagevars,
           \A c \in Callers : ~Reserve(c)
    PROVE  Open' \subseteq Open /\ \A a \in Accounts : OpenOf(a)' \subseteq OpenOf(a)
<1> DEFINE Shrinks == UNCHANGED account /\ Open' \subseteq Open
<1>1. UNCHANGED <<row, account>> => Shrinks
      BY DEF Open
<1>2. ASSUME UNCHANGED usagevars PROVE Shrinks
      BY <1>1, <1>2 DEF usagevars
<1>3. ASSUME NEW c \in Callers,
             EnterSection(c) \/ CountTotal(c) \/ CountAccount(c) \/ PodCreated(c) \/ RecordFails(c)
               \/ UndoPod(c) \/ TellCreated(c) \/ DeletePods(c) \/ \E s \in SessionIds : StartDelete(c, s)
      PROVE  Shrinks
      BY <1>1, <1>3 DEF EnterSection, CountTotal, CountAccount, PodCreated, RecordFails, UndoPod,
                  TellCreated, DeletePods, StartDelete
<1>4. ASSUME NEW c \in Callers, PodRefused(c) \/ Record(c) \/ DeleteRow(c)
      PROVE  Shrinks
      BY <1>4 DEF UsageInv, UsageTypeOK, PodRefused, Record, DeleteRow, Close, Open
<1>5. ASSUME NEW r \in Replicas, ReaperNext(r) \/ Restart(r)
      PROVE  Shrinks
      BY <1>5 DEF UsageInv, UsageTypeOK, ReaperNext, ListExpired, ReapPods, ReapRow, Restart, Close, Open
<1>6. ASSUME NEW s \in SessionIds, Age(s) PROVE Shrinks
      BY <1>1, <1>6 DEF Age
<1> HIDE DEF Shrinks
<1>7. Shrinks
      BY <1>2, <1>3, <1>4, <1>5, <1>6 DEF UsageNext
<1> QED BY <1>7 DEF OpenOf, Shrinks

\* One element more is at most one more to count.
LEMMA AddOne ==
    ASSUME NEW S, NEW x, IsFiniteSet(S), NEW n \in Nat, Cardinality(S) < n
    PROVE  Cardinality(S \cup {x}) <= n
<1>1. Cardinality(S) \in Nat
      BY FS_CardinalityType
<1> QED BY <1>1, FS_AddElement

\* A smaller set keeps every bound.
LEMMA FewerCounted ==
    ASSUME NEW S, NEW T \in SUBSET S, IsFiniteSet(S), NEW n \in Nat
    PROVE  /\ Cardinality(S) < n => Cardinality(T) < n
           /\ Cardinality(S) <= n => Cardinality(T) <= n
<1>1. Cardinality(S) \in Nat /\ Cardinality(T) \in Nat /\ Cardinality(T) <= Cardinality(S)
      BY FS_CardinalityType, FS_Subset
<1> QED BY <1>1

\* A count of rows that no other request can add to is still right at the insert.
LEMMA CountedStep ==
    ASSUME LockBackend = "postgres", UsageInv, Counted, [UsageNext]_usagevars
    PROVE  Counted'
<1> USE DEF UsageInv, UsageTypeOK, Critical, Section
<1>0. IsFiniteSet(Open) /\ \A a : IsFiniteSet(OpenOf(a))
      BY UsageAssumption, FS_Subset DEF Open, OpenOf
<1>a. AccountCap \in Nat /\ GlobalCap \in Nat /\ \A c \in Callers : AccountOf[c] \in Accounts
      BY UsageAssumption
<1>1. ASSUME NEW c \in Callers, Reserve(c) PROVE Counted'
  <2>1. pc[c] = "reserve" /\ pc' = [pc EXCEPT ![c] = "manager"] /\ on[c] \in SessionIds
        BY <1>1, UsageAssumption DEF Reserve, Steps, Drawn
  <2>2. \A d \in Callers : pc'[d] \notin Section
        BY <2>1 DEF Counted
  <2>3. Open' = Open \cup {on[c]} /\ row[on[c]] = "none"
        BY <1>1, <2>1 DEF Reserve, Open, Drawn
  <2>4. /\ OpenOf(AccountOf[c])' = OpenOf(AccountOf[c]) \cup {on[c]}
        /\ \A a \in Accounts \ {AccountOf[c]} : OpenOf(a)' = OpenOf(a)
        BY <1>1, <2>1, <2>3 DEF Reserve, Open, OpenOf
  <2>5. Cardinality(Open) < GlobalCap /\ Cardinality(OpenOf(AccountOf[c])) < AccountCap
        BY <2>1 DEF Counted
  <2>6. Cardinality(Open') <= GlobalCap
        BY <1>0, <1>a, <2>3, <2>5, AddOne
  <2>7. ASSUME NEW a \in Accounts PROVE Cardinality(OpenOf(a)') <= AccountCap
        BY <1>0, <1>a, <2>4, <2>5, AddOne DEF Counted, Capped
  <2> QED BY <2>2, <2>6, <2>7 DEF Counted, Capped
<1>2. CASE \A c \in Callers : ~Reserve(c)
  <2>1. Open' \subseteq Open /\ \A a \in Accounts : OpenOf(a)' \subseteq OpenOf(a)
        BY <1>2, OpenShrinks
  <2>2. /\ Cardinality(Open) < GlobalCap => Cardinality(Open') < GlobalCap
        /\ Cardinality(Open) <= GlobalCap => Cardinality(Open') <= GlobalCap
        BY <1>0, <1>a, <2>1, FewerCounted
  <2>3. \A a \in Accounts :
          /\ Cardinality(OpenOf(a)) < AccountCap => Cardinality(OpenOf(a)') < AccountCap
          /\ Cardinality(OpenOf(a)) <= AccountCap => Cardinality(OpenOf(a)') <= AccountCap
        BY <1>0, <1>a, <2>1, FewerCounted
  <2>4. Capped'
        BY <2>2, <2>3 DEF Counted, Capped
  <2>5. ASSUME \A d \in Callers : pc'[d] \in Section => pc'[d] = pc[d] PROVE Counted'
        BY <1>a, <2>2, <2>3, <2>4, <2>5 DEF Counted
  <2>6. ASSUME NEW c \in Callers, EnterSection(c) PROVE Counted'
    <3>1. (\A d \in Callers : pc[d] \notin Section) /\ pc' = [pc EXCEPT ![c] = "total"]
          BY <2>6 DEF EnterSection, SectionFree, Steps
    <3> QED BY <2>4, <3>1 DEF Counted
  <2>7. ASSUME NEW c \in Callers, CountTotal(c) PROVE Counted'
    <3>1. CASE Cardinality(Open) >= GlobalCap
      <4>1. pc' = [pc EXCEPT ![c] = "idle"]
            BY <2>7, <3>1 DEF CountTotal, Answers
      <4> QED BY <2>5, <4>1
    <3>2. CASE ~(Cardinality(Open) >= GlobalCap)
      <4>1. pc[c] = "total" /\ pc' = [pc EXCEPT ![c] = "count"]
            BY <2>7, <3>2 DEF CountTotal, Steps
      <4>2. Cardinality(Open) < GlobalCap
            BY <1>0, <1>a, <3>2, FS_CardinalityType
      <4> QED BY <2>2, <2>4, <4>1, <4>2 DEF Counted
    <3> QED BY <3>1, <3>2
  <2>8. ASSUME NEW c \in Callers, CountAccount(c) PROVE Counted'
    <3>1. CASE Answers(c)
          BY <2>5, <3>1 DEF Answers
    <3>2. CASE ~Answers(c)
      <4>1. /\ pc[c] = "count" /\ pc' = [pc EXCEPT ![c] = "reserve"]
            /\ Cardinality(OpenOf(AccountOf[c])) < AccountCap
            BY <2>8, <3>2 DEF CountAccount, Steps
      <4> QED BY <1>a, <2>2, <2>3, <2>4, <4>1 DEF Counted
    <3> QED BY <3>1, <3>2
  <2>9. ASSUME NEW c \in Callers,
               PodCreated(c) \/ PodRefused(c) \/ Record(c) \/ RecordFails(c) \/ UndoPod(c)
                 \/ TellCreated(c) \/ DeletePods(c) \/ DeleteRow(c) \/ \E s \in SessionIds : StartDelete(c, s)
        PROVE  Counted'
    <3>1. \A d \in Callers : pc'[d] \in Section => pc'[d] = pc[d]
          BY <2>9 DEF PodCreated, PodRefused, Record, RecordFails, UndoPod, TellCreated, DeletePods,
                      DeleteRow, StartDelete, Steps, Answers
    <3> QED BY <2>5, <3>1
  <2>10. ASSUME NEW r \in Replicas, ReaperNext(r) \/ Restart(r) PROVE Counted'
    <3>1. \A d \in Callers : pc'[d] \in Section => pc'[d] = pc[d]
          BY <2>10 DEF ReaperNext, ListExpired, ReapPods, ReapRow, Restart, requestvars
    <3> QED BY <2>5, <3>1
  <2>11. CASE (\E s \in SessionIds : Age(s)) \/ UNCHANGED usagevars
    <3>1. pc' = pc
          BY <2>11 DEF Age, usagevars, requestvars
    <3> QED BY <2>5, <3>1
  <2> QED
    <3> HIDE DEF UsageInv, UsageTypeOK
    <3> QED BY <1>2, <2>6, <2>7, <2>8, <2>9, <2>10, <2>11 DEF UsageNext
<1> QED BY <1>1, <1>2

\* A pod is only added by the create of its session, and only removed, or its
\* row closed, by those who found the session after its create.
LEMMA TornDownStep ==
    ASSUME ~EarlyTeardown, {"destroy", "orphan"} \cap CallFaults = {},
           UsageInv, TornDown, [UsageNext]_usagevars
    PROVE  TornDown'
<1> USE UsageAssumption DEF UsageInv, UsageTypeOK, Drawn, TornDown, TornLate, PodsRemoved, Accounted, Creating, Open,
        CreateAt, TeardownAt, Critical, Section, Steps, Answers, requestvars, reapervars
<1>1. ASSUME NEW c \in Callers, EnterSection(c) PROVE TornDown'
  <2>1. PICK s \in UnusedIds : on' = [on EXCEPT ![c] = s]
        BY <1>1 DEF EnterSection
  <2> QED BY <1>1, <2>1 DEF EnterSection, UnusedIds
<1>2. ASSUME NEW c \in Callers, CountTotal(c) \/ CountAccount(c) PROVE TornDown'
  <2>1. UNCHANGED <<row, account, running, expired, reaping>> /\ pc[c] \in {"total", "count"}
        BY <1>2 DEF CountTotal, CountAccount
  <2>2. CASE Answers(c)
        BY <2>1, <2>2
  <2>3. CASE on' = on /\ \E to \in Critical : pc' = [pc EXCEPT ![c] = to]
        BY <2>1, <2>3
  <2> QED BY <1>2, <2>2, <2>3 DEF CountTotal, CountAccount
<1>3. ASSUME NEW c \in Callers, Reserve(c) PROVE TornDown'
      BY <1>3 DEF Reserve
<1>4. ASSUME NEW c \in Callers, PodCreated(c) PROVE TornDown'
  <2>1. /\ pc[c] = "manager" /\ pc' = [pc EXCEPT ![c] = "record"] /\ running' = running \cup {on[c]}
        /\ UNCHANGED <<row, account, on, expired, reaping>>
        BY <1>4 DEF PodCreated
  <2>2. on[c] \in Open /\ account[on[c]] # NoAccount /\ Creating(on[c])
        BY <2>1
  <2>3. \A s : Creating(s)' <=> Creating(s)
        BY <2>1
  <2>4. TornLate'
    <3>1. ASSUME NEW d \in Callers, pc'[d] \in TeardownAt PROVE ~Creating(on[d])'
      <4>1. d # c /\ pc[d] \in TeardownAt /\ on'[d] = on[d]
            BY <2>1, <3>1
      <4>2. ~Creating(on[d])
        <5> HIDE DEF Creating, TeardownAt
        <5> QED BY <4>1 
      <4> HIDE DEF Creating
      <4> QED BY <2>3, <4>1, <4>2
    <3>2. ASSUME NEW r \in Replicas, NEW s \in expired'[r] \cup {reaping'[r]} PROVE ~Creating(s)'
      <4> HIDE DEF Creating
      <4>1. ~Creating(s)
            BY <2>1
      <4> QED BY <2>3, <4>1
    <3> HIDE DEF TeardownAt, Creating
    <3> QED BY <3>1, <3>2
  <2>5. PodsRemoved'
    <3>2. \A d \in Callers : pc'[d] = "close" => on'[d] \notin running'
          BY <2>1, <2>2
    <3>3. ASSUME NEW r \in Replicas PROVE reaping'[r] \notin running'
      <4>1. ~Creating(reaping[r]) /\ reaping[r] \notin running
            OBVIOUS
      <4>2. reaping[r] # on[c]
            BY <2>1, <4>1
      <4> QED BY <2>1, <4>1, <4>2
    <3>4. \A s \in SessionIds : account'[s] = NoAccount => s \notin running'
          BY <2>1, <2>2
    <3>5. \A d \in Callers : pc'[d] = "manager" => on'[d] \notin running'
          BY <2>1, <2>2
    <3>6. \A d \in Callers : pc'[d] \in {"manager", "record", "undo"} => on'[d] \in Open'
          BY <2>1, <2>2
    <3>7. Accounted'
          BY <2>1, <2>2
    <3> QED BY <3>2, <3>3, <3>4, <3>5, <3>6, <3>7
  <2> QED BY <2>4, <2>5
<1>5. ASSUME NEW c \in Callers, PodRefused(c) PROVE TornDown'
      BY <1>5 DEF PodRefused
<1>6. ASSUME NEW c \in Callers, Record(c) \/ RecordFails(c) PROVE  TornDown'
      BY <1>6 DEF Record, RecordFails
<1>7. ASSUME NEW c \in Callers, UndoPod(c) \/ TellCreated(c) PROVE  TornDown'
      BY <1>7 DEF UndoPod, TellCreated
<1>8. ASSUME NEW c \in Callers, NEW s \in SessionIds, StartDelete(c, s) PROVE TornDown'
      BY <1>8 DEF StartDelete, OpenOf, MayTearDown
<1>9. ASSUME NEW c \in Callers, DeletePods(c) PROVE TornDown'
      BY <1>9 DEF DeletePods, TearDown
<1>10. ASSUME NEW c \in Callers, DeleteRow(c) PROVE TornDown'
      BY <1>10 DEF DeleteRow, Close
<1>11. ASSUME NEW r \in Replicas, ListExpired(r) PROVE TornDown'
      BY <1>11 DEF ListExpired, MayTearDown
<1>12. ASSUME NEW r \in Replicas, NEW s \in SessionIds, ReapPods(r, s) PROVE TornDown'
      BY <1>12 DEF ReapPods, TearDown
<1>13. ASSUME NEW r \in Replicas, ReapRow(r) PROVE TornDown'
      BY <1>13 DEF ReapRow, Close
<1>14. ASSUME NEW r \in Replicas, Restart(r) PROVE TornDown'
      BY <1>14 DEF Restart
<1>15. ASSUME NEW s \in SessionIds, Age(s) PROVE TornDown'
       BY <1>15 DEF Age
<1>16. CASE UNCHANGED usagevars
       BY <1>16 DEF usagevars
<1> QED BY <1>1, <1>2, <1>3, <1>4, <1>5, <1>6, <1>7, <1>8, <1>9, <1>10, <1>11, <1>12, <1>13,
           <1>14, <1>15, <1>16 DEF UsageNext, ReaperNext

\* Types and session ids are right in every reachable state.
LEMMA UsageInvariant == UsageSpec => []UsageInv
BY UsageStart, UsageStep, PTL DEF UsageSpec

\* With the lock of one database for all replicas no account ever has more open
\* sessions than its cap, nor all of them together, however creates, deletes,
\* reapers and restarts interleave (_tenant_session_cap_lock, _check_session_caps).
THEOREM CapsHold == LockBackend = "postgres" => (UsageSpec => []Capped)
<1> SUFFICES ASSUME LockBackend = "postgres" PROVE UsageSpec => []Capped
    OBVIOUS
<1>1. UsageInit => Counted
  <2> SUFFICES ASSUME UsageInit PROVE Counted
      OBVIOUS
  <2>1. Open = {} /\ \A a : OpenOf(a) = {}
        BY DEF UsageInit, Open, OpenOf
  <2> QED BY <2>1, FS_EmptySet, UsageAssumption DEF UsageInit, Counted, Capped, Section, Critical
<1>2. UsageInv /\ Counted /\ [UsageNext]_usagevars => Counted'
      BY CountedStep
<1>3. Counted => Capped
      BY DEF Counted
<1> QED BY <1>1, <1>2, <1>3, UsageInvariant, PTL DEF UsageSpec

\* Where a teardown waits for the create and removes the pods it names, every
\* pod belongs to a session whose row is open (create_session,
\* delete_session and the reaper).
THEOREM PodsAccounted ==
    ~EarlyTeardown /\ {"destroy", "orphan"} \cap CallFaults = {} => (UsageSpec => []Accounted)
<1> SUFFICES ASSUME ~EarlyTeardown, {"destroy", "orphan"} \cap CallFaults = {}
             PROVE  UsageSpec => []Accounted
    OBVIOUS
<1>1. UsageInit => TornDown
      BY DEF UsageInit, TornDown, TornLate, PodsRemoved, Accounted, Creating, CreateAt, TeardownAt, Critical
<1>2. UsageInv /\ TornDown /\ [UsageNext]_usagevars => TornDown'
      BY TornDownStep
<1>3. TornDown => Accounted
      BY DEF TornDown, PodsRemoved
<1> QED BY <1>1, <1>2, <1>3, UsageInvariant, PTL DEF UsageSpec

-----------------------------------------------------------------------------
(* The idempotency keys.                                                   *)

\* A key one of whose attempts may fail in its handler has two attempts at most.
RetriedOnce == \A q \in MayFail \cap Requests : \E r \in Requests :
    \A p \in Requests : KeyOf[p] = KeyOf[q] => p \in {q, r}

\* The attempt got the key and its handler is under way, or its answer is.
Running(q) == asked[q] \in {"run", "finalize", "drop"}
\* The attempt had its effect, and the row was not dropped for it.
Kept(q) == q \in effect /\ answer[q] # "5xx"
\* Two attempts with one key of one scope.
Rivals(q, r) == q # r /\ KeyOf[q] = KeyOf[r]

\* One attempt of a key is past its insert or had its effect.  If there is no
\* row although one is, or was about to be, its only rival failed and is gone.
OneStarted == \A q, r \in Requests : Rivals(q, r) =>
    /\ Running(q) \/ Kept(q) => ~Running(r) /\ ~Kept(r)
    /\ KeyRow(q) = NoKeyRow /\ (Running(q) \/ Kept(q) \/ asked[q] = "recheck") =>
            asked[r] = "end" /\ ~Kept(r)

\* The row an attempt runs under is its own and not yet answered.
OwnRow == \A q \in Requests :
    /\ Running(q) /\ KeyRow(q) # NoKeyRow => KeyRow(q) = [body |-> BodyOf[q], by |-> Nobody]
    /\ q \in effect => asked[q] \in {"finalize", "drop", "end"}
    /\ asked[q] = "drop" => q \in MayFail /\ answer[q] = "5xx"

\* A stored answer comes from a request with the body of the row.
SameBody ==
    /\ \A q \in Requests : KeyRow(q) = NoKeyRow \/ KeyRow(q).body # Nobody
    /\ \A q \in Requests : KeyRow(q).by # Nobody => KeyRow(q).body = BodyOf[KeyRow(q).by]
    /\ \A q \in Requests : answer[q] \in Requests => BodyOf[answer[q]] = BodyOf[q]

IdemInv == IdemTypeOK /\ OneStarted /\ OwnRow /\ SameBody

\* The first state: no attempt was made.
LEMMA IdemStart == IdemInit => IdemInv
BY IdemAssumption DEF IdemInit, IdemInv, IdemTypeOK, OneStarted, OwnRow, SameBody, Running, Kept,
   KeyRow, NoKeyRow, ScopeHashes, Nobody

\* What a row answers a later attempt with is an error or somebody's answer to
\* the same body.
LEMMA RepliesSameBody ==
    ASSUME IdemInv, NEW q \in Requests, ReplyFrom(q)
    PROVE  /\ asked' = [asked EXCEPT ![q] = "end"]
           /\ \E a \in Requests \cup {"409", "422"} :
                /\ answer' = [answer EXCEPT ![q] = a]
                /\ a \in Requests => BodyOf[a] = BodyOf[q]
<1>0. KeyRow(q).by \in Requests \cup {Nobody}
      BY DEF IdemInv, IdemTypeOK, KeyRow, ScopeHashes
<1>1. CASE KeyRow(q).body # BodyOf[q]
      BY <1>1, IdemAssumption DEF ReplyFrom
<1>2. CASE KeyRow(q).body = BodyOf[q] /\ KeyRow(q).by = Nobody
      BY <1>2, IdemAssumption DEF ReplyFrom
<1>3. CASE KeyRow(q).body = BodyOf[q] /\ KeyRow(q).by # Nobody
  <2>1. BodyOf[KeyRow(q).by] = BodyOf[q] /\ KeyRow(q).by \in Requests
        BY <1>0, <1>3 DEF IdemInv, SameBody
  <2> QED BY <1>3, <2>1 DEF ReplyFrom
<1> QED BY <1>1, <1>2, <1>3

\* Every step keeps the types.
LEMMA IdemTypesKept == IdemInv /\ [IdemNext]_idemvars => IdemTypeOK'
<1> SUFFICES ASSUME IdemInv, [IdemNext]_idemvars PROVE IdemTypeOK'
    OBVIOUS
<1>1. CASE UNCHANGED idemvars
      BY <1>1 DEF idemvars, IdemInv, IdemTypeOK
<1>2. ASSUME NEW q \in Requests, 
             LookUpKey(q) \/ InsertKey(q) \/ RecheckKey(q) \/ RunHandler(q) \/ HandlerFails(q)
               \/ FinalizeKey(q) \/ DropKey(q) \/ RequestDies(q)
      PROVE  IdemTypeOK'
  <2> USE DEF IdemInv, IdemTypeOK, Awaits
  <2>0. KeyOf[q] \in ScopeHashes
        BY DEF ScopeHashes
  <2>1. CASE LookUpKey(q)
        BY <2>1, RepliesSameBody DEF LookUpKey
  <2>2. CASE InsertKey(q)
        BY <2>0, <2>2 DEF InsertKey
  <2>3. CASE RecheckKey(q)
        BY <2>3, RepliesSameBody DEF RecheckKey
  <2>4. CASE RunHandler(q)
        BY <2>4 DEF RunHandler
  <2>5. CASE HandlerFails(q)
        BY <2>5 DEF HandlerFails
  <2>6. CASE FinalizeKey(q)
        BY <2>0, <2>6 DEF FinalizeKey
  <2>7. CASE DropKey(q)
        BY <2>0, <2>7 DEF DropKey, NoKeyRow
  <2>8. CASE RequestDies(q)
        BY <2>8 DEF RequestDies
  <2> QED BY <1>2, <2>1, <2>2, <2>3, <2>4, <2>5, <2>6, <2>7, <2>8
<1> QED BY <1>1, <1>2 DEF IdemNext

\* A step of a request moves that request and, if it writes, its row: the row
\* that all the attempts of its key read.
Moves(q, to, new) ==
    /\ \A r \in Requests : asked'[r] = IF r = q THEN to ELSE asked[r]
    /\ \A r \in Requests : KeyRow(r)' = IF KeyOf[r] = KeyOf[q] THEN new ELSE KeyRow(r)

\* Every step of an attempt keeps the invariant, as it moves one attempt and
\* writes at most the row of its key.
LEMMA IdemStep == RetriedOnce /\ IdemInv /\ [IdemNext]_idemvars => IdemInv'
<1> SUFFICES ASSUME RetriedOnce, IdemInv, [IdemNext]_idemvars PROVE OneStarted' /\ OwnRow' /\ SameBody'
    BY IdemTypesKept DEF IdemInv
<1> DEFINE Parts == OneStarted /\ OwnRow /\ SameBody
<1>t. IdemTypeOK /\ Parts
      BY DEF IdemInv
<1>k. \A q \in Requests : KeyOf[q] \in ScopeHashes
      BY DEF ScopeHashes
<1>b. Nobody \notin Requests /\ \A q \in Requests : BodyOf[q] # Nobody
      BY IdemAssumption
<1>r. \A q, r \in Requests : KeyOf[r] = KeyOf[q] => KeyRow(r) = KeyRow(q)
      BY DEF KeyRow
<1>n. NoKeyRow.body = Nobody /\ NoKeyRow.by = Nobody
      BY DEF NoKeyRow
<1> USE DEF OneStarted, OwnRow, SameBody, Rivals, Running, Kept
<1>1. ASSUME NEW q \in Requests, Moves(q, "end", KeyRow(q)), UNCHANGED effect,
             asked[q] \in {"new", "recheck"},
             NEW a \in Requests \cup {"409", "422"},
             answer' = [answer EXCEPT ![q] = a], a \in Requests => BodyOf[a] = BodyOf[q]
      PROVE  Parts'
      BY <1>t, <1>r, <1>1 DEF Moves, IdemTypeOK
<1>2. ASSUME NEW q \in Requests, LookUpKey(q) PROVE Parts'
  <2>1. UNCHANGED <<keyrow, effect>> /\ asked[q] = "new"
        BY <1>2 DEF LookUpKey
  <2>2. CASE KeyRow(q) = NoKeyRow
    <3>1. Moves(q, "insert", KeyRow(q)) /\ UNCHANGED <<answer, effect>>
          BY <1>t, <1>2, <2>2 DEF LookUpKey, Awaits, Moves, KeyRow, IdemTypeOK
    <3> QED BY <1>t, <1>r, <2>1, <3>1 DEF Moves
  <2>3. CASE KeyRow(q) # NoKeyRow
    <3>1. Moves(q, "end", KeyRow(q))
          BY <1>t, <1>2, <2>3 DEF LookUpKey, ReplyFrom, Moves, KeyRow, IdemTypeOK
    <3>2. ReplyFrom(q)
          BY <1>2, <2>3 DEF LookUpKey
    <3> QED BY <1>1, <2>1, <3>1, <3>2, RepliesSameBody
  <2> QED BY <2>2, <2>3
<1>3. ASSUME NEW q \in Requests, InsertKey(q) PROVE Parts'
  <2>1. UNCHANGED <<answer, effect>> /\ asked[q] = "insert"
        BY <1>3 DEF InsertKey, Awaits
  <2>2. CASE KeyRow(q) = NoKeyRow
    <3>1. Moves(q, "run", [body |-> BodyOf[q], by |-> Nobody])
          BY <1>t, <1>k, <1>3, <2>2 DEF InsertKey, Awaits, Moves, KeyRow, IdemTypeOK
    <3>2. [body |-> BodyOf[q], by |-> Nobody] # NoKeyRow
          BY <1>b, <1>n
    <3>3. OneStarted'
          BY <1>t, <1>r, <2>1, <2>2, <3>1, <3>2 DEF Moves
    <3>4. OwnRow' /\ SameBody'
          BY <1>t, <1>r, <1>b, <2>1, <2>2, <3>1, <3>2 DEF Moves
    <3> QED BY <3>3, <3>4
  <2>3. CASE KeyRow(q) # NoKeyRow
    <3>1. Moves(q, "recheck", KeyRow(q))
          BY <1>t, <1>3, <2>3 DEF InsertKey, Awaits, Moves, KeyRow, IdemTypeOK
    <3> QED BY <1>t, <1>r, <2>1, <2>3, <3>1 DEF Moves
  <2> QED BY <2>2, <2>3
<1>4. ASSUME NEW q \in Requests, RecheckKey(q) PROVE Parts'
  <2>1. UNCHANGED <<keyrow, effect>> /\ asked[q] = "recheck"
        BY <1>4 DEF RecheckKey
  <2>2. CASE KeyRow(q) = NoKeyRow
    <3>1. Moves(q, "run", KeyRow(q)) /\ UNCHANGED answer
          BY <1>t, <1>4, <2>2 DEF RecheckKey, Awaits, Moves, KeyRow, IdemTypeOK
    <3>2. OneStarted'
          BY <1>t, <1>r, <2>1, <2>2, <3>1 DEF Moves
    <3>3. OwnRow' /\ SameBody'
          BY <1>t, <1>r, <2>1, <2>2, <3>1 DEF Moves
    <3> QED BY <3>2, <3>3
  <2>3. CASE KeyRow(q) # NoKeyRow
    <3>1. Moves(q, "end", KeyRow(q)) /\ ReplyFrom(q)
          BY <1>t, <1>4, <2>3 DEF RecheckKey, ReplyFrom, Moves, KeyRow, IdemTypeOK
    <3> QED BY <1>1, <2>1, <3>1, RepliesSameBody
  <2> QED BY <2>2, <2>3
<1>5. ASSUME NEW q \in Requests, RunHandler(q) PROVE Parts'
  <2>1. Moves(q, "finalize", KeyRow(q)) /\ asked[q] = "run" /\ answer' = [answer EXCEPT ![q] = q]
        BY <1>t, <1>5 DEF RunHandler, Awaits, Moves, KeyRow, IdemTypeOK
  <2>2. effect' \in {effect, effect \cup {q}}
        BY <1>5 DEF RunHandler
  <2> QED BY <1>t, <1>r, <2>1, <2>2 DEF Moves, IdemTypeOK
<1>6. ASSUME NEW q \in Requests, HandlerFails(q) PROVE Parts'
  <2>1. /\ Moves(q, "drop", KeyRow(q)) /\ asked[q] = "run" /\ q \in MayFail
        /\ effect' \in {effect, effect \cup {q}} /\ answer' = [answer EXCEPT ![q] = "5xx"]
        BY <1>t, <1>6 DEF HandlerFails, Awaits, Moves, KeyRow, IdemTypeOK
  <2>2. "5xx" \notin Requests
        BY IdemAssumption
  <2> QED BY <1>t, <1>r, <2>1, <2>2 DEF Moves, IdemTypeOK
<1>7. ASSUME NEW q \in Requests, FinalizeKey(q) PROVE Parts'
  <2>1. asked[q] = "finalize" /\ UNCHANGED <<effect, answer>>
        BY <1>7 DEF FinalizeKey, Awaits
  <2>2. CASE KeyRow(q) = NoKeyRow
    <3>1. Moves(q, "end", KeyRow(q))
          BY <1>t, <1>7, <2>2 DEF FinalizeKey, Awaits, Moves, KeyRow, IdemTypeOK
    <3> QED BY <1>t, <1>r, <2>1, <2>2, <3>1 DEF Moves
  <2>3. CASE KeyRow(q) # NoKeyRow
    <3>1. KeyRow(q) = [body |-> BodyOf[q], by |-> Nobody]
          BY <1>t, <2>1, <2>3
    <3>a. keyrow' = [keyrow EXCEPT ![KeyOf[q]].by = q]
          BY <1>7, <2>3 DEF FinalizeKey
    <3>b. keyrow' = [keyrow EXCEPT ![KeyOf[q]] = [body |-> BodyOf[q], by |-> q]]
      <4>1. [keyrow[KeyOf[q]] EXCEPT !.by = q] = [body |-> BodyOf[q], by |-> q]
            BY <3>1 DEF KeyRow
      <4> QED BY <3>a, <4>1
    <3>2. Moves(q, "end", [body |-> BodyOf[q], by |-> q])
          BY <1>t, <1>k, <1>7, <3>b DEF FinalizeKey, Awaits, Moves, KeyRow, IdemTypeOK
    <3>3. [body |-> BodyOf[q], by |-> q] # NoKeyRow
          BY <1>b, <1>n
    <3> QED BY <1>t, <1>r, <1>b, <2>1, <2>3, <3>2, <3>3 DEF Moves
  <2> QED BY <2>2, <2>3
<1>8. ASSUME NEW q \in Requests, DropKey(q) PROVE Parts'
  <2>1. Moves(q, "end", NoKeyRow) /\ asked[q] = "drop" /\ UNCHANGED <<effect, answer>>
        BY <1>t, <1>k, <1>8 DEF DropKey, Awaits, Moves, KeyRow, IdemTypeOK
  <2>2. PICK r \in Requests : \A p \in Requests : KeyOf[p] = KeyOf[q] => p \in {q, r}
        BY <1>t, <2>1 DEF RetriedOnce
  <2> QED BY <1>t, <1>r, <1>n, <2>1, <2>2 DEF Moves
<1>9. ASSUME NEW q \in Requests, RequestDies(q) PROVE Parts'
  <2>1. Moves(q, "end", KeyRow(q)) /\ UNCHANGED <<effect, answer>>
        BY <1>t, <1>9 DEF RequestDies, Moves, KeyRow, IdemTypeOK
  <2> QED BY <1>t, <1>r, <2>1 DEF Moves
<1>10. CASE UNCHANGED idemvars
       BY <1>t, <1>10 DEF idemvars, KeyRow
<1> QED BY <1>2, <1>3, <1>4, <1>5, <1>6, <1>7, <1>8, <1>9, <1>10 DEF IdemNext

\* However attempts with one key interleave, and whichever of them die: of two
\* that had an effect one was answered 5xx after it, and a stored answer goes to
\* the same body only (idempotency.py).  An attempt whose insert is refused may find the row dropped
\* by then and runs without one, so a key whose handler fails has to have had
\* no third attempt.
THEOREM OneEffectPerKey == RetriedOnce => (IdemSpec => []OneEffect)
<1>1. IdemInv => OneEffect
      BY DEF IdemInv, IdemTypeOK, OneStarted, SameBody, Rivals, Kept, OneEffect
<1>2. RetriedOnce => (IdemSpec => []IdemInv)
  <2> SUFFICES ASSUME RetriedOnce PROVE IdemSpec => []IdemInv
      OBVIOUS
  <2> QED BY IdemStart, IdemStep, PTL DEF IdemSpec
<1> QED BY <1>1, <1>2, PTL

-----------------------------------------------------------------------------
(* Custom images.                                                          *)

\* A row that is not there yet has nothing; a task has a row in flight, and an
\* outcome from the collection on; a hit is a row of the account of its caller
\* with a reference, and so is every completed row.
BuildSane ==
    /\ \A i \in Images : status[i] = "none" =>
         /\ build[i] = "none" /\ job[i] = "none" /\ outcome[i] = "none" /\ ref[i] = NoImage
         /\ i \notin configs /\ i \notin passed /\ i \notin spilled
    /\ \A i \in Images : build[i] \notin {"none", "fail"} => status[i] \in InFlightStatus
    /\ \A i \in Images : build[i] \in {"unjob", "unconfig", "scanning", "mark"} => outcome[i] # "none"
    /\ \A i \in Images : status[i] = "completed" => ref[i] # NoImage
    /\ \A b \in Builders : ask[b] = "reuse" =>
         /\ mine[b] # NoImage /\ cached[b] # NoImage
         /\ status[mine[b]] # "none" /\ build[mine[b]] = "none"
         /\ owner[mine[b]] = BuilderAccount[b]
    /\ \A b \in Builders : cached[b] # NoImage =>
         ref[cached[b]] # NoImage /\ owner[cached[b]] = BuilderAccount[b]

\* Where the scan is required: what is completed, or referred to, went through the
\* gate; behind the gate nothing runs that could push the image anew.
BuildScanned ==
    ScanRequired =>
      /\ \A i \in passed : /\ build[i] \notin {"start", "configmap", "job", "poll", "collect"}
                           /\ job[i] # "running" /\ i \notin infected
      /\ \A i \in Images : build[i] = "collect" => job[i] # "running"
      /\ \A i \in Images : outcome[i] = "completed" => i \in passed
      /\ \A i \in Images : ref[i] # NoImage => /\ ref[i] \in passed
                                               /\ owner[ref[i]] = owner[i]

BuildInv == BuildTypeOK /\ BuildSane /\ NothingLeft

\* The first state: no image was asked for.
LEMMA BuildStart == BuildInit => BuildInv /\ BuildScanned
BY BuildAssumption DEF BuildInit, BuildInv, BuildTypeOK, BuildSane, NothingLeft, BuildScanned,
   BuilderAccounts

\* Every await of a request, a background task, Kaniko and the cluster keeps the
\* types, the stages of a build and what its cleanup still owes.
LEMMA BuildStep == BuildInv /\ [BuildNext]_buildvars => BuildInv'
<1> SUFFICES ASSUME BuildInv, [BuildNext]_buildvars PROVE BuildInv'
    OBVIOUS
<1> USE BuildAssumption DEF BuildInv, BuildTypeOK, BuildSane, NothingLeft, BuilderAccounts,
        Outcomes, InFlightStatus, rowvars, kubevars, taskvars, askvars, histvars
<1>1. ASSUME NEW b \in Builders, NEW k \in Specs, CountImages(b, k) PROVE BuildInv'
      BY <1>1 DEF CountImages, AskTo
<1>2. ASSUME NEW b \in Builders, CountBuilds(b) PROVE BuildInv'
      BY <1>2 DEF CountBuilds, Answered
<1>3. ASSUME NEW b \in Builders, FindCached(b) PROVE BuildInv'
      BY <1>3 DEF FindCached, AskTo, Cacheable, ActiveImages
<1>4. ASSUME NEW b \in Builders, InsertImage(b) PROVE BuildInv'
  <2>1. PICK i \in Unborn :
          /\ status' = [status EXCEPT ![i] = "queued"]
          /\ owner' = [owner EXCEPT ![i] = BuilderAccount[b]]
          /\ spec' = [spec EXCEPT ![i] = wanted[b]]
          /\ created' = [created EXCEPT ![i] = hour]
          /\ \/ /\ cached[b] = NoImage
                /\ build' = [build EXCEPT ![i] = "start"]
                /\ Answered(b)
             \/ /\ cached[b] # NoImage
                /\ ask' = [ask EXCEPT ![b] = "reuse"]
                /\ mine' = [mine EXCEPT ![b] = i]
                /\ UNCHANGED <<build, wanted, cached>>
        BY <1>4 DEF InsertImage
  <2>2. UNCHANGED <<ref, removed, kubevars, outcome, hour, stops, histvars>>
        BY <1>4 DEF InsertImage
  <2>3. BuildTypeOK'
        BY <2>1, <2>2 DEF Unborn, Answered
  <2>4. BuildSane'
    <3>1. CASE cached[b] = NoImage
          BY <2>1, <2>2, <3>1 DEF Unborn, Answered
    <3>2. CASE cached[b] # NoImage
          BY <2>1, <2>2, <3>2 DEF Unborn
    <3> QED BY <3>1, <3>2
  <2>5. NothingLeft'
        BY <2>1, <2>2 DEF Unborn
  <2> QED BY <2>3, <2>4, <2>5
<1>5. ASSUME NEW b \in Builders, ReuseImage(b) PROVE BuildInv'
      BY <1>5 DEF ReuseImage, Answered
<1>6. ASSUME NEW i \in Images, DeleteImage(i) PROVE BuildInv'
      BY <1>6 DEF DeleteImage
<1>7. ASSUME NEW i \in Images, MarkBuilding(i) \/ MarkScanning(i) PROVE BuildInv'
      BY <1>7 DEF MarkBuilding, MarkScanning, BuildTo
<1>8. ASSUME NEW i \in Images, CreateConfigMap(i) PROVE BuildInv'
      BY <1>8 DEF CreateConfigMap, BuildTo, Ends
<1>9. ASSUME NEW i \in Images, CreateJob(i) PROVE BuildInv'
      BY <1>9 DEF CreateJob, BuildTo, Ends
<1>10. ASSUME NEW i \in Images, KanikoEnds(i) PROVE BuildInv'
       BY <1>10 DEF KanikoEnds
<1>11. ASSUME NEW i \in Images, PollJob(i) PROVE BuildInv'
       BY <1>11 DEF PollJob, BuildTo, Ends
<1>12. ASSUME NEW i \in Images, Collect(i) PROVE BuildInv'
       BY <1>12 DEF Collect, BuildTo, Ends
<1>13. ASSUME NEW i \in Images, DeleteJob(i) \/ DeleteConfigMap(i) PROVE BuildInv'
       BY <1>13 DEF DeleteJob, DeleteConfigMap, BuildTo
<1>14. ASSUME NEW i \in Images, MarkOutcome(i) PROVE BuildInv'
       BY <1>14 DEF MarkOutcome, BuildTo, Ends
<1>15. ASSUME NEW i \in Images, MarkRaises(i) PROVE BuildInv'
       BY <1>15 DEF MarkRaises, BuildTo, Ends
<1>16. ASSUME NEW i \in Images, MarkFailed(i) PROVE BuildInv'
       BY <1>16 DEF MarkFailed, BuildTo
<1>17. CASE ProcessStops
       BY <1>17 DEF ProcessStops
<1>18. CASE HourPasses
       BY <1>18 DEF HourPasses
<1>19. CASE UNCHANGED buildvars
       BY <1>19 DEF buildvars
<1> QED BY <1>1, <1>2, <1>3, <1>4, <1>5, <1>6, <1>7, <1>8, <1>9, <1>10, <1>11, <1>12, <1>13, <1>14,
           <1>15, <1>16, <1>17, <1>18, <1>19 DEF BuildNext, BuildRequest, BuildTask

\* Every step keeps the scan gate in front of whatever is completed or reused.
LEMMA ScanStep == BuildInv /\ BuildScanned /\ [BuildNext]_buildvars => BuildScanned'
<1> SUFFICES ASSUME BuildInv, BuildScanned, [BuildNext]_buildvars, ScanRequired PROVE BuildScanned'
    BY DEF BuildScanned
<1> USE DEF BuildInv, BuildTypeOK, BuildSane, BuildScanned, 
        Outcomes, rowvars, kubevars, taskvars, askvars, histvars
<1>1. ASSUME NEW b \in Builders, BuildRequest(b), ~ReuseImage(b), ~InsertImage(b) PROVE BuildScanned'
      BY <1>1 DEF BuildRequest, CountImages, CountBuilds, FindCached
<1>2. ASSUME NEW b \in Builders, InsertImage(b) PROVE BuildScanned'
      BY <1>2 DEF InsertImage, Unborn, Answered
<1>3. ASSUME NEW b \in Builders, ReuseImage(b) PROVE BuildScanned'
      BY <1>3, BuildAssumption DEF ReuseImage
<1>4. ASSUME NEW i \in Images, DeleteImage(i) \/ MarkBuilding(i) \/ MarkScanning(i) \/ CreateConfigMap(i)
      PROVE BuildScanned'
      BY <1>4 DEF DeleteImage, MarkBuilding, MarkScanning, CreateConfigMap, BuildTo, Ends
<1>5. ASSUME NEW i \in Images, CreateJob(i) \/ KanikoEnds(i) \/ PollJob(i) PROVE BuildScanned'
      BY <1>5 DEF CreateJob, KanikoEnds, PollJob, BuildTo, Ends
<1>6. ASSUME NEW i \in Images, Collect(i) PROVE BuildScanned'
      BY <1>6 DEF Collect, BuildTo, Ends
<1>7. ASSUME NEW i \in Images, DeleteJob(i) \/ DeleteConfigMap(i) \/ MarkFailed(i) PROVE BuildScanned'
      BY <1>7 DEF DeleteJob, DeleteConfigMap, MarkFailed, BuildTo
<1>8. ASSUME NEW i \in Images, MarkOutcome(i) \/ MarkRaises(i) PROVE BuildScanned'
      BY <1>8 DEF MarkOutcome, MarkRaises, BuildTo, Ends
<1>9. CASE ProcessStops \/ HourPasses \/ UNCHANGED buildvars
      BY <1>9 DEF ProcessStops, HourPasses, buildvars
<1> QED BY <1>1, <1>2, <1>3, <1>4, <1>5, <1>6, <1>7, <1>8, <1>9 DEF BuildNext, BuildTask

\* What a check that counts before it inserts is worth: whoever has counted and not
\* inserted is counted with what is there.
LEMMA Room ==
    ASSUME NEW S, IsFiniteSet(S), NEW B, IsFiniteSet(B), NEW P, P \subseteq B,
           NEW m \in Nat, Cardinality(S) < m
    PROVE  Cardinality(S) + Cardinality(P) < m + Cardinality(B)
<1>1. /\ Cardinality(S) \in Nat /\ Cardinality(P) \in Nat /\ Cardinality(B) \in Nat
      /\ Cardinality(P) <= Cardinality(B)
      BY FS_CardinalityType, FS_Subset
<1> QED BY <1>1

\* A bound on two counts together stands while neither set grows,
LEMMA Fewer ==
    ASSUME NEW S, IsFiniteSet(S), NEW T, T \subseteq S,
           NEW P, IsFiniteSet(P), NEW Q, Q \subseteq P,
           NEW m \in Nat, Cardinality(S) + Cardinality(P) < m
    PROVE  Cardinality(T) + Cardinality(Q) < m
<1>1. /\ Cardinality(S) \in Nat /\ Cardinality(T) \in Nat /\ Cardinality(T) <= Cardinality(S)
      /\ Cardinality(P) \in Nat /\ Cardinality(Q) \in Nat /\ Cardinality(Q) <= Cardinality(P)
      BY FS_CardinalityType, FS_Subset
<1> QED BY <1>1

\* and while one element moves from the second set to the first.
LEMMA Exchanged ==
    ASSUME NEW S, IsFiniteSet(S), NEW x, NEW T, T \subseteq S \cup {x},
           NEW P, IsFiniteSet(P), NEW p \in P, NEW Q, Q \subseteq P \ {p},
           NEW m \in Nat, Cardinality(S) + Cardinality(P) < m
    PROVE  Cardinality(T) + Cardinality(Q) < m
<1>1. /\ IsFiniteSet(S \cup {x}) /\ IsFiniteSet(P \ {p})
      /\ Cardinality(S \cup {x}) = Cardinality(S) \/ Cardinality(S \cup {x}) = Cardinality(S) + 1
      BY FS_AddElement, FS_RemoveElement
<1>2. Cardinality(P \ {p}) = Cardinality(P) - 1
      BY FS_RemoveElement
<1>3. Cardinality(S) \in Nat /\ Cardinality(P) \in Nat
      BY FS_CardinalityType
<1>4. Cardinality(S \cup {x}) + Cardinality(P \ {p}) < m
      BY <1>1, <1>2, <1>3
<1> QED BY <1>1, <1>4, Fewer

\* The callers behind each count and not yet behind the insert.
CountedBuild == {b \in Builders : ask[b] \in {"cache", "insert"}}
CountedImage(a) == {b \in Builders : /\ BuilderAccount[b] = a
                                     /\ ask[b] \in {"inflight", "cache", "insert"}}
CallersOf(a) == {b \in Builders : BuilderAccount[b] = a}

BuildsBounded ==
    Cardinality(InFlight) + Cardinality(CountedBuild) < MaxBuilds + Cardinality(Builders)
ImagesBounded(a) ==
    Cardinality(ActiveImages(a)) + Cardinality(CountedImage(a)) < MaxImages + Cardinality(CallersOf(a))

\* All these sets are finite.
LEMMA BuildsFinite ==
    /\ IsFiniteSet(InFlight) /\ IsFiniteSet(CountedBuild)
    /\ \A a : /\ IsFiniteSet(ActiveImages(a)) /\ IsFiniteSet(CountedImage(a))
              /\ IsFiniteSet(CallersOf(a)) /\ CountedImage(a) \subseteq CallersOf(a)
    /\ MaxBuilds + Cardinality(Builders) \in Nat
    /\ \A a : MaxImages + Cardinality(CallersOf(a)) \in Nat
<1>1. /\ IsFiniteSet(InFlight) /\ IsFiniteSet(CountedBuild)
      /\ \A a : /\ IsFiniteSet(ActiveImages(a)) /\ IsFiniteSet(CountedImage(a))
                /\ IsFiniteSet(CallersOf(a)) /\ CountedImage(a) \subseteq CallersOf(a)
      <2>1. /\ InFlight \subseteq Images /\ CountedBuild \subseteq Builders
            /\ \A a : /\ ActiveImages(a) \subseteq Images /\ CountedImage(a) \subseteq Builders
                      /\ CallersOf(a) \subseteq Builders /\ CountedImage(a) \subseteq CallersOf(a)
            BY DEF InFlight, CountedBuild, ActiveImages, CountedImage, CallersOf
      <2> QED BY <2>1, FS_Subset, BuildAssumption
<1> QED BY <1>1, FS_CardinalityType, BuildAssumption

\* A caller that counts finds room for itself.
LEMMA BuildCounted ==
    ASSUME BuildInv, NEW b \in Builders, CountBuilds(b), BuildsBounded
    PROVE  BuildsBounded'
<1>1. InFlight' = InFlight /\ CountedBuild' \subseteq Builders
      BY DEF CountBuilds, rowvars, InFlight, CountedBuild
<1>2. CASE Cardinality(InFlight) < MaxBuilds
      BY <1>1, <1>2, BuildsFinite, BuildAssumption, Room DEF BuildsBounded
<1>3. CASE ~(Cardinality(InFlight) < MaxBuilds)
  <2>1. CountedBuild' \subseteq CountedBuild
        BY <1>3 DEF CountBuilds, Answered, CountedBuild, BuildInv, BuildTypeOK
  <2> QED BY <1>1, <2>1, BuildsFinite, Fewer DEF BuildsBounded
<1> QED BY <1>2, <1>3

\* The same for the cap of its account.
LEMMA ImageCounted ==
    ASSUME BuildInv, NEW b \in Builders, NEW k \in Specs, CountImages(b, k),
           NEW a \in BuilderAccounts, ImagesBounded(a)
    PROVE  ImagesBounded(a)'
<1>1. ActiveImages(a)' = ActiveImages(a)
      BY DEF CountImages, rowvars, ActiveImages
<1>2. CountedImage(a)' \subseteq CallersOf(a)
      BY DEF CountedImage, CallersOf
<1>3. CASE BuilderAccount[b] = a
  <2>1. Cardinality(ActiveImages(a)) < MaxImages
        BY <1>3 DEF CountImages
  <2> QED BY <1>1, <1>2, <2>1, BuildsFinite, BuildAssumption, Room DEF ImagesBounded, CallersOf
<1>4. CASE BuilderAccount[b] # a
  <2>1. CountedImage(a)' \subseteq CountedImage(a)
        BY <1>4 DEF CountImages, AskTo, CountedImage, BuildInv, BuildTypeOK
  <2> QED BY <1>1, <2>1, BuildsFinite, Fewer DEF ImagesBounded, CallersOf
<1> QED BY <1>3, <1>4

\* One that inserts gives up what it had counted for.
LEMMA CountedInserts ==
    ASSUME BuildInv, NEW b \in Builders, InsertImage(b), BuildsBounded,
           \A a \in BuilderAccounts : ImagesBounded(a)
    PROVE  BuildsBounded' /\ \A a \in BuilderAccounts : ImagesBounded(a)'
<1> PICK i \in Unborn : /\ status' = [status EXCEPT ![i] = "queued"]
                         /\ owner' = [owner EXCEPT ![i] = BuilderAccount[b]]
    BY DEF InsertImage
<1> USE DEF BuildInv, BuildTypeOK
<1>1. ask[b] = "insert" /\ ask' \in [Builders -> {"idle", "reuse"} \cup {ask[c] : c \in Builders}]
      /\ ask'[b] \in {"idle", "reuse"} /\ (\A c \in Builders \ {b} : ask'[c] = ask[c])
      /\ removed' = removed
      BY DEF InsertImage, Answered
<1>2. InFlight' \subseteq InFlight \cup {i}
      BY DEF InFlight, InFlightStatus
<1>3. b \in CountedBuild /\ CountedBuild' \subseteq CountedBuild \ {b}
      BY <1>1 DEF CountedBuild
<1>4. BuildsBounded'
      BY <1>2, <1>3, BuildsFinite, Exchanged DEF BuildsBounded
<1>5. \A a : CallersOf(a)' = CallersOf(a)
      BY DEF CallersOf
<1>6. ASSUME NEW a \in BuilderAccounts PROVE ImagesBounded(a)'
  <2>1. CASE BuilderAccount[b] = a
    <3>1. ActiveImages(a)' \subseteq ActiveImages(a) \cup {i}
          BY <1>1 DEF ActiveImages
    <3>2. b \in CountedImage(a) /\ CountedImage(a)' \subseteq CountedImage(a) \ {b}
          BY <1>1, <2>1 DEF CountedImage
    <3> QED BY <1>5, <3>1, <3>2, BuildsFinite, Exchanged DEF ImagesBounded
  <2>2. CASE BuilderAccount[b] # a
    <3>1. ActiveImages(a)' \subseteq ActiveImages(a)
          BY <1>1, <2>2 DEF ActiveImages, Unborn
    <3>2. CountedImage(a)' \subseteq CountedImage(a)
          BY <1>1, <2>2 DEF CountedImage
    <3> QED BY <1>5, <3>1, <3>2, BuildsFinite, Fewer DEF ImagesBounded
  <2> QED BY <2>1, <2>2
<1> QED BY <1>4, <1>6

\* Nobody else adds to what is counted.
LEMMA OthersAddNothing ==
    ASSUME BuildInv, [BuildNext]_buildvars,
           \A b \in Builders : ~InsertImage(b)
    PROVE  /\ InFlight' \subseteq InFlight
           /\ \A a \in BuilderAccounts : ActiveImages(a)' \subseteq ActiveImages(a)
<1> DEFINE Adds == /\ InFlight' \subseteq InFlight
                  /\ UNCHANGED owner /\ removed \subseteq removed'
<1> USE DEF InFlight, rowvars
<1>1. ASSUME UNCHANGED rowvars PROVE Adds
      BY <1>1
<1>2. ASSUME NEW b \in Builders, BuildRequest(b) PROVE Adds
  <2>1. CASE ReuseImage(b)
        BY <2>1 DEF ReuseImage, BuildInv, BuildTypeOK, InFlightStatus
  <2>2. CASE ~ReuseImage(b)
        BY <1>1, <1>2, <2>2 DEF BuildRequest, CountImages, CountBuilds, FindCached
  <2> QED BY <2>1, <2>2
<1>3. ASSUME NEW i \in Images, MarkBuilding(i) \/ MarkScanning(i) PROVE Adds
      BY <1>3 DEF MarkBuilding, MarkScanning, BuildTo, BuildInv, BuildTypeOK, BuildSane
<1>4. ASSUME NEW i \in Images, MarkOutcome(i) PROVE Adds
      BY <1>4 DEF MarkOutcome, BuildTo, BuildInv, BuildTypeOK, BuildSane, Outcomes, InFlightStatus
<1>5. ASSUME NEW i \in Images, MarkRaises(i) \/ MarkFailed(i) PROVE Adds
      BY <1>5 DEF MarkRaises, MarkFailed, BuildTo, BuildInv, BuildTypeOK, BuildSane, Outcomes, InFlightStatus
<1>6. ASSUME NEW i \in Images, DeleteImage(i) PROVE Adds
      BY <1>6 DEF DeleteImage
<1>7. ASSUME NEW i \in Images, CreateConfigMap(i) \/ CreateJob(i) \/ KanikoEnds(i) \/ PollJob(i)
                               \/ Collect(i) \/ DeleteJob(i) \/ DeleteConfigMap(i)
      PROVE Adds
      BY <1>1, <1>7 DEF CreateConfigMap, CreateJob, KanikoEnds, PollJob, Collect, DeleteJob, DeleteConfigMap
<1>8. ASSUME ProcessStops \/ HourPasses \/ UNCHANGED buildvars PROVE Adds
      BY <1>1, <1>8 DEF ProcessStops, HourPasses, buildvars
<1>9. Adds
      BY <1>2, <1>3, <1>4, <1>5, <1>6, <1>7, <1>8 DEF BuildNext, BuildTask
<1> QED BY <1>9 DEF ActiveImages

\* ... nor enters among those who have counted.
LEMMA OthersCountNothing ==
    ASSUME BuildInv, [BuildNext]_buildvars, NEW c \in Builders
    PROVE  /\ ask'[c] \in {"cache", "insert"} => CountBuilds(c) \/ ask[c] \in {"cache", "insert"}
           /\ ask'[c] \in {"inflight", "cache", "insert"} =>
                (\E k \in Specs : CountImages(c, k)) \/ ask[c] \in {"inflight", "cache", "insert"}
<1> USE DEF BuildInv, BuildTypeOK
<1>1. CASE UNCHANGED ask
      BY <1>1
<1>2. ASSUME NEW b \in Builders, BuildRequest(b)
      PROVE  \/ UNCHANGED ask
             \/ b = c /\ CountBuilds(c) /\ ask[c] = "inflight"
             \/ b = c /\ \E k \in Specs : CountImages(c, k)
             \/ ask[c] = "cache" /\ ask'[c] = "insert"
             \/ ask'[c] = ask[c]
             \/ ask'[c] \in {"idle", "reuse"}
  <2>1. CASE b # c
        BY <1>2, <2>1 DEF BuildRequest, CountImages, CountBuilds, FindCached, InsertImage, ReuseImage,
           AskTo, Answered
  <2>2. CASE b = c /\ (FindCached(c) \/ InsertImage(c) \/ ReuseImage(c))
        BY <1>2, <2>2 DEF FindCached, InsertImage, ReuseImage, AskTo, Answered
  <2>3. CASE b = c /\ CountBuilds(c)
        BY <2>3 DEF CountBuilds
  <2> QED BY <1>2, <2>1, <2>2, <2>3 DEF BuildRequest
<1>3. ASSUME NEW i \in Images, BuildTask(i) \/ KanikoEnds(i) \/ DeleteImage(i)
      PROVE UNCHANGED ask
      BY <1>3 DEF BuildTask, MarkBuilding, MarkScanning, MarkOutcome, MarkRaises, MarkFailed,
         DeleteImage, CreateConfigMap, CreateJob, KanikoEnds, PollJob, Collect, DeleteJob,
         DeleteConfigMap, askvars
<1>4. ASSUME HourPasses \/ UNCHANGED buildvars PROVE UNCHANGED ask
      BY <1>4 DEF HourPasses, buildvars, askvars
<1>5. CASE ProcessStops
      BY <1>5 DEF ProcessStops
<1>6. CASE \E b \in Builders : BuildRequest(b)
  <2> PICK b \in Builders : BuildRequest(b)
      BY <1>6
  <2>1. \/ UNCHANGED ask
        \/ b = c /\ CountBuilds(c) /\ ask[c] = "inflight"
        \/ b = c /\ \E k \in Specs : CountImages(c, k)
        \/ ask[c] = "cache" /\ ask'[c] = "insert"
        \/ ask'[c] = ask[c]
        \/ ask'[c] \in {"idle", "reuse"}
        BY <1>2
  <2>2. (\E k \in Specs : CountImages(c, k)) => ask'[c] = "inflight"
        BY DEF CountImages, AskTo
  <2> QED BY <1>1, <2>1, <2>2
<1> QED BY <1>1, <1>3, <1>4, <1>5, <1>6 DEF BuildNext

\* Both caps hold up to the other callers.
LEMMA BoundsStep ==
    ASSUME BuildInv, [BuildNext]_buildvars, BuildsBounded,
           \A a \in BuilderAccounts : ImagesBounded(a)
    PROVE  BuildsBounded' /\ \A a \in BuilderAccounts : ImagesBounded(a)'
<1>1. CASE \E b \in Builders : InsertImage(b)
      BY <1>1, CountedInserts
<1>2. CASE \A b \in Builders : ~InsertImage(b)
  <2>1. BuildsBounded'
    <3>1. CASE \E b \in Builders : CountBuilds(b)
          BY <3>1, BuildCounted
    <3>2. CASE \A b \in Builders : ~CountBuilds(b)
      <4>1. CountedBuild' \subseteq CountedBuild
            BY <3>2, OthersCountNothing DEF CountedBuild
      <4> QED BY <1>2, <4>1, OthersAddNothing, BuildsFinite, Fewer DEF BuildsBounded
    <3> QED BY <3>1, <3>2
  <2>2. ASSUME NEW a \in BuilderAccounts PROVE ImagesBounded(a)'
    <3>1. CallersOf(a)' = CallersOf(a)
          BY DEF CallersOf
    <3>2. CASE \E b \in Builders, k \in Specs : CountImages(b, k)
          BY <3>2, ImageCounted
    <3>3. CASE \A b \in Builders, k \in Specs : ~CountImages(b, k)
      <4>1. CountedImage(a)' \subseteq CountedImage(a)
            BY <3>3, OthersCountNothing DEF CountedImage
      <4> QED BY <1>2, <3>1, <4>1, OthersAddNothing, BuildsFinite, Fewer DEF ImagesBounded
    <3> QED BY <3>2, <3>3
  <2> QED BY <2>1, <2>2
<1> QED BY <1>1, <1>2

\* However many callers count at the same time, neither cap of image builds is
\* exceeded by more than the other callers (count_active_for_account,
\* count_in_flight_total, create_image_build, create_sandbox_image).
THEOREM CapsHoldNearly == BuildSpec => []CapsOvershoot
<1> DEFINE Bounded == BuildsBounded /\ \A a \in BuilderAccounts : ImagesBounded(a)
<1>1. BuildInit => Bounded
  <2> SUFFICES ASSUME BuildInit PROVE Bounded
      OBVIOUS
  <2>1. /\ InFlight = {} /\ CountedBuild \subseteq Builders
        /\ \A a \in BuilderAccounts : ActiveImages(a) = {}
        BY BuildAssumption DEF BuildInit, InFlight, InFlightStatus, CountedBuild, ActiveImages
  <2>2. Cardinality({}) < MaxBuilds /\ Cardinality({}) < MaxImages
        BY FS_EmptySet, BuildAssumption
  <2> QED BY <2>1, <2>2, BuildsFinite, BuildAssumption, Room DEF BuildsBounded, ImagesBounded
<1>2. BuildInv /\ Bounded /\ [BuildNext]_buildvars => Bounded'
      BY BoundsStep
<1>3. Bounded => CapsOvershoot
  <2> SUFFICES ASSUME Bounded PROVE CapsOvershoot
      OBVIOUS
  <2>1. Cardinality(InFlight) < MaxBuilds + Cardinality(Builders)
        BY BuildsFinite, FS_CardinalityType DEF BuildsBounded
  <2>2. ASSUME NEW a \in BuilderAccounts
        PROVE Cardinality(ActiveImages(a)) < MaxImages + Cardinality({b \in Builders : BuilderAccount[b] = a})
    <3>1. Cardinality(ActiveImages(a)) \in Nat /\ Cardinality(CountedImage(a)) \in Nat
          BY BuildsFinite, FS_CardinalityType
    <3>2. MaxImages + Cardinality(CallersOf(a)) \in Nat
          BY BuildsFinite
    <3> QED BY <3>1, <3>2 DEF ImagesBounded, CallersOf
  <2> QED BY <2>1, <2>2 DEF CapsOvershoot
<1> HIDE DEF Bounded
<1> QED BY <1>1, <1>2, <1>3, BuildStart, BuildStep, PTL DEF BuildSpec

\* The rows, the cluster objects, the tasks and the requests have their types in
\* every reachable state, whatever fails (SandboxImage, BuildOutcome).
THEOREM BuildsTyped == BuildSpec => []BuildTypeOK
BY BuildStart, BuildStep, PTL DEF BuildSpec, BuildInv

\* Unless a delete failed, the process died or the answer to the ConfigMap was lost,
\* a build leaves no Job and no ConfigMap (run_build, _cleanup).
THEOREM BuildsLeaveNothing == BuildSpec => []NothingLeft
BY BuildStart, BuildStep, PTL DEF BuildSpec, BuildInv

\* With BOXXKITE_IMAGE_SCAN_REQUIRED no account can start a sandbox from an image that
\* it did not build or that the gate did not pass (_resolve_image_ref_or_404,
\* _scan_built_image, find_cached_completed).
THEOREM ScannedImages == BuildSpec => []OnlyScannedRuns
<1>1. BuildScanned => OnlyScannedRuns
      BY DEF BuildScanned, OnlyScannedRuns, Startable
<1> QED BY <1>1, BuildStart, BuildStep, ScanStep, PTL DEF BuildSpec

-----------------------------------------------------------------------------
(* Volumes.                                                                *)

\* A row has no name before its task is done with the claim; whoever deprovisions a
\* claim has seen its name.
VolumeSane ==
    /\ \A v \in VolumeIds : volume[v] = "none" =>
         maker[v] = "none" /\ v \notin named /\ v \notin erased
    /\ \A v \in VolumeIds : maker[v] = "mark" => made[v] # "none"
    /\ \A v \in VolumeIds : maker[v] \in {"start", "create", "wait"} => v \notin named
    /\ \A v \in VolumeIds : maker[v] # "mark" => made[v] = "none"
    /\ \A t \in Tenants : call[t] = "deprovision" => about[t] \in named
    /\ \A t \in Tenants : call[t] = "erase" =>
         about[t] \in VolumeIds /\ volume[about[t]] # "none" /\ about[t] \in blind \cup named
    /\ erased \ blind \subseteq named

\* What has a name, or is about to, is bound, unless a delete of that claim began or
\* its volume vanished.  A claim that is Terminating was deleted by such a one.
NamedIsBound ==
    /\ \A v \in VolumeIds : (v \in named \/ made[v] = "ready") /\ claimOf[v] \notin begun \cup vanished =>
         claim[claimOf[v]] = "Bound"
    /\ dying \subseteq begun
    /\ \A c \in dying : claim[c] # "none"

\* A volume whose delete has not passed its claim, or never saw it.
StillToDelete(u) ==
    /\ volume[u] # "none" /\ u \notin erased \ blind
    /\ \A t \in Tenants : call[t] = "erase" /\ about[t] = u => u \in blind

\* A claim that nobody has deleted has such a volume: the last delete of a name comes
\* after the last creation, as a task that may create has not named its row yet.
ClaimsNeeded ==
    \A c \in ClaimNames : claim[c] # "none" /\ c \notin dying =>
        \E u \in VolumeIds : claimOf[u] = c /\ StillToDelete(u)

VolumeInv == VolumeTypeOK /\ VolumeSane /\ NamedIsBound /\ ClaimsNeeded

\* The first state: there is no volume.
LEMMA VolumeStart == VolumeInit => VolumeInv
BY VolumeAssumption DEF VolumeInit, VolumeInv, VolumeTypeOK, VolumeSane, NamedIsBound, ClaimsNeeded

\* A step that creates no claim, and passes no delete over one that stays.
LEMMA NeedsKept ==
    ASSUME ClaimsNeeded, UNCHANGED claimOf,
           \A c \in ClaimNames : claim'[c] # "none" /\ c \notin dying' => claim[c] # "none" /\ c \notin dying,
           \A u \in VolumeIds : StillToDelete(u) => StillToDelete(u)'
    PROVE  ClaimsNeeded'
BY DEF ClaimsNeeded

\* Every await of a request and of a background task keeps the types, the order of
\* a creation, and that what has a name is bound and what nobody deleted is needed.
LEMMA VolumeStep == VolumeInv /\ [VolumeNext]_volumevars => VolumeInv'
<1> SUFFICES ASSUME VolumeInv, [VolumeNext]_volumevars PROVE VolumeInv'
    OBVIOUS
<1> USE VolumeAssumption DEF VolumeInv, VolumeTypeOK, VolumeSane, NamedIsBound, volrows, volcalls, volclaims
<1>0. UNCHANGED claimOf
      BY DEF VolumeNext, volumevars
<1>1. ASSUME NEW t \in Tenants, CountVolumes(t) PROVE VolumeInv'
  <2>1. VolumeTypeOK' /\ VolumeSane' /\ NamedIsBound'
        BY <1>0, <1>1 DEF CountVolumes, CallTo
  <2>2. ClaimsNeeded'
        BY <1>0, <1>1, NeedsKept DEF CountVolumes, CallTo, StillToDelete
  <2> QED BY <2>1, <2>2
<1>2. ASSUME NEW t \in Tenants, InsertVolume(t) PROVE VolumeInv'
  <2>1. VolumeTypeOK' /\ VolumeSane' /\ NamedIsBound'
        BY <1>0, <1>2 DEF InsertVolume, CallTo
  <2>2. ClaimsNeeded'
        BY <1>0, <1>2, NeedsKept DEF InsertVolume, CallTo, StillToDelete
  <2> QED BY <2>1, <2>2
<1>3. ASSUME NEW t \in Tenants, NEW v \in VolumeIds, FindVolume(t, v) PROVE VolumeInv'
  <2>1. VolumeTypeOK' /\ VolumeSane' /\ NamedIsBound'
        BY <1>0, <1>3 DEF FindVolume, ActiveVolumes
  <2>2. ClaimsNeeded'
        BY <1>0, <1>3, NeedsKept DEF FindVolume, ActiveVolumes, StillToDelete
  <2> QED BY <2>1, <2>2
<1>4. ASSUME NEW t \in Tenants, Deprovision(t) PROVE VolumeInv'
  <2> DEFINE c == claimOf[about[t]]
  <2>1. /\ c \in ClaimNames /\ about[t] \in named /\ begun' = begun \cup {c}
        /\ UNCHANGED <<volrows, vanished, maker, made, outages, blind>>
        BY <1>4 DEF Deprovision
  <2>2. \/ claim' = [claim EXCEPT ![c] = "none"] /\ dying' = dying \ {c}
        \/ claim[c] # "none" /\ dying' = dying \cup {c} /\ claim' = claim
        \/ claim' = claim /\ dying' = dying /\ CallEnds(t)
        BY <1>4 DEF Deprovision, DeleteClaim
  <2>3. \/ call' = [call EXCEPT ![t] = "erase"] /\ about' = about
        \/ CallEnds(t)
        BY <1>4 DEF Deprovision
  <2>4. VolumeTypeOK'
        BY <1>0, <2>1, <2>2, <2>3 DEF CallEnds
  <2>5. VolumeSane'
        BY <2>1, <2>3 DEF CallEnds
  <2>6. NamedIsBound'
        BY <1>0, <2>1, <2>2
  <2>7. ClaimsNeeded'
    <3>1. CASE CallEnds(t)
      <4>1. \A u \in VolumeIds : StillToDelete(u) => StillToDelete(u)'
            BY <2>1, <3>1 DEF CallEnds, StillToDelete
      <4> QED BY <1>0, <2>2, <3>1, <4>1, NeedsKept
    <3>2. CASE ~CallEnds(t)
      <4>1. \A d \in ClaimNames : claim'[d] # "none" /\ d \notin dying' =>
                d # c /\ claim[d] # "none" /\ d \notin dying
            BY <2>2, <3>2
      <4>2. \A u \in VolumeIds : claimOf[u] # c /\ StillToDelete(u) => StillToDelete(u)'
            BY <2>1, <2>3, <3>2 DEF StillToDelete
      <4> QED BY <1>0, <4>1, <4>2 DEF ClaimsNeeded
    <3> QED BY <3>1, <3>2
  <2> QED BY <2>4, <2>5, <2>6, <2>7
<1>5. ASSUME NEW t \in Tenants, EraseVolume(t) PROVE VolumeInv'
  <2>1. VolumeTypeOK' /\ VolumeSane' /\ NamedIsBound'
        BY <1>0, <1>5 DEF EraseVolume, CallEnds
  <2>2. ClaimsNeeded'
        BY <1>0, <1>5, NeedsKept DEF EraseVolume, CallEnds, StillToDelete
  <2> QED BY <2>1, <2>2
<1>6. ASSUME NEW v \in VolumeIds, MarkCreating(v) PROVE VolumeInv'
  <2>1. VolumeTypeOK' /\ VolumeSane' /\ NamedIsBound'
        BY <1>0, <1>6 DEF MarkCreating, MakerTo
  <2>2. ClaimsNeeded'
        BY <1>0, <1>6, NeedsKept DEF MarkCreating, MakerTo, StillToDelete
  <2> QED BY <2>1, <2>2
<1>7. ASSUME NEW v \in VolumeIds, CreateClaim(v) PROVE VolumeInv'
  <2>1. /\ maker[v] = "create" /\ UNCHANGED <<volrows, dying, vanished, volcalls, outages, blind, begun>>
        /\ claim' = claim \/ claim' = [claim EXCEPT ![claimOf[v]] = IF @ = "none" THEN "Pending" ELSE @]
        BY <1>7 DEF CreateClaim, MakerTo
  <2>2. \A c \in ClaimNames : claim'[c] = claim[c] \/ (c = claimOf[v] /\ claim[c] = "none" /\ claim'[c] = "Pending")
        BY <2>1
  <2>3. VolumeTypeOK' /\ VolumeSane'
        BY <1>0, <1>7, <2>1 DEF CreateClaim, MakerTo
  <2>4. NamedIsBound'
    <3>1. \A u \in VolumeIds : made'[u] = "ready" => made[u] = "ready"
          BY <1>7 DEF CreateClaim, MakerTo
    <3> QED BY <1>0, <2>1, <2>2, <3>1
  <2>5. StillToDelete(v)
        BY <2>1 DEF StillToDelete
  <2>6. \A u \in VolumeIds : StillToDelete(u) => StillToDelete(u)'
        BY <2>1 DEF StillToDelete
  <2> QED BY <1>0, <2>1, <2>2, <2>3, <2>4, <2>5, <2>6 DEF ClaimsNeeded
<1>8. ASSUME NEW c \in ClaimNames, ClaimBinds(c) \/ ClaimLost(c) \/ ClaimGoes(c) PROVE VolumeInv'
  <2>1. VolumeTypeOK' /\ VolumeSane'
        BY <1>0, <1>8 DEF ClaimBinds, ClaimLost, ClaimGoes
  <2>2. NamedIsBound'
        BY <1>0, <1>8 DEF ClaimBinds, ClaimLost, ClaimGoes
  <2>3. ClaimsNeeded'
        BY <1>0, <1>8, NeedsKept DEF ClaimBinds, ClaimLost, ClaimGoes, StillToDelete
  <2> QED BY <2>1, <2>2, <2>3
<1>9. ASSUME NEW v \in VolumeIds, WaitForClaim(v) PROVE VolumeInv'
  <2>1. VolumeTypeOK' /\ VolumeSane' /\ NamedIsBound'
        BY <1>0, <1>9 DEF WaitForClaim, MakerTo
  <2>2. ClaimsNeeded'
        BY <1>0, <1>9, NeedsKept DEF WaitForClaim, MakerTo, StillToDelete
  <2> QED BY <2>1, <2>2
<1>10. ASSUME NEW v \in VolumeIds, MarkVolume(v) \/ MarkVolumeRaises(v) \/ MarkVolumeFailed(v)
       PROVE  VolumeInv'
  <2>1. VolumeTypeOK' /\ VolumeSane' /\ NamedIsBound'
        BY <1>0, <1>10 DEF MarkVolume, MarkVolumeRaises, MarkVolumeFailed, MakerTo
  <2>2. UNCHANGED <<volclaims, volcalls, erased, blind>> /\ volume'[v] # "none"
        /\ \A u \in VolumeIds \ {v} : volume'[u] = volume[u]
        BY <1>10 DEF MarkVolume, MarkVolumeRaises, MarkVolumeFailed, MakerTo
  <2>3. ClaimsNeeded'
        BY <1>0, <2>2, NeedsKept DEF StillToDelete
  <2> QED BY <2>1, <2>3
<1>11. CASE VolumesStop
  <2>1. VolumeTypeOK' /\ VolumeSane' /\ NamedIsBound'
        BY <1>0, <1>11 DEF VolumesStop
  <2>2. ClaimsNeeded'
        BY <1>0, <1>11, NeedsKept DEF VolumesStop, StillToDelete
  <2> QED BY <2>1, <2>2
<1>12. CASE UNCHANGED volumevars
       BY <1>12 DEF volumevars, ClaimsNeeded, StillToDelete
<1> QED BY <1>1, <1>2, <1>3, <1>4, <1>5, <1>6, <1>7, <1>8, <1>9, <1>10, <1>11, <1>12 DEF VolumeNext

\* The callers that have counted and not inserted.
CountedVolume == {t \in Tenants : call[t] = "insert"}
VolumesBounded ==
    Cardinality(ActiveVolumes) + Cardinality(CountedVolume) < MaxVolumes + Cardinality(Tenants)

\* These sets are finite.
LEMMA VolumesFinite ==
    /\ IsFiniteSet(ActiveVolumes) /\ IsFiniteSet(CountedVolume)
    /\ MaxVolumes + Cardinality(Tenants) \in Nat
<1>1. ActiveVolumes \subseteq VolumeIds /\ CountedVolume \subseteq Tenants
      BY DEF ActiveVolumes, CountedVolume
<1> QED BY <1>1, FS_Subset, FS_CardinalityType, VolumeAssumption

\* The cap holds up to the other callers: only an insert adds a row, and it gives up
\* what it had counted for.
LEMMA VolumesStep ==
    ASSUME VolumeInv, [VolumeNext]_volumevars, VolumesBounded
    PROVE  VolumesBounded'
<1> USE DEF VolumeInv, VolumeTypeOK, volrows, volcalls
<1>1. ASSUME NEW t \in Tenants, CountVolumes(t) PROVE VolumesBounded'
  <2>1. ActiveVolumes' = ActiveVolumes /\ CountedVolume' \subseteq Tenants
        BY <1>1 DEF CountVolumes, ActiveVolumes, CountedVolume
  <2>2. Cardinality(ActiveVolumes) < MaxVolumes
        BY <1>1 DEF CountVolumes
  <2> QED BY <2>1, <2>2, VolumesFinite, VolumeAssumption, Room DEF VolumesBounded
<1>2. ASSUME NEW t \in Tenants, InsertVolume(t) PROVE VolumesBounded'
  <2>1. PICK v \in VolumeIds : volume' = [volume EXCEPT ![v] = "queued"]
        BY <1>2 DEF InsertVolume
  <2>2. ActiveVolumes' \subseteq ActiveVolumes \cup {v}
        BY <1>2, <2>1 DEF InsertVolume, ActiveVolumes
  <2>3. t \in CountedVolume /\ CountedVolume' \subseteq CountedVolume \ {t}
        BY <1>2 DEF InsertVolume, CallTo, CountedVolume
  <2> QED BY <2>2, <2>3, VolumesFinite, Exchanged DEF VolumesBounded
<1>3. ASSUME ActiveVolumes' \subseteq ActiveVolumes, CountedVolume' \subseteq CountedVolume
      PROVE  VolumesBounded'
      BY <1>3, VolumesFinite, Fewer DEF VolumesBounded
<1>4. ASSUME NEW t \in Tenants, Deprovision(t) \/ EraseVolume(t) \/ \E v \in VolumeIds : FindVolume(t, v)
      PROVE  VolumesBounded'
  <2>1. ActiveVolumes' \subseteq ActiveVolumes
        BY <1>4 DEF Deprovision, EraseVolume, FindVolume, ActiveVolumes
  <2>2. CountedVolume' \subseteq CountedVolume
        BY <1>4 DEF Deprovision, EraseVolume, FindVolume, CallEnds, CountedVolume
  <2> QED BY <1>3, <2>1, <2>2
<1>5. ASSUME NEW v \in VolumeIds,
             \/ MarkCreating(v) \/ CreateClaim(v) \/ WaitForClaim(v)
             \/ MarkVolume(v) \/ MarkVolumeRaises(v) \/ MarkVolumeFailed(v)
      PROVE  VolumesBounded'
  <2>1. UNCHANGED <<erased, call>>
        BY <1>5 DEF MarkCreating, CreateClaim, WaitForClaim, MarkVolume, MarkVolumeRaises,
           MarkVolumeFailed
  <2>2. UNCHANGED volume \/ (maker[v] # "none" /\ \A u \in VolumeIds \ {v} : volume'[u] = volume[u])
        BY <1>5 DEF MarkCreating, CreateClaim, WaitForClaim, MarkVolume, MarkVolumeRaises,
           MarkVolumeFailed, MakerTo
  <2>3. ActiveVolumes' \subseteq ActiveVolumes
        BY <2>1, <2>2 DEF VolumeSane, ActiveVolumes
  <2> QED BY <1>3, <2>1, <2>3 DEF CountedVolume
<1>6. ASSUME \/ \E c \in ClaimNames : ClaimBinds(c) \/ ClaimLost(c) \/ ClaimGoes(c)
             \/ VolumesStop \/ UNCHANGED volumevars
      PROVE  VolumesBounded'
  <2>1. ActiveVolumes' \subseteq ActiveVolumes /\ CountedVolume' \subseteq CountedVolume
        BY <1>6 DEF ClaimBinds, ClaimLost, ClaimGoes, VolumesStop, volumevars, ActiveVolumes, CountedVolume
  <2> QED BY <1>3, <2>1
<1> QED BY <1>1, <1>2, <1>4, <1>5, <1>6 DEF VolumeNext

\* The rows, the claims, the tasks and the requests have their types in every
\* reachable state (SandboxVolume, VolumeOutcome).
THEOREM VolumesTyped == VolumeSpec => []VolumeTypeOK
BY VolumeStart, VolumeStep, PTL DEF VolumeSpec, VolumeInv

\* A sandbox is given only volumes whose claim is bound, up to a delete of that claim
\* that has begun and to a volume that vanished under a bound claim (_resolve_volume_mounts_or_404, _wait_for_pvc_bound, mark_ready).
THEOREM MountsAreBound == VolumeSpec => []MountableIsBound
<1>1. VolumeInv => MountableIsBound
      BY DEF VolumeInv, VolumeTypeOK, NamedIsBound, MountableIsBound, Mountable
<1> QED BY <1>1, VolumeStart, VolumeStep, PTL DEF VolumeSpec

\* When every row of a claim's name is deleted, by requests that saw that name, the
\* claim is gone or goes with its pod, whatever failed or died on the way
\* (delete_volume, deprovision).
THEOREM ClaimsGoFirst == VolumeSpec => []ErasedTakesClaim
<1>1. VolumeInv => ErasedTakesClaim
      BY DEF VolumeInv, VolumeTypeOK, ClaimsNeeded, StillToDelete, ErasedTakesClaim
<1> QED BY <1>1, VolumeStart, VolumeStep, PTL DEF VolumeSpec

\* What the row of a volume says of its claim is so, whatever fails, dies or runs at
\* the same time (create_volume, delete_volume, _resolve_volume_mounts_or_404).
THEOREM RowsTellClaims == VolumeSpec => []RowTellsClaim
<1>1. MountableIsBound /\ ErasedTakesClaim => RowTellsClaim
      BY DEF RowTellsClaim
<1> QED BY <1>1, MountsAreBound, ClaimsGoFirst, PTL

\* However many callers count at the same time, the cap on volumes is not exceeded by
\* more than the other callers (create_volume, create_sandbox_volume).
THEOREM VolumesCappedNearly == VolumeSpec => []VolumesOvershoot
<1>1. VolumeInit => VolumesBounded
  <2> SUFFICES ASSUME VolumeInit PROVE VolumesBounded
      OBVIOUS
  <2>1. ActiveVolumes = {} /\ CountedVolume \subseteq Tenants
        BY DEF VolumeInit, ActiveVolumes, CountedVolume
  <2>2. Cardinality({}) < MaxVolumes
        BY FS_EmptySet, VolumeAssumption
  <2> QED BY <2>1, <2>2, VolumesFinite, VolumeAssumption, Room DEF VolumesBounded
<1>2. VolumesBounded => VolumesOvershoot
      BY VolumesFinite, FS_CardinalityType DEF VolumesBounded, VolumesOvershoot
<1> QED BY <1>1, <1>2, VolumesStep, VolumeStart, VolumeStep, PTL DEF VolumeSpec


-----------------------------------------------------------------------------
(* The token endpoint.                                                     *)

\* The grant of a request that will insert a token.
Issuing(q, g) == asking[q] = "issue" /\ GrantFor(q) = g

\* What a request presents was given out; it inserts for a token it revoked.
Presented == \A q \in Exchanges :
    /\ asking[q] \in {"account", "write", "issue"} => presents[q] \in Grants \cup Issued
    /\ asking[q] = "issue" /\ presents[q] \in RefreshTokens => presents[q] \in revoked
    /\ asking[q] = "family" => presents[q] \in Issued
    /\ locked[q] \cup pending[q] \subseteq Issued

\* A grant without its code consumed has come to nothing yet, and one whose
\* code is being exchanged has no token.
CodeFirst == \A g \in Grants :
    /\ code[g] # "consumed" =>
           /\ \A t \in RefreshTokens : issuedTo[t] # g
           /\ \A q \in Exchanges : ~Issuing(q, g)
    /\ \A q \in Exchanges :
           asking[q] = "issue" /\ presents[q] = g => \A t \in RefreshTokens : issuedTo[t] # g

\* A grant has one head: its live token, or the request about to insert one.
OneHead ==
    /\ OneLiveToken
    /\ \A g \in Grants : \A q, r \in Exchanges : Issuing(q, g) /\ Issuing(r, g) => q = r
    /\ \A q \in Exchanges : \A t \in Live : ~Issuing(q, issuedTo[t])

\* A token goes back to the ones in its line, each rotated to the next of it.
Lines == \A u \in Issued :
    /\ u \in line[u] /\ line[u] \subseteq Issued
    /\ \A x \in line[u] \ {u} : \E c \in line[u] : rotatedFrom[c] = x

\* All tokens of a grant are in the line of its head.
InHeadsLine ==
    /\ \A t \in Issued : \A u \in Live : issuedTo[t] = issuedTo[u] => t \in line[u]
    /\ \A t \in Issued : \A q \in Exchanges :
           Issuing(q, issuedTo[t]) => presents[q] \in Issued /\ t \in line[presents[q]]

\* A walk that has passed no rotation has the head locked, or before it.
WalkReaches == \A q \in Exchanges : asking[q] = "family" /\ q \notin passedBy =>
    /\ \A u \in Live : issuedTo[u] = GrantFor(q) =>
           u \in locked[q] \/ pending[q] \cap line[u] # {}
    /\ \A r \in Exchanges : Issuing(r, GrantFor(q)) =>
           presents[r] \in Issued /\ pending[q] \cap line[presents[r]] # {}

\* A chain that was ended has no head, and its code is consumed.
Ended == \A g \in ended :
    /\ code[g] = "consumed"
    /\ \A t \in Live : issuedTo[t] # g
    /\ \A q \in Exchanges : ~Issuing(q, g)

OAuthInv ==
    /\ OAuthTypeOK /\ Presented /\ CodeFirst /\ OneHead
    /\ Lines /\ InHeadsLine /\ WalkReaches /\ Ended

\* The first state: nothing was allowed.
LEMMA OAuthStart == OAuthInit => OAuthInv
BY OAuthAssumption DEF OAuthInit, OAuthInv, OAuthTypeOK, Presented, CodeFirst, OneHead,
   OneLiveToken, Lines, InHeadsLine, WalkReaches, Ended, Issuing, Issued, Live

\* A step that changes neither the codes, the rows nor who inserts or walks
\* keeps the invariant: allowing, expiry, and the checks before a write.
LEMMA QuietKeeps ==
    ASSUME OAuthInv, OAuthTypeOK', Presented',
           \A g \in Grants : code[g] = "consumed" <=> code'[g] = "consumed",
           UNCHANGED <<tokenrows, revoked, walkvars>>,
           \A q \in Exchanges : asking'[q] \in {"issue", "family"} =>
               asking'[q] = asking[q] /\ presents'[q] = presents[q]
    PROVE  OAuthInv'
<1>1. /\ Issued' = Issued /\ Live' = Live
  BY DEF Issued, Live, tokenrows
<1>2. \A q \in Exchanges : asking'[q] \in {"issue", "family"} =>
          asking[q] = asking'[q] /\ presents'[q] = presents[q] /\ GrantFor(q)' = GrantFor(q)
  BY DEF GrantFor, tokenrows
<1>3. \A q \in Exchanges : \A g : Issuing(q, g)' => Issuing(q, g)
  BY <1>2 DEF Issuing
<1>4. CodeFirst'
  BY <1>2, <1>3 DEF OAuthInv, CodeFirst, tokenrows
<1>5. OneHead'
  BY <1>1, <1>3 DEF OAuthInv, OneHead, OneLiveToken, tokenrows
<1>6. Lines'
  BY <1>1 DEF OAuthInv, Lines, tokenrows
<1>7. InHeadsLine'
  BY <1>1, <1>2, <1>3 DEF OAuthInv, InHeadsLine, Issuing, tokenrows
<1>8. WalkReaches'
  BY <1>1, <1>2, <1>3 DEF OAuthInv, WalkReaches, Issuing, tokenrows, walkvars
<1>9. Ended'
  <2> SUFFICES ASSUME NEW g \in ended'
               PROVE  /\ code'[g] = "consumed"
                      /\ \A t \in Live' : issuedTo'[t] # g
                      /\ \A q \in Exchanges : ~Issuing(q, g)'
    BY DEF Ended
  <2>1. g \in ended /\ g \in Grants
    BY DEF OAuthInv, OAuthTypeOK, walkvars
  <2> QED BY <2>1, <1>1, <1>3 DEF OAuthInv, Ended, tokenrows
<1> QED
  BY <1>4, <1>5, <1>6, <1>7, <1>8, <1>9 DEF OAuthInv

\* Allowing, presenting a code and the check of the account are quiet.
LEMMA QuietSteps ==
    ASSUME OAuthInv,
           \/ \E g \in Grants : AuthorizeDecide(g) \/ CodeExpires(g)
           \/ \E q \in Exchanges : \E g \in Grants : PresentCode(q, g)
           \/ \E q \in Exchanges : CheckAccount(q)
           \/ UNCHANGED oauthvars
    PROVE  OAuthInv'
<1>1. OAuthTypeOK /\ Presented
  BY DEF OAuthInv
<1>2. ASSUME NEW g \in Grants, AuthorizeDecide(g) \/ CodeExpires(g) PROVE OAuthInv'
  BY <1>1, <1>2, QuietKeeps DEF AuthorizeDecide, CodeExpires, OAuthTypeOK, Presented,
     Issued, tokenrows, walkvars
<1>3. ASSUME NEW q \in Exchanges, NEW g \in Grants, PresentCode(q, g) PROVE OAuthInv'
  BY <1>1, <1>3, QuietKeeps DEF PresentCode, ExchangeTo, OAuthTypeOK, Presented,
     Issued, tokenrows, walkvars
<1>4. ASSUME NEW q \in Exchanges, CheckAccount(q) PROVE OAuthInv'
  BY <1>1, <1>4, QuietKeeps DEF CheckAccount, ExchangeTo, OAuthTypeOK, Presented,
     Issued, tokenrows, walkvars
<1>5. CASE UNCHANGED oauthvars
  BY <1>1, <1>5, QuietKeeps DEF oauthvars, OAuthTypeOK, Presented, Issued, tokenrows, walkvars
<1> QED
  BY <1>2, <1>3, <1>4, <1>5

\* A request that dies only leaves: the tokens it locked are live again, but
\* nobody else counted on them.
LEMMA DeathKeeps ==
    ASSUME OAuthInv, NEW q \in Exchanges, ExchangeDies(q)
    PROVE  OAuthInv'
<1> USE DEF ExchangeDies, ExchangeTo, tokenrows
<1>1. OAuthTypeOK' /\ Presented'
  BY DEF OAuthInv, OAuthTypeOK, Presented, Issued
<1>2. /\ Issued' = Issued /\ Live' = Live
  BY DEF Issued, Live
<1>3. \A r \in Exchanges : asking'[r] \in {"issue", "family"} => r # q /\ asking[r] = asking'[r]
  BY DEF OAuthInv, OAuthTypeOK
<1>4. \A r \in Exchanges : GrantFor(r)' = GrantFor(r)
  BY DEF GrantFor
<1>5. \A r \in Exchanges : \A g : Issuing(r, g)' => Issuing(r, g)
  BY <1>3, <1>4 DEF Issuing
<1>6. CodeFirst'
  BY <1>3, <1>5 DEF OAuthInv, CodeFirst
<1>7. OneHead'
  BY <1>2, <1>5 DEF OAuthInv, OneHead, OneLiveToken
<1>8. Lines'
  BY <1>2 DEF OAuthInv, Lines
<1>9. InHeadsLine'
  BY <1>2, <1>5 DEF OAuthInv, InHeadsLine
<1>10. \A r \in Exchanges \ {q} : pending'[r] = pending[r] /\ locked'[r] = locked[r]
  BY DEF OAuthInv, OAuthTypeOK
<1>11. WalkReaches'
  BY <1>2, <1>3, <1>4, <1>5, <1>10 DEF OAuthInv, WalkReaches
<1>12. Ended'
  BY <1>2, <1>5 DEF OAuthInv, Ended
<1> QED
  BY <1>1, <1>6, <1>7, <1>8, <1>9, <1>11, <1>12 DEF OAuthInv

\* The code is consumed by one request, which becomes the head of the grant.
LEMMA ConsumeKeeps ==
    ASSUME OAuthInv, NEW q \in Exchanges, ConsumeCode(q)
    PROVE  OAuthInv'
<1> DEFINE g0 == presents[q]
<1>1. /\ g0 \in Grants /\ asking[q] = "write"
      /\ UNCHANGED <<tokenrows, revoked, presents, walkvars>>
  BY DEF ConsumeCode
<1>2. CASE code[g0] = "consumed"
  <2>1. asking' = [asking EXCEPT ![q] = "end"] /\ code' = code
    BY <1>2 DEF ConsumeCode, ExchangeTo
  <2>2. OAuthTypeOK' /\ Presented'
    BY <1>1, <2>1 DEF OAuthInv, OAuthTypeOK, Presented, Issued, tokenrows, walkvars
  <2>3. \A r \in Exchanges : asking'[r] \in {"issue", "family"} =>
            asking'[r] = asking[r] /\ presents'[r] = presents[r]
    BY <1>1, <2>1 DEF OAuthInv, OAuthTypeOK
  <2> HIDE DEF g0
  <2> QED
    BY <1>1, <2>1, <2>2, <2>3, QuietKeeps
<1>3. CASE code[g0] # "consumed"
  <2>1. /\ asking' = [asking EXCEPT ![q] = "issue"]
        /\ code' = [code EXCEPT ![g0] = "consumed"]
    BY <1>3 DEF ConsumeCode, ExchangeTo
  <2>2. OAuthTypeOK' /\ Presented'
    BY <1>1, <2>1, OAuthAssumption
       DEF OAuthInv, OAuthTypeOK, Presented, Issued, tokenrows, walkvars
  <2>3. /\ Issued' = Issued /\ Live' = Live
    BY <1>1 DEF Issued, Live, tokenrows
  <2>4. \A r \in Exchanges : GrantFor(r)' = GrantFor(r)
    BY <1>1 DEF GrantFor, tokenrows
  <2>5. \A r \in Exchanges : \A g : Issuing(r, g)' <=> Issuing(r, g) \/ (r = q /\ g = g0)
    BY <1>1, <2>1, <2>4 DEF Issuing, GrantFor, OAuthInv, OAuthTypeOK
  <2>6. /\ \A t \in RefreshTokens : issuedTo[t] # g0
        /\ \A r \in Exchanges : ~Issuing(r, g0)
    BY <1>1, <1>3 DEF OAuthInv, CodeFirst
  <2>7. \A r \in Exchanges : asking'[r] = "family" => asking[r] = "family"
    BY <2>1 DEF OAuthInv, OAuthTypeOK
  <2>8. CodeFirst'
    <3>1. \A g \in Grants : code'[g] # "consumed" => code[g] # "consumed" /\ g # g0
      BY <2>1 DEF OAuthInv, OAuthTypeOK
    <3>2. \A r \in Exchanges : asking'[r] = "issue" => asking[r] = "issue" \/ r = q
      BY <2>1 DEF OAuthInv, OAuthTypeOK
    <3> QED
      BY <1>1, <2>5, <2>6, <3>1, <3>2 DEF OAuthInv, CodeFirst, tokenrows
  <2>9. OneHead'
    <3>1. \A t \in Live : issuedTo[t] # g0
      BY <2>6 DEF Live, Issued
    <3> HIDE DEF g0
    <3> QED
      BY <1>1, <2>3, <2>5, <2>6, <3>1 DEF OAuthInv, OneHead, OneLiveToken, tokenrows
  <2>10. Lines'
    BY <1>1, <2>3 DEF OAuthInv, Lines, tokenrows
  <2>11. InHeadsLine'
    <3>1. \A t \in Issued : issuedTo[t] # g0
      BY <2>6 DEF Issued
    <3> HIDE DEF g0
    <3> QED
      BY <1>1, <2>3, <2>5, <3>1 DEF OAuthInv, InHeadsLine, tokenrows
  <2>12. WalkReaches'
    <3>1. \A r \in Exchanges : asking[r] = "family" => GrantFor(r) # g0
      BY <2>6, OAuthAssumption DEF OAuthInv, Presented, GrantFor, Issued
    <3> HIDE DEF g0
    <3> QED
      BY <1>1, <2>3, <2>4, <2>5, <2>7, <3>1 DEF OAuthInv, WalkReaches, tokenrows, walkvars
  <2>13. Ended'
    <3>1. g0 \notin ended
      BY <1>3 DEF OAuthInv, Ended
    <3>2. \A g \in ended : code'[g] = code[g]
      BY <2>1, <3>1 DEF OAuthInv, OAuthTypeOK
    <3> HIDE DEF g0
    <3> QED
      BY <1>1, <2>3, <2>5, <3>1, <3>2 DEF OAuthInv, Ended, tokenrows, walkvars
  <2> QED
    BY <2>2, <2>8, <2>9, <2>10, <2>11, <2>12, <2>13 DEF OAuthInv
<1> QED
  BY <1>2, <1>3

\* A walk starts at the presented token, which is in the line of the head:
\* a revoked token cannot be the head itself.
LEMMA WalkStarts ==
    ASSUME OAuthInv, NEW q \in Exchanges, NEW t \in Issued,
           asking[q] \in {"new", "write"}, StartsWalk(q, t),
           presents' = [presents EXCEPT ![q] = t],
           UNCHANGED <<code, tokenrows, revoked>>
    PROVE  OAuthInv'
<1>1. /\ asking' = [asking EXCEPT ![q] = "family"]
      /\ pending' = [pending EXCEPT ![q] = {t}]
      /\ UNCHANGED <<locked, passedBy, ended>>
  BY DEF StartsWalk, ExchangeTo
<1>2. OAuthTypeOK' /\ Presented'
  BY <1>1 DEF OAuthInv, OAuthTypeOK, Presented, Issued, tokenrows
<1>3. /\ Issued' = Issued /\ Live' = Live
  BY DEF Issued, Live, tokenrows
<1>4. \A r \in Exchanges \ {q} : /\ asking'[r] = asking[r] /\ GrantFor(r)' = GrantFor(r)
                                 /\ presents'[r] = presents[r]
                                 /\ pending'[r] = pending[r]
  BY <1>1 DEF OAuthInv, OAuthTypeOK, GrantFor, tokenrows
<1>5. /\ asking'[q] = "family" /\ pending'[q] = {t} /\ presents'[q] = t
      /\ GrantFor(q)' = issuedTo[t]
  BY <1>1, OAuthAssumption DEF OAuthInv, OAuthTypeOK, GrantFor, Issued, tokenrows
<1>6. \A r \in Exchanges : \A g : Issuing(r, g)' => r # q /\ Issuing(r, g)
  BY <1>4, <1>5 DEF Issuing
<1>7. CodeFirst'
  BY <1>4, <1>5, <1>6 DEF OAuthInv, CodeFirst, tokenrows
<1>8. OneHead'
  BY <1>3, <1>6 DEF OAuthInv, OneHead, OneLiveToken, tokenrows
<1>9. Lines'
  BY <1>3 DEF OAuthInv, Lines, tokenrows
<1>10. InHeadsLine'
  BY <1>3, <1>4, <1>6 DEF OAuthInv, InHeadsLine, tokenrows
<1>11. WalkReaches'
  <2> SUFFICES ASSUME NEW r \in Exchanges, asking'[r] = "family", r \notin passedBy
               PROVE  /\ \A u \in Live : issuedTo[u] = GrantFor(r)' =>
                             u \in locked[r] \/ pending'[r] \cap line[u] # {}
                      /\ \A x \in Exchanges : Issuing(x, GrantFor(r))' =>
                             presents'[x] \in Issued /\ pending'[r] \cap line[presents'[x]] # {}
    BY <1>1, <1>3 DEF WalkReaches, tokenrows
  <2>1. CASE r = q
    <3>1. \A u \in Live : issuedTo[u] = issuedTo[t] => t \in line[u]
      BY DEF OAuthInv, InHeadsLine
    <3>2. \A x \in Exchanges : Issuing(x, issuedTo[t]) =>
              presents[x] \in Issued /\ t \in line[presents[x]]
      BY DEF OAuthInv, InHeadsLine
    <3> QED
      BY <2>1, <1>4, <1>5, <1>6, <3>1, <3>2
  <2>2. CASE r # q
    BY <2>2, <1>4, <1>6 DEF OAuthInv, WalkReaches
  <2> QED
    BY <2>1, <2>2
<1>12. Ended'
  BY <1>1, <1>3, <1>6 DEF OAuthInv, Ended, tokenrows
<1> QED
  BY <1>2, <1>7, <1>8, <1>9, <1>10, <1>11, <1>12 DEF OAuthInv

\* A token is presented; a revoked one starts a walk.
LEMMA PresentKeeps ==
    ASSUME OAuthInv, NEW q \in Exchanges, NEW t \in RefreshTokens, PresentToken(q, t)
    PROVE  OAuthInv'
<1>1. /\ t \in Issued /\ asking[q] = "new"
      /\ presents' = [presents EXCEPT ![q] = t]
      /\ UNCHANGED <<code, tokenrows, revoked>>
  BY DEF PresentToken
<1>2. CASE t \in revoked
  BY <1>1, <1>2, WalkStarts DEF PresentToken
<1>3. CASE t \notin revoked
  <2>1. asking' = [asking EXCEPT ![q] = "account"] /\ UNCHANGED walkvars
    BY <1>3 DEF PresentToken, ExchangeTo
  <2>2. OAuthTypeOK' /\ Presented'
    BY <1>1, <2>1 DEF OAuthInv, OAuthTypeOK, Presented, Issued, tokenrows, walkvars
  <2>3. \A r \in Exchanges : asking'[r] \in {"issue", "family"} =>
            asking'[r] = asking[r] /\ presents'[r] = presents[r]
    BY <1>1, <2>1 DEF OAuthInv, OAuthTypeOK
  <2> QED
    BY <1>1, <2>1, <2>2, <2>3, QuietKeeps
<1> QED
  BY <1>2, <1>3

\* The head passes from a token to the request that revokes it. A walk that
\* has the token locked makes it wait, so the token's line was before it.
LEMMA RevokeKeeps ==
    ASSUME OAuthInv, NEW q \in Exchanges, RevokePresented(q)
    PROVE  OAuthInv'
<1> DEFINE x == presents[q]
           g0 == issuedTo[presents[q]]
<1>1. /\ asking[q] = "write" /\ x \in Issued /\ g0 \in Grants
      /\ \A w \in Exchanges : x \notin locked[w]
      /\ UNCHANGED <<code, tokenrows, presents>>
  BY OAuthAssumption DEF RevokePresented, OAuthInv, OAuthTypeOK, Presented, Issued
<1>2. CASE x \in revoked
  <2>1. presents' = [presents EXCEPT ![q] = x]
    BY <1>1 DEF OAuthInv, OAuthTypeOK
  <2> QED
    BY <1>1, <1>2, <2>1, WalkStarts DEF RevokePresented
<1>3. CASE x \notin revoked
  <2>1. /\ asking' = [asking EXCEPT ![q] = "issue"] /\ UNCHANGED walkvars
        /\ revoked' = revoked \cup {x}
    BY <1>3 DEF RevokePresented, ExchangeTo
  <2>2. OAuthTypeOK' /\ Presented'
    BY <1>1, <2>1 DEF OAuthInv, OAuthTypeOK, Presented, Issued, tokenrows, walkvars
  <2>3. /\ Issued' = Issued /\ Live' = Live \ {x} /\ x \in Live
    BY <1>1, <1>3, <2>1 DEF Issued, Live, tokenrows
  <2>4. \A r \in Exchanges : GrantFor(r)' = GrantFor(r)
    BY <1>1 DEF GrantFor, tokenrows
  <2>5. GrantFor(q) = g0
    BY <1>1, OAuthAssumption DEF GrantFor, Issued
  <2>6. \A r \in Exchanges : \A g : Issuing(r, g)' <=> Issuing(r, g) \/ (r = q /\ g = g0)
    BY <1>1, <2>1, <2>4, <2>5 DEF Issuing, OAuthInv, OAuthTypeOK
  <2>7. /\ \A r \in Exchanges : ~Issuing(r, g0)
        /\ \A u \in Live : issuedTo[u] = g0 => u = x
    BY <2>3 DEF OAuthInv, OneHead, OneLiveToken
  <2>8. \A r \in Exchanges : asking'[r] = "family" => asking[r] = "family" /\ r # q
    BY <2>1 DEF OAuthInv, OAuthTypeOK
  <2>9. \A r \in Exchanges : asking'[r] = "issue" => asking[r] = "issue" \/ r = q
    BY <2>1 DEF OAuthInv, OAuthTypeOK
  <2>10. CodeFirst'
    <3>1. code[g0] = "consumed" /\ x \notin Grants
      BY <1>1, OAuthAssumption DEF OAuthInv, CodeFirst, Issued
    <3> QED
      BY <1>1, <2>6, <2>9, <3>1 DEF OAuthInv, CodeFirst, tokenrows
  <2>11. OneHead'
    <3> HIDE DEF x, g0
    <3> QED
      BY <1>1, <2>3, <2>6, <2>7 DEF OAuthInv, OneHead, OneLiveToken, tokenrows
  <2>12. Lines'
    BY <1>1, <2>3 DEF OAuthInv, Lines, tokenrows
  <2>13. InHeadsLine'
    <3>1. \A t \in Issued : issuedTo[t] = g0 => t \in line[x]
      BY <2>3 DEF OAuthInv, InHeadsLine
    <3>2. \A t \in Issued : \A r \in Exchanges : Issuing(r, issuedTo[t])' =>
              presents[r] \in Issued /\ t \in line[presents[r]]
      BY <1>1, <2>6, <3>1 DEF OAuthInv, InHeadsLine, tokenrows
    <3> QED
      BY <1>1, <2>3, <3>2 DEF OAuthInv, InHeadsLine, tokenrows
  <2>14. WalkReaches'
    <3> SUFFICES ASSUME NEW r \in Exchanges, asking'[r] = "family", r \notin passedBy
                 PROVE  /\ \A u \in Live \ {x} : issuedTo[u] = GrantFor(r) =>
                               u \in locked[r] \/ pending[r] \cap line[u] # {}
                        /\ \A s \in Exchanges : Issuing(s, GrantFor(r))' =>
                               presents[s] \in Issued /\ pending[r] \cap line[presents[s]] # {}
      BY <1>1, <2>1, <2>3, <2>4 DEF WalkReaches, tokenrows, walkvars
    <3>1. /\ \A u \in Live : issuedTo[u] = GrantFor(r) =>
                 u \in locked[r] \/ pending[r] \cap line[u] # {}
          /\ \A s \in Exchanges : Issuing(s, GrantFor(r)) =>
                 presents[s] \in Issued /\ pending[r] \cap line[presents[s]] # {}
      BY <2>8 DEF OAuthInv, WalkReaches
    <3>2. GrantFor(r) = g0 => pending[r] \cap line[x] # {}
      BY <3>1, <2>3, <1>1
    <3> QED
      BY <1>1, <2>4, <2>6, <3>1, <3>2
  <2>15. Ended'
    <3>1. g0 \notin ended
      BY <2>3 DEF OAuthInv, Ended
    <3> HIDE DEF x, g0
    <3> QED
      BY <1>1, <2>1, <2>3, <2>6, <3>1 DEF OAuthInv, Ended, tokenrows, walkvars
  <2> QED
    BY <2>2, <2>10, <2>11, <2>12, <2>13, <2>14, <2>15 DEF OAuthInv
<1> QED
  BY <1>2, <1>3

\* The new token takes over from the request that inserts it.
LEMMA IssueKeeps ==
    ASSUME OAuthInv, NEW q \in Exchanges, NEW t \in RefreshTokens, IssueToken(q, t)
    PROVE  OAuthInv'
<1> DEFINE x == presents[q]
<1>0. PICK g0 : g0 = GrantFor(q)
  OBVIOUS
<1>1. /\ asking[q] = "issue" /\ t \notin Issued /\ issuedTo[t] = NoToken
      /\ asking' = [asking EXCEPT ![q] = "end"]
      /\ issuedTo' = [issuedTo EXCEPT ![t] = g0]
      /\ UNCHANGED <<code, revoked, presents, walkvars>>
  BY <1>0 DEF IssueToken, ExchangeTo, Issued
<1>2. \/ x \in RefreshTokens /\ x \in Issued /\ x \in revoked /\ g0 = issuedTo[x]
      \/ x \in Grants /\ x \notin RefreshTokens /\ g0 = x
  BY <1>0, <1>1, OAuthAssumption DEF OAuthInv, OAuthTypeOK, Presented, GrantFor, Issued
<1>3. g0 \in Grants /\ g0 # NoToken /\ Issuing(q, g0)
  BY <1>0, <1>1, <1>2, OAuthAssumption DEF OAuthInv, OAuthTypeOK, Issued, Issuing
<1>4. x \in RefreshTokens =>
          /\ rotatedFrom' = [rotatedFrom EXCEPT ![t] = x]
          /\ line' = [line EXCEPT ![t] = line[x] \cup {t}]
  BY DEF IssueToken
<1>5. x \notin RefreshTokens => line' = [line EXCEPT ![t] = {t}] /\ rotatedFrom' = rotatedFrom
  BY DEF IssueToken
<1>6. OAuthTypeOK'
  BY <1>1, <1>2, <1>3, <1>4, <1>5 DEF OAuthInv, OAuthTypeOK, Issued, walkvars
<1>7. /\ Issued' = Issued \cup {t} /\ Live' = Live \cup {t} /\ t \notin Live
      /\ issuedTo'[t] = g0
      /\ \A u \in RefreshTokens \ {t} : /\ issuedTo'[u] = issuedTo[u] /\ line'[u] = line[u]
                                        /\ rotatedFrom'[u] = rotatedFrom[u]
  BY <1>1, <1>3, <1>4, <1>5 DEF OAuthInv, OAuthTypeOK, Issued, Live
<1>8. /\ t \in line'[t]
      /\ x \in RefreshTokens => line'[t] = line[x] \cup {t} /\ rotatedFrom'[t] = x
      /\ x \notin RefreshTokens => line'[t] = {t}
  BY <1>4, <1>5 DEF OAuthInv, OAuthTypeOK
<1>9. \A r \in Exchanges : asking'[r] \in {"account", "write", "issue", "family"} =>
          /\ r # q /\ asking'[r] = asking[r]
          /\ presents[r] \in Grants \cup Issued /\ GrantFor(r)' = GrantFor(r)
  BY <1>1, <1>7, OAuthAssumption DEF OAuthInv, OAuthTypeOK, Presented, GrantFor, Issued
<1>10. \A r \in Exchanges : \A g : Issuing(r, g)' => r # q /\ Issuing(r, g)
  BY <1>9 DEF Issuing
<1>11. /\ \A r \in Exchanges : ~Issuing(r, g0)'
       /\ \A u \in Live : issuedTo[u] # g0
  BY <1>3, <1>10 DEF OAuthInv, OneHead
<1>12. /\ \A u \in Issued : issuedTo[u] = g0 => x \in RefreshTokens /\ u \in line[x]
       /\ code[g0] = "consumed"
  <2>1. code[g0] = "consumed"
    BY <1>3 DEF OAuthInv, CodeFirst
  <2>2. CASE x \in RefreshTokens
    BY <1>3, <2>1, <2>2 DEF OAuthInv, InHeadsLine
  <2>3. CASE x \notin RefreshTokens
    BY <1>1, <1>2, <2>1, <2>3 DEF OAuthInv, CodeFirst, Issued
  <2> QED
    BY <2>2, <2>3
<1>13. Presented'
  BY <1>1, <1>7, <1>9 DEF OAuthInv, Presented, walkvars
<1>14. CodeFirst'
  <2>1. \A r \in Exchanges : asking'[r] = "issue" => presents'[r] # g0
    <3>1. \A r \in Exchanges : asking'[r] = "issue" /\ presents[r] = g0 => Issuing(r, g0)
      BY <1>3, <1>9 DEF Issuing, GrantFor
    <3> QED
      BY <1>1, <1>3, <1>9, <3>1 DEF OAuthInv, OneHead
  <2> HIDE DEF x
  <2> QED
    BY <1>1, <1>7, <1>9, <1>10, <1>12, <2>1 DEF OAuthInv, CodeFirst
<1>15. OneHead'
  <2> HIDE DEF x
  <2>1. OneLiveToken'
    BY <1>7, <1>11 DEF OAuthInv, OneHead, OneLiveToken, Live, Issued
  <2>2. \A r \in Exchanges : \A u \in Live \cup {t} : ~Issuing(r, issuedTo[u])'
    BY <1>7, <1>10, <1>11 DEF OAuthInv, OneHead, Live, Issued
  <2> QED
    BY <1>7, <1>10, <2>1, <2>2 DEF OAuthInv, OneHead
<1>16. Lines'
  <2> SUFFICES ASSUME NEW u \in Issued \cup {t}
               PROVE  /\ u \in line'[u] /\ line'[u] \subseteq Issued \cup {t}
                      /\ \A y \in line'[u] \ {u} : \E c \in line'[u] : rotatedFrom'[c] = y
    BY <1>7 DEF Lines
  <2>1. CASE u # t
    BY <1>1, <1>7, <2>1 DEF OAuthInv, Lines, Issued
  <2>2. CASE u = t /\ x \notin RefreshTokens
    BY <1>8, <2>2
  <2>3. CASE u = t /\ x \in RefreshTokens
    <3>1. x \in Issued
      BY <1>2, <2>3, OAuthAssumption
    <3>2. /\ line[x] \subseteq Issued /\ x \in line[x]
          /\ \A y \in line[x] \ {x} : \E c \in line[x] : rotatedFrom[c] = y
      BY <3>1 DEF OAuthInv, Lines
    <3>3. \A c \in line[x] : rotatedFrom'[c] = rotatedFrom[c]
      BY <1>1, <1>7, <3>2 DEF Issued
    <3> HIDE DEF x
    <3> QED
      BY <1>8, <2>3, <3>2, <3>3
  <2> QED
    BY <2>1, <2>2, <2>3
<1>17. InHeadsLine'
  <2>1. \A u \in Issued : \A v \in Live : issuedTo[u] = issuedTo[v] => u \in line[v]
    BY DEF OAuthInv, InHeadsLine
  <2>2. \A u \in Issued : \A r \in Exchanges : Issuing(r, issuedTo[u]) =>
            presents[r] \in Issued /\ u \in line[presents[r]]
    BY DEF OAuthInv, InHeadsLine
  <2>3. /\ Live \subseteq Issued /\ Issued \subseteq RefreshTokens \ {t}
        /\ \A u \in Issued : issuedTo'[u] = issuedTo[u] /\ line'[u] = line[u]
    BY <1>1, <1>7 DEF Live, Issued
  <2> HIDE DEF x
  <2>4. \A u \in Issued \cup {t} : \A v \in Live \cup {t} :
            issuedTo'[u] = issuedTo'[v] => u \in line'[v]
    BY <1>7, <1>8, <1>11, <1>12, <2>1, <2>3
  <2>5. \A u \in Issued \cup {t} : \A r \in Exchanges : Issuing(r, issuedTo[u])' =>
            presents[r] \in Issued \cup {t} /\ u \in line'[presents[r]]
    BY <1>7, <1>10, <1>11, <2>2, <2>3
  <2> QED
    BY <1>1, <1>7, <2>4, <2>5 DEF InHeadsLine
<1>18. WalkReaches'
  <2> SUFFICES ASSUME NEW r \in Exchanges, asking[r] = "family", r \notin passedBy
               PROVE  /\ \A u \in Live \cup {t} : issuedTo'[u] = GrantFor(r) =>
                             u \in locked[r] \/ pending[r] \cap line'[u] # {}
                      /\ \A s \in Exchanges : Issuing(s, GrantFor(r))' =>
                             presents[s] \in Issued \cup {t} /\ pending[r] \cap line'[presents[s]] # {}
    BY <1>1, <1>7, <1>9 DEF WalkReaches, walkvars
  <2>1. /\ \A u \in Live : issuedTo[u] = GrantFor(r) =>
               u \in locked[r] \/ pending[r] \cap line[u] # {}
        /\ \A s \in Exchanges : Issuing(s, GrantFor(r)) =>
               presents[s] \in Issued /\ pending[r] \cap line[presents[s]] # {}
    BY DEF OAuthInv, WalkReaches
  <2>2. asking'[r] = "family" /\ GrantFor(r)' = GrantFor(r)
    BY <1>1, <1>9 DEF OAuthInv, OAuthTypeOK
  <2>3. /\ Live \subseteq Issued /\ Issued \subseteq RefreshTokens \ {t}
    BY <1>1 DEF Live, Issued
  <2>4. GrantFor(r) = g0 => x \in RefreshTokens /\ pending[r] \cap line[x] # {}
    BY <1>3, <2>1 DEF Issued
  <2> HIDE DEF x
  <2>5. GrantFor(r) = g0 => pending[r] \cap line'[t] # {}
    BY <1>8, <2>4
  <2> QED
    BY <1>7, <1>10, <2>1, <2>2, <2>3, <2>5
<1>19. Ended'
  <2>1. g0 \notin ended
    BY <1>3 DEF OAuthInv, Ended
  <2> HIDE DEF x
  <2> QED
    BY <1>1, <1>7, <1>10, <2>1 DEF OAuthInv, Ended, Live, Issued, walkvars
<1> QED
  BY <1>6, <1>13, <1>14, <1>15, <1>16, <1>17, <1>18, <1>19 DEF OAuthInv

\* A step of the walk goes on to the next of every line that it was before.
LEMMA VisitKeeps ==
    ASSUME OAuthInv, NEW q \in Exchanges, NEW t \in RefreshTokens, VisitToken(q, t)
    PROVE  OAuthInv'
<1>1. /\ asking[q] = "family" /\ t \in pending[q]
      /\ pending' = [pending EXCEPT ![q] = (@ \ {t}) \cup {c \in Issued : rotatedFrom[c] = t}]
      /\ locked' = [locked EXCEPT ![q] = @ \cup ({t} \ revoked)]
      /\ passedBy' = IF Rotating(t) THEN passedBy \cup {q} ELSE passedBy
      /\ UNCHANGED <<code, tokenrows, revoked, asking, presents, ended>>
  BY DEF VisitToken
<1>2. OAuthTypeOK' /\ Presented'
  BY <1>1 DEF OAuthInv, OAuthTypeOK, Presented, Issued, tokenrows
<1>3. /\ Issued' = Issued /\ Live' = Live /\ passedBy \subseteq passedBy'
  BY <1>1 DEF Issued, Live, tokenrows
<1>4. \A r \in Exchanges : \A g : Issuing(r, g)' <=> Issuing(r, g)
  BY <1>1 DEF Issuing, GrantFor, tokenrows
<1>5. \A r \in Exchanges : GrantFor(r)' = GrantFor(r)
  BY <1>1 DEF GrantFor, tokenrows
<1>6. CodeFirst' /\ OneHead' /\ Lines' /\ InHeadsLine'
  BY <1>1, <1>3, <1>4 DEF OAuthInv, CodeFirst, OneHead, OneLiveToken, Lines, InHeadsLine,
     tokenrows
<1>7. WalkReaches'
  <2> SUFFICES ASSUME NEW r \in Exchanges, asking[r] = "family", r \notin passedBy'
               PROVE  /\ \A u \in Live : issuedTo[u] = GrantFor(r) =>
                             u \in locked'[r] \/ pending'[r] \cap line[u] # {}
                      /\ \A s \in Exchanges : Issuing(s, GrantFor(r)) =>
                             presents[s] \in Issued /\ pending'[r] \cap line[presents[s]] # {}
    BY <1>1, <1>3, <1>4, <1>5 DEF WalkReaches, tokenrows
  <2>1. /\ \A u \in Live : issuedTo[u] = GrantFor(r) =>
               u \in locked[r] \/ pending[r] \cap line[u] # {}
        /\ \A s \in Exchanges : Issuing(s, GrantFor(r)) =>
               presents[s] \in Issued /\ pending[r] \cap line[presents[s]] # {}
    BY <1>3 DEF OAuthInv, WalkReaches
  <2>2. CASE r # q
    BY <1>1, <2>1, <2>2 DEF OAuthInv, OAuthTypeOK
  <2>3. CASE r = q
    <3>1. /\ pending'[r] = (pending[r] \ {t}) \cup {c \in Issued : rotatedFrom[c] = t}
          /\ locked'[r] = locked[r] \cup ({t} \ revoked)
          /\ ~Rotating(t)
      BY <1>1, <2>3 DEF OAuthInv, OAuthTypeOK
    <3>2. \A u \in Issued : u # t /\ pending[r] \cap line[u] # {}
                                => pending'[r] \cap line[u] # {}
      BY <3>1 DEF OAuthInv, Lines
    <3>3. \A s \in Exchanges : asking[s] = "issue" => presents[s] # t
      BY <3>1 DEF Rotating
    <3>4. Live \subseteq Issued /\ (t \in Live => t \in locked'[r])
      BY <3>1 DEF Live
    <3>5. \A u \in Live : issuedTo[u] = GrantFor(r) =>
              u \in locked'[r] \/ pending'[r] \cap line[u] # {}
      BY <2>1, <3>1, <3>2, <3>4
    <3>6. \A s \in Exchanges : Issuing(s, GrantFor(r)) =>
              presents[s] \in Issued /\ pending'[r] \cap line[presents[s]] # {}
      BY <2>1, <3>2, <3>3 DEF Issuing
    <3> QED
      BY <3>5, <3>6
  <2> QED
    BY <2>2, <2>3
<1>8. Ended'
  BY <1>1, <1>3, <1>4 DEF OAuthInv, Ended, tokenrows
<1> QED
  BY <1>2, <1>6, <1>7, <1>8 DEF OAuthInv

\* At the commit nothing is pending: the head, if there is one, was locked.
LEMMA CommitKeeps ==
    ASSUME OAuthInv, NEW q \in Exchanges, CommitFamily(q)
    PROVE  OAuthInv'
<1>1. /\ asking[q] = "family" /\ pending[q] = {}
      /\ revoked' = revoked \cup locked[q]
      /\ locked' = [locked EXCEPT ![q] = {}]
      /\ ended' = IF q \in passedBy THEN ended ELSE ended \cup {GrantFor(q)}
      /\ asking' = [asking EXCEPT ![q] = "end"]
      /\ UNCHANGED <<code, tokenrows, presents, pending, passedBy>>
  BY DEF CommitFamily, ExchangeTo
<1>2. presents[q] \in Issued /\ GrantFor(q) = issuedTo[presents[q]] /\ GrantFor(q) \in Grants
  BY <1>1, OAuthAssumption DEF OAuthInv, OAuthTypeOK, Presented, GrantFor, Issued
<1>3. locked[q] \subseteq Issued
  BY DEF OAuthInv, Presented
<1>4. OAuthTypeOK' /\ Presented'
  BY <1>1, <1>2, <1>3 DEF OAuthInv, OAuthTypeOK, Presented, Issued, tokenrows
<1>5. Issued' = Issued /\ Live' = Live \ locked[q]
  BY <1>1 DEF Issued, Live, tokenrows
<1>6. \A r \in Exchanges : asking'[r] \in {"issue", "family"} => r # q /\ asking'[r] = asking[r]
  BY <1>1 DEF OAuthInv, OAuthTypeOK
<1>7. \A r \in Exchanges : GrantFor(r)' = GrantFor(r)
  BY <1>1 DEF GrantFor, tokenrows
<1>8. \A r \in Exchanges : \A g : Issuing(r, g)' => Issuing(r, g)
  BY <1>6, <1>7 DEF Issuing
<1>9. CodeFirst' /\ OneHead' /\ Lines' /\ InHeadsLine'
  BY <1>1, <1>5, <1>6, <1>8 DEF OAuthInv, CodeFirst, OneHead, OneLiveToken, Lines,
     InHeadsLine, tokenrows
<1>10. WalkReaches'
  <2>1. \A r \in Exchanges \ {q} : locked'[r] = locked[r]
    BY <1>1 DEF OAuthInv, OAuthTypeOK
  <2> QED
    BY <1>1, <1>5, <1>6, <1>7, <1>8, <2>1 DEF OAuthInv, WalkReaches, tokenrows
<1>11. Ended'
  <2> SUFFICES ASSUME NEW g \in ended'
               PROVE  /\ code[g] = "consumed"
                      /\ \A t \in Live \ locked[q] : issuedTo[t] # g
                      /\ \A r \in Exchanges : ~Issuing(r, g)
    BY <1>1, <1>5, <1>8 DEF Ended, tokenrows
  <2>1. CASE g \in ended
    BY <2>1 DEF OAuthInv, Ended
  <2>2. CASE g \notin ended
    <3>1. g = GrantFor(q) /\ q \notin passedBy
      BY <1>1, <2>2
    <3>2. code[g] = "consumed"
      BY <1>2, <3>1 DEF OAuthInv, CodeFirst, Issued
    <3> QED
      BY <1>1, <3>1, <3>2 DEF OAuthInv, WalkReaches
  <2> QED
    BY <2>1, <2>2
<1> QED
  BY <1>4, <1>9, <1>10, <1>11 DEF OAuthInv

\* Every step of the token endpoint keeps the invariant.
LEMMA OAuthStep == OAuthInv /\ [OAuthNext]_oauthvars => OAuthInv'
BY QuietSteps, DeathKeeps, ConsumeKeeps, PresentKeeps, RevokeKeeps, IssueKeeps, VisitKeeps,
   CommitKeeps DEF OAuthNext

\* For any number of grants, tokens and requests, a grant has one token that
\* works, though each statement of the token endpoint is a step of its own.
THEOREM OneTokenPerGrant == OAuthSpec => []OneLiveToken
<1>1. OAuthInv => OneLiveToken
  BY DEF OAuthInv, OneHead
<1> QED
  BY OAuthStart, OAuthStep, <1>1, PTL DEF OAuthSpec

\* A walk that passed no rotation under way ends its chain: what it locked and
\* what is left to visit reach the head throughout, and nothing is left.
THEOREM WalksEndChains == OAuthSpec => []ReuseEndsChain
<1>1. OAuthInv => ReuseEndsChain
  BY DEF OAuthInv, OAuthTypeOK, Ended, ReuseEndsChain
<1> QED
  BY OAuthStart, OAuthStep, <1>1, PTL DEF OAuthSpec

\* A consent never has two tokens that work, and none after a walk that passed
\* no rotation (the authorization_code and the refresh_token grant of token).
THEOREM ConsentsHaveOneChain == OAuthSpec => []OneChainPerConsent
<1>1. OneLiveToken /\ ReuseEndsChain => OneChainPerConsent
  BY DEF OneChainPerConsent
<1> QED
  BY <1>1, OneTokenPerGrant, WalksEndChains, PTL

\* The variables of the token endpoint keep their types.
THEOREM OAuthTyped == OAuthSpec => []OAuthTypeOK
<1>1. OAuthInv => OAuthTypeOK
  BY DEF OAuthInv
<1> QED
  BY OAuthStart, OAuthStep, <1>1, PTL DEF OAuthSpec
=============================================================================
