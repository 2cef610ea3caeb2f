------------------------------ MODULE Snapshots ------------------------------
(***************************************************************************)
(* Filesystem snapshots (control_plane/routers/snapshots.py, the           *)
(* SnapshotRepository and storage_client.py): a row in the database and    *)
(* objects in a bucket, written by requests that await between the two.    *)
(* Objects are copied and deleted one by one; there is no lock.            *)
(***************************************************************************)
EXTENDS Naturals, FiniteSets

CONSTANTS
    Users,           \* requests of one account, one at a time each
    Snaps,           \* snapshot ids, never used twice
    Seeds,           \* ids of sessions restored into
    Files,           \* the files of the source session
    MaxSnapshots,    \* BOXXKITE_MAX_SNAPSHOTS_PER_ACCOUNT
    DeletesPending,  \* a snapshot may be deleted while it is still being taken
    Denied,          \* the files whose objects the store may refuse to delete
    SnapFaults       \* the calls that may fail: flush, copy, create, delete; die

NoSnap == "no snapshot"
NoSeed == "no seed"

ASSUME SnapAssumption ==
    /\ MaxSnapshots \in Nat \ {0} /\ DeletesPending \in BOOLEAN
    /\ IsFiniteSet(Users) /\ IsFiniteSet(Snaps) /\ IsFiniteSet(Files)
    /\ NoSnap \notin Snaps /\ NoSeed \notin Seeds

VARIABLES
    snapshot,   \* snapshots.status
    deleted,    \* rows with a deleted_at
    stored,     \* the objects under snapshots/{account}/{snapshot}
    seeded,     \* the objects under sessions/{account}/{session} of a restore
    restored,   \* sessions created by a restore
    task,       \* the await a request is at
    snap,       \* the snapshot it is about
    seed,       \* the session it restores into
    left,       \* the keys it has still to copy
    touched,    \* history: snapshots a delete was begun on
    refused     \* history: objects for which such a delete answered an error

taskvars == <<task, snap, seed, left>>
snapvars == <<snapshot, deleted, stored, seeded, restored, taskvars, touched, refused>>

SnapTypeOK ==
    /\ snapshot \in [Snaps -> {"none", "pending", "completed", "failed"}]
    /\ deleted \subseteq Snaps /\ touched \subseteq Snaps
    /\ stored \in [Snaps -> SUBSET Files] /\ refused \in [Snaps -> SUBSET Files]
    /\ seeded \in [Seeds -> SUBSET Files]
    /\ restored \subseteq Seeds
    /\ task \in [Users -> {"idle", "insert", "flush", "copy", "list", "seed",
                           "session", "unseed", "erase", "mark"}]
    /\ snap \in [Users -> Snaps \cup {NoSnap}] /\ seed \in [Users -> Seeds \cup {NoSeed}]
    /\ left \in [Users -> SUBSET Files]

SnapInit ==
    /\ snapshot = [s \in Snaps |-> "none"]
    /\ deleted = {} /\ touched = {} /\ restored = {}
    /\ stored = [s \in Snaps |-> {}] /\ refused = [s \in Snaps |-> {}]
    /\ seeded = [i \in Seeds |-> {}]
    /\ task = [u \in Users |-> "idle"]
    /\ snap = [u \in Users |-> NoSnap] /\ seed = [u \in Users |-> NoSeed]
    /\ left = [u \in Users |-> {}]

ActiveSnaps == {s \in Snaps : snapshot[s] # "none"} \ deleted
TaskTo(u, from, to) == task[u] = from /\ task' = [task EXCEPT ![u] = to]
TaskDone(u) ==
    /\ task' = [task EXCEPT ![u] = "idle"]
    /\ snap' = [snap EXCEPT ![u] = NoSnap] /\ seed' = [seed EXCEPT ![u] = NoSeed]
    /\ left' = [left EXCEPT ![u] = {}]

-----------------------------------------------------------------------------
(* create_snapshot.                                                         *)

\* uuid4: an id nobody has had.  Which one makes no difference.
UnusedSnaps == {s \in Snaps : snapshot[s] = "none" /\ \A v \in Users : snap[v] # s}

\* The live session is found, the active rows are counted against the limit.
CountSnapshots(u) ==
    /\ TaskTo(u, "idle", "insert")
    /\ Cardinality(ActiveSnaps) < MaxSnapshots
    /\ UnusedSnaps # {}
    /\ snap' = [snap EXCEPT ![u] = CHOOSE s \in UnusedSnaps : TRUE]
    /\ UNCHANGED <<snapshot, deleted, stored, seeded, restored, seed, left, touched, refused>>

InsertSnapshot(u) ==
    /\ TaskTo(u, "insert", "flush")
    /\ snapshot' = [snapshot EXCEPT ![snap[u]] = "pending"]
    /\ UNCHANGED <<deleted, stored, seeded, restored, snap, seed, left, touched, refused>>

\* manager.snapshot: the sidecar's manifest names the keys to copy.
Flush(u) ==
    /\ TaskTo(u, "flush", "copy")
    /\ left' = [left EXCEPT ![u] = Files]
    /\ UNCHANGED <<snapshot, deleted, stored, seeded, restored, snap, seed, touched, refused>>

\* copy_prefix, one object.
CopyObject(u, f) ==
    /\ task[u] = "copy" /\ f \in left[u]
    /\ stored' = [stored EXCEPT ![snap[u]] = @ \cup {f}]
    /\ left' = [left EXCEPT ![u] = @ \ {f}]
    /\ UNCHANGED <<snapshot, deleted, seeded, restored, task, snap, seed, touched, refused>>

MarkCompleted(u) ==
    /\ task[u] = "copy" /\ left[u] = {}
    /\ snapshot' = [snapshot EXCEPT ![snap[u]] = "completed"]
    /\ TaskDone(u)
    /\ UNCHANGED <<deleted, stored, seeded, restored, touched, refused>>

\* Mutation: a copy that stops half way counts as one that ended.
MarkCompletedAnyway(u) ==
    /\ \/ task[u] = "flush" /\ "flush" \in SnapFaults
       \/ task[u] = "copy" /\ "copy" \in SnapFaults
    /\ snapshot' = [snapshot EXCEPT ![snap[u]] = "completed"]
    /\ TaskDone(u)
    /\ UNCHANGED <<deleted, stored, seeded, restored, touched, refused>>

\* The flush fails or has no prefix, or an object cannot be copied: what was
\* copied stays, under a row that still counts and can be deleted.
MarkFailed(u) ==
    /\ \/ task[u] = "flush" /\ "flush" \in SnapFaults
       \/ task[u] = "copy" /\ "copy" \in SnapFaults
    /\ snapshot' = [snapshot EXCEPT ![snap[u]] = "failed"]
    /\ TaskDone(u)
    /\ UNCHANGED <<deleted, stored, seeded, restored, touched, refused>>

-----------------------------------------------------------------------------
(* restore_snapshot.                                                        *)

StartRestore(u, s, i) ==
    /\ TaskTo(u, "idle", "list")
    /\ snapshot[s] = "completed" /\ s \notin deleted
    /\ i \notin restored /\ seeded[i] = {} /\ \A v \in Users : seed[v] # i
    /\ snap' = [snap EXCEPT ![u] = s] /\ seed' = [seed EXCEPT ![u] = i]
    /\ UNCHANGED <<snapshot, deleted, stored, seeded, restored, left, touched, refused>>

ListKeys(u) ==
    /\ TaskTo(u, "list", "seed")
    /\ left' = [left EXCEPT ![u] = stored[snap[u]]]
    /\ UNCHANGED <<snapshot, deleted, stored, seeded, restored, snap, seed, touched, refused>>

SeedObject(u, f) ==
    /\ task[u] = "seed" /\ f \in left[u] \cap stored[snap[u]]
    /\ seeded' = [seeded EXCEPT ![seed[u]] = @ \cup {f}]
    /\ left' = [left EXCEPT ![u] = @ \ {f}]
    /\ UNCHANGED <<snapshot, deleted, stored, restored, task, snap, seed, touched, refused>>

\* The object is gone or the copy fails: 502, and what was copied stays.
SeedFails(u) ==
    /\ task[u] = "seed"
    /\ left[u] \ stored[snap[u]] # {} \/ "copy" \in SnapFaults
    /\ TaskDone(u)
    /\ UNCHANGED <<snapshot, deleted, stored, seeded, restored, touched, refused>>

SeedEnds(u) ==
    /\ TaskTo(u, "seed", "session") /\ left[u] = {}
    /\ UNCHANGED <<snapshot, deleted, stored, seeded, restored, snap, seed, left, touched, refused>>

\* UsagePolicy.create_session, with the seed as the session's storage.
CreateRestored(u) ==
    /\ task[u] = "session"
    /\ restored' = restored \cup {seed[u]}
    /\ TaskDone(u)
    /\ UNCHANGED <<snapshot, deleted, stored, seeded, touched, refused>>

CreateRestoredFails(u) ==
    /\ TaskTo(u, "session", "unseed") /\ "create" \in SnapFaults
    /\ UNCHANGED <<snapshot, deleted, stored, seeded, restored, snap, seed, left, touched, refused>>

\* The seed is deleted again with delete_prefix; an error is logged.
Unseed(u) ==
    /\ task[u] = "unseed"
    /\ \E kept \in SUBSET seeded[seed[u]] :
        /\ kept \subseteq Denied \/ "delete" \in SnapFaults
        /\ seeded' = [seeded EXCEPT ![seed[u]] = kept]
    /\ TaskDone(u)
    /\ UNCHANGED <<snapshot, deleted, stored, restored, touched, refused>>

-----------------------------------------------------------------------------
(* delete_snapshot.                                                         *)

BeingTaken(s) == \E u \in Users : snap[u] = s /\ task[u] \in {"insert", "flush", "copy"}

StartDeleteSnapshot(u, s) ==
    /\ TaskTo(u, "idle", "erase")
    /\ s \in ActiveSnaps /\ (DeletesPending \/ ~BeingTaken(s))
    /\ snap' = [snap EXCEPT ![u] = s]
    /\ touched' = touched \cup {s}
    /\ UNCHANGED <<snapshot, deleted, stored, seeded, restored, seed, left, refused>>

\* Mutation: the row is marked before the objects are deleted.
EraseLater(u) ==
    /\ TaskTo(u, "erase", "mark")
    /\ UNCHANGED <<snapshot, deleted, stored, seeded, restored, snap, seed, left, touched, refused>>

\* delete_prefix deletes what it lists, or fails half way with a 502.  S3 answers
\* DeleteObjects with 200 and an error for each key it did not delete; nobody
\* looks at these, so the call went well.
Erase(u) ==
    /\ task[u] = "erase"
    /\ \E kept \in SUBSET stored[snap[u]] :
        /\ stored' = [stored EXCEPT ![snap[u]] = kept]
        /\ \/ /\ kept \subseteq Denied
              /\ refused' = [refused EXCEPT ![snap[u]] = kept]
              /\ TaskTo(u, "erase", "mark") /\ UNCHANGED <<snap, seed, left>>
           \/ /\ "delete" \in SnapFaults
              /\ TaskDone(u) /\ UNCHANGED refused
    /\ UNCHANGED <<snapshot, deleted, seeded, restored, touched>>

MarkDeleted(u) ==
    /\ task[u] = "mark"
    /\ deleted' = deleted \cup {snap[u]}
    /\ TaskDone(u)
    /\ UNCHANGED <<snapshot, stored, seeded, restored, touched, refused>>

\* The process dies under the request: rows and objects stay as they are.
SnapTaskDies(u) ==
    /\ task[u] # "idle" /\ "die" \in SnapFaults
    /\ TaskDone(u)
    /\ UNCHANGED <<snapshot, deleted, stored, seeded, restored, touched, refused>>

SnapNext == \E u \in Users :
    \/ CountSnapshots(u) \/ \E s \in Snaps : StartDeleteSnapshot(u, s)
    \/ \E s \in Snaps, i \in Seeds : StartRestore(u, s, i)
    \/ InsertSnapshot(u) \/ Flush(u) \/ MarkCompleted(u) \/ MarkFailed(u)
    \/ \E f \in Files : CopyObject(u, f) \/ SeedObject(u, f)
    \/ ListKeys(u) \/ SeedFails(u) \/ SeedEnds(u)
    \/ CreateRestored(u) \/ CreateRestoredFails(u) \/ Unseed(u)
    \/ Erase(u) \/ MarkDeleted(u) \/ SnapTaskDies(u)

SnapSpec == SnapInit /\ [][SnapNext]_snapvars

-----------------------------------------------------------------------------
\* A deleted snapshot leaves no copy of the filesystem behind, whatever failed
\* on the way and however often the delete was asked for, but for the objects
\* the store answered it would not delete.
DeletedLeavesNothing == \A s \in deleted : stored[s] \subseteq refused[s]

\* A session that a restore created has every file of the source, unless
\* somebody was deleting the snapshot: list_keys and the row are not read
\* together, and a delete that fails half way leaves the row completed.
RestoredWhole == \A u \in Users :
    task[u] = "session" => seeded[seed[u]] = Files \/ snap[u] \in touched
=============================================================================
