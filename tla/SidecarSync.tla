---------------------------- MODULE SidecarSync ----------------------------
(***************************************************************************)
(* The sidecar's copy of the session's files in object storage             *)
(* (sidecar_sync.py).  Files are written by the file routes, which track   *)
(* them, and by commands, which do not.  A flush, periodic or asked for by *)
(* a route, holds the flush lock: it looks for files it has not seen,      *)
(* then takes each candidate: stat, wait, stat again, upload, stat again,  *)
(* remember.  Writers do not wait for it.  /configure takes the same lock  *)
(* to wipe the disk for the next session and then fetches that session's   *)
(* files.                                                                  *)
(*                                                                         *)
(* A version stands for a file's content and its signature, the size and   *)
(* modification time os.stat gives; its session is the one that wrote it.  *)
(***************************************************************************)
EXTENDS Naturals, FiniteSets

CONSTANTS
    Paths,          \* files under the synced roots
    Flushers,       \* the periodic loop, and the routes that flush
    Asked,          \* the flushers that name the files they want (present_files)
    MaxWrites,      \* versions ever written
    SyncSessions,   \* the sessions this pod serves, each with its storage_prefix
    MaxConfigures,  \* calls of /configure after the first
    UploadFails,    \* an upload may fail
    CopiesBack      \* a copy may bring back an older version with its signature

NoFile == 0
NoFlusher == "-"

ASSUME SyncAssumption ==
    /\ MaxWrites \in Nat /\ MaxConfigures \in Nat
    /\ Asked \subseteq Flushers
    /\ UploadFails \in BOOLEAN /\ CopiesBack \in BOOLEAN
    /\ SyncSessions # {} /\ NoFlusher \notin Flushers

VARIABLES
    serving,        \* the session whose storage_prefix is current
    disk,           \* the version of each file; NoFile if there is none
    pending,        \* pending_sync_files
    synced,         \* synced_file_signatures
    objects,         \* the objects of each session's prefix
    flushLock,      \* the flusher that holds the flush lock
    flush,          \* the flushers
    scanned,        \* what the scan of the flush in progress has seen
    handover,       \* where /configure is
    configures,     \* how many there were
    writes,         \* versions written so far, each with its session
    fetching        \* the files /configure has yet to mark as synced

syncvars ==
    <<serving, disk, pending, synced, objects, flushLock, flush, scanned, handover,
      configures, writes, fetching>>

Versions == 1..MaxWrites

IdleFlush == [at |-> "idle", todo |-> {}, file |-> NoFlusher, sig |-> NoFile, read |-> NoFile, of |-> NoFlusher]

SyncTypeOK ==
    /\ serving \in SyncSessions
    /\ disk \in [Paths -> Versions \cup {NoFile}]
    /\ pending \subseteq Paths /\ fetching \subseteq Paths
    /\ synced \in [Paths -> Versions \cup {NoFile}]
    /\ objects \in [SyncSessions -> [Paths -> Versions \cup {NoFile}]]
    /\ flushLock \in Flushers \cup {NoFlusher}
    /\ flush \in [Flushers ->
            [at : {"idle", "scan", "take", "stable", "upload", "stored", "again"},
             todo : SUBSET Paths, file : Paths \cup {NoFlusher},
             sig : Versions \cup {NoFile}, read : Versions \cup {NoFile},
             of : SyncSessions \cup {NoFlusher}]]
    /\ scanned \in [Paths -> Versions \cup {NoFile}]
    /\ handover \in {"no", "killed", "fetch"} /\ configures \in 0..MaxConfigures
    /\ \E n \in 0..MaxWrites : writes \in [1..n -> SyncSessions]

SyncInit ==
    /\ serving = (CHOOSE s \in SyncSessions : TRUE) /\ configures = 0 /\ handover = "no" /\ writes = << >> /\ fetching = {}
    /\ disk = [p \in Paths |-> NoFile] /\ synced = disk /\ scanned = disk
    /\ pending = {}
    /\ objects = [s \in SyncSessions |-> [p \in Paths |-> NoFile]]
    /\ flushLock = NoFlusher
    /\ flush = [f \in Flushers |-> IdleFlush]

-----------------------------------------------------------------------------
(* Writers.                                                                *)

diskvars == <<disk, writes>>
statevars == <<pending, synced>>
flushvars == <<flushLock, flush, scanned>>
handvars == <<serving, handover, configures, fetching>>

\* A new version of a file, by a route that tracks it or by a command.
Write(p, tracked) ==
    /\ handover = "no" /\ Cardinality(DOMAIN writes) < MaxWrites
    /\ LET v == Cardinality(DOMAIN writes) + 1
       IN /\ disk' = [disk EXCEPT ![p] = v]
          /\ writes' = [w \in 1..v |-> IF w = v THEN serving ELSE writes[w]]
    /\ pending' = IF tracked THEN pending \cup {p} ELSE pending
    /\ UNCHANGED <<synced, objects, flushvars, handvars>>

\* A command removes a file.
Remove(p) ==
    /\ handover = "no" /\ disk[p] # NoFile
    /\ disk' = [disk EXCEPT ![p] = NoFile]
    /\ UNCHANGED <<writes, statevars, objects, flushvars, handvars>>

\* present_files copies a file with its modification time (shutil.copy2) over
\* one of the same name: an older version comes back as it was.
CopyBack(p) ==
    /\ CopiesBack /\ handover = "no"
    /\ \E v \in DOMAIN writes :
           writes[v] = serving /\ disk' = [disk EXCEPT ![p] = v]
    /\ UNCHANGED <<writes, statevars, objects, flushvars, handvars>>

-----------------------------------------------------------------------------
(* A flush.                                                                *)

\* flush_outputs: the lock and the prefix.
TakeFlushLock(f, at, todo) ==
    /\ flush[f].at = "idle" /\ flushLock = NoFlusher
    /\ flushLock' = f
    /\ flush' = [flush EXCEPT ![f] =
            [IdleFlush EXCEPT !.at = at, !.todo = todo, !.of = serving]]
    /\ UNCHANGED <<diskvars, synced, objects, handvars>>

\* The periodic loop flushes what is pending.
FlushPending(f) ==
    /\ f \notin Asked /\ TakeFlushLock(f, "take", pending)
    /\ UNCHANGED <<scanned, pending>>

\* Every fourth time, and when /flush asks, the disk is scanned first.
FlushAll(f) ==
    /\ f \notin Asked /\ TakeFlushLock(f, "scan", {})
    /\ scanned' = disk
    /\ UNCHANGED pending

\* present_files asks for the files it presents.
FlushRequested(f, p) ==
    /\ f \in Asked /\ TakeFlushLock(f, "take", {p})
    /\ pending' = pending \cup {p}
    /\ UNCHANGED scanned

\* _discover_untracked_sync_files, after its scan: queues what is new or
\* changed, forgets what is gone.
Discover(f) ==
    /\ flush[f].at = "scan"
    /\ LET seen == {p \in Paths : scanned[p] # NoFile}
           new == {p \in seen : synced[p] # scanned[p]}
       IN /\ pending' = pending \cup new
          /\ synced' = [p \in Paths |-> IF p \in seen THEN synced[p] ELSE NoFile]
          /\ flush' = [flush EXCEPT ![f].at = "take", ![f].todo = pending \cup new]
    /\ scanned' = [p \in Paths |-> NoFile]
    /\ UNCHANGED <<diskvars, objects, flushLock, handvars>>

Settled(f) == flush' = [flush EXCEPT ![f].at = "take", ![f].file = NoFlusher,
                                     ![f].sig = NoFile, ![f].read = NoFile]

\* _sync_candidate_paths: the next candidate.
TakeCandidate(f, p) ==
    /\ flush[f].at = "take" /\ p \in flush[f].todo
    /\ \/ /\ disk[p] = NoFile
          /\ pending' = pending \ {p} /\ synced' = [synced EXCEPT ![p] = NoFile]
          /\ flush' = [flush EXCEPT ![f].todo = @ \ {p}]
       \/ /\ disk[p] # NoFile /\ synced[p] = disk[p]
          /\ pending' = pending \ {p} /\ UNCHANGED synced
          /\ flush' = [flush EXCEPT ![f].todo = @ \ {p}]
       \/ /\ disk[p] # NoFile /\ synced[p] # disk[p]
          /\ flush' = [flush EXCEPT ![f].at = "stable", ![f].todo = @ \ {p},
                                    ![f].file = p, ![f].sig = disk[p]]
          /\ UNCHANGED statevars
    /\ UNCHANGED <<diskvars, objects, flushLock, scanned, handvars>>

\* _wait_for_stable_signature: a file that changes meanwhile stays pending.
WaitForStable(f) ==
    /\ flush[f].at = "stable"
    /\ LET p == flush[f].file
       IN IF disk[p] = flush[f].sig
          THEN flush' = [flush EXCEPT ![f].at = "upload"] /\ UNCHANGED pending
          ELSE Settled(f) /\ pending' = pending \cup {p}
    /\ UNCHANGED <<diskvars, synced, objects, flushLock, scanned, handvars>>

\* The upload reads the file, and fails or not.
Upload(f) ==
    /\ flush[f].at = "upload"
    /\ LET p == flush[f].file
       IN \/ /\ disk[p] # NoFile
             /\ flush' = [flush EXCEPT ![f].at = "stored", ![f].read = disk[p]]
             /\ UNCHANGED pending
          \/ /\ UploadFails \/ disk[p] = NoFile
             /\ Settled(f) /\ pending' = pending \cup {p}
    /\ UNCHANGED <<diskvars, synced, objects, flushLock, scanned, handvars>>

\* The object is replaced.
StoreObject(f) ==
    /\ flush[f].at = "stored"
    /\ objects' = [objects EXCEPT ![flush[f].of][flush[f].file] = flush[f].read]
    /\ flush' = [flush EXCEPT ![f].at = "again"]
    /\ UNCHANGED <<diskvars, statevars, flushLock, scanned, handvars>>

RememberUnchecked(f) ==
    /\ flush[f].at = "again"
    /\ LET p == flush[f].file
       IN /\ pending' = pending \ {p}
          /\ synced' = [synced EXCEPT ![p] = disk[p]]
    /\ Settled(f)
    /\ UNCHANGED <<diskvars, objects, flushLock, scanned, handvars>>

\* The signature after the upload: the file is synced if it is the same.
Remember(f) ==
    /\ flush[f].at = "again"
    /\ LET p == flush[f].file
       IN \/ /\ disk[p] = NoFile
             /\ pending' = pending \ {p} /\ synced' = [synced EXCEPT ![p] = NoFile]
          \/ /\ disk[p] # NoFile /\ disk[p] # flush[f].sig
             /\ pending' = pending \cup {p} /\ UNCHANGED synced
          \/ /\ disk[p] # NoFile /\ disk[p] = flush[f].sig
             /\ pending' = pending \ {p} /\ synced' = [synced EXCEPT ![p] = disk[p]]
    /\ Settled(f)
    /\ UNCHANGED <<diskvars, objects, flushLock, scanned, handvars>>

FlushEnds(f) ==
    /\ flush[f].at = "take" /\ flush[f].todo = {}
    /\ flush' = [flush EXCEPT ![f] = IdleFlush]
    /\ flushLock' = NoFlusher
    /\ UNCHANGED <<diskvars, statevars, objects, scanned, handvars>>

-----------------------------------------------------------------------------
(* /configure, for the next session of the pod, or the same one again.     *)

\* What the session left running is killed first (module SidecarSession).
KillWriters ==
    /\ handover = "no" /\ configures < MaxConfigures
    /\ handover' = "killed" /\ configures' = configures + 1
    /\ UNCHANGED <<serving, fetching, diskvars, statevars, objects, flushvars>>

\* _clear_directory_contents, _clear_tmp_session_data.
Cleared == [p \in Paths |-> NoFile]

\* list_objects.
Listed(s) == {p \in Paths : objects[s][p] # NoFile}

\* The wipe, the sync state and the new prefix, under the flush lock.
Wipe(s) ==
    /\ handover = "killed" /\ flushLock = NoFlusher
    /\ disk' = Cleared
    /\ pending' = {} /\ synced' = Cleared
    /\ serving' = s
    /\ fetching' = Listed(s) /\ handover' = "fetch"
    /\ UNCHANGED <<configures, writes, objects, flushvars>>

\* _prefetch_namespace_from_prefix: a file is downloaded and marked as synced;
\* a download that fails leaves nothing.
Prefetch(p) ==
    /\ handover = "fetch" /\ p \in fetching
    /\ fetching' = fetching \ {p}
    /\ \/ /\ disk' = [disk EXCEPT ![p] = objects[serving][p]]
          /\ synced' = [synced EXCEPT ![p] = objects[serving][p]]
       \/ UNCHANGED <<disk, synced>>
    /\ UNCHANGED <<writes, pending, objects, flushvars, serving, handover, configures>>

ConfigureEnds ==
    /\ handover = "fetch" /\ fetching = {}
    /\ handover' = "no"
    /\ UNCHANGED <<serving, configures, fetching, diskvars, statevars, objects, flushvars>>

SyncNext ==
    \/ \E p \in Paths :
           \/ \E tracked \in BOOLEAN : Write(p, tracked)
           \/ Remove(p)
           \/ CopyBack(p)
           \/ Prefetch(p)
    \/ \E f \in Flushers :
           \/ FlushPending(f)
           \/ FlushAll(f)
           \/ Discover(f)
           \/ \E p \in Paths : FlushRequested(f, p) \/ TakeCandidate(f, p)
           \/ WaitForStable(f)
           \/ Upload(f)
           \/ StoreObject(f)
           \/ Remember(f)
           \/ FlushEnds(f)
    \/ KillWriters
    \/ \E s \in SyncSessions : Wipe(s)
    \/ ConfigureEnds

SyncSpec == SyncInit /\ [][SyncNext]_syncvars

-----------------------------------------------------------------------------
\* However writers, flushes and the change of session interleave: a file whose
\* signature is remembered as synced is in storage as it is, so no flush that
\* skips it loses a change; and a session's prefix only ever gets versions that
\* session wrote (_sync_candidate_paths, configure under the flush lock).
SyncedIsStored ==
    /\ \A p \in Paths :
           disk[p] # NoFile /\ synced[p] = disk[p] => objects[serving][p] = disk[p]
    /\ \A s \in SyncSessions, p \in Paths :
           objects[s][p] # NoFile => writes[objects[s][p]] = s
=============================================================================
