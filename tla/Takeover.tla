------------------------------ MODULE Takeover ------------------------------
(***************************************************************************)
(* Human takeover of one session's terminal (takeover_sandbox in           *)
(* control_plane/routers/sandboxes.py, pty_recording.py): WebSocket        *)
(* connections that type into one shell, a task per connection that logs   *)
(* what was typed every few seconds, and one recording that the            *)
(* connections of a process share.                                         *)
(***************************************************************************)
EXTENDS Naturals, FiniteSets

CONSTANTS
    Conns,        \* WebSocket connections
    ReadOnly,     \* those that came with a read-only token
    MaxTyped,     \* bound on what one connection types
    MaxLogged,    \* TAKEOVER_TYPED_SNAPSHOT_MAX_LENGTH
    TakeFaults    \* "log": a write to the audit log may fail; "upload"

NoBuffer == "no buffer"

ASSUME TakeAssumption ==
    /\ IsFiniteSet(Conns) /\ NoBuffer \notin Conns
    /\ ReadOnly \subseteq Conns /\ MaxTyped \in Nat /\ MaxLogged \in Nat

\* A PtyRecordingBuffer goes by the connection that made it.
Buffers == Conns

VARIABLES
    conn,      \* where takeover_sandbox is
    typed,     \* bytes of typed_buffer
    flushed,   \* flush_state["flushed_len"]
    writing,   \* bytes the periodic task is writing to the log
    logged,    \* history: bytes that are in the log
    lost,      \* history: bytes of a write that was cancelled or failed
    cut,       \* history: bytes of a write beyond the longest it logs
    stopped,   \* the connections whose periodic task ended by an error
    shared,    \* _takeover_recordings: the session's buffer and its ref_count
    mirror,    \* the buffer a connection holds
    uploaded   \* history: how often a buffer was finalized

keystrokes == <<typed, flushed, writing, logged, lost, cut, stopped>>
takevars == <<conn, keystrokes, shared, mirror, uploaded>>

TakeTypeOK ==
    /\ conn \in [Conns -> {"new", "open", "closing", "leaving", "last", "ending", "closed"}]
    /\ typed \in [Conns -> 0 .. MaxTyped] /\ flushed \in [Conns -> 0 .. MaxTyped]
    /\ writing \in [Conns -> 0 .. MaxTyped] /\ logged \in [Conns -> Nat]
    /\ lost \in [Conns -> Nat] /\ cut \in [Conns -> Nat]
    /\ stopped \subseteq Conns
    /\ shared \in [buffer : Buffers \cup {NoBuffer}, refs : 0 .. Cardinality(Conns)]
    /\ mirror \in [Conns -> Buffers \cup {NoBuffer}]
    /\ uploaded \in [Buffers -> Nat]

TakeInit ==
    /\ conn = [c \in Conns |-> "new"]
    /\ typed = [c \in Conns |-> 0] /\ flushed = [c \in Conns |-> 0]
    /\ writing = [c \in Conns |-> 0] /\ logged = [c \in Conns |-> 0]
    /\ lost = [c \in Conns |-> 0] /\ cut = [c \in Conns |-> 0]
    /\ stopped = {}
    /\ shared = [buffer |-> NoBuffer, refs |-> 0]
    /\ mirror = [c \in Conns |-> NoBuffer]
    /\ uploaded = [b \in Buffers |-> 0]

Attached == {c \in Conns : conn[c] \in {"open", "closing", "leaving"}}

\* Authenticated and accepted, takeover_start logged: the session's buffer is
\* taken, or a new one registered, without an await in between.
Attach(c) ==
    /\ conn[c] = "new"
    /\ shared' = [buffer |-> IF shared.buffer = NoBuffer THEN c ELSE shared.buffer,
                  refs |-> shared.refs + 1]
    /\ mirror' = [mirror EXCEPT ![c] = shared'.buffer]
    /\ conn' = [conn EXCEPT ![c] = "open"]
    /\ UNCHANGED <<keystrokes, uploaded>>

\* _relay_client_to_sidecar; what a read-only connection sends is dropped.
Type(c) ==
    /\ conn[c] = "open" /\ c \notin ReadOnly /\ typed[c] < MaxTyped
    /\ typed' = [typed EXCEPT ![c] = @ + 1]
    /\ UNCHANGED <<conn, flushed, writing, logged, lost, cut, stopped, shared, mirror, uploaded>>

\* Mutation: the mark is not moved, so the bytes are logged once more.
SnapshotUnmarked(c) ==
    /\ conn[c] = "open" /\ c \notin stopped /\ writing[c] = 0 /\ typed[c] > flushed[c]
    /\ writing' = [writing EXCEPT ![c] = typed[c] - flushed[c]]
    /\ UNCHANGED <<conn, typed, flushed, logged, lost, cut, stopped, shared, mirror, uploaded>>

\* _flush_typed_snapshot of the periodic task: the mark moves before the write.
Snapshot(c) ==
    /\ conn[c] = "open" /\ c \notin stopped /\ writing[c] = 0 /\ typed[c] > flushed[c]
    /\ flushed' = [flushed EXCEPT ![c] = typed[c]]
    /\ writing' = [writing EXCEPT ![c] = typed[c] - flushed[c]]
    /\ UNCHANGED <<conn, typed, logged, lost, cut, stopped, shared, mirror, uploaded>>

\* What the log takes of a chunk.
Fits(n) == IF n <= MaxLogged THEN n ELSE MaxLogged

\* The start of the chunk is in the log; the mark has passed all of it.
Logs(c, n) ==
    /\ logged' = [logged EXCEPT ![c] = @ + Fits(n)]
    /\ cut' = [cut EXCEPT ![c] = @ + (n - Fits(n))]

SnapshotWritten(c) ==
    /\ writing[c] > 0
    /\ Logs(c, writing[c])
    /\ writing' = [writing EXCEPT ![c] = 0]
    /\ UNCHANGED <<conn, typed, flushed, lost, stopped, shared, mirror, uploaded>>

\* The write raises: nobody awaits the task, and it makes no more snapshots.
SnapshotFails(c) ==
    /\ "log" \in TakeFaults /\ writing[c] > 0
    /\ lost' = [lost EXCEPT ![c] = @ + writing[c]]
    /\ writing' = [writing EXCEPT ![c] = 0]
    /\ stopped' = stopped \cup {c}
    /\ UNCHANGED <<conn, typed, flushed, logged, cut, shared, mirror, uploaded>>

\* One relay ends, the other tasks are cancelled: a write under way is lost.
Disconnect(c) ==
    /\ conn[c] = "open"
    /\ conn' = [conn EXCEPT ![c] = "closing"]
    /\ lost' = [lost EXCEPT ![c] = @ + writing[c]]
    /\ writing' = [writing EXCEPT ![c] = 0]
    /\ UNCHANGED <<typed, flushed, logged, cut, stopped, shared, mirror, uploaded>>

\* The last _flush_typed_snapshot; an error is logged and the end goes on.
FinalFlush(c) ==
    /\ conn[c] = "closing"
    /\ conn' = [conn EXCEPT ![c] = "leaving"]
    /\ flushed' = [flushed EXCEPT ![c] = typed[c]]
    /\ \/ Logs(c, typed[c] - flushed[c]) /\ UNCHANGED lost
       \/ /\ "log" \in TakeFaults
          /\ lost' = [lost EXCEPT ![c] = @ + (typed[c] - flushed[c])]
          /\ UNCHANGED <<logged, cut>>
    /\ UNCHANGED <<typed, writing, stopped, shared, mirror, uploaded>>

\* Mutation: every connection finalizes the recording when it leaves.
ReleaseEach(c) ==
    /\ conn[c] = "leaving"
    /\ shared' = IF shared.refs = 1 THEN [buffer |-> NoBuffer, refs |-> 0]
                 ELSE [shared EXCEPT !.refs = @ - 1]
    /\ conn' = [conn EXCEPT ![c] = "last"]
    /\ UNCHANGED <<keystrokes, mirror, uploaded>>

\* _release_takeover_recording.
Release(c) ==
    /\ conn[c] = "leaving"
    /\ shared' = IF shared.refs = 1 THEN [buffer |-> NoBuffer, refs |-> 0]
                 ELSE [shared EXCEPT !.refs = @ - 1]
    /\ conn' = [conn EXCEPT ![c] = IF shared.refs = 1 THEN "last" ELSE "ending"]
    /\ UNCHANGED <<keystrokes, mirror, uploaded>>

\* finalize_takeover_recording: an upload that fails leaves no recording.
FinalizeRecording(c) ==
    /\ conn[c] = "last"
    /\ \/ uploaded' = [uploaded EXCEPT ![mirror[c]] = @ + 1]
       \/ "upload" \in TakeFaults /\ UNCHANGED uploaded
    /\ conn' = [conn EXCEPT ![c] = "ending"]
    /\ UNCHANGED <<keystrokes, shared, mirror>>

\* takeover_end is logged and the socket closed.
End(c) ==
    /\ conn[c] = "ending"
    /\ conn' = [conn EXCEPT ![c] = "closed"]
    /\ UNCHANGED <<keystrokes, shared, mirror, uploaded>>

TakeNext == \E c \in Conns :
    \/ Attach(c) \/ Type(c) \/ Snapshot(c) \/ SnapshotWritten(c) \/ SnapshotFails(c)
    \/ Disconnect(c) \/ FinalFlush(c) \/ Release(c) \/ FinalizeRecording(c) \/ End(c)

TakeSpec == TakeInit /\ [][TakeNext]_takevars

-----------------------------------------------------------------------------
\* What was typed is in the log exactly once, but for what a write that was
\* cancelled or failed took with it, and what one flush found beyond the length
\* it logs: the periodic and the last flush neither skip nor repeat a byte
\* between them, and nothing is cut of one who types no more than that.
KeystrokesAccounted == \A c \in Conns :
    /\ logged[c] + writing[c] + lost[c] + cut[c] + (typed[c] - flushed[c]) = typed[c]
    /\ conn[c] = "closed" => logged[c] + lost[c] + cut[c] = typed[c]
    /\ cut[c] > 0 => typed[c] > MaxLogged

\* However connections come and go, one recording is uploaded per buffer, and
\* no connection mirrors into a buffer that was finalized.
OneRecording ==
    /\ \A b \in Buffers : uploaded[b] <= 1
    /\ \A c \in Attached : uploaded[mirror[c]] = 0
=============================================================================
