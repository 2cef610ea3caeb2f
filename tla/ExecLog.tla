------------------------------- MODULE ExecLog -------------------------------
(***************************************************************************)
(* The audit log of one session (control_plane/routers/sandboxes.py,       *)
(* ExecLogEntryRepository, audit_chain.py, audit_chain_lock.py and         *)
(* verify_chain_rows of boxxkite/audit.py): the routes that call the       *)
(* sandbox and append a row, the hash chain over the rows, its verifier    *)
(* and the SSE stream that shows new rows.                                 *)
(*                                                                         *)
(* A row is ordered by started_at and id, not by when it is inserted.  A   *)
(* hash is its row's id (no two rows have the same); the uuid is any id    *)
(* not yet used.  Hash chains are per session, so there is only one here.  *)
(***************************************************************************)
EXTENDS Naturals, FiniteSets

CONSTANTS
    Writers,       \* requests and WebSocket connections of the session
    ProcessOf,     \* ProcessOf[w]: the control-plane process w runs in
    MaxRows,       \* bound on the rows written
    MaxReadings,   \* bound on the readings of the clock
    WatchBatch     \* SANDBOX_WATCH_BATCH_LIMIT

ASSUME ExecLogAssumption ==
    MaxRows \in Nat /\ MaxReadings \in Nat /\ WatchBatch \in Nat \ {0} /\ IsFiniteSet(Writers)

RowIds  == 1 .. MaxRows
Genesis == 0
NoRoute == [rows |-> 0, stamp |-> "before"]

VARIABLES
    time,      \* _utcnow(): no two readings are equal
    log,       \* exec_log_entries: id, started_at, prev_hash and the insertion number
    route,     \* the route a writer serves
    stage,     \* the await it is at
    began,     \* its started_at
    prev,      \* the prev_hash it read under the chain lock
    cursor,    \* after_id of the watcher, as the row's key
    shown,     \* the rows it has sent
    since      \* the number of rows when it first had a cursor

watchvars == <<cursor, shown, since>>
logvars   == <<time, log, route, stage, began, prev, watchvars>>

-----------------------------------------------------------------------------
(* The routes: how many rows one leaves, and whether started_at is read     *)
(* before the sandbox is called or when the row is written.                 *)

exec_in_sandbox                == [rows |-> 1, stamp |-> "before"]
start_lsp_in_sandbox           == [rows |-> 1, stamp |-> "before"]
open_lsp_document_in_sandbox   == [rows |-> 1, stamp |-> "before"]
lsp_completion_in_sandbox      == [rows |-> 1, stamp |-> "before"]
stop_lsp_in_sandbox            == [rows |-> 1, stamp |-> "before"]
http_request_in_sandbox        == [rows |-> 1, stamp |-> "before"]
create_file_in_sandbox         == [rows |-> 1, stamp |-> "before"]
view_file_in_sandbox           == [rows |-> 1, stamp |-> "before"]
str_replace_in_sandbox         == [rows |-> 1, stamp |-> "before"]
ls_in_sandbox                  == [rows |-> 1, stamp |-> "before"]
glob_in_sandbox                == [rows |-> 1, stamp |-> "before"]
grep_in_sandbox                == [rows |-> 1, stamp |-> "before"]
start_process_in_sandbox       == [rows |-> 1, stamp |-> "before"]
list_processes_in_sandbox      == [rows |-> 0, stamp |-> "before"]
get_process_output_in_sandbox  == [rows |-> 0, stamp |-> "before"]
stream_process_output_in_sandbox == [rows |-> 0, stamp |-> "before"]
send_process_input_in_sandbox  == [rows |-> 1, stamp |-> "before"]
stop_process_in_sandbox        == [rows |-> 1, stamp |-> "before"]
diagnostics_of_sandbox         == [rows |-> 0, stamp |-> "before"]
get_sandbox_log                == [rows |-> 0, stamp |-> "before"]
mint_sandbox_takeover_token    == [rows |-> 1, stamp |-> "now"]
takeover_sandbox               == [rows |-> 2, stamp |-> "before"]
flush_typed_snapshot           == [rows |-> 1, stamp |-> "now"]
mint_sandbox_desktop_token     == [rows |-> 1, stamp |-> "now"]
desktop_sandbox                == [rows |-> 2, stamp |-> "before"]
create_sandbox_preview_url     == [rows |-> 1, stamp |-> "now"]
revoke_sandbox_preview_url     == [rows |-> 1, stamp |-> "now"]
proxy_sandbox_preview          == [rows |-> 0, stamp |-> "before"]

Routes == {
    exec_in_sandbox, start_lsp_in_sandbox, open_lsp_document_in_sandbox,
    lsp_completion_in_sandbox, stop_lsp_in_sandbox, http_request_in_sandbox,
    create_file_in_sandbox, view_file_in_sandbox, str_replace_in_sandbox,
    ls_in_sandbox, glob_in_sandbox, grep_in_sandbox, start_process_in_sandbox,
    list_processes_in_sandbox, get_process_output_in_sandbox,
    stream_process_output_in_sandbox, send_process_input_in_sandbox,
    stop_process_in_sandbox, diagnostics_of_sandbox, get_sandbox_log,
    mint_sandbox_takeover_token, takeover_sandbox, flush_typed_snapshot,
    mint_sandbox_desktop_token, desktop_sandbox, create_sandbox_preview_url,
    revoke_sandbox_preview_url, proxy_sandbox_preview}

-----------------------------------------------------------------------------
ExecLogTypeOK ==
    /\ time \in Nat
    /\ log \subseteq [id : RowIds, at : Nat, prev : RowIds \cup {Genesis}, seq : RowIds]
    /\ route \in [Writers -> Routes \cup {NoRoute}]
    /\ stage \in [Writers -> {"idle", "calling", "locking", "chaining", "attached", "ending"}]
    /\ began \in [Writers -> Nat] /\ prev \in [Writers -> RowIds \cup {Genesis}]
    /\ shown \subseteq RowIds /\ since \in 0 .. MaxRows

ExecLogInit ==
    /\ time = 0 /\ log = {}
    /\ route = [w \in Writers |-> NoRoute]
    /\ stage = [w \in Writers |-> "idle"]
    /\ began = [w \in Writers |-> 0] /\ prev = [w \in Writers |-> Genesis]
    /\ cursor = <<0, 0>> /\ shown = {} /\ since = 0

Key(r) == <<r.at, r.id>>
Precedes(k, l) == k[1] < l[1] \/ (k[1] = l[1] /\ k[2] < l[2])
LastOf(rows) == CHOOSE r \in rows : \A q \in rows \ {r} : Precedes(Key(q), Key(r))
StageTo(w, from, to) == stage[w] = from /\ stage' = [stage EXCEPT ![w] = to]
Returns(w) ==
    /\ stage' = [stage EXCEPT ![w] = "idle"]
    /\ route' = [route EXCEPT ![w] = NoRoute]
    /\ began' = [began EXCEPT ![w] = 0] /\ prev' = [prev EXCEPT ![w] = Genesis]
Stamps(w) ==
    /\ time < MaxReadings
    /\ time' = time + 1 /\ began' = [began EXCEPT ![w] = time']

\* Rate limit, session and role checks have passed; started_at is read here or
\* when the row is written.
Call(w, r) ==
    /\ StageTo(w, "idle", "calling")
    /\ route' = [route EXCEPT ![w] = r]
    /\ IF r.rows > 0 /\ r.stamp = "before" THEN Stamps(w) ELSE UNCHANGED <<time, began>>
    /\ UNCHANGED <<log, prev, watchvars>>

\* The sandbox answers.  A route that keeps no log returns.
Answered(w) ==
    /\ stage[w] = "calling"
    /\ IF route[w].rows = 0 THEN Returns(w) /\ UNCHANGED time
       ELSE /\ StageTo(w, "calling", "locking")
            /\ IF route[w].stamp = "now" THEN Stamps(w) ELSE UNCHANGED <<time, began>>
            /\ UNCHANGED <<route, prev>>
    /\ UNCHANGED <<log, watchvars>>

\* _sandbox_operation_error: 502, and no row.
CallFails(w) ==
    /\ stage[w] = "calling"
    /\ Returns(w)
    /\ UNCHANGED <<time, log, watchvars>>

\* The connection of a takeover or of a desktop closes.
Closes(w) ==
    /\ StageTo(w, "attached", "ending")
    /\ UNCHANGED <<time, log, route, began, prev, watchvars>>

\* Mutation: writers of one session do not exclude each other.
ChainLockAnyway(w) == w \in Writers

\* get_exec_log_chain_lock (SessionLocks) is a lock of the process.
ChainLockFree(w) ==
    \A v \in Writers : stage[v] = "chaining" => ProcessOf[v] # ProcessOf[w]

\* _last_chained_row_hash, under the lock.
ReadLast(w) ==
    /\ stage[w] \in {"locking", "ending"} /\ ChainLockFree(w)
    /\ stage' = [stage EXCEPT ![w] = "chaining"]
    /\ prev' = [prev EXCEPT ![w] = IF log = {} THEN Genesis ELSE LastOf(log).id]
    /\ route' = [route EXCEPT ![w].rows = IF stage[w] = "ending" THEN 1 ELSE @]
    /\ UNCHANGED <<time, log, began, watchvars>>

\* The row is inserted and the lock released.  A takeover goes on; its last row
\* is written with the started_at of its first.
AppendRow(w, id) ==
    /\ stage[w] = "chaining"
    /\ id \in RowIds \ {r.id : r \in log}
    /\ log' = log \cup {[id |-> id, at |-> began[w], prev |-> prev[w],
                         seq |-> Cardinality(log) + 1]}
    /\ IF route[w].rows = 2 THEN StageTo(w, "chaining", "attached") /\ UNCHANGED <<route, began, prev>>
       ELSE Returns(w)
    /\ UNCHANGED <<time, watchvars>>

-----------------------------------------------------------------------------
(* _watch_event_stream: list_after, every half second.                      *)

\* Mutation: the cursor moves to the end of the log, not of the batch.
NextBatchToEnd(rows) ==
    /\ shown' = shown \cup
            {r.id : r \in {x \in rows : Cardinality({q \in rows : Precedes(Key(q), Key(x))}) < WatchBatch}}
    /\ cursor' = Key(LastOf(rows))

NextBatch(rows) ==
    LET sent == {x \in rows : Cardinality({q \in rows : Precedes(Key(q), Key(x))}) < WatchBatch}
    IN  shown' = shown \cup {r.id : r \in sent} /\ cursor' = Key(LastOf(sent))

\* Without a cursor, the most recent rows.
WatchFirst ==
    /\ cursor = <<0, 0>> /\ log # {}
    /\ shown' = {r.id : r \in {x \in log :
            Cardinality({q \in log : Precedes(Key(x), Key(q))}) < WatchBatch}}
    /\ cursor' = Key(LastOf(log))
    /\ since' = Cardinality(log)
    /\ UNCHANGED <<time, log, route, stage, began, prev>>

WatchNext ==
    LET rows == {r \in log : Precedes(cursor, Key(r))}
    IN  /\ cursor # <<0, 0>> /\ rows # {}
        /\ NextBatch(rows)
        /\ UNCHANGED <<time, log, route, stage, began, prev, since>>

ExecLogNext ==
    \/ \E w \in Writers :
        \/ \E r \in Routes : Call(w, r)
        \/ Answered(w) \/ CallFails(w) \/ Closes(w)
        \/ ReadLast(w) \/ \E id \in RowIds : AppendRow(w, id)
    \/ WatchFirst \/ WatchNext

ExecLogSpec == ExecLogInit /\ [][ExecLogNext]_logvars

-----------------------------------------------------------------------------
\* The rows were inserted in the order of their started_at.
InOrder == \A r, q \in log : r.seq < q.seq => Precedes(Key(r), Key(q))

\* verify_chain_rows over rows in the order of started_at and id.
Verifies == \A r \in log :
    LET before == {q \in log : Precedes(Key(q), Key(r))}
    IN  r.prev = IF before = {} THEN Genesis ELSE LastOf(before).id

\* Rows that are inserted in the order of their started_at verify, however the
\* writers of the process interleave: the lock spans the read and the insert.
ChainVerifiesInOrder == InOrder => Verifies

\* An untouched log always verifies.
ChainVerifies == Verifies

\* The stream shows every row that was written since it has a cursor and that
\* the cursor has passed, as long as rows arrive in the order of started_at.
WatchComplete == InOrder =>
    \A r \in log : r.seq > since /\ ~Precedes(cursor, Key(r)) => r.id \in shown
=============================================================================
