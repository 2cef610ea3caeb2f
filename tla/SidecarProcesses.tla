-------------------------- MODULE SidecarProcesses --------------------------
(***************************************************************************)
(* Background processes of a session (sidecar_processes.py): a start       *)
(* spawns a process under the registry lock and leaves a reader and a      *)
(* watchdog task behind; a stop signals the process, waits, and gives its  *)
(* preview port back; kill-all ends whatever is tracked.  The processes    *)
(* outlive a sidecar that dies, and the next one sweeps them.              *)
(*                                                                         *)
(* A process dies some time after its SIGKILL.  Its returncode is known    *)
(* when it is dead.  It may leave processes that it forked; the sidecar    *)
(* signals a group through its leader only, so that these are out of its   *)
(* reach.  Output is counted in bytes.                                     *)
(***************************************************************************)
EXTENDS Naturals, FiniteSets

CONSTANTS
    Procs,          \* process ids, each given to one process
    Forking,        \* those whose command leaves others running
    Ports,          \* ports that can be exposed
    StopCalls,      \* requests to /process/{id}/stop in flight
    MaxProcesses,   \* SANDBOX_MAX_BACKGROUND_PROCESSES
    OutputMax,      \* PROCESS_OUTPUT_MAX_BYTES
    MaxPrinted,     \* MaxPrinted[h]: bound on the bytes process h prints
    MaxSidecars     \* sidecar processes in this pod, one after the other

NoProc == "-"
NoPort == "none"

ASSUME ProcessAssumption ==
    /\ MaxProcesses \in Nat \ {0} /\ OutputMax \in Nat
    /\ MaxPrinted \in [Procs -> Nat]
    /\ MaxSidecars \in Nat \ {0}
    /\ Forking \subseteq Procs
    /\ NoProc \notin Procs /\ NoPort \notin Ports

VARIABLES
    sidecars,       \* sidecar processes started so far
    up,             \* one of them is running
    starting,       \* the process_start that holds the registry lock
    alive,          \* processes that run: the leaders of their groups
    doomed,         \* those of them that were sent SIGKILL
    remains,        \* processes that are dead, and what they forked runs on
    tracked,        \* _process_registry
    exposedPorts,   \* _exposed_ports
    status,         \* handle.status; "none" before there is a handle
    portOf,         \* handle.expose_port
    reader,         \* handle.reader_task
    watchdog,       \* handle.watchdog_task: whether it still sleeps
    stops,          \* the stop requests
    printed,        \* handle.total_bytes_written
    buffer,         \* how many bytes handle.buffer has
    bufferStart,    \* handle.buffer_start_offset
    poll            \* a client that polls each process's output

procvars ==
    <<sidecars, up, starting, alive, doomed, remains, tracked, exposedPorts, status, portOf,
      reader, watchdog, stops, printed, buffer, bufferStart, poll>>

NoStop == [at |-> "idle", of |-> NoProc]
NewPoll == [next |-> 0, got |-> 0, truncated |-> FALSE]

ProcessTypeOK ==
    /\ sidecars \in 1..MaxSidecars /\ up \in BOOLEAN
    /\ starting \in Procs \cup {NoProc}
    /\ alive \subseteq Procs /\ doomed \subseteq alive /\ remains \subseteq Forking
    /\ tracked \subseteq Procs
    /\ exposedPorts \in [Ports -> Procs \cup {NoProc}]
    /\ status \in [Procs -> {"none", "running", "exited", "stopped", "killed"}]
    /\ portOf \in [Procs -> Ports \cup {NoPort}]
    /\ reader \in [Procs -> {"off", "reading", "ended"}]
    /\ watchdog \in [Procs -> BOOLEAN]
    /\ stops \in [StopCalls -> [at : {"idle", "term", "kill", "join", "release"},
                                of : Procs \cup {NoProc}]]
    /\ printed \in [Procs -> Nat] /\ buffer \in [Procs -> 0..OutputMax] /\ bufferStart \in [Procs -> Nat]
    /\ poll \in [Procs -> [next : Nat, got : Nat, truncated : BOOLEAN]]

ProcessInit ==
    /\ sidecars = 1 /\ up = TRUE /\ starting = NoProc
    /\ alive = {} /\ doomed = {} /\ remains = {} /\ tracked = {}
    /\ exposedPorts = [p \in Ports |-> NoProc]
    /\ status = [h \in Procs |-> "none"] /\ portOf = [h \in Procs |-> NoPort]
    /\ reader = [h \in Procs |-> "off"] /\ watchdog = [h \in Procs |-> FALSE]
    /\ stops = [r \in StopCalls |-> NoStop]
    /\ printed = [h \in Procs |-> 0] /\ buffer = printed /\ bufferStart = printed
    /\ poll = [h \in Procs |-> NewPoll]

sidecarvars == <<sidecars, up>>
osvars == <<alive, doomed, remains>>
handlevars == <<status, portOf, reader, watchdog>>
outputvars == <<printed, buffer, bufferStart, poll>>

LockFree == up /\ starting = NoProc

-----------------------------------------------------------------------------
(* Start.                                                                  *)

ActiveProcs == {h \in tracked : status[h] = "running"}

\* An id nobody has had; which one makes no difference.
UnusedProcs == {h \in Procs : status[h] = "none"}

\* process_start, to its spawn: the lock stays held over it.
ProcessStarts(h, p) ==
    /\ LockFree /\ UnusedProcs # {} /\ h = CHOOSE u \in UnusedProcs : TRUE
    /\ Cardinality(ActiveProcs) < MaxProcesses
    /\ p # NoPort => exposedPorts[p] = NoProc
    /\ starting' = h /\ portOf' = [portOf EXCEPT ![h] = p]
    /\ UNCHANGED <<sidecarvars, osvars, tracked, exposedPorts, status, reader, watchdog, stops,
                   outputvars>>

\* The process runs; its handle is made and registered.
Spawned(h) ==
    /\ starting = h
    /\ starting' = NoProc
    /\ alive' = alive \cup {h} /\ tracked' = tracked \cup {h}
    /\ status' = [status EXCEPT ![h] = "running"]
    /\ reader' = [reader EXCEPT ![h] = "reading"]
    /\ watchdog' = [watchdog EXCEPT ![h] = TRUE]
    /\ exposedPorts' = [p \in Ports |-> IF p = portOf[h] THEN h ELSE exposedPorts[p]]
    /\ UNCHANGED <<sidecarvars, doomed, remains, portOf, stops, outputvars>>

SpawnFails(h) ==
    /\ starting = h
    /\ starting' = NoProc /\ portOf' = [portOf EXCEPT ![h] = NoPort]
    /\ UNCHANGED <<sidecarvars, osvars, tracked, exposedPorts, status, reader, watchdog, stops,
                   outputvars>>

-----------------------------------------------------------------------------
(* The process and its tasks.                                              *)

\* The process exits, or dies of a signal; what it forked may stay behind, even
\* under a SIGKILL to its group, which it can leave (setsid).
Exits(h) ==
    /\ h \in alive
    /\ alive' = alive \ {h} /\ doomed' = doomed \ {h}
    /\ remains' \in {remains, remains \cup ({h} \cap Forking)}
    /\ UNCHANGED <<sidecarvars, starting, tracked, exposedPorts, handlevars, stops, outputvars>>

AppendUncounted(h) ==
    /\ printed' = [printed EXCEPT ![h] = @ + 1]
    /\ buffer' = [buffer EXCEPT ![h] = IF @ = OutputMax THEN @ ELSE @ + 1]
    /\ UNCHANGED bufferStart

\* append_output: the oldest byte gives way.
AppendOutput(h) ==
    /\ printed' = [printed EXCEPT ![h] = @ + 1]
    /\ IF buffer[h] + 1 > OutputMax
       THEN bufferStart' = [bufferStart EXCEPT ![h] = @ + 1] /\ UNCHANGED buffer
       ELSE buffer' = [buffer EXCEPT ![h] = @ + 1] /\ UNCHANGED bufferStart

\* The process, or what is left of it, prints a byte and the reader appends it.
Prints(h) ==
    /\ h \in alive \cup remains /\ reader[h] = "reading" /\ printed[h] < MaxPrinted[h]
    /\ AppendOutput(h)
    /\ UNCHANGED <<sidecarvars, starting, osvars, tracked, exposedPorts, handlevars, stops, poll>>

\* read_since and process_output: what the buffer has from the offset the
\* last answer gave, or all of it when that offset was dropped.
Polls(h) ==
    /\ up /\ h \in tracked /\ poll[h].next # printed[h]
    /\ LET gone == poll[h].next < bufferStart[h]
           skipped == IF gone THEN 0 ELSE poll[h].next - bufferStart[h]
           chunk == IF skipped < buffer[h] THEN buffer[h] - skipped ELSE 0
       IN poll' = [poll EXCEPT ![h] =
              [next |-> printed[h], got |-> @.got + chunk, truncated |-> @.truncated \/ gone]]
    /\ UNCHANGED <<sidecarvars, starting, osvars, tracked, exposedPorts, handlevars, stops,
                   printed, buffer, bufferStart>>

\* _process_reader_loop, at the end of the output and of the process.  What is
\* left of it may have the output open, or not.
ReaderEnds(h) ==
    /\ reader[h] = "reading" /\ h \notin alive
    /\ status' = [status EXCEPT ![h] = IF @ = "running" THEN "exited" ELSE @]
    /\ watchdog' = [watchdog EXCEPT ![h] = FALSE]
    /\ reader' = [reader EXCEPT ![h] = "ended"]
    /\ UNCHANGED <<sidecarvars, starting, osvars, tracked, exposedPorts, portOf, stops, outputvars>>

ReleaseAnyPort(h) == [p \in Ports |-> IF p = portOf[h] THEN NoProc ELSE exposedPorts[p]]

\* _release_exposed_port: only a mapping to this process is removed.
ReleasePort(h) ==
    [p \in Ports |-> IF p = portOf[h] /\ exposedPorts[p] = h THEN NoProc ELSE exposedPorts[p]]

ReaderReleases(h) ==
    /\ reader[h] = "ended" /\ LockFree
    /\ exposedPorts' = ReleasePort(h)
    /\ reader' = [reader EXCEPT ![h] = "off"]
    /\ UNCHANGED <<sidecarvars, starting, osvars, tracked, status, portOf, watchdog, stops,
                   outputvars>>

\* _process_watchdog, when max_runtime_seconds are over.
WatchdogFires(h) ==
    /\ watchdog[h]
    /\ watchdog' = [watchdog EXCEPT ![h] = FALSE]
    /\ IF h \in alive
       THEN /\ status' = [status EXCEPT ![h] = "killed"]
            /\ doomed' = doomed \cup {h}
       ELSE UNCHANGED <<status, doomed>>
    /\ UNCHANGED <<sidecarvars, starting, alive, remains, tracked, exposedPorts, portOf, reader,
                   stops, outputvars>>

-----------------------------------------------------------------------------
(* Stop and kill-all.                                                      *)

\* _stop_process: the status first, then SIGTERM, which a process may ignore.
StopBegins(r, h) ==
    /\ up /\ stops[r].at = "idle" /\ h \in tracked
    /\ watchdog' = [watchdog EXCEPT ![h] = FALSE]
    /\ status' = [status EXCEPT ![h] = IF @ = "running" THEN "stopped" ELSE @]
    /\ stops' = [stops EXCEPT ![r] = [at |-> IF h \in alive THEN "term" ELSE "join", of |-> h]]
    /\ UNCHANGED <<sidecarvars, starting, osvars, tracked, exposedPorts, portOf, reader, outputvars>>

\* The grace period ends first.
StopKills(r) ==
    /\ stops[r].at = "term" /\ stops[r].of \in alive
    /\ doomed' = doomed \cup {stops[r].of}
    /\ stops' = [stops EXCEPT ![r].at = "kill"]
    /\ UNCHANGED <<sidecarvars, starting, alive, remains, tracked, exposedPorts, handlevars,
                   outputvars>>

StopSeesExit(r) ==
    /\ stops[r].at \in {"term", "kill"} /\ stops[r].of \notin alive
    /\ stops' = [stops EXCEPT ![r].at = "join"]
    /\ UNCHANGED <<sidecarvars, starting, osvars, tracked, exposedPorts, handlevars, outputvars>>

\* wait_for(reader_task): the reader is over, or is cancelled at the timeout.
StopJoins(r) ==
    /\ stops[r].at = "join"
    /\ reader' = [reader EXCEPT ![stops[r].of] = "off"]
    /\ stops' = [stops EXCEPT ![r].at = "release"]
    /\ UNCHANGED <<sidecarvars, starting, osvars, tracked, exposedPorts, status, portOf, watchdog,
                   outputvars>>

\* process_stop, after _stop_process.
StopReleases(r) ==
    /\ stops[r].at = "release" /\ LockFree
    /\ exposedPorts' = ReleasePort(stops[r].of)
    /\ stops' = [stops EXCEPT ![r] = NoStop]
    /\ UNCHANGED <<sidecarvars, starting, osvars, tracked, handlevars, outputvars>>

\* _kill_all_processes.  Where the returncode is known, nothing is signalled.
KillTracked ==
    /\ LockFree
    /\ tracked' = {}
    /\ exposedPorts' = [p \in Ports |-> NoProc]
    /\ watchdog' = [h \in Procs |-> watchdog[h] /\ h \notin tracked]
    /\ reader' = [h \in Procs |-> IF h \in tracked THEN "off" ELSE reader[h]]
    /\ doomed' = doomed \cup (tracked \cap alive)
    /\ status' = [h \in Procs |-> IF h \in tracked THEN "killed" ELSE status[h]]
    /\ UNCHANGED <<sidecars, starting, alive, remains, portOf, outputvars>>

\* /process/kill-all, and /configure.
KillAll ==
    /\ tracked # {} /\ KillTracked
    /\ UNCHANGED <<up, stops>>

-----------------------------------------------------------------------------
(* The sidecar's own end and start.                                        *)

\* shutdown_event.
Shutdown ==
    /\ sidecars < MaxSidecars
    /\ KillTracked
    /\ up' = FALSE /\ stops' = [r \in StopCalls |-> NoStop]

\* The sidecar is killed: what it had in memory is gone, its processes are
\* not, the one that was being spawned perhaps among them.
Crash ==
    /\ up /\ sidecars < MaxSidecars
    /\ up' = FALSE /\ starting' = NoProc
    /\ alive' \in {alive, alive \cup ({starting} \ {NoProc})}
    /\ tracked' = {} /\ exposedPorts' = [p \in Ports |-> NoProc]
    /\ status' = [h \in Procs |-> IF h \in tracked \cup {starting} THEN "killed" ELSE status[h]]
    /\ reader' = [h \in Procs |-> "off"] /\ watchdog' = [h \in Procs |-> FALSE]
    /\ stops' = [r \in StopCalls |-> NoStop]
    /\ UNCHANGED <<sidecars, doomed, remains, portOf, outputvars>>

SweepNothing == UNCHANGED <<doomed, remains>>

\* _sweep_orphaned_background_processes: the group of whatever has the marker;
\* what a process forked may have cleared its environment.
Sweep == doomed' = alive /\ remains' \in SUBSET remains

\* startup_event.
Startup ==
    /\ ~up
    /\ up' = TRUE /\ sidecars' = sidecars + 1
    /\ Sweep
    /\ UNCHANGED <<starting, alive, tracked, exposedPorts, handlevars, stops, outputvars>>

ProcessNext ==
    \/ \E h \in Procs :
           \/ \E p \in Ports \cup {NoPort} : ProcessStarts(h, p)
           \/ Spawned(h)
           \/ SpawnFails(h)
           \/ Exits(h)
           \/ Prints(h)
           \/ Polls(h)
           \/ ReaderEnds(h)
           \/ ReaderReleases(h)
           \/ WatchdogFires(h)
           \/ \E r \in StopCalls : StopBegins(r, h)
    \/ \E r \in StopCalls :
           \/ StopKills(r)
           \/ StopSeesExit(r)
           \/ StopJoins(r)
           \/ StopReleases(r)
    \/ KillAll
    \/ Shutdown
    \/ Crash
    \/ Startup

ProcessSpec == ProcessInit /\ [][ProcessNext]_procvars

-----------------------------------------------------------------------------
\* A tracked process that runs can be previewed at the port it asked for: a
\* stop, an exit or a kill-all of an earlier owner of that port never takes it
\* away, however late it gets to release it, and no port leads to a process
\* that is not tracked (_release_exposed_port, _kill_all_processes).
PortKept ==
    /\ \A h \in ActiveProcs : portOf[h] # NoPort => exposedPorts[portOf[h]] = h
    /\ \A p \in Ports : exposedPorts[p] # NoProc => exposedPorts[p] \in tracked

\* While a sidecar runs, every process it or an earlier one spawned is tracked
\* or on its way to death, whatever kill-all, stop, crash and restart did before
\* (_kill_all_processes, _sweep_orphaned_background_processes).  What a process
\* that is dead had forked is excepted: nobody tracks or signals it.
NoOrphan == up => alive \subseteq tracked \cup doomed

\* A client that polls from the offset of its last answer has had every byte
\* once, unless an answer said truncated, and then it has missed some
\* (append_output, read_since).
OutputFollowed == \A h \in Procs :
    /\ poll[h].got <= poll[h].next
    /\ poll[h].truncated <=> poll[h].got < poll[h].next
=============================================================================
