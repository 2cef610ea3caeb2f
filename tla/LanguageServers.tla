--------------------------- MODULE LanguageServers ---------------------------
(***************************************************************************)
(* The language servers of a session (sidecar_lsp.py).  Unlike the drivers *)
(* of SidecarInterpreters there are several, in a registry, and many       *)
(* requests are under way with one server at once: a request waits for a   *)
(* future that the server's reader task resolves by its id, or that fails  *)
(* when the task ends.                                                     *)
(*                                                                         *)
(* The registry's lock is held for the count, the insert and the removals, *)
(* never during a handshake or a kill.  Each server is that of one start.  *)
(***************************************************************************)
EXTENDS Naturals, FiniteSets

CONSTANTS
    Servers,       \* lsp_ids, each drawn by one POST /lsp/start
    Asks,          \* requests for completion
    MaxServers,    \* LSP_MAX_SERVERS
    NoServer

ASSUME ServerAssumption == NoServer \notin Servers /\ MaxServers \in Nat

VARIABLES
    startAt,       \* where the start of a server is
    server,        \* its process: "none", "up", "exited", "killed"
    readTask,      \* its reader task: "none", "on", "over"
    registered,    \* main._lsp_registry
    unused,        \* servers past the idle timeout
    stopping,      \* where the one who took it from the registry is
    completion,    \* where a request is
    asked,         \* the server of a request
    awaited,       \* handle.pending, of the futures somebody waits for
    late           \* history: requests made when the reader task was over

servervars == <<startAt, server, readTask, registered, unused, stopping,
                completion, asked, awaited, late>>
lives == <<server, readTask, registered, unused, stopping>>
asks == <<completion, asked, awaited, late>>

ServersTypeOK ==
    /\ startAt \in [Servers -> {"none", "counted", "handshake", "ready", "over"}]
    /\ server \in [Servers -> {"none", "up", "exited", "killed"}]
    /\ readTask \in [Servers -> {"none", "on", "over"}]
    /\ registered \subseteq Servers /\ unused \subseteq Servers
    /\ stopping \in [Servers -> {"none", "shutdown", "kill", "wait", "over"}]
    /\ completion \in [Asks -> {"new", "found", "waiting", "answered", "failed"}]
    /\ asked \in [Asks -> Servers \cup {NoServer}]
    /\ awaited \in [Servers -> SUBSET Asks] /\ late \subseteq Asks

ServersInit ==
    /\ startAt = [s \in Servers |-> "none"] /\ server = [s \in Servers |-> "none"]
    /\ readTask = [s \in Servers |-> "none"] /\ registered = {} /\ unused = {}
    /\ stopping = [s \in Servers |-> "none"]
    /\ completion = [a \in Asks |-> "new"] /\ asked = [a \in Asks |-> NoServer]
    /\ awaited = [s \in Servers |-> {}] /\ late = {}

-----------------------------------------------------------------------------
(* lsp_start.                                                              *)

StartTo(s, to) == startAt' = [startAt EXCEPT ![s] = to]

\* The check under the lock; it is not made again at the insert.
CountServers(s) ==
    /\ startAt[s] = "none"
    /\ StartTo(s, IF Cardinality(registered) >= MaxServers THEN "over" ELSE "counted")
    /\ UNCHANGED <<lives, asks>>

\* The process and its reader task, before the initialize request; or no
\* sandbox process was found.
StartServer(s) ==
    /\ startAt[s] = "counted"
    /\ \/ /\ StartTo(s, "handshake")
          /\ server' = [server EXCEPT ![s] = "up"]
          /\ readTask' = [readTask EXCEPT ![s] = "on"]
       \/ StartTo(s, "over") /\ UNCHANGED <<server, readTask>>
    /\ UNCHANGED <<registered, unused, stopping, asks>>

Initialized(s) ==
    /\ startAt[s] = "handshake" /\ server[s] = "up" /\ readTask[s] = "on"
    /\ StartTo(s, "ready") /\ UNCHANGED <<lives, asks>>

\* Mutation: the error is returned, and the process left as it is.
HandshakeDropped(s) ==
    /\ startAt[s] = "handshake" /\ StartTo(s, "over")
    /\ UNCHANGED <<lives, asks>>

\* An error, or no answer in time: the process is killed.  A write that
\* fails, as the process has exited, ends the start alone.
HandshakeFails(s) ==
    /\ startAt[s] = "handshake" /\ StartTo(s, "over")
    /\ \/ stopping' = [stopping EXCEPT ![s] = "kill"]
       \/ server[s] = "exited" /\ UNCHANGED stopping
    /\ UNCHANGED <<server, readTask, registered, unused, asks>>

\* The insert, before the duration is charged: a breach of the budget kills
\* what is registered.
InsertServer(s) ==
    /\ startAt[s] = "ready" /\ StartTo(s, "over")
    /\ registered' = registered \cup {s} /\ unused' = unused \ {s}
    /\ UNCHANGED <<server, readTask, stopping, asks>>

-----------------------------------------------------------------------------
(* Requests and the reader task.                                           *)

\* The futures of a server fail, and are forgotten.
FailsAll(s) ==
    /\ completion' = [a \in Asks |-> IF a \in awaited[s] THEN "failed" ELSE completion[a]]
    /\ awaited' = [awaited EXCEPT ![s] = {}]
    /\ UNCHANGED <<asked, late>>

\* The route looks the handle up, and awaits the budget.
FindServer(a, s) ==
    /\ completion[a] = "new" /\ s \in registered
    /\ completion' = [completion EXCEPT ![a] = "found"] /\ asked' = [asked EXCEPT ![a] = s]
    /\ UNCHANGED <<startAt, lives, awaited, late>>

\* _send_request: the future is entered and the request written, by now
\* perhaps to a server that was stopped; a write that fails leaves the entry.
SendRequest(a) ==
    /\ completion[a] = "found"
    /\ \/ /\ completion' = [completion EXCEPT ![a] = "waiting"]
          /\ awaited' = [awaited EXCEPT ![asked[a]] = @ \cup {a}]
       \/ /\ server[asked[a]] # "up"
          /\ completion' = [completion EXCEPT ![a] = "failed"] /\ UNCHANGED awaited
    /\ late' = IF readTask[asked[a]] = "over" THEN late \cup {a} ELSE late
    /\ UNCHANGED <<startAt, lives, asked>>

\* The reader task resolves the future of the frame's id: a result or an error.
FrameResolves(a) ==
    /\ completion[a] = "waiting" /\ a \in awaited[asked[a]] /\ readTask[asked[a]] = "on"
    /\ \E to \in {"answered", "failed"} : completion' = [completion EXCEPT ![a] = to]
    /\ awaited' = [awaited EXCEPT ![asked[a]] = @ \ {a}]
    /\ unused' = unused \ {asked[a]}
    /\ UNCHANGED <<startAt, server, readTask, registered, stopping, asked, late>>

\* The future is dropped; an answer that comes later has no entry.
AskTimesOut(a) ==
    /\ completion[a] = "waiting" /\ completion' = [completion EXCEPT ![a] = "failed"]
    /\ awaited' = [awaited EXCEPT ![asked[a]] = @ \ {a}]
    /\ UNCHANGED <<startAt, lives, asked, late>>

ServerExits(s) ==
    /\ server[s] = "up" /\ server' = [server EXCEPT ![s] = "exited"]
    /\ UNCHANGED <<startAt, readTask, registered, unused, stopping, asks>>

\* Mutation: the task ends and leaves the futures as they are.
ReadLoopJustEnds(s) ==
    /\ readTask[s] = "on" /\ readTask' = [readTask EXCEPT ![s] = "over"]
    /\ UNCHANGED <<startAt, server, registered, unused, stopping, asks>>

\* End of file, or a frame that does not parse, of a server that may still
\* run: the task's finally.
ReadLoopEnds(s) ==
    /\ readTask[s] = "on" /\ readTask' = [readTask EXCEPT ![s] = "over"]
    /\ FailsAll(s)
    /\ UNCHANGED <<startAt, server, registered, unused, stopping>>

-----------------------------------------------------------------------------
(* Ends.                                                                   *)

\* Under the lock servers are taken from the registry, to be ended after it.
Takes(which, to) ==
    /\ registered' = registered \ which
    /\ stopping' = [s \in Servers |-> IF s \in which THEN to ELSE stopping[s]]
    /\ UNCHANGED <<startAt, server, readTask, unused, asks>>

\* lsp_stop, which begins with the shutdown request and the grace period.
StopServer(s) == s \in registered /\ Takes({s}, "shutdown")

\* _kill_all_lsp_servers: /configure, a breach of the budget, shutdown.
KillAllServers == registered # {} /\ Takes(registered, "kill")

ReapIdleServers ==
    registered \cap unused # {} /\ Takes(registered \cap unused, "kill")

IdleTimeout(s) ==
    /\ s \in registered \ unused /\ unused' = unused \cup {s}
    /\ UNCHANGED <<startAt, server, readTask, registered, stopping, asks>>

GraceOver(s) ==
    /\ stopping[s] = "shutdown" /\ stopping' = [stopping EXCEPT ![s] = "kill"]
    /\ UNCHANGED <<startAt, server, readTask, registered, unused, asks>>

\* _kill_lsp_handle: the reader task is cancelled, and its finally runs; the
\* process group gets SIGKILL.
KillServer(s) ==
    /\ stopping[s] = "kill" /\ stopping' = [stopping EXCEPT ![s] = "wait"]
    /\ server' = [server EXCEPT ![s] = IF @ = "up" THEN "killed" ELSE @]
    /\ readTask' = [readTask EXCEPT ![s] = "over"]
    /\ FailsAll(s)
    /\ UNCHANGED <<startAt, registered, unused>>

\* The process was awaited; who asked meanwhile is told as well.
KillEnds(s) ==
    /\ stopping[s] = "wait" /\ stopping' = [stopping EXCEPT ![s] = "over"]
    /\ FailsAll(s)
    /\ UNCHANGED <<startAt, server, readTask, registered, unused>>

ServersNext ==
    \/ \E s \in Servers :
        \/ CountServers(s) \/ StartServer(s) \/ Initialized(s)
        \/ HandshakeFails(s) \/ InsertServer(s)
        \/ ServerExits(s) \/ ReadLoopEnds(s)
        \/ StopServer(s) \/ IdleTimeout(s) \/ GraceOver(s)
        \/ KillServer(s) \/ KillEnds(s)
    \/ \E a \in Asks :
        \/ \E s \in Servers : FindServer(a, s)
        \/ SendRequest(a) \/ FrameResolves(a) \/ AskTimesOut(a)
    \/ KillAllServers \/ ReapIdleServers

ServersSpec == ServersInit /\ [][ServersNext]_servervars

-----------------------------------------------------------------------------
(* Properties.                                                             *)

\* A server that runs is registered, or somebody has it in hand who will
\* register or kill it (lsp_start and the three ways out of the registry).
NoneForgotten == \A s \in Servers : server[s] = "up" =>
    \/ s \in registered
    \/ startAt[s] \in {"handshake", "ready"}
    \/ stopping[s] \in {"shutdown", "kill"}

\* Nobody who asked while the reader task ran is left to the timeout when it
\* ends, by a kill, an exit or an error; only who asks afterwards is.
NoneLeftWaiting == \A a \in Asks :
    completion[a] = "waiting" /\ a \notin late => readTask[asked[a]] = "on"

\* Servers and requests are not lost, whoever ends a server and when.
NothingLost == NoneForgotten /\ NoneLeftWaiting
=============================================================================
