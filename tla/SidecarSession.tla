--------------------------- MODULE SidecarSession ---------------------------
(***************************************************************************)
(* What a sidecar keeps for the session its pod serves, and how a pod      *)
(* changes session.  Its routes run concurrently in one event loop: most   *)
(* of those that run code first reserve a slot of the session's budget,    *)
(* take the lock of what they use, run, and then record their time.  The   *)
(* request that breaches the budget tears the session down while it holds  *)
(* the budget's lock.  /configure resets the parts one after another,      *)
(* wipes the files and installs the next session.                          *)
(*                                                                         *)
(* A tenant is a session's number on this pod; a part of the sidecar is    *)
(* the set of tenants whose data it holds.                                 *)
(***************************************************************************)
EXTENDS Naturals, Sequences, FiniteSets

CONSTANTS
    SidecarCalls,   \* the requests
    RoutesOf,       \* the routes each of them may be to
    MaxTenants,     \* sessions on one pod
    ExecCount,      \* SANDBOX_SESSION_MAX_EXEC_COUNT
    ExecTime,       \* SANDBOX_SESSION_MAX_EXEC_SECONDS
    Durations,      \* what a request may take
    Overlaps        \* a session's requests may outlive it

-----------------------------------------------------------------------------
(* The routes: what of the budget they use, the lock they hold while they  *)
(* run, the parts of the sidecar they put data in and those they read.     *)

Route(name, budget, lock, parts) ==
    [name |-> name, budget |-> budget, lock |-> lock, parts |-> parts, reads |-> parts]
ReadRoute(name, parts) ==
    [name |-> name, budget |-> "none", lock |-> "", parts |-> {}, reads |-> parts]

ExecCommand == Route("exec", "both", "", {"files", "tmp", "secrets"})
ProcessStart == Route("process_start", "count", "processes", {"processes"})
InterpreterExec == Route("interpreter_exec", "both", "interpreter", {"interpreter"})
NodeInterpreterExec == Route("node_interpreter_exec", "both", "node", {"node"})
BrowserNavigate == Route("browser_navigate", "both", "browser", {"browser"})
BrowserExec == Route("browser_exec", "both", "browser", {"browser"})
BrowserScreenshot == Route("browser_screenshot", "none", "browser", {"browser"})
LspStart == Route("lsp_start", "both", "", {"lsp"})
LspOpen == Route("lsp_open", "none", "", {"lsp"})
LspCompletion == Route("lsp_completion", "both", "", {})
PtyExec == Route("pty_exec", "both", "", {"files", "tmp"})
PtyTakeover == Route("pty_takeover", "none", "", {"tmux"})
DesktopTakeover == Route("desktop_takeover", "none", "", {"desktop"})
ScratchSet == Route("scratch_set", "none", "", {"scratch"})
HttpRequest == Route("http_request", "none", "", {"secrets"})
SemanticSearch == Route("semantic_search", "none", "", {"index"})
WorkspaceDiff == Route("workspace_diff", "none", "", {"snapshots"})
FileCreate == Route("file_create", "none", "", {"files", "pending"})
StrReplace == Route("str_replace", "none", "", {"files", "pending"})
InjectSkills == Route("ensure_skills", "none", "", {"skills"})
ViewFile == ReadRoute("view", {"files", "tmp", "skills"})
ReadImage == ReadRoute("read_image", {"files", "tmp", "skills"})
LsFiles == ReadRoute("ls", {"files", "tmp", "skills"})
GlobFiles == ReadRoute("glob", {"files", "tmp", "skills"})
GrepFiles == ReadRoute("grep", {"files", "tmp", "skills"})
WatchDirectory == ReadRoute("watch", {"files", "tmp", "skills"})
ExplainLastFailure == ReadRoute("explain_last_failure", {"failure", "files"})
ScratchGet == ReadRoute("scratch_get", {"scratch"})
ProcessOutput == ReadRoute("process_output", {"processes"})
PreviewProxy == ReadRoute("preview", {"processes"})

SidecarRoutes == {
    ExecCommand, ProcessStart, InterpreterExec, NodeInterpreterExec,
    BrowserNavigate, BrowserExec, BrowserScreenshot, LspStart, LspOpen,
    LspCompletion, PtyExec, PtyTakeover, DesktopTakeover, ScratchSet,
    HttpRequest, SemanticSearch, WorkspaceDiff, FileCreate, StrReplace,
    InjectSkills, ViewFile, ReadImage, LsFiles, GlobFiles, GrepFiles,
    WatchDirectory, ExplainLastFailure, ScratchGet, ProcessOutput, PreviewProxy}

SidecarParts ==
    {"files", "tmp", "pending", "processes", "tmux", "interpreter", "node", "browser",
     "desktop", "lsp", "scratch", "secrets", "index", "skills", "failure", "snapshots"}

\* Routes to code of the session, which may leave processes running that the
\* sidecar has no handle of: a command put in the background, what a command
\* that timed out had started (only its wrapper is killed), what a process, an
\* interpreter or a terminal forks.
RunsCode == {ExecCommand, PtyExec, ProcessStart, InterpreterExec, NodeInterpreterExec,
             PtyTakeover}

SidecarLocks == {"budget", "processes", "interpreter", "node", "browser", "lsp"}

NoRequest == "-"
Unrouted == ReadRoute("-", {})

ASSUME SidecarAssumption ==
    /\ RoutesOf \in [SidecarCalls -> SUBSET SidecarRoutes]
    /\ MaxTenants \in Nat /\ ExecCount \in Nat \ {0} /\ ExecTime \in Nat \ {0}
    /\ Durations \subseteq Nat
    /\ Overlaps \in BOOLEAN /\ NoRequest \notin SidecarCalls

-----------------------------------------------------------------------------
VARIABLES
    tenant,         \* current_session; 0 before the first /configure
    holds,          \* the tenants whose data a part holds
    mutex,          \* the request that holds each lock
    request,        \* the requests
    execCount,      \* _session_exec_count
    execTime,       \* _session_exec_seconds
    breached,       \* _session_budget_exceeded
    ran,            \* the budgeted requests of this session that went on to run
    configuring,    \* the next part /configure resets; 0 when none is running
    nextTenant,     \* the session /configure was called with
    strays          \* the tenants that left such processes running

sessvars ==
    <<tenant, holds, mutex, request, execCount, execTime, breached, ran, configuring,
      nextTenant, strays>>

SidecarTypeOK ==
    /\ tenant \in 0..MaxTenants /\ nextTenant \in 0..MaxTenants
    /\ holds \in [SidecarParts -> SUBSET (1..MaxTenants)]
    /\ mutex \in [SidecarLocks -> SidecarCalls \cup {NoRequest}]
    /\ request \in [SidecarCalls ->
            [route : SidecarRoutes \cup {Unrouted}, of : 0..MaxTenants,
             at : {"new", "reserve", "check", "enter", "run", "register", "leave", "record",
                   "teardown", "done"},
             part : 0..6]]
    /\ execCount \in 0..ExecCount /\ execTime \in Nat
    /\ breached \in BOOLEAN /\ ran \in Nat /\ configuring \in 0..10
    /\ strays \subseteq 1..MaxTenants

SidecarInit ==
    /\ tenant = 0 /\ nextTenant = 0 /\ configuring = 0 /\ strays = {}
    /\ holds = [p \in SidecarParts |-> {}]
    /\ mutex = [l \in SidecarLocks |-> NoRequest]
    /\ request = [r \in SidecarCalls |-> [route |-> Unrouted, of |-> 0, at |-> "new", part |-> 0]]
    /\ execCount = 0 /\ execTime = 0 /\ breached = FALSE /\ ran = 0

budgetvars == <<execCount, execTime, breached, ran>>
confvars == <<tenant, configuring, nextTenant>>

Available(l) == l \in SidecarLocks => mutex[l] = NoRequest
Its(r) == request[r].route
Moves(r, at) == request' = [request EXCEPT ![r].at = at]
InFlight == {r \in SidecarCalls : request[r].at \notin {"new", "done"}}

-----------------------------------------------------------------------------
(* Killing what a session left running.                                    *)

\* The parts a teardown resets, in its order.
TeardownOrder == <<"processes", "interpreter", "node", "browser", "lsp", "scratch">>

\* A part is reset under its lock, if it has one.
LockFor(p) == IF p \in SidecarLocks THEN p ELSE ""

\* A teardown goes on inside the budget's lock, and refuses its request.
Teardown(r) ==
    /\ request[r].at = "teardown"
    /\ LET i == request[r].part
           p == TeardownOrder[i]
       IN /\ Available(LockFor(p))
          /\ holds' = [holds EXCEPT ![p] = {}]
          /\ IF i < Len(TeardownOrder)
             THEN /\ request' = [request EXCEPT ![r].part = i + 1]
                  /\ UNCHANGED mutex
             ELSE /\ request' = [request EXCEPT ![r].at = "done", ![r].part = 0]
                  /\ mutex' = [mutex EXCEPT !["budget"] = NoRequest]
    /\ UNCHANGED <<budgetvars, confvars, strays>>

Breach(r) ==
    /\ breached' = TRUE
    /\ mutex' = [mutex EXCEPT !["budget"] = r]
    /\ request' = [request EXCEPT ![r].at = "teardown", ![r].part = 1]

-----------------------------------------------------------------------------
(* A request.                                                              *)

\* The manager sends a session's requests to the pod that serves it.
Requested(r, k) ==
    /\ request[r].at = "new" /\ tenant > 0 /\ configuring = 0
    /\ request' = [request EXCEPT ![r] =
           [route |-> k, of |-> tenant, part |-> 0,
            at |-> IF k.budget # "none" THEN "reserve" ELSE "enter"]]
    /\ UNCHANGED <<holds, mutex, budgetvars, confvars, strays>>

\* _reserve_session_exec_slot_or_raise: the count is checked and raised at once.
ReserveSlot(r) ==
    /\ request[r].at = "reserve" /\ Available("budget")
    /\ \/ /\ breached
          /\ Moves(r, "done")
          /\ UNCHANGED <<mutex, budgetvars>>
       \/ /\ ~breached /\ execCount >= ExecCount
          /\ Breach(r)
          /\ UNCHANGED <<execCount, execTime, ran>>
       \/ /\ ~breached /\ execCount < ExecCount
          /\ execCount' = execCount + 1 /\ ran' = ran + 1
          /\ Moves(r, IF request[r].route = LspStart THEN "check" ELSE "enter")
          /\ UNCHANGED <<mutex, execTime, breached>>
    /\ UNCHANGED <<holds, confvars, strays>>

\* lsp_start counts the servers under the lock and spawns outside it.
CheckServers(r) ==
    /\ request[r].at = "check" /\ Available("lsp")
    /\ \/ Moves(r, "enter")
       \/ Moves(r, "done")
    /\ UNCHANGED <<holds, mutex, budgetvars, confvars, strays>>

\* The request takes the lock of what it uses; a limit or a bad argument ends it.
Enter(r) ==
    /\ request[r].at = "enter" /\ Available(Its(r).lock)
    /\ \/ /\ Moves(r, "run")
          /\ mutex' = IF Its(r).lock = "" THEN mutex ELSE [mutex EXCEPT ![Its(r).lock] = r]
       \/ Moves(r, "done") /\ UNCHANGED mutex
    /\ UNCHANGED <<holds, budgetvars, confvars, strays>>

\* It runs: what it starts or writes is the session's.  A call that times out
\* kills the interpreter or the browser it ran in, not what that had started.
Run(r) ==
    /\ request[r].at = "run"
    /\ \/ /\ request[r].route = LspStart
          /\ Moves(r, "register") /\ UNCHANGED holds
       \/ /\ request[r].route # LspStart
          /\ Moves(r, "leave")
          /\ holds' = [p \in SidecarParts |->
                          IF p \in Its(r).parts THEN holds[p] \cup {request[r].of} ELSE holds[p]]
       \/ /\ Its(r).lock \in {"interpreter", "node", "browser"}
          /\ Moves(r, "leave")
          /\ holds' = [holds EXCEPT ![Its(r).lock] = {}]
    /\ strays' \in {strays} \cup {strays \cup {request[r].of} : k \in RunsCode \cap {Its(r)}}
    /\ UNCHANGED <<mutex, budgetvars, confvars>>

\* lsp_start puts the server it spawned in the registry.
RegisterServer(r) ==
    /\ request[r].at = "register" /\ Available("lsp")
    /\ holds' = [holds EXCEPT !["lsp"] = @ \cup {request[r].of}]
    /\ Moves(r, "leave")
    /\ UNCHANGED <<mutex, budgetvars, confvars, strays>>

UnlockLater(r) ==
    /\ request[r].at = "leave"
    /\ Moves(r, IF Its(r).budget = "both" THEN "record" ELSE "done")
    /\ UNCHANGED <<holds, mutex, budgetvars, confvars, strays>>

\* The lock is released before the time is recorded.
Unlock(r) ==
    /\ request[r].at = "leave"
    /\ mutex' = [l \in SidecarLocks |-> IF mutex[l] = r THEN NoRequest ELSE mutex[l]]
    /\ Moves(r, IF Its(r).budget = "both" THEN "record" ELSE "done")
    /\ UNCHANGED <<holds, budgetvars, confvars, strays>>

\* _record_session_exec_duration_or_raise.  After it, /exec keeps what it can
\* say of a command that failed.
RecordDuration(r) ==
    /\ request[r].at = "record" /\ Available("budget")
    /\ \E d \in Durations : execTime' = execTime + d
    /\ \/ /\ execTime' > ExecTime
          /\ Breach(r)
          /\ UNCHANGED holds
       \/ /\ execTime' <= ExecTime
          /\ Moves(r, "done")
          /\ \/ UNCHANGED holds
             \/ /\ request[r].route = ExecCommand
                /\ holds' = [holds EXCEPT !["failure"] = {request[r].of}]
          /\ UNCHANGED <<mutex, breached>>
    /\ UNCHANGED <<execCount, ran, confvars, strays>>

-----------------------------------------------------------------------------
(* What runs by itself.                                                    *)

\* A background process, a terminal or an interpreter's thread writes files.
KeptAlive == {"processes", "tmux", "interpreter", "node"}

BackgroundWrite(p) ==
    /\ holds[p] # {}
    /\ holds' = [holds EXCEPT !["files"] = @ \cup holds[p], !["tmp"] = @ \cup holds[p]]
    /\ UNCHANGED <<mutex, request, budgetvars, confvars, strays>>

\* So does what a session left running that nobody tracks, whichever session
\* the pod serves by then.
StrayWrite ==
    /\ strays # {}
    /\ holds' = [holds EXCEPT !["files"] = @ \cup strays, !["tmp"] = @ \cup strays]
    /\ UNCHANGED <<mutex, request, budgetvars, confvars, strays>>

\* The periodic loop reaps what has been idle for too long.
ReapIdle(p) ==
    /\ holds[p] # {} /\ Available(LockFor(p))
    /\ holds' = [holds EXCEPT ![p] = {}]
    /\ UNCHANGED <<mutex, request, budgetvars, confvars, strays>>

-----------------------------------------------------------------------------
(* /configure.                                                             *)

\* The files are wiped before the processes are killed.
WipeFirst ==
    <<"wipe", "processes", "tmux", "interpreter", "node", "browser", "desktop", "lsp", "scratch",
      "prefetch">>

\* What /configure does, one after the other.
ConfigurePlan ==
    <<"processes", "tmux", "interpreter", "node", "browser", "desktop", "lsp", "scratch", "wipe",
      "prefetch">>

\* The pod is claimed for a session, for the one it serves again or for the
\* next; the sessions before it have ended.
ConfigureBegins(t) ==
    /\ configuring = 0 /\ t \in {tenant, tenant + 1} \ {0} /\ t <= MaxTenants
    /\ Overlaps \/ InFlight = {}
    /\ configuring' = 1 /\ nextTenant' = t
    /\ UNCHANGED <<tenant, holds, mutex, request, budgetvars, strays>>

Planned(p) == configuring > 0 /\ ConfigurePlan[configuring] = p

ConfigureNext == configuring' = (configuring + 1) % (Len(ConfigurePlan) + 1)

ConfigureResets(p) ==
    /\ Planned(p) /\ Available(LockFor(p))
    /\ holds' = [holds EXCEPT ![p] = {}]
    /\ ConfigureNext
    /\ UNCHANGED <<tenant, nextTenant, mutex, request, budgetvars, strays>>

\* Under the flush lock: the files, the temporary files, the skills if the
\* session changes, the sync state, the index, the secrets and the budget.
ConfigureWipes ==
    /\ Planned("wipe")
    /\ holds' = [p \in SidecarParts |->
           IF p \in {"files", "tmp", "pending", "index", "secrets"}
              \/ (p = "skills" /\ tenant > 0 /\ nextTenant # tenant)
           THEN {} ELSE holds[p]]
    /\ tenant' = nextTenant
    /\ execCount' = 0 /\ execTime' = 0 /\ breached' = FALSE /\ ran' = 0
    /\ ConfigureNext
    /\ UNCHANGED <<nextTenant, mutex, request, strays>>

\* The session's files come from storage (module SidecarSync).
ConfigurePrefetches ==
    /\ Planned("prefetch")
    /\ holds' = [holds EXCEPT !["files"] = @ \cup {tenant}]
    /\ ConfigureNext
    /\ UNCHANGED <<tenant, nextTenant, mutex, request, budgetvars, strays>>

SidecarNext ==
    \/ \E r \in SidecarCalls :
           \/ \E k \in RoutesOf[r] : Requested(r, k)
           \/ ReserveSlot(r)
           \/ CheckServers(r)
           \/ Enter(r)
           \/ Run(r)
           \/ RegisterServer(r)
           \/ Unlock(r)
           \/ RecordDuration(r)
           \/ Teardown(r)
    \/ \E p \in KeptAlive : BackgroundWrite(p)
    \/ StrayWrite
    \/ \E p \in {"interpreter", "node", "browser", "lsp"} : ReapIdle(p)
    \/ \E t \in 1..MaxTenants : ConfigureBegins(t)
    \/ \E p \in SidecarParts : ConfigureResets(p)
    \/ ConfigureWipes
    \/ ConfigurePrefetches

SidecarSpec == SidecarInit /\ [][SidecarNext]_sessvars

-----------------------------------------------------------------------------
(* Properties.                                                             *)

\* The slots that no /configure resets.
NeverReset == {"failure", "snapshots"}

\* The files may hold what a stray process of an earlier session wrote.
Strewn(p) == IF p \in {"files", "tmp"} THEN strays ELSE {}

\* After a /configure the parts it resets hold the data of its session only,
\* although what the last session left running writes files until it is
\* killed (sidecar_sync.configure: what is tracked is killed before the wipe),
\* and no request reads in them what another session left.  Not so the files
\* once a session has left a process that is not tracked.
FreshSession ==
    /\ configuring = 0 =>
           \A p \in SidecarParts \ NeverReset : holds[p] \subseteq {tenant} \cup Strewn(p)
    /\ \A r \in InFlight : request[r].at = "run" =>
           \A p \in Its(r).reads \ NeverReset :
               holds[p] \subseteq {request[r].of} \cup Strewn(p)

\* However requests overlap, no more of a session's requests run than its
\* budget has slots (_reserve_session_exec_slot_or_raise: the check and the
\* increment are one step).
BudgetBounded == ran <= ExecCount

\* The lock a request needs for its next step.
NeededLock(r) ==
    CASE request[r].at \in {"reserve", "record"} -> "budget"
      [] request[r].at = "enter" -> Its(r).lock
      [] request[r].at \in {"check", "register"} -> "lsp"
      [] request[r].at = "teardown" -> LockFor(TeardownOrder[request[r].part])
      [] OTHER -> ""

\* The requests never wait for each other in a circle: while some are in
\* flight, one of them can go on (a teardown takes every lock while it holds
\* the budget's; interpreter_exec records its time outside its own lock).
NoStandstill ==
    InFlight # {} => \E r \in InFlight : Available(NeededLock(r))

\* What the notes of sidecar_last_failure.py and /configure say: what is kept
\* and shown is the session's.  It does not hold: NeverReset is not empty.
NothingCarriedOver ==
    \A r \in InFlight : request[r].at = "run" =>
        \A p \in Its(r).reads : holds[p] \subseteq {request[r].of}
=============================================================================
