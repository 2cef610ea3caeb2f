----------------------------- MODULE ToolCalls -----------------------------
(***************************************************************************)
(* The agent's tools (tools/*.py) and the manager's operations they call   *)
(* (_manager_proxy.py).  The calls of one conversation run concurrently    *)
(* and share one lazy runtime: the first to need the sandbox creates the   *)
(* session and its skills, the others wait for it (lazy_runtime.py).       *)
(*                                                                         *)
(* A tool is the sequence of operations it awaits, each with a role: what  *)
(* the tool does when that operation answers badly, raises or is           *)
(* cancelled.  An operation that loses its answer is sent once more        *)
(* (_call_sidecar_with_recovery; module Recovery has the detail).          *)
(***************************************************************************)
EXTENDS Naturals, Sequences, FiniteSets, TLC

CONSTANTS
    ToolCallIds,    \* the concurrent tool calls of a conversation
    ToolsOf,        \* the tools each of them may be of
    HasSkills       \* the conversation has session skills

-----------------------------------------------------------------------------
(* The manager's operations, by what running one again does in the         *)
(* sandbox: nothing, the same, or something more.                          *)

Looks(S) == [o \in S |-> "look"]
Same(S)  == [o \in S |-> "same"]
More(S)  == [o \in S |-> "more"]

ExecuteOps == More({"execute"})
RequestOps == More({"http_request"})
InterpreterOps == More({"interpreter_exec", "node_exec"})
LspOps == More({"lsp_start"}) @@ Same({"lsp_open", "lsp_stop"}) @@ Looks({"lsp_completion"})
BrowserOps ==
    More({"browser_exec"}) @@ Same({"browser_navigate", "browser_close"})
    @@ Looks({"browser_screenshot"})
FileOps ==
    Same({"file_create"}) @@ Looks({"view", "read_image"}) @@ More({"str_replace"})
SearchOps == Looks({"ls", "glob", "grep", "semantic_search"})
ReportOps == Looks({"watch", "explain_last_failure"}) @@ More({"workspace_diff"})
TerminalOps == More({"pty_exec"})
ProcessOps == More({"start_process", "send_process_input"}) @@ Looks({"get_process_output"})
ProcessListOps == Same({"stop_process"}) @@ Looks({"list_processes", "process_tree"})
ScratchOps == Same({"scratch_set", "scratch_delete"}) @@ Looks({"scratch_get", "scratch_list"})
PresentOps == Same({"present_files"})

Operations ==
    ExecuteOps @@ RequestOps @@ InterpreterOps @@ LspOps @@ BrowserOps @@ FileOps
    @@ SearchOps @@ ReportOps @@ TerminalOps @@ ProcessOps @@ ProcessListOps
    @@ ScratchOps @@ PresentOps

-----------------------------------------------------------------------------
(* The tools.                                                              *)

Step(o, role) == [op |-> o, role |-> role]
Do(o) == Step(o, "main")

\* A tool: its operations, the outcomes after which it calls the audit sink,
\* what it tries when its first operation raises, and whether a failure to
\* prepare the sandbox becomes its answer or escapes from it.
Tool(name, first, audit) ==
    [name |-> name, steps |-> first, audit |-> audit, orElse |-> <<>>, guarded |-> TRUE]

Quiet == {}
Either == {"ok", "bad"}

BashTool == {Tool("bash_tool", <<Do("execute")>>, Either)}
PythonTool == {Tool("python_interpreter", <<Do("interpreter_exec")>>, Either)}
NodeTool == {Tool("node_interpreter", <<Do("node_exec")>>, Either)}
FileCreateTool == {Tool("file_create", <<Do("file_create")>>, {"ok"})}

\* Looks for a name with other spaces in the parent directory and tries again.
ViewTool ==
    {[Tool("view", <<Do("view")>>, Quiet) EXCEPT
         !.orElse = <<Step("view", "parent"), Do("view")>>, !.guarded = FALSE],
     [Tool("view_image", <<Do("read_image")>>, Quiet) EXCEPT
         !.orElse = <<Step("view", "parent"), Step("read_image", "bare")>>, !.guarded = FALSE]}

\* Reads the file back for the sink; without its content there is no record.
StrReplaceTool ==
    {Tool("str_replace", <<Do("str_replace"), Step("view", "content")>>, {"ok"})}
PresentFilesTool == {Tool("present_files", <<Do("present_files")>>, {"ok"})}

LsTool == {Tool("ls", <<Do("ls")>>, Quiet)}
GlobTool == {Tool("glob", <<Do("glob")>>, Quiet)}
GrepTool == {Tool("grep", <<Do("grep")>>, Quiet)}
SemanticSearchTool == {Tool("semantic_search", <<Do("semantic_search")>>, Quiet)}
WatchTool == {Tool("watch", <<Do("watch")>>, Quiet)}

StartProcessTool == {Tool("start_process", <<Do("start_process")>>, Quiet)}
ProcessOutputTool == {Tool("get_process_output", <<Do("get_process_output")>>, Quiet)}
ProcessInputTool == {Tool("send_process_input", <<Do("send_process_input")>>, Quiet)}
StopProcessTool == {Tool("stop_process", <<Do("stop_process")>>, Quiet)}
ListProcessesTool == {Tool("list_processes", <<Do("list_processes")>>, Quiet)}
ProcessTreeTool == {Tool("process_tree", <<Do("process_tree")>>, Quiet)}

HttpRequestTool == {Tool("http_request", <<Do("http_request")>>, Either)}
PtyExecTool == {Tool("pty_exec", <<Do("pty_exec")>>, Either)}
RunTestsTool == {Tool("run_tests", <<Do("execute")>>, Quiet)}
WorkspaceDiffTool == {Tool("workspace_diff", <<Do("workspace_diff")>>, Quiet)}
ExplainTool == {Tool("explain_last_failure", <<Do("explain_last_failure")>>, Quiet)}

ScratchTool ==
    {[Tool(o, <<Do(o)>>, {"ok"}) EXCEPT !.guarded = FALSE] : o \in {"scratch_set", "scratch_delete"}}
    \cup {[Tool(o, <<Do(o)>>, Quiet) EXCEPT !.guarded = FALSE] : o \in {"scratch_get", "scratch_list"}}

NavigateTool == {Tool("browser_navigate", <<Do("browser_navigate")>>, Either)}
BrowserExecTool == {Tool("browser_exec", <<Do("browser_exec")>>, Either)}
ScreenshotTool == {Tool("browser_screenshot", <<Do("browser_screenshot")>>, Either)}
BrowserCloseTool == {Tool("browser_close", <<Do("browser_close")>>, Quiet)}

LspStartTool == {Tool("lsp_start", <<Do("lsp_start")>>, Quiet)}
LspCompletionTool ==
    {Tool("lsp_completion", <<Do("view"), Do("lsp_open"), Do("lsp_completion")>>, {"ok", "raised"})}
LspStopTool == {Tool("lsp_stop", <<Do("lsp_stop")>>, Quiet)}

\* With a token or a key: written to a file of /tmp, made private, read by one
\* git command, and removed in a finally.
WithCredential ==
    <<Step("file_create", "write"), Step("execute", "chmod"), Do("execute"),
      Step("execute", "remove")>>

GitClone ==
    {Tool("git_clone", <<Do("execute")>>, Either)}
    \cup {Tool("git_clone_token", WithCredential, Either)}
GitStatus == {Tool("git_status", <<Do("execute")>>, Quiet)}
GitAdd == {Tool("git_add", <<Do("execute")>>, Quiet)}
GitCommit == {Tool("git_commit", <<Do("execute")>>, Either)}
GitPush ==
    {Tool("git_push", <<Do("execute")>>, Either)}
    \cup {Tool("git_push_token", WithCredential, Either)}
GitPull ==
    {Tool("git_pull", <<Do("execute")>>, Quiet)}
    \cup {Tool("git_pull_token", WithCredential, Quiet)}
GitBranch == {Tool("git_branch", <<Do("execute")>>, Quiet)}
GitCheckout == {Tool("git_checkout", <<Do("execute")>>, Quiet)}

AllTools ==
    BashTool \cup PythonTool \cup NodeTool \cup FileCreateTool \cup ViewTool
    \cup StrReplaceTool \cup PresentFilesTool \cup LsTool \cup GlobTool \cup GrepTool
    \cup SemanticSearchTool \cup WatchTool \cup StartProcessTool \cup ProcessOutputTool
    \cup ProcessInputTool \cup StopProcessTool \cup ListProcessesTool \cup ProcessTreeTool
    \cup HttpRequestTool \cup PtyExecTool \cup RunTestsTool \cup WorkspaceDiffTool
    \cup ExplainTool \cup ScratchTool \cup NavigateTool \cup BrowserExecTool
    \cup ScreenshotTool \cup BrowserCloseTool \cup LspStartTool \cup LspCompletionTool
    \cup LspStopTool \cup GitClone \cup GitStatus \cup GitAdd \cup GitCommit \cup GitPush
    \cup GitPull \cup GitBranch \cup GitCheckout

\* Before it is called.
Uncalled == Tool("-", <<>>, Quiet)

NoCall == "-"

ASSUME ToolsAssumption ==
    /\ ToolsOf \in [ToolCallIds -> SUBSET AllTools] /\ NoCall \notin ToolCallIds
    /\ \A t \in AllTools : \A i \in 1..Len(t.steps) : t.steps[i].op \in DOMAIN Operations

-----------------------------------------------------------------------------
VARIABLES
    tool,       \* the tool of each call
    doing,      \* where the call is
    steps,      \* the operations it has left
    outcome,    \* of the call so far; its answer when doing = "end"
    retried,    \* the call has taken its tool's other way
    prepared,   \* LazySandboxRuntime._prepared
    initLock,   \* the call that holds _init_lock
    prepares,   \* the times _prepared was set
    skilled,    \* ensure_skills has answered
    credentials,\* the calls whose credential file is in /tmp
    mislaid,    \* the calls that lost sight of their file's fate
    again,      \* the operations that were run twice for one call
    records     \* the calls the audit sink has recorded

toolvars ==
    <<tool, doing, steps, outcome, retried, prepared, initLock, prepares, skilled,
      credentials, mislaid, again, records>>

Preparing == {"create", "create again", "skills", "skills again"}

ToolTypeOK ==
    /\ tool \in [ToolCallIds -> AllTools \cup {Uncalled}]
    /\ doing \in [ToolCallIds -> {"idle", "ensure", "lock", "op", "audit", "end"} \cup Preparing]
    /\ \A c \in ToolCallIds : Len(steps[c]) <= 4
    /\ outcome \in [ToolCallIds ->
                     {"ok", "bad", "unread", "raised", "escaped", "cancelled", "refused"}]
    /\ retried \in [ToolCallIds -> BOOLEAN]
    /\ prepared \in BOOLEAN /\ skilled \in BOOLEAN
    /\ initLock \in ToolCallIds \cup {NoCall}
    /\ prepares \in 0..Cardinality(ToolCallIds)
    /\ credentials \subseteq ToolCallIds /\ mislaid \subseteq ToolCallIds
    /\ again \subseteq DOMAIN Operations /\ records \subseteq ToolCallIds

ToolInit ==
    /\ tool = [c \in ToolCallIds |-> Uncalled]
    /\ doing = [c \in ToolCallIds |-> "idle"]
    /\ steps = [c \in ToolCallIds |-> <<>>]
    /\ outcome = [c \in ToolCallIds |-> "ok"]
    /\ retried = [c \in ToolCallIds |-> FALSE]
    /\ prepared = FALSE /\ initLock = NoCall /\ prepares = 0 /\ skilled = FALSE
    /\ credentials = {} /\ mislaid = {} /\ again = {} /\ records = {}

runtimevars == <<prepared, initLock, prepares, skilled>>
sandboxvars == <<credentials, mislaid, again>>

At(c, d) == doing' = [doing EXCEPT ![c] = d]

Ends(c, o) == At(c, "end") /\ outcome' = [outcome EXCEPT ![c] = o]

-----------------------------------------------------------------------------
(* Calling a tool.                                                         *)

\* The handler checks its arguments (and a command against the whitelist and
\* the blocked patterns) before it touches the sandbox.
CallTool(c, t) ==
    /\ doing[c] = "idle"
    /\ tool' = [tool EXCEPT ![c] = t]
    /\ \/ Ends(c, "refused") /\ UNCHANGED steps
       \/ /\ At(c, "ensure")
          /\ steps' = [steps EXCEPT ![c] = t.steps]
          /\ UNCHANGED outcome
    /\ UNCHANGED <<retried, runtimevars, sandboxvars, records>>

\* ensure_ready: the check outside the lock.
EnsureReady(c) ==
    /\ doing[c] = "ensure"
    /\ At(c, IF prepared THEN "op" ELSE "lock")
    /\ UNCHANGED <<tool, steps, outcome, retried, runtimevars, sandboxvars, records>>

TakeInitLockUnchecked(c) ==
    /\ doing[c] = "lock" /\ initLock = NoCall
    /\ initLock' = c /\ At(c, "create")
    /\ UNCHANGED <<tool, steps, outcome, retried, prepared, prepares, skilled, sandboxvars,
                   records>>

\* ensure_ready: the check inside the lock.
TakeInitLock(c) ==
    /\ doing[c] = "lock" /\ initLock = NoCall
    /\ IF prepared
       THEN At(c, "op") /\ UNCHANGED initLock
       ELSE At(c, "create") /\ initLock' = c
    /\ UNCHANGED <<tool, steps, outcome, retried, prepared, prepares, skilled, sandboxvars,
                   records>>

\* _prepared is assigned and the lock released.
Prepared(c) ==
    /\ prepared' = TRUE /\ prepares' = prepares + 1 /\ initLock' = NoCall
    /\ At(c, "op") /\ UNCHANGED outcome

PrepareFails(c) ==
    /\ initLock' = NoCall
    /\ Ends(c, IF tool[c].guarded THEN "raised" ELSE "escaped")
    /\ UNCHANGED <<prepared, prepares>>

\* prepare_sandbox_runtime: create_session, once more if it raises.
CreateSandbox(c) ==
    /\ doing[c] \in {"create", "create again"}
    /\ \/ HasSkills /\ At(c, "skills") /\ UNCHANGED <<outcome, prepared, prepares, initLock>>
       \/ ~HasSkills /\ Prepared(c)
       \/ /\ doing[c] = "create" /\ At(c, "create again")
          /\ UNCHANGED <<outcome, prepared, prepares, initLock>>
       \/ doing[c] = "create again" /\ PrepareFails(c)
    /\ UNCHANGED <<tool, steps, retried, skilled, sandboxvars, records>>

\* _ensure_session_skills_with_retry: ensure_skills, once more if it raises.
EnsureSessionSkills(c) ==
    /\ doing[c] \in {"skills", "skills again"}
    /\ \/ skilled' = TRUE /\ Prepared(c)
       \/ /\ doing[c] = "skills" /\ At(c, "skills again")
          /\ UNCHANGED <<outcome, prepared, prepares, initLock, skilled>>
       \/ doing[c] = "skills again" /\ PrepareFails(c) /\ UNCHANGED skilled
    /\ UNCHANGED <<tool, steps, retried, sandboxvars, records>>

\* The caller gives the call up while it waits for the sandbox.
CancelPreparing(c) ==
    /\ doing[c] \in Preparing \cup {"lock"}
    /\ initLock' = IF initLock = c THEN NoCall ELSE initLock
    /\ Ends(c, "cancelled")
    /\ UNCHANGED <<tool, steps, retried, prepared, prepares, skilled, sandboxvars, records>>

-----------------------------------------------------------------------------
(* The operations of a call.                                               *)

RemoveNothing(rest) == <<>>

\* What a failed operation leaves to do: the finally removes the file.
Finally(rest) ==
    IF rest # <<>> /\ rest[Len(rest)].role = "remove" THEN <<rest[Len(rest)]>> ELSE <<>>

\* The call goes on with rest; after the last operation it records or ends.
Continue(c, rest, o) ==
    /\ steps' = [steps EXCEPT ![c] = rest]
    /\ outcome' = [outcome EXCEPT ![c] = o]
    /\ At(c, IF rest # <<>> THEN "op"
             ELSE IF o \in tool[c].audit THEN "audit" ELSE "end")

\* The file of a credential after an operation of this role that ran, or did not.
CredentialFile(c, role, ran) ==
    credentials' = CASE role = "write" /\ ran -> credentials \cup {c}
                     [] role = "remove" /\ ran -> credentials \ {c}
                     [] OTHER -> credentials

\* The operation answers, good or bad (an exit code, nothing replaced).  It may
\* have run twice: its first answer was lost.
OpAnswers(c, good, twice) ==
    /\ doing[c] = "op" /\ steps[c] # <<>>
    /\ LET s == Head(steps[c])
           rest == Tail(steps[c])
       IN /\ CredentialFile(c, s.role, good)
          /\ mislaid' = IF s.role = "remove" /\ ~good THEN mislaid \cup {c} ELSE mislaid
          /\ again' = IF twice THEN again \cup {s.op} ELSE again
          /\ CASE good \/ s.role = "remove" -> Continue(c, rest, outcome[c])
               [] s.role = "main" -> Continue(c, Finally(rest), "bad")
               [] s.role = "content" -> Continue(c, rest, "unread")
               [] s.role = "chmod" -> Continue(c, Finally(rest), "raised")
               [] OTHER -> Continue(c, <<>>, "raised")
    /\ UNCHANGED <<tool, retried, runtimevars, records>>

\* The operation raises, having run or not.
OpRaises(c, ran) ==
    /\ doing[c] = "op" /\ steps[c] # <<>>
    /\ LET s == Head(steps[c])
           rest == Tail(steps[c])
           other == tool[c].orElse
       IN /\ CredentialFile(c, s.role, ran)
          /\ mislaid' = IF s.role \in {"write", "chmod"} \/ (s.role = "remove" /\ ~ran)
                        THEN mislaid \cup {c} ELSE mislaid
          /\ \/ /\ s.role = "main" /\ other # <<>> /\ ~retried[c]
                /\ retried' = [retried EXCEPT ![c] = TRUE]
                /\ Continue(c, other, outcome[c])
             \/ /\ UNCHANGED retried
                /\ CASE s.role = "main" -> Continue(c, Finally(rest), "raised")
                     [] s.role = "content" -> Continue(c, rest, "unread")
                     [] s.role = "remove" -> Continue(c, rest, outcome[c])
                     [] s.role = "bare" -> Continue(c, <<>>, "escaped")
                     [] OTHER -> Continue(c, <<>>, "raised")
    /\ UNCHANGED <<tool, again, runtimevars, records>>

\* The caller cancels the call during the operation, which runs or does not.
\* No except clause catches it; the finally still removes the file.
OpCancelled(c, ran) ==
    /\ doing[c] = "op" /\ steps[c] # <<>>
    /\ LET s == Head(steps[c])
       IN /\ CredentialFile(c, s.role, ran)
          /\ mislaid' = IF s.role \in {"write", "chmod"} \/ (s.role = "remove" /\ ~ran)
                        THEN mislaid \cup {c} ELSE mislaid
          /\ Continue(c, IF s.role = "main" THEN Finally(Tail(steps[c])) ELSE <<>>, "cancelled")
    /\ UNCHANGED <<tool, retried, again, runtimevars, records>>

\* safe_call: an error of the sink is logged.
RecordAudit(c) ==
    /\ doing[c] = "audit" /\ At(c, "end")
    /\ \/ records' = records \cup {c}
       \/ UNCHANGED records
    /\ UNCHANGED <<tool, steps, outcome, retried, runtimevars, sandboxvars>>

ToolNext ==
    \E c \in ToolCallIds :
        \/ \E t \in ToolsOf[c] : CallTool(c, t)
        \/ EnsureReady(c)
        \/ TakeInitLock(c)
        \/ CreateSandbox(c)
        \/ EnsureSessionSkills(c)
        \/ CancelPreparing(c)
        \/ \E good, twice \in BOOLEAN : OpAnswers(c, good, twice)
        \/ \E ran \in BOOLEAN : OpRaises(c, ran) \/ OpCancelled(c, ran)
        \/ RecordAudit(c)

ToolSpec == ToolInit /\ [][ToolNext]_toolvars

-----------------------------------------------------------------------------
(* Properties.                                                             *)

\* Whatever calls come first together, fail or are cancelled, the runtime is
\* prepared once, and no operation is sent before the session and its skills
\* are there (LazySandboxRuntime.ensure_ready).
PreparedOnce ==
    /\ prepares <= 1
    /\ \A c \in ToolCallIds :
           doing[c] = "op" => prepared /\ (HasSkills => skilled)

\* A git tool that has ended, by an answer, an error or a cancellation, has
\* removed its credential file, unless it never learnt that the file was
\* written or the removal itself failed (git_tools.py, the finally blocks).
CredentialGone ==
    \A c \in credentials : doing[c] = "end" => c \in mislaid

\* What git_tools.py says of the file: removed after one git command whatever
\* happens, "never left for a later cleanup pass".
CredentialNeverLeft ==
    \A c \in credentials : doing[c] # "end"

\* What _manager_proxy.py says of the operations that are sent once more after
\* a lost answer: "idempotent, side-effect-free".
ReplaysIdempotent ==
    \A o \in again : Operations[o] # "more"
=============================================================================
