---------------------------- MODULE ClientCalls ----------------------------
(***************************************************************************)
(* The clients of the control plane: the Python, JavaScript, Go and Rust   *)
(* SDKs, the MCP server and the agent tools built on them.  Each method    *)
(* makes one HTTP call; a client with a retry policy repeats it after a    *)
(* failure its policy calls safe.  A block (client.sandbox(), withSandbox, *)
(* WithSandbox, with_sandbox) creates a sandbox, runs the caller's code    *)
(* and destroys it.                                                        *)
(*                                                                         *)
(* The tables say which call each method makes and what each route does    *)
(* when it is run again: nothing ("read"), the same ("set"), one more      *)
(* ("add"), or an access counted again ("count").  The network loses       *)
(* requests and answers.                                                   *)
(***************************************************************************)
EXTENDS Naturals, Sequences

CONSTANTS
    MaxRetries,     \* of the client's RetryConfig
    BatchCreate     \* a create may ask for several sandboxes

ASSUME ClientAssumption == MaxRetries \in Nat /\ BatchCreate \in BOOLEAN

-----------------------------------------------------------------------------
(* What the routes do.                                                     *)

\* A route that does so when it is run once more.
ControlRoute(h, again) == [name |-> h, again |-> again]

Reads(S) == {ControlRoute(h, "read") : h \in S}
Sets(S)  == {ControlRoute(h, "set") : h \in S}
Adds(S)  == {ControlRoute(h, "add") : h \in S}

NamesOf(R) == {r.name : r \in R}

SandboxRoutes ==
    Reads({"list_sandboxes", "get_sandbox"}) \cup Sets({"delete_sandbox"})
    \cup Adds({"create_sandbox"})

FileRoutes ==
    Reads({"view_file_in_sandbox", "ls_in_sandbox", "glob_in_sandbox", "grep_in_sandbox"})
    \cup Sets({"create_file_in_sandbox"})
    \cup Adds({"exec_in_sandbox", "http_request_in_sandbox", "str_replace_in_sandbox"})

LspRoutes ==
    Reads({"lsp_completion_in_sandbox"})
    \cup Sets({"open_lsp_document_in_sandbox", "stop_lsp_in_sandbox"})
    \cup Adds({"start_lsp_in_sandbox"})

ProcessRoutes ==
    Reads({"list_processes_in_sandbox", "get_process_output_in_sandbox",
           "stream_process_output_in_sandbox"})
    \cup Sets({"stop_process_in_sandbox"})
    \cup Adds({"start_process_in_sandbox", "send_process_input_in_sandbox"})

LogRoutes == Reads({"get_sandbox_log", "watch_sandbox"})

TakeoverRoutes ==
    Adds({"mint_sandbox_takeover_token", "takeover_sandbox",
          "mint_sandbox_desktop_token", "desktop_sandbox"})

PreviewRoutes ==
    Adds({"create_sandbox_preview_url"}) \cup Sets({"revoke_sandbox_preview_url"})

SnapshotRoutes ==
    Reads({"list_snapshots_for_session", "get_snapshot"}) \cup Sets({"delete_snapshot"})
    \cup Adds({"create_snapshot", "restore_snapshot"})

ImageRoutes ==
    Reads({"list_images", "get_image"}) \cup Sets({"delete_image"})
    \cup Adds({"create_image_build"})

VolumeRoutes ==
    Reads({"list_volumes", "get_volume"}) \cup Sets({"delete_volume"})
    \cup Adds({"create_volume"})

WebhookRoutes ==
    Reads({"list_webhooks", "list_webhook_deliveries"}) \cup Sets({"delete_webhook"})
    \cup Adds({"create_webhook"})

\* The label is unique: a second create is refused.
ConnectionRoutes ==
    Reads({"list_mcp_connections"})
    \cup Sets({"create_mcp_connection", "delete_mcp_connection"})

\* The name is unique: a second create is refused.
SecretRoutes == Reads({"list_secrets"}) \cup Sets({"create_secret", "delete_secret"})

\* A fact is stored once by its content hash.
MemoryWrites == Sets({"remember", "ingest", "import_memories", "forget_memory"})

\* A search counts an access of each hit.
MemoryReads ==
    Reads({"profile", "export_memories", "list_memories", "relations", "get_memory"})
    \cup {ControlRoute("search", "count")}

AccountRoutes ==
    Reads({"get_account", "get_allowed_commands"})
    \cup Sets({"set_allowed_commands", "clear_allowed_commands"})

UsageRoutes == Reads({"get_usage"})

\* A token of a mail is spent once; a refresh rotates its token.
AuthRoutes ==
    Sets({"confirm_password_reset", "verify_email", "logout"})
    \cup Adds({"request_password_reset", "resend_verification", "refresh"})

ControlRoutes ==
    SandboxRoutes \cup FileRoutes \cup LspRoutes \cup ProcessRoutes \cup LogRoutes
    \cup TakeoverRoutes \cup PreviewRoutes \cup SnapshotRoutes \cup ImageRoutes
    \cup VolumeRoutes \cup WebhookRoutes \cup ConnectionRoutes \cup SecretRoutes
    \cup MemoryWrites \cup MemoryReads \cup AccountRoutes \cup UsageRoutes \cup AuthRoutes

-----------------------------------------------------------------------------
(* The calls of the clients' methods, by the files that hold them.         *)

Get(S)    == {[verb |-> "GET", to |-> h] : h \in S}
Post(S)   == {[verb |-> "POST", to |-> h] : h \in S}
Put(S)    == {[verb |-> "PUT", to |-> h] : h \in S}
Delete(S) == {[verb |-> "DELETE", to |-> h] : h \in S}

\* A stream or a WebSocket: opened once, outside the retry loop.
Dial(S) == {[verb |-> "DIAL", to |-> h] : h \in S}

PyAccount ==
    Get({"get_account", "get_usage"})
    \cup Post({"request_password_reset", "confirm_password_reset", "verify_email",
               "resend_verification", "refresh", "logout"})
PySandboxes ==
    Post({"create_sandbox"}) \cup Get({"get_sandbox", "list_sandboxes"})
    \cup Delete({"delete_sandbox"})
PyImages ==
    Post({"create_image_build", "create_volume"})
    \cup Get({"get_image", "list_images", "get_volume", "list_volumes"})
    \cup Delete({"delete_image", "delete_volume"})
PyWebhooks ==
    Post({"create_webhook", "create_mcp_connection"})
    \cup Get({"list_webhooks", "list_webhook_deliveries", "list_mcp_connections"})
    \cup Delete({"delete_webhook", "delete_mcp_connection"})
PySecrets ==
    Post({"create_secret"}) \cup Get({"list_secrets"}) \cup Delete({"delete_secret"})
PyMemory ==
    Post({"remember", "ingest", "import_memories"}) \cup Delete({"forget_memory"})
    \cup Get({"search", "profile", "list_memories", "get_memory", "relations", "export_memories"})
PyFiles ==
    Post({"exec_in_sandbox", "http_request_in_sandbox", "create_file_in_sandbox",
          "start_lsp_in_sandbox", "open_lsp_document_in_sandbox", "lsp_completion_in_sandbox",
          "stop_lsp_in_sandbox", "view_file_in_sandbox", "str_replace_in_sandbox",
          "ls_in_sandbox", "glob_in_sandbox", "grep_in_sandbox"})
PyProcesses ==
    Get({"get_sandbox_log", "list_processes_in_sandbox", "get_process_output_in_sandbox"})
    \cup Post({"start_process_in_sandbox", "send_process_input_in_sandbox",
               "stop_process_in_sandbox"})
    \cup Dial({"stream_process_output_in_sandbox", "watch_sandbox", "takeover_sandbox",
               "desktop_sandbox"})
PyPreviews ==
    Get({"get_allowed_commands", "list_snapshots_for_session", "get_snapshot"})
    \cup Put({"set_allowed_commands"})
    \cup Delete({"clear_allowed_commands", "delete_snapshot"})
    \cup Post({"create_sandbox_preview_url", "revoke_sandbox_preview_url", "create_snapshot",
               "restore_snapshot"})

\* AsyncBoxxkiteClient: the same methods.
PyAsyncAccount   == PyAccount
PyAsyncSandboxes == PySandboxes
PyAsyncImages    == PyImages
PyAsyncWebhooks  == PyWebhooks
PyAsyncSecrets   == PySecrets
PyAsyncMemory    == PyMemory
PyAsyncFiles     == PyFiles
PyAsyncProcesses == PyProcesses
PyAsyncPreviews  == PyPreviews

Python ==
    PyAsyncAccount \cup PyAsyncSandboxes \cup PyAsyncImages \cup PyAsyncWebhooks
    \cup PyAsyncSecrets \cup PyAsyncMemory \cup PyAsyncFiles \cup PyAsyncProcesses
    \cup PyAsyncPreviews

To(S) == {c.to : c \in S}

JsAccount   == PyAccount
JsSandboxes ==
    PySandboxes \cup Post({"create_snapshot", "restore_snapshot"})
    \cup Get({"list_snapshots_for_session", "get_snapshot"}) \cup Delete({"delete_snapshot"})
JsFiles     == Post(To(PyFiles) \ NamesOf(LspRoutes))
JsProcesses ==
    PyProcesses \ Dial({"takeover_sandbox", "desktop_sandbox"})
\* A browser's WebSocket has no header: a token is minted first.
JsTakeover  ==
    Post({"mint_sandbox_takeover_token", "mint_sandbox_desktop_token"})
    \cup Dial({"takeover_sandbox", "desktop_sandbox"})
JsPreviews  ==
    Post({"create_sandbox_preview_url", "revoke_sandbox_preview_url"})
    \cup Get({"get_allowed_commands"}) \cup Put({"set_allowed_commands"})
    \cup Delete({"clear_allowed_commands"})
JsImages    == PyImages
JsWebhooks  == PyWebhooks \cup PySecrets
JsMemory    == PyMemory

JavaScript ==
    JsAccount \cup JsSandboxes \cup JsFiles \cup JsProcesses \cup JsTakeover \cup JsPreviews
    \cup JsImages \cup JsWebhooks \cup JsMemory

GoAccount     ==
    PyAccount \cup Get({"get_allowed_commands"}) \cup Put({"set_allowed_commands"})
    \cup Delete({"clear_allowed_commands"})
GoSandbox     == PySandboxes
GoExec        == Post({"exec_in_sandbox", "http_request_in_sandbox"})
GoFiles       == JsFiles \ GoExec
GoLog         == Get({"get_sandbox_log"}) \cup Dial({"watch_sandbox"})
GoProcesses   == JsProcesses \ GoLog
GoTakeover    == Dial({"takeover_sandbox"})
GoDesktop     == Dial({"desktop_sandbox"})
GoPreview     == Post({"create_sandbox_preview_url", "revoke_sandbox_preview_url"})
GoSnapshots   == JsSandboxes \ PySandboxes
GoImages      == {c \in PyImages : c.to \in NamesOf(ImageRoutes)}
GoVolumes     == {c \in PyImages : c.to \in NamesOf(VolumeRoutes)}
GoWebhooks    == {c \in PyWebhooks : c.to \in NamesOf(WebhookRoutes)}
GoConnections == PyWebhooks \ GoWebhooks
GoSecrets     == PySecrets
GoMemory      == PyMemory

GoLang ==
    GoAccount \cup GoSandbox \cup GoExec \cup GoFiles \cup GoLog \cup GoProcesses
    \cup GoTakeover \cup GoDesktop \cup GoPreview \cup GoSnapshots \cup GoImages
    \cup GoVolumes \cup GoWebhooks \cup GoConnections \cup GoSecrets \cup GoMemory

RustAccount     == GoAccount
RustSandboxes   == GoSandbox
RustExec        == GoExec
RustFiles       == GoFiles \ Post({"ls_in_sandbox", "glob_in_sandbox", "grep_in_sandbox"})
RustSearch      == Post({"ls_in_sandbox", "glob_in_sandbox", "grep_in_sandbox"})
RustLsp         == {c \in PyFiles : c.to \in NamesOf(LspRoutes)}
RustAudit       == GoLog
RustProcesses   == GoProcesses
RustTakeover    == GoTakeover
RustDesktop     == GoDesktop
RustPreview     == GoPreview
RustSnapshots   == GoSnapshots
RustImages      == GoImages
RustVolumes     == GoVolumes
RustWebhooks    == GoWebhooks
RustConnections == GoConnections
RustSecrets     == GoSecrets
RustMemory      == GoMemory

Rust ==
    RustAccount \cup RustSandboxes \cup RustExec \cup RustFiles \cup RustSearch \cup RustLsp
    \cup RustAudit \cup RustProcesses \cup RustTakeover \cup RustDesktop \cup RustPreview
    \cup RustSnapshots \cup RustImages \cup RustVolumes \cup RustWebhooks
    \cup RustConnections \cup RustSecrets \cup RustMemory

\* The tools of the MCP server and of the SDKs' agent adapters call methods
\* of their SDK.
McpSandboxes   == PySandboxes
McpImages      == GoImages
McpVolumes     == GoVolumes
McpConnections == GoConnections
McpMemory      ==
    Post({"remember", "ingest"}) \cup Get({"search", "profile"})
    \cup Delete({"forget_memory"})
McpFiles       == PyFiles \ Post({"http_request_in_sandbox"})
LangchainFiles     == JsFiles \ Post({"http_request_in_sandbox"})
LangchainProcesses ==
    {c \in PyProcesses : c.to \in NamesOf(ProcessRoutes) /\ c.verb # "DIAL"}
JsLangchainFiles     == LangchainFiles
JsLangchainProcesses == LangchainProcesses \cup Post({"http_request_in_sandbox"})
VercelFiles          == JsLangchainFiles
VercelProcesses      == JsLangchainProcesses

Clients == {"python", "mcp", "langchain", "js", "vercel", "go", "rust"}

CallsOf ==
    [python |-> Python, js |-> JavaScript, go |-> GoLang, rust |-> Rust,
     mcp |-> McpSandboxes \cup McpImages \cup McpVolumes \cup McpConnections \cup McpMemory
             \cup McpFiles,
     langchain |-> LangchainFiles \cup LangchainProcesses \cup JsLangchainFiles
                   \cup JsLangchainProcesses,
     vercel |-> VercelFiles \cup VercelProcesses]

\* What a session object of a block offers.
OfSession(S) ==
    {c \in S : /\ c.to \notin {"stream_process_output_in_sandbox", "get_snapshot",
                               "restore_snapshot", "delete_snapshot"}
               /\ c.to \in NamesOf(FileRoutes \cup LspRoutes \cup ProcessRoutes \cup LogRoutes
                                   \cup TakeoverRoutes \cup PreviewRoutes
                                   \cup SnapshotRoutes)}
PySession      == OfSession(PyFiles \cup PyProcesses \cup PyPreviews)
PyAsyncSession == PySession
JsSession      ==
    OfSession(JsFiles \cup JsProcesses \cup JsTakeover \cup JsPreviews)
GoSession      == OfSession(GoLang)
RustSession    == OfSession(Rust)

BlocksOf ==
    [python |-> PyAsyncSession, js |-> JsSession, go |-> GoSession, rust |-> RustSession,
     mcp |-> {}, langchain |-> {}, vercel |-> {}]

-----------------------------------------------------------------------------
(* One call, or one block, of one client.                                  *)

VARIABLES
    client,
    retries,      \* the RetryConfig's max_retries: 0 when there is none
    todo,         \* the calls left, the first one in progress
    block,        \* it is a block: create, a call of the caller's code, destroy
    attempt,      \* retries made of the call in progress
    reply,        \* the last answer to it, "unsent" or "none" yet
    applied,      \* how often the server ran it
    known,        \* a block's sandbox is created and its id known
    reclaimed,    \* its destroy was sent
    cancelled     \* the caller cancelled the block's code

clientvars ==
    <<client, retries, todo, block, attempt, reply, applied, known, reclaimed, cancelled>>

CreateCall  == [verb |-> "POST", to |-> "create_sandbox"]
DestroyCall == [verb |-> "DELETE", to |-> "delete_sandbox"]

ClientInit ==
    /\ client = "none" /\ retries = 0 /\ block = FALSE /\ todo = <<>>
    /\ attempt = 0 /\ reply = "none" /\ applied = 0
    /\ known = FALSE /\ reclaimed = FALSE /\ cancelled = FALSE

\* A program, with or without a retry policy, calls a method or opens a block.
Begin ==
    /\ client = "none" /\ client' \in Clients /\ retries' \in {0, MaxRetries}
    /\ \/ block' = FALSE /\ todo' \in {<<c>> : c \in CallsOf[client']}
       \/ block' = TRUE /\ todo' \in {<<CreateCall, c, DestroyCall>> : c \in BlocksOf[client']}
    /\ UNCHANGED <<attempt, reply, applied, known, reclaimed, cancelled>>

Now == Head(todo)

\* Go's destroy uses the context of the block, which is cancelled.
CanSend == ~(client = "go" /\ cancelled)

\* One attempt: it fails before it reaches the server, is refused by the
\* rate limit, or runs; then it may answer an error or lose its answer.
Attempted ==
    /\ todo # <<>> /\ reply = "none"
    /\ IF CanSend
       THEN /\ \/ reply' \in {"lost", "429"} /\ UNCHANGED applied
               \/ reply' \in {"ok", "5xx", "lost"} /\ applied' = applied + 1
               \/ /\ BatchCreate /\ Now = CreateCall
                  /\ reply' = "429" /\ applied' = applied + 1
            /\ reclaimed' = (reclaimed \/ Now = DestroyCall)
       ELSE reply' = "unsent" /\ UNCHANGED <<applied, reclaimed>>
    /\ UNCHANGED <<client, retries, todo, block, attempt, known, cancelled>>

IdempotentMethods == {"GET", "HEAD", "OPTIONS", "PUT", "DELETE"}

\* Mutation: the method is not looked at.
RetryAnyMethod(verb, r) == r \in {"429", "5xx", "lost"}

\* _should_retry of Python, shouldRetry of Go, and the test in request of
\* JavaScript.
ShouldRetry(verb, r) ==
    verb \in IdempotentMethods /\ r \in {"429", "5xx", "lost"}

\* should_retry_status of Rust: the server refused a 429 before acting.
RustShouldRetry(verb, r) == r = "429" \/ ShouldRetry(verb, r)

Retries(verb, r) ==
    /\ verb # "DIAL" /\ attempt < retries
    /\ IF client = "rust" THEN RustShouldRetry(verb, r) ELSE ShouldRetry(verb, r)

Again ==
    /\ reply # "none" /\ Retries(Now.verb, reply)
    /\ attempt' = attempt + 1 /\ reply' = "none"
    /\ UNCHANGED <<client, retries, todo, block, applied, known, reclaimed, cancelled>>

\* Mutation: an error of the block's code leaves the block.
BlockRaises(ok) == IF ok THEN Tail(todo) ELSE <<>>

\* The calls of a block that follow one that was answered: none when the
\* create failed, the destroy whatever the caller's code did.
BlockGoesOn(ok) == IF Len(todo) = 3 /\ ~ok THEN <<>> ELSE Tail(todo)

\* The method returns or raises.
Over ==
    /\ reply # "none" /\ ~Retries(Now.verb, reply)
    /\ todo' = IF block THEN BlockGoesOn(reply = "ok") ELSE <<>>
    /\ known' = (known \/ (Now = CreateCall /\ reply = "ok"))
    /\ attempt' = 0 /\ reply' = "none" /\ applied' = 0
    /\ UNCHANGED <<client, retries, block, reclaimed, cancelled>>

\* The caller cancels its code: Python's exit still destroys, Go's deferred
\* call runs with the cancelled context, a dropped Rust future runs nothing.
CancelBlock ==
    /\ block /\ Len(todo) = 2 /\ client \in {"python", "go", "rust"}
    /\ cancelled' = TRUE
    /\ todo' = IF client = "rust" THEN <<>> ELSE Tail(todo)
    /\ attempt' = 0 /\ reply' = "none" /\ applied' = 0
    /\ UNCHANGED <<client, retries, block, known, reclaimed>>

ClientNext == Begin \/ Attempted \/ Again \/ Over \/ CancelBlock

ClientSpec == ClientInit /\ [][ClientNext]_clientvars

-----------------------------------------------------------------------------
\* Every variable has its type.
ClientTypeOK ==
    /\ client \in Clients \cup {"none"} /\ retries \in {0, MaxRetries}
    /\ block \in BOOLEAN /\ known \in BOOLEAN /\ reclaimed \in BOOLEAN /\ cancelled \in BOOLEAN
    /\ Len(todo) <= 3 /\ attempt \in 0..retries /\ applied \in 0..(retries + 1)
    /\ reply \in {"none", "ok", "429", "5xx", "lost", "unsent"}
    /\ todo # <<>> => Now.to \in NamesOf(ControlRoutes)

\* However an SDK retries, no call makes two of what its caller asked for
\* once: a repeated method is one whose route does nothing more when run
\* again ("enabling this can't double-create a resource", RetryConfig).  It
\* holds when BatchCreate is FALSE.
RepeatsHarmless ==
    todo # <<>> /\ applied > 1 => ControlRoute(Now.to, "add") \notin ControlRoutes

\* A block whose sandbox was created asks for its destruction before it
\* ends, whatever its code did; a caller who cancels a Go or a Rust block
\* has no such promise.
BlockCleansUp ==
    block /\ todo = <<>> /\ known /\ ~reclaimed => cancelled /\ client \in {"go", "rust"}
=============================================================================
