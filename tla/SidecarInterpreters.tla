------------------------- MODULE SidecarInterpreters -------------------------
(***************************************************************************)
(* One of the kept-alive drivers of a session: the Python interpreter      *)
(* (sidecar_interpreter.py), the Node one (sidecar_node_interpreter.py) or *)
(* the browser (sidecar_browser.py).  Each has a handle and a lock of its  *)
(* own, and all speak one protocol: a request is a line on the driver's    *)
(* stdin, its answer the next line of stdout.  Nothing in a line says      *)
(* which request it answers.                                               *)
(*                                                                         *)
(* A call keeps the lock from finding a driver to its answer, and what     *)
(* happens at an await under the lock is a step; the reaper kills after it *)
(* has let the lock go.                                                    *)
(***************************************************************************)
EXTENDS Naturals, Sequences, FiniteSets

CONSTANTS
    Calls,         \* requests to the exec route
    Drivers,       \* driver processes
    NoCall, NoDriver,
    CodePrints,    \* user code reaches the driver's stdout: not in the browser
    MaxLines       \* bound: lines on a pipe when user code prints one

ASSUME InterpreterAssumption ==
    /\ NoCall \notin Calls /\ NoDriver \notin Drivers
    /\ {"noise", "json"} \cap Calls = {}
    /\ CodePrints \in BOOLEAN /\ MaxLines \in Nat

VARIABLES
    lockOf,      \* the call that holds the lock, or NoCall
    handle,      \* main._interpreter_handle
    driver,      \* "unused", "up", "exited", "killed"
    requests,    \* a driver's stdin: calls it has not answered
    output,      \* its stdout: calls answered and lines printed, not read
    reaped,      \* taken from the handle by the reaper, to be killed
    idle,        \* the handle was not used for the idle timeout
    execCall,    \* where a call is
    answer,      \* the line a call got
    ranIn,       \* history: the driver a call was sent to
    printedIn    \* history: drivers whose user code printed a line

interpretervars == <<lockOf, handle, driver, requests, output, reaped, idle,
                     execCall, answer, ranIn, printedIn>>
pipes == <<requests, output, printedIn>>
results == <<answer, ranIn>>

PipeLines == Calls \cup {"noise", "json"}

InterpreterTypeOK ==
    /\ lockOf \in Calls \cup {NoCall}
    /\ handle \in Drivers \cup {NoDriver}
    /\ driver \in [Drivers -> {"unused", "up", "exited", "killed"}]
    /\ requests \in [Drivers -> Seq(Calls)] /\ output \in [Drivers -> Seq(PipeLines)]
    /\ reaped \subseteq Drivers /\ printedIn \subseteq Drivers /\ idle \in BOOLEAN
    /\ execCall \in [Calls -> {"new", "spawn", "read", "answered", "failed"}]
    /\ answer \in [Calls -> PipeLines \cup {NoCall}]
    /\ ranIn \in [Calls -> Drivers \cup {NoDriver}]

InterpreterInit ==
    /\ lockOf = NoCall /\ handle = NoDriver
    /\ driver = [d \in Drivers |-> "unused"]
    /\ requests = [d \in Drivers |-> <<>>] /\ output = [d \in Drivers |-> <<>>]
    /\ reaped = {} /\ printedIn = {} /\ idle = FALSE
    /\ execCall = [c \in Calls |-> "new"] /\ answer = [c \in Calls |-> NoCall]
    /\ ranIn = [c \in Calls |-> NoDriver]

-----------------------------------------------------------------------------
(* The handle and the lock.                                                *)

\* returncode is None, also of a driver whose exit was not noticed yet; and
\* the last use is not longer ago than the idle timeout.
StillFresh == handle # NoDriver /\ ~idle

\* SIGKILL to a driver, if it still runs.
Killed(d) == IF driver[d] = "up" THEN [driver EXCEPT ![d] = "killed"] ELSE driver

\* The request is written; a driver that has exited never reads it.
Send(c, d) ==
    /\ requests' = IF driver'[d] = "up"
                   THEN [requests EXCEPT ![d] = Append(@, c)] ELSE requests
    /\ ranIn' = [ranIn EXCEPT ![c] = d]
    /\ execCall' = [execCall EXCEPT ![c] = "read"]
    /\ UNCHANGED <<output, printedIn, answer>>

\* The lock is let go with an error.
Fails(c) ==
    /\ lockOf' = NoCall /\ execCall' = [execCall EXCEPT ![c] = "failed"]
    /\ UNCHANGED results

\* _get_or_spawn_interpreter_locked of a call that gets the lock: it goes on
\* with a fresh driver, or kills the old one and clears the handle.
TakeLock(c) ==
    /\ execCall[c] = "new" /\ lockOf = NoCall /\ lockOf' = c
    /\ \/ StillFresh /\ UNCHANGED <<handle, driver>> /\ Send(c, handle)
       \/ /\ handle \in {NoDriver} \cup {d \in Drivers : idle \/ driver[d] = "exited"}
          /\ driver' = IF handle # NoDriver THEN Killed(handle) ELSE driver
          /\ handle' = NoDriver
          /\ execCall' = [execCall EXCEPT ![c] = "spawn"]
          /\ UNCHANGED <<pipes, results>>
    /\ UNCHANGED <<reaped, idle>>

\* _spawn_interpreter: the driver wrote its ready line in time.
DriverReady(c, d) ==
    /\ execCall[c] = "spawn" /\ driver[d] = "unused"
    /\ driver' = [driver EXCEPT ![d] = "up"]
    /\ handle' = d /\ idle' = FALSE /\ Send(c, d)
    /\ UNCHANGED <<lockOf, reaped>>

\* There is no sandbox process, or the driver was not ready and is killed.
DriverFails(c, d) ==
    /\ execCall[c] = "spawn" /\ driver[d] = "unused"
    /\ driver' = [driver EXCEPT ![d] = "killed"] /\ Fails(c)
    /\ UNCHANGED <<handle, pipes, reaped, idle>>

\* drain() raises as the driver is gone before it has read the request: the
\* route does not catch that, and the handle stays.
WriteFails(c) ==
    /\ execCall[c] = "read" /\ driver[handle] = "exited"
    /\ \A i \in DOMAIN output[handle] : output[handle][i] # c
    /\ Fails(c)
    /\ UNCHANGED <<handle, driver, pipes, reaped, idle>>

\* The driver is killed and the handle cleared, before the lock is let go.
Abandon(c) ==
    /\ driver' = Killed(handle) /\ handle' = NoDriver /\ Fails(c)
    /\ UNCHANGED <<pipes, reaped, idle>>

\* Mutation: the call gives up and leaves the driver as it is.
GivesUpOnly(c) ==
    /\ execCall[c] = "read" /\ Fails(c)
    /\ UNCHANGED <<handle, driver, pipes, reaped, idle>>

\* No line in time.
CallTimesOut(c) == execCall[c] = "read" /\ Abandon(c)

\* The driver has exited and everything it wrote was read.
EndOfFile(c) ==
    /\ execCall[c] = "read" /\ driver[handle] = "exited" /\ output[handle] = <<>>
    /\ Abandon(c)

\* What read() gives does not parse: a line that is not JSON, more than one
\* line or the beginning of another, or a line cut off at the cap.
Malformed(c) == execCall[c] = "read" /\ output[handle] # <<>> /\ Abandon(c)

\* One line, and it parses.  User code may have printed it: an object is
\* taken for the answer, and on any other value parsed.get raises, which the
\* route does not catch.
ReadLine(c) ==
    /\ execCall[c] = "read" /\ output[handle] # <<>> /\ Head(output[handle]) # "noise"
    /\ output' = [output EXCEPT ![handle] = Tail(@)]
    /\ idle' = FALSE /\ lockOf' = NoCall
    /\ \/ /\ execCall' = [execCall EXCEPT ![c] = "answered"]
          /\ answer' = [answer EXCEPT ![c] = Head(output[handle])]
       \/ /\ Head(output[handle]) = "json"
          /\ execCall' = [execCall EXCEPT ![c] = "failed"] /\ UNCHANGED answer
    /\ UNCHANGED <<handle, driver, requests, reaped, ranIn, printedIn>>

\* _reset_interpreter: the reset route, /configure and shutdown.
Reset ==
    /\ lockOf = NoCall /\ handle # NoDriver
    /\ driver' = Killed(handle) /\ handle' = NoDriver
    /\ UNCHANGED <<lockOf, pipes, reaped, idle, execCall, results>>

IdleElapses ==
    /\ handle # NoDriver /\ ~idle /\ idle' = TRUE
    /\ UNCHANGED <<lockOf, handle, driver, pipes, reaped, execCall, results>>

\* _reap_idle_interpreter: under the lock the handle is cleared,
ReapHandle ==
    /\ lockOf = NoCall /\ handle # NoDriver /\ idle
    /\ reaped' = reaped \cup {handle} /\ handle' = NoDriver
    /\ UNCHANGED <<lockOf, driver, pipes, idle, execCall, results>>

\* and then, without it, the driver is killed.
ReapKills(d) ==
    /\ d \in reaped /\ reaped' = reaped \ {d} /\ driver' = Killed(d)
    /\ UNCHANGED <<lockOf, handle, pipes, idle, execCall, results>>

-----------------------------------------------------------------------------
(* The driver.                                                             *)

\* It answers the first request: a result, or the error user code raised.
Answers(d) ==
    /\ driver[d] = "up" /\ requests[d] # <<>>
    /\ requests' = [requests EXCEPT ![d] = Tail(@)]
    /\ output' = [output EXCEPT ![d] = Append(@, Head(requests[d]))]
    /\ UNCHANGED <<lockOf, handle, driver, reaped, idle, execCall, results, printedIn>>

\* User code, or what it left running, prints a line past the redirection.
PrintsLine(d, l) ==
    /\ CodePrints /\ driver[d] = "up" /\ Len(output[d]) < MaxLines
    /\ output' = [output EXCEPT ![d] = Append(@, l)]
    /\ printedIn' = printedIn \cup {d}
    /\ UNCHANGED <<lockOf, handle, driver, requests, reaped, idle, execCall, results>>

\* User code ends the driver, or it goes over its memory limit.
DriverExits(d) ==
    /\ driver[d] = "up" /\ driver' = [driver EXCEPT ![d] = "exited"]
    /\ requests' = [requests EXCEPT ![d] = <<>>]
    /\ UNCHANGED <<lockOf, handle, output, printedIn, reaped, idle, execCall, results>>

InterpreterNext ==
    \/ \E c \in Calls :
        \/ TakeLock(c)
        \/ \E d \in Drivers : DriverReady(c, d) \/ DriverFails(c, d)
        \/ WriteFails(c) \/ CallTimesOut(c) \/ EndOfFile(c) \/ Malformed(c)
        \/ ReadLine(c)
    \/ Reset \/ IdleElapses \/ ReapHandle
    \/ \E d \in Drivers :
        \/ ReapKills(d) \/ Answers(d) \/ DriverExits(d)
        \/ \E l \in {"noise", "json"} : PrintsLine(d, l)

InterpreterSpec == InterpreterInit /\ [][InterpreterNext]_interpretervars

-----------------------------------------------------------------------------
(* Properties.                                                             *)

\* Although no line names its request, a call is answered with the result of
\* its own code, unless user code of that driver printed a line of its own;
\* and a driver that runs is the one of the handle, or about to be killed.
AnswersOwn ==
    /\ \A c \in Calls : execCall[c] = "answered" => answer[c] = c \/ ranIn[c] \in printedIn
    /\ \A d \in Drivers : driver[d] = "up" => d = handle \/ d \in reaped
=============================================================================
