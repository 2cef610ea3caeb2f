----------------------------- MODULE MCServices -----------------------------
(***************************************************************************)
(* Instances for TLC of the components around SandboxManager.  They share  *)
(* no variable, so a behaviour of all of them together is a behaviour of   *)
(* each, interleaved: to check each one it is enough to let one of them    *)
(* move, and part says which.  What one component needs of another is in   *)
(* its own module (what a call of SandboxManager may do, in UsagePolicy).  *)
(***************************************************************************)
EXTENDS TLC, SessionLocks, UsagePolicy, Idempotency, Snapshots,
        WebhookDelivery, ExecLog, Takeover, AccessTokens, Recovery,
        ClientCalls, ToolCalls, SidecarSession, SidecarSync, SidecarProcesses

CONSTANT Parts

VARIABLE part    \* the component that moves

\* Two requests of one account, each in a replica of its own.
CallersServedBy == ("c1" :> "r1") @@ ("c2" :> "r2")
CallersAccount  == ("c1" :> "a1") @@ ("c2" :> "a1")

\* Three requests with one key, of which one has another body, and two with
\* another key.
RequestsKey  == ("q1" :> "k") @@ ("q2" :> "k") @@ ("q3" :> "k")
                @@ ("q4" :> "l") @@ ("q5" :> "l")
RequestsBody == [q \in {"q1", "q2", "q3", "q4", "q5"} |-> IF q = "q3" THEN "y" ELSE "x"]

\* Writers of one process.
WritersProcess == [w \in {"w1", "w2"} |-> "p"]

\* A call of any tool, and one of a tool that shares its sandbox with it.
CallsTools ==
    ("k1" :> AllTools) @@ ("k2" :> {t \in AllTools : t.name = "git_push_token"})

\* A request to any route, and one that shares the budget and a lock with it.
CallsRoutes ==
    ("v1" :> SidecarRoutes) @@ ("v2" :> {ProcessStart, InterpreterExec})

\* One process that prints and one that does not.
ProcsPrint == ("x1" :> 2) @@ ("x2" :> 0)

-----------------------------------------------------------------------------
servicevars ==
    <<part, vars, usagevars, idemvars, snapvars, hookvars, logvars, takevars,
      tokenvars, recvars, clientvars, toolvars, sessvars, syncvars, procvars>>

ServicesInit ==
    /\ part \in Parts
    /\ Init /\ UsageInit /\ IdemInit /\ SnapInit /\ HookInit
    /\ ExecLogInit /\ TakeInit /\ TokensInit /\ RecoveryInit
    /\ ClientInit /\ ToolInit /\ SidecarInit /\ SyncInit /\ ProcessInit
    /\ part # "locks" => key = [t \in Tasks |-> CHOOSE k \in Keys : TRUE]

LocksMoves ==
    /\ part = "locks" /\ Next
    /\ UNCHANGED <<part, usagevars, idemvars, snapvars, hookvars, logvars,
                   takevars, tokenvars, recvars, clientvars, toolvars,
                   sessvars, syncvars, procvars>>

UsageMoves ==
    /\ part = "usage" /\ UsageNext
    /\ UNCHANGED <<part, vars, idemvars, snapvars, hookvars, logvars,
                   takevars, tokenvars, recvars, clientvars, toolvars,
                   sessvars, syncvars, procvars>>

IdempotencyMoves ==
    /\ part = "idempotency" /\ IdemNext
    /\ UNCHANGED <<part, vars, usagevars, snapvars, hookvars, logvars,
                   takevars, tokenvars, recvars, clientvars, toolvars,
                   sessvars, syncvars, procvars>>

SnapshotsMoves ==
    /\ part = "snapshots" /\ SnapNext
    /\ UNCHANGED <<part, vars, usagevars, idemvars, hookvars, logvars,
                   takevars, tokenvars, recvars, clientvars, toolvars,
                   sessvars, syncvars, procvars>>

WebhooksMoves ==
    /\ part = "webhooks" /\ HookNext
    /\ UNCHANGED <<part, vars, usagevars, idemvars, snapvars, logvars,
                   takevars, tokenvars, recvars, clientvars, toolvars,
                   sessvars, syncvars, procvars>>

LogMoves ==
    /\ part = "log" /\ ExecLogNext
    /\ UNCHANGED <<part, vars, usagevars, idemvars, snapvars, hookvars,
                   takevars, tokenvars, recvars, clientvars, toolvars,
                   sessvars, syncvars, procvars>>

TakeoverMoves ==
    /\ part = "takeover" /\ TakeNext
    /\ UNCHANGED <<part, vars, usagevars, idemvars, snapvars, hookvars,
                   logvars, tokenvars, recvars, clientvars, toolvars,
                   sessvars, syncvars, procvars>>

TokensMoves ==
    /\ part = "tokens" /\ TokensNext
    /\ UNCHANGED <<part, vars, usagevars, idemvars, snapvars, hookvars,
                   logvars, takevars, recvars, clientvars, toolvars,
                   sessvars, syncvars, procvars>>

RecoveryMoves ==
    /\ part = "recovery" /\ RecoveryNext
    /\ UNCHANGED <<part, vars, usagevars, idemvars, snapvars, hookvars,
                   logvars, takevars, tokenvars, clientvars, toolvars,
                   sessvars, syncvars, procvars>>

ClientsMoves ==
    /\ part = "clients" /\ ClientNext
    /\ UNCHANGED <<part, vars, usagevars, idemvars, snapvars, hookvars,
                   logvars, takevars, tokenvars, recvars, toolvars, sessvars,
                   syncvars, procvars>>

ToolsMoves ==
    /\ part = "tools" /\ ToolNext
    /\ UNCHANGED <<part, vars, usagevars, idemvars, snapvars, hookvars,
                   logvars, takevars, tokenvars, recvars, clientvars,
                   sessvars, syncvars, procvars>>

SidecarMoves ==
    /\ part = "sidecar" /\ SidecarNext
    /\ UNCHANGED <<part, vars, usagevars, idemvars, snapvars, hookvars,
                   logvars, takevars, tokenvars, recvars, clientvars,
                   toolvars, syncvars, procvars>>

SyncMoves ==
    /\ part = "sync" /\ SyncNext
    /\ UNCHANGED <<part, vars, usagevars, idemvars, snapvars, hookvars,
                   logvars, takevars, tokenvars, recvars, clientvars,
                   toolvars, sessvars, procvars>>

ProcessesMoves ==
    /\ part = "processes" /\ ProcessNext
    /\ UNCHANGED <<part, vars, usagevars, idemvars, snapvars, hookvars,
                   logvars, takevars, tokenvars, recvars, clientvars,
                   toolvars, sessvars, syncvars>>

ServicesNext ==
    \/ LocksMoves
    \/ UsageMoves
    \/ IdempotencyMoves
    \/ SnapshotsMoves
    \/ WebhooksMoves
    \/ LogMoves
    \/ TakeoverMoves
    \/ TokensMoves
    \/ RecoveryMoves
    \/ ClientsMoves
    \/ ToolsMoves
    \/ SidecarMoves
    \/ SyncMoves
    \/ ProcessesMoves

ServicesSpec == ServicesInit /\ [][ServicesNext]_servicevars

\* The fair actions of a component that does not move are not enabled.
ServicesFairSpec == ServicesSpec /\ UsageFairness /\ HookFairness
=============================================================================
