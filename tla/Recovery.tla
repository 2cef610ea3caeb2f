------------------------------ MODULE Recovery ------------------------------
(***************************************************************************)
(* Tool calls of one session and what happens when one loses its sidecar:  *)
(* under the session's recovery lock the caller probes the sidecar,        *)
(* recreates the session if it does not answer, replays the session's      *)
(* skills, and repeats its request once.                                   *)
(*                                                                         *)
(* A step ends where the code awaits.  The pod may die at any time, a      *)
(* health probe may time out on a live pod, and a request may fail before  *)
(* it reached the sandbox or after it ran there.                           *)
(***************************************************************************)
EXTENDS Naturals, FiniteSets

CONSTANTS
    Drivers,      \* concurrent calls of the session
    Placing,      \* the ones that are ensure_skills, not a tool call
    MaxLosses,    \* how often the session's pod dies
    NoDriver

ASSUME RecoveryAssumption ==
    /\ IsFiniteSet(Drivers) /\ Placing \subseteq Drivers
    /\ MaxLosses \in Nat /\ NoDriver \notin Drivers

VARIABLES
    sandbox,      \* the session's pod: "up", "down" (it does not answer), "none"
    life,         \* the number of pods the session has had
    losses,
    cache,        \* _session_skills has the session's payload
    mnt,          \* the skills are under the pod's /mnt/skills
    temps,        \* drivers whose rebuild of /mnt/skills has its directory
    broken,       \* drivers whose directory another rebuild removed
    meta,         \* the session metadata store has the session
    torn,         \* destroy_session: "no", "forgotten", "leaving" (its pod terminates), "yes"
    target,       \* the pod destroy_session resolved, by its life
    turn,         \* the driver that holds the recovery lock
    step,         \* where each driver is
    from,         \* the step a driver's rebuild belongs to
    keep,         \* drivers that hold a copy of the cached skills
    second,       \* drivers in their second recovery
    vouched,      \* the life each driver's retry was cleared for
    early,        \* drivers with metadata they read of a session not yet gone
    bare          \* drivers whose retry met no skills in the cleared pod

recvars == <<sandbox, life, losses, cache, mnt, temps, broken, meta, torn, target,
             turn, step, from, keep, second, vouched, early, bare>>

pod  == <<sandbox, life, mnt, temps, broken>>
side == <<losses, torn, target>>
hist == <<vouched, early, bare>>

\* Where one attempt at request_fn, or at a replay, leads.
OnOk    == [first |-> "done", replay |-> "release", again |-> "release", retry |-> "done"]
OnLost  == [first |-> "locking", replay |-> "reprobe", again |-> "raising", retry |-> "raised"]
OnError == [first |-> "raised", replay |-> "raising", again |-> "raising", retry |-> "raised"]

RecoveryInit ==
    /\ sandbox = "up" /\ life = 1 /\ losses = 0
    /\ cache = (Placing = {}) /\ mnt = (Placing = {})
    /\ temps = {} /\ broken = {}
    /\ meta = TRUE /\ torn = "no" /\ target = 0 /\ turn = NoDriver
    /\ step = [d \in Drivers |-> "idle"] /\ from = [d \in Drivers |-> "first"]
    /\ keep = {} /\ second = {}
    /\ vouched = [d \in Drivers |-> 0] /\ early = {} /\ bare = {}

Go(d, s) == step' = [step EXCEPT ![d] = s]

\* A tool call, or ensure_skills, which caches its payload first.
CallSidecar(d) ==
    /\ step[d] = "idle" /\ Go(d, "first")
    /\ cache' = (cache \/ d \in Placing)
    /\ UNCHANGED <<pod, side, meta, turn, from, keep, second, hist>>

\* request_fn of a tool call: it runs in the sandbox and is answered, fails
\* there or loses its answer; or it never gets there.
ToolRequest(d) ==
    /\ d \notin Placing /\ step[d] \in {"first", "retry"}
    /\ \/ /\ sandbox = "up"
          /\ \E r \in {OnOk, OnLost, OnError} : Go(d, r[step[d]])
          /\ bare' = IF step[d] = "retry" /\ vouched[d] = life /\ ~mnt
                     THEN bare \cup {d} ELSE bare
       \/ Go(d, OnLost[step[d]]) /\ UNCHANGED bare
    /\ UNCHANGED <<pod, side, cache, meta, turn, from, keep, second, vouched, early>>

\* POST /ensure-skills, as request_fn of ensure_skills or as a replay: the
\* sidecar answers at once when it has the revision, or opens a directory.
SkillsRequest(d) ==
    /\ \/ d \in Placing /\ step[d] \in {"first", "retry"}
       \/ step[d] = "replay" /\ cache
       \/ step[d] = "again" /\ cache
    /\ \/ /\ sandbox = "up" /\ mnt
          /\ \E r \in {OnOk, OnLost} : Go(d, r[step[d]])
          /\ UNCHANGED <<temps, from>>
       \/ /\ sandbox = "up" /\ ~mnt
          /\ temps' = temps \cup {d}
          /\ from' = [from EXCEPT ![d] = step[d]] /\ Go(d, "swap")
       \/ /\ Go(d, OnLost[step[d]]) /\ UNCHANGED <<temps, from>>
    /\ UNCHANGED <<sandbox, life, mnt, broken, side, cache, meta, turn, keep, second, hist>>

\* The end of _materialize_skills, without an await: everything else under
\* /mnt/skills goes, the directories of other rebuilds too.
Materialize(d) ==
    /\ step[d] = "swap"
    /\ \/ /\ d \in temps
          /\ mnt' = TRUE /\ broken' = broken \cup (temps \ {d}) /\ temps' = {}
          /\ \E r \in {OnOk, OnLost} : Go(d, r[from[d]])
       \/ /\ d \in broken /\ broken' = broken \ {d} /\ Go(d, OnError[from[d]])
          /\ UNCHANGED <<mnt, temps>>
       \/ /\ d \notin temps \cup broken /\ Go(d, OnLost[from[d]])
          /\ UNCHANGED <<mnt, temps, broken>>
    /\ UNCHANGED <<sandbox, life, side, cache, meta, turn, from, keep, second, hist>>

TakeLock(d) ==
    /\ step[d] = "locking" /\ turn = NoDriver
    /\ turn' = d /\ Go(d, "probe")
    /\ UNCHANGED <<pod, side, cache, meta, from, keep, second, hist>>

\* _session_sidecar_available: false for a pod that is slow as well.
Probe(d) ==
    /\ \/ step[d] = "probe" /\ sandbox = "up" /\ Go(d, "replay") /\ UNCHANGED second
       \/ step[d] = "probe" /\ Go(d, "recover") /\ UNCHANGED second
       \/ step[d] = "reprobe" /\ sandbox = "up" /\ Go(d, "again") /\ UNCHANGED second
       \/ step[d] = "reprobe" /\ Go(d, "recover") /\ second' = second \cup {d}
    /\ UNCHANGED <<pod, side, cache, meta, turn, from, keep, hist>>

\* The pod a destroy was to delete is gone, and no other took its place.
Gone == torn = "yes" /\ sandbox = "none" /\ life = target

\* _recover_session_after_sidecar_error up to create_session.  A pod that is
\* terminating is listed with its annotations like any other.
ReadMetadata(d) ==
    /\ step[d] = "recover"
    /\ IF sandbox # "none" \/ meta
       THEN /\ Go(d, "creating")
            /\ keep' = IF cache THEN keep \cup {d} ELSE keep \ {d}
            /\ early' = IF Gone THEN early \ {d} ELSE early \cup {d}
       ELSE Go(d, OnError["replay"]) /\ UNCHANGED <<keep, early>>
    /\ UNCHANGED <<pod, side, cache, meta, turn, from, second, vouched, bare>>

\* create_session: a pod that answers is kept, a terminating one as well; any
\* other is replaced.
Recreate(d) ==
    /\ step[d] = "creating"
    /\ \/ /\ sandbox = "up" /\ UNCHANGED <<pod, meta>>
          /\ Go(d, IF d \in second THEN "again" ELSE "replay")
          /\ cache' = (cache \/ d \in keep)
       \/ /\ sandbox # "up"
          /\ sandbox' = "up" /\ life' = life + 1 /\ mnt' = FALSE /\ temps' = {} /\ broken' = {}
          /\ meta' = TRUE
          /\ Go(d, IF d \in second THEN "again" ELSE "replay")
          /\ cache' = (cache \/ d \in keep)
       \/ /\ Go(d, "raising") /\ UNCHANGED <<pod, meta, cache>>
    /\ early' = early \ {d}
    /\ UNCHANGED <<side, turn, from, keep, second, vouched, bare>>

\* Mutation: the skills are not replayed.
NeverReplay(d) ==
    /\ step[d] \in {"replay", "again"} /\ Go(d, "release")
    /\ UNCHANGED <<pod, side, cache, meta, turn, from, keep, second, hist>>

\* Nothing is cached (any more), so nothing is replayed and the lock is left
\* in the same step; a second replay of nothing answers ensure_skills.
NoReplay(d) ==
    /\ step[d] \in {"replay", "again"} /\ ~cache /\ turn' = NoDriver
    /\ Go(d, IF d \in Placing /\ step[d] = "again" THEN "done" ELSE "retry")
    /\ UNCHANGED <<pod, side, cache, meta, from, keep, second, hist>>

\* The lock is left: ensure_skills is answered by its replay, a tool call
\* repeats its request, an error goes to the caller.
LeaveLock(d) ==
    /\ step[d] \in {"release", "raising"} /\ turn' = NoDriver
    /\ Go(d, CASE step[d] = "raising" -> "raised"
               [] step[d] = "release" /\ d \in Placing -> "done"
               [] OTHER -> "retry")
    /\ vouched' = [vouched EXCEPT ![d] = IF step[d] = "release" /\ sandbox = "up"
                                         THEN life ELSE 0]
    /\ UNCHANGED <<pod, side, cache, meta, from, keep, second, early, bare>>

\* The pod dies, or only stops answering; its rebuilds are lost.
Lose ==
    /\ losses < MaxLosses /\ sandbox = "up"
    /\ losses' = losses + 1 /\ sandbox' \in {"down", "none"}
    /\ temps' = {} /\ broken' = {}
    /\ UNCHANGED <<life, mnt, cache, meta, torn, target, turn, step, from, keep, second, hist>>

\* Mutation: the metadata store keeps the session.
ForgetCache ==
    /\ torn = "no"
    /\ cache' = FALSE
    /\ IF sandbox = "none"
       THEN UNCHANGED <<torn, target, meta>>
       ELSE torn' = "forgotten" /\ target' = life /\ meta' = meta
    /\ UNCHANGED <<pod, losses, turn, step, from, keep, second, hist>>

\* destroy_session for good: caches and metadata first, then the pod.  One
\* that finds no pod drops the cache only.
Forget ==
    /\ torn = "no"
    /\ cache' = FALSE
    /\ IF sandbox = "none"
       THEN UNCHANGED <<torn, target, meta>>
       ELSE torn' = "forgotten" /\ target' = life /\ meta' = FALSE
    /\ UNCHANGED <<pod, losses, turn, step, from, keep, second, hist>>

\* The pod's delete leaves it five seconds, in which it may still answer or stop
\* to (Lose).  A delete that fails is only logged: the pod goes some day.  One
\* that is recycled goes at once.
DeletePod ==
    /\ torn = "forgotten" /\ torn' = "leaving"
    /\ UNCHANGED <<pod, losses, target, cache, meta, turn, step, from, keep, second, hist>>

\* The pod is gone from the API, or serves others.
PodGone ==
    /\ torn = "leaving" /\ torn' = "yes"
    /\ IF life = target
       THEN sandbox' = "none" /\ temps' = {} /\ broken' = {}
       ELSE UNCHANGED <<sandbox, temps, broken>>
    /\ UNCHANGED <<life, mnt, losses, target, cache, meta, turn, step, from, keep, second, hist>>

RecoveryNext ==
    \/ \E d \in Drivers :
          \/ CallSidecar(d) \/ ToolRequest(d) \/ SkillsRequest(d) \/ Materialize(d)
          \/ TakeLock(d) \/ Probe(d) \/ ReadMetadata(d) \/ Recreate(d)
          \/ NoReplay(d) \/ LeaveLock(d)
    \/ Lose \/ Forget \/ DeletePod \/ PodGone

RecoverySpec == RecoveryInit /\ [][RecoveryNext]_recvars

-----------------------------------------------------------------------------
\* Every variable has its type.
RecoveryTypeOK ==
    /\ sandbox \in {"up", "down", "none"} /\ life \in Nat /\ losses \in 0..MaxLosses
    /\ cache \in BOOLEAN /\ mnt \in BOOLEAN /\ meta \in BOOLEAN
    /\ temps \subseteq Drivers /\ broken \subseteq Drivers \ temps
    /\ torn \in {"no", "forgotten", "leaving", "yes"} /\ target \in Nat
    /\ turn \in Drivers \cup {NoDriver}
    /\ step \in [Drivers -> {"idle", "first", "locking", "probe", "recover", "creating",
                             "replay", "swap", "reprobe", "again", "release", "raising",
                             "retry", "done", "raised"}]
    /\ from \in [Drivers -> {"first", "replay", "again", "retry"}]
    /\ keep \subseteq Drivers /\ second \subseteq Drivers
    /\ vouched \in [Drivers -> Nat] /\ early \subseteq Drivers /\ bare \subseteq Drivers

\* A request repeated after a recovery finds the session's skills in the pod
\* its recovery left the lock with: neither the replay nor a rebuild of
\* another caller leaves that pod without them.
RetriedSeesSkills == bare = {}

\* Once the pod of a session that destroy_session found is gone, the session
\* gets no other, but from a recovery that read its metadata before: from the
\* store, or from the pod while it terminated.
NotResurrected ==
    [][torn = "yes" /\ life' # life =>
          \E d \in early : step[d] = "creating" /\ step'[d] # "creating"]_recvars
=============================================================================
