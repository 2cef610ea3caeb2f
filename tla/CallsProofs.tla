----------------------------- MODULE CallsProofs -----------------------------
(***************************************************************************)
(* What a caller of the sandbox relies on, for any number of drivers, tool *)
(* calls and tools of the table: an operation sent again after its pod was *)
(* lost finds the skills, and a destroyed session is made again only by a  *)
(* recovery that was under way (Recovery); a client repeats what adds      *)
(* nothing, and its block destroys what it created (ClientCalls); a        *)
(* conversation prepares its sandbox once, and a git tool removes its      *)
(* credential (ToolCalls).                                                 *)
(*                                                                         *)
(* Recovery rests on whose turn it is under the session's lock. The tables *)
(* of routes and tools are gone through entry by entry, once; after that a *)
(* call is one that may add, which has run at most once and not before its *)
(* next attempt, and a tool is one that never sees a credential, or one    *)
(* that has the removal before it for as long as the file is there.        *)
(***************************************************************************)
EXTENDS Recovery, ClientCalls, ToolCalls, SequenceTheorems, TLAPS

-----------------------------------------------------------------------------
(* Recovery of a session.                                                  *)

\* Where a driver may be: so that of From and Step nothing else is needed.
Drives ==
    /\ life \in Nat \ {0}
    /\ step \in [Drivers -> {"idle", "first", "locking", "probe", "recover", "creating",
                             "replay", "swap", "reprobe", "again", "release", "raising",
                             "retry", "done", "raised"}]
    /\ from \in [Drivers -> {"first", "replay", "again", "retry"}]

\* A driver has the lock while it recovers the session, its rebuild included.
InRecovery(d) ==
    \/ step[d] \in {"probe", "recover", "creating", "replay", "reprobe", "again",
                    "release", "raising"}
    \/ step[d] = "swap" /\ from[d] \in {"replay", "again"}

Turns == \A d \in Drivers : InRecovery(d) => turn = d

\* A pod that was cleared for a retry has the skills, and keeps them.
Cleared ==
    /\ \A d \in Drivers : step[d] = "release" => mnt
    /\ \A d \in Drivers : vouched[d] \in 0..life /\ (vouched[d] = life => mnt)
    /\ vouched = [d \in Drivers |-> vouched[d]]

\* The inductive invariant.
SkillsInv == Drives /\ Turns /\ Cleared /\ RetriedSeesSkills

\* The first state: no driver has called.
LEMMA SkillsStart == RecoveryInit => SkillsInv
<1> SUFFICES ASSUME RecoveryInit PROVE SkillsInv
    OBVIOUS
<1>1. Drives /\ RetriedSeesSkills
      BY DEF RecoveryInit, Drives, RetriedSeesSkills
<1>2. Turns
      BY DEF RecoveryInit, Turns, InRecovery
<1>3. Cleared
      BY DEF RecoveryInit, Cleared
<1> QED BY <1>1, <1>2, <1>3 DEF SkillsInv

\* A driver that moves leaves the others where they are.
LEMMA DriverMoves ==
    ASSUME SkillsInv, NEW d \in Drivers, NEW s,
           s \in {"first", "locking", "probe", "recover", "creating", "replay", "swap",
                  "reprobe", "again", "release", "raising", "retry", "done", "raised"},
           Go(d, s),
           from' \in [Drivers -> {"first", "replay", "again", "retry"}],
           \A e \in Drivers \ {d} : from'[e] = from[e],
           life' = life, vouched' = vouched, bare' = bare, mnt => mnt', s = "release" => mnt',
           \/ turn' = turn /\ (InRecovery(d)' => InRecovery(d))
           \/ turn' = d /\ turn = NoDriver
           \/ turn = d /\ ~InRecovery(d)'
    PROVE  SkillsInv'
<1>1. /\ step' = [step EXCEPT ![d] = s]
      /\ step'[d] = s /\ \A e \in Drivers \ {d} : step'[e] = step[e]
      BY DEF Go, SkillsInv, Drives
<1>2. Drives'
      BY <1>1 DEF SkillsInv, Drives
<1>3. \A e \in Drivers \ {d} : InRecovery(e)' <=> InRecovery(e)
      BY <1>1 DEF InRecovery
<1>4. Turns'
      BY <1>3, RecoveryAssumption DEF SkillsInv, Turns
<1>5. Cleared'
      BY <1>1 DEF SkillsInv, Cleared
<1> QED BY <1>2, <1>4, <1>5 DEF SkillsInv, RetriedSeesSkills

\* Every step of a driver, of a lost pod and of a destroy keeps it.
LEMMA SkillsStep == ASSUME SkillsInv, [RecoveryNext]_recvars PROVE SkillsInv'
<1> USE DEF OnOk, OnLost, OnError, pod, side, hist
<1>0. /\ life \in Nat \ {0} /\ from \in [Drivers -> {"first", "replay", "again", "retry"}]
      /\ \A d \in Drivers : InRecovery(d) => turn = d
      BY DEF SkillsInv, Drives, Turns
<1>1. ASSUME NEW d \in Drivers, CallSidecar(d) \/ TakeLock(d) \/ Probe(d) \/ ReadMetadata(d)
      PROVE  SkillsInv'
  <2>1. PICK s \in {"first", "locking", "probe", "recover", "creating", "replay", "swap",
                  "reprobe", "again", "release", "raising", "retry", "done", "raised"} :
            /\ Go(d, s) /\ s # "release"
            /\ \/ s = "first" /\ turn' = turn
               \/ s = "probe" /\ turn = NoDriver /\ turn' = d
               \/ InRecovery(d) /\ turn' = turn
        BY <1>1 DEF CallSidecar, TakeLock, Probe, ReadMetadata, InRecovery
  <2>2. UNCHANGED <<life, mnt, from, vouched, bare>>
        BY <1>1 DEF CallSidecar, TakeLock, Probe, ReadMetadata
  <2>3. step'[d] = s
        BY <2>1 DEF Go, SkillsInv, Drives
  <2>4. s = "first" => ~InRecovery(d)'
        BY <2>3 DEF InRecovery
  <2> QED BY <1>0, <2>1, <2>2, <2>4, DriverMoves
<1>2. ASSUME NEW d \in Drivers, ToolRequest(d) PROVE SkillsInv'
  <2>1. bare' = bare
        BY <1>2 DEF ToolRequest, SkillsInv, Cleared
  <2>2. PICK s \in {"done", "locking", "raised"} : Go(d, s)
        BY <1>2 DEF ToolRequest
  <2>3. UNCHANGED <<life, mnt, turn, from, vouched>>
        BY <1>2 DEF ToolRequest
  <2>4. step'[d] = s
        BY <2>2 DEF Go, SkillsInv, Drives
  <2>5. ~InRecovery(d)'
        BY <2>4 DEF InRecovery
  <2> QED BY <1>0, <2>1, <2>2, <2>3, <2>5, DriverMoves
<1>3. ASSUME NEW d \in Drivers, SkillsRequest(d) PROVE SkillsInv'
  <2>1. UNCHANGED <<life, mnt, turn, vouched, bare>>
        BY <1>3 DEF SkillsRequest
  <2>2. step[d] \in {"first", "retry", "replay", "again"}
        BY <1>3 DEF SkillsRequest
  <2>3. PICK s \in {"swap", "done", "release", "locking", "reprobe", "raising", "raised"} :
            /\ Go(d, s) /\ (s = "release" => mnt)
            /\ s = "swap" => from' = [from EXCEPT ![d] = step[d]]
            /\ s # "swap" => from' = from
            /\ s \in {"release", "reprobe", "raising"} => step[d] \in {"replay", "again"}
        BY <1>3, <2>2 DEF SkillsRequest
  <2>4. /\ from' \in [Drivers -> {"first", "replay", "again", "retry"}]
        /\ \A e \in Drivers \ {d} : from'[e] = from[e]
        /\ s = "swap" => from'[d] = step[d]
        BY <1>0, <2>2, <2>3
  <2>5. step'[d] = s
        BY <2>3 DEF Go, SkillsInv, Drives
  <2>6. InRecovery(d)' => InRecovery(d)
        BY <2>3, <2>4, <2>5 DEF InRecovery
  <2> QED BY <2>1, <2>3, <2>4, <2>6, DriverMoves
<1>4. ASSUME NEW d \in Drivers, Materialize(d) PROVE SkillsInv'
  <2>1. UNCHANGED <<life, turn, from, vouched, bare>> /\ (mnt => mnt') /\ step[d] = "swap"
        BY <1>4 DEF Materialize
  <2>2. from[d] \in {"first", "replay", "again", "retry"}
        BY <1>0
  <2>3. PICK s \in {"done", "release", "locking", "reprobe", "raising", "raised"} :
            /\ Go(d, s) /\ (s = "release" => mnt')
            /\ s \in {"release", "reprobe", "raising"} => from[d] \in {"replay", "again"}
        BY <1>4, <2>2 DEF Materialize
  <2>4. step'[d] = s
        BY <2>3 DEF Go, SkillsInv, Drives
  <2>5. InRecovery(d)' => InRecovery(d)
        BY <2>1, <2>3, <2>4 DEF InRecovery
  <2> QED BY <1>0, <2>1, <2>3, <2>5, DriverMoves
<1>5. ASSUME NEW d \in Drivers, Recreate(d) PROVE SkillsInv'
  <2>1. turn = d /\ turn' = turn /\ from' = from /\ vouched' = vouched /\ bare' = bare
        /\ InRecovery(d)
        BY <1>0, <1>5 DEF Recreate, InRecovery
  <2>2. PICK s \in {"again", "replay", "raising"} : Go(d, s)
        BY <1>5 DEF Recreate
  <2>3. CASE UNCHANGED <<life, mnt>>
        BY <1>0, <2>1, <2>2, <2>3, DriverMoves
  <2>4. CASE life' = life + 1 /\ mnt' = FALSE
    <3>1. /\ step' = [step EXCEPT ![d] = s] /\ step'[d] = s
          /\ \A e \in Drivers \ {d} : step'[e] = step[e]
          BY <2>2 DEF Go, SkillsInv, Drives
    <3>2. Drives'
          BY <1>0, <2>1, <2>2, <2>4, <3>1 DEF SkillsInv, Drives
    <3>3. \A e \in Drivers \ {d} : InRecovery(e)' <=> InRecovery(e)
          BY <2>1, <3>1 DEF InRecovery
    <3>4. Turns'
          BY <1>0, <2>1, <3>3 DEF Turns
    <3>5. \A e \in Drivers : step'[e] # "release"
      <4>1. \A e \in Drivers \ {d} : step[e] # "release"
            BY <1>0, <2>1 DEF InRecovery
      <4> QED BY <2>2, <3>1, <4>1
    <3>6. \A e \in Drivers : vouched'[e] \in 0..life' /\ vouched'[e] # life'
          BY <1>0, <2>1, <2>4 DEF SkillsInv, Cleared
    <3>7. Cleared'
          BY <2>1, <3>5, <3>6 DEF SkillsInv, Cleared
    <3> QED BY <2>1, <3>2, <3>4, <3>7 DEF SkillsInv, RetriedSeesSkills
  <2> QED BY <1>5, <2>3, <2>4 DEF Recreate
<1>6. ASSUME NEW d \in Drivers, NoReplay(d) PROVE SkillsInv'
  <2>1. turn = d /\ UNCHANGED <<life, mnt, from, vouched, bare>>
        BY <1>0, <1>6 DEF NoReplay, InRecovery
  <2>2. PICK s \in {"done", "retry"} : Go(d, s)
        BY <1>6 DEF NoReplay
  <2>3. ~InRecovery(d)'
    <3>1. step'[d] = s
          BY <2>2 DEF Go, SkillsInv, Drives
    <3> QED BY <3>1 DEF InRecovery
  <2> QED BY <1>0, <2>1, <2>2, <2>3, DriverMoves
<1>7. ASSUME NEW d \in Drivers, LeaveLock(d) PROVE SkillsInv'
  <2>1. turn = d /\ UNCHANGED <<life, mnt, from, bare>>
        BY <1>0, <1>7 DEF LeaveLock, InRecovery
  <2>2. PICK s \in {"done", "raised", "retry"} : Go(d, s)
        BY <1>7 DEF LeaveLock
  <2>3. /\ step' = [step EXCEPT ![d] = s] /\ step'[d] = s
        /\ \A e \in Drivers \ {d} : step'[e] = step[e]
        BY <2>2 DEF Go, SkillsInv, Drives
  <2>4. Drives'
        BY <2>1, <2>3, <2>2 DEF SkillsInv, Drives
  <2>5. Turns'
    <3>1. \A e \in Drivers \ {d} : ~InRecovery(e)
          BY <1>0, <2>1
    <3> QED BY <2>1, <2>3, <2>2, <3>1 DEF Turns, InRecovery
  <2>6. vouched' = [vouched EXCEPT ![d] = IF step[d] = "release" /\ sandbox = "up" THEN life ELSE 0]
        BY <1>7 DEF LeaveLock
  <2>7. \A e \in Drivers : vouched'[e] \in 0..life /\ (vouched'[e] = life => mnt)
    <3>1. 0 \in 0..life /\ life \in 0..life /\ life # 0
          BY <1>0
    <3>2. \A e \in Drivers \ {d} : vouched'[e] = vouched[e]
          BY <2>6 DEF SkillsInv, Cleared
    <3>3. vouched'[d] = IF step[d] = "release" /\ sandbox = "up" THEN life ELSE 0
          BY <2>6 DEF SkillsInv, Cleared
    <3> QED BY <3>1, <3>2, <3>3 DEF SkillsInv, Cleared
  <2>8. Cleared'
        BY <2>1, <2>2, <2>3, <2>6, <2>7 DEF SkillsInv, Cleared
  <2> QED BY <2>1, <2>4, <2>5, <2>8 DEF SkillsInv, RetriedSeesSkills
<1>8. CASE Lose \/ Forget \/ DeletePod \/ PodGone \/ UNCHANGED recvars
  <2>1. UNCHANGED <<life, mnt, turn, step, from, vouched, bare>>
        BY <1>8 DEF Lose, Forget, DeletePod, PodGone, recvars
  <2> QED BY <2>1 DEF SkillsInv, Drives, Turns, InRecovery, Cleared, RetriedSeesSkills
<1> QED BY <1>1, <1>2, <1>3, <1>4, <1>5, <1>6, <1>7, <1>8 DEF RecoveryNext

\* Whoever loses its pod and whenever, an operation that is sent again runs in a
\* pod that has the session's skills (_call_sidecar_with_recovery, recover_session).
THEOREM RetriesSeeSkills == RecoverySpec => []RetriedSeesSkills
<1>1. SkillsInv => RetriedSeesSkills
      BY DEF SkillsInv
<1> QED BY <1>1, SkillsStart, SkillsStep, PTL DEF RecoverySpec

\* Who is about to create a pod read metadata of a session that was not gone: as
\* long as the destroyed pod is the last there was, the store has none.
EarlyReads ==
    /\ \A d \in Drivers : step[d] = "creating" => d \in early
    /\ torn # "no" => target \in 0..life
    /\ torn # "no" /\ life = target => ~meta
    /\ step = [d \in Drivers |-> step[d]]

\* Every step of a driver and of a destroy keeps it.
LEMMA EarlyReadsStep == ASSUME SkillsInv, EarlyReads, [RecoveryNext]_recvars PROVE EarlyReads'
<1> USE DEF pod, side, hist
<1>1. CASE UNCHANGED recvars
      BY <1>1 DEF recvars, EarlyReads
<1>2. ASSUME NEW d \in Drivers, NEW s, s # "creating", Go(d, s),
             UNCHANGED <<life, sandbox, meta, torn, target, early>>
      PROVE  EarlyReads'
      BY <1>2 DEF EarlyReads, Go
<1>3. ASSUME NEW d \in Drivers,
             \/ CallSidecar(d) \/ ToolRequest(d) \/ SkillsRequest(d)
             \/ TakeLock(d) \/ Probe(d) \/ NoReplay(d) \/ LeaveLock(d)
      PROVE  EarlyReads'
  <2>1. UNCHANGED <<life, sandbox, meta, torn, target, early>>
        BY <1>3 DEF CallSidecar, ToolRequest, SkillsRequest, TakeLock, Probe, NoReplay, LeaveLock
  <2>2. \E s : s # "creating" /\ Go(d, s)
        BY <1>3 DEF CallSidecar, ToolRequest, SkillsRequest, TakeLock, Probe, NoReplay, LeaveLock,
                    OnOk, OnLost, OnError
  <2> QED BY <1>2, <2>1, <2>2
<1>4. ASSUME NEW d \in Drivers, Materialize(d) PROVE EarlyReads'
  <2>0. from[d] \in {"first", "replay", "again", "retry"}
        BY DEF SkillsInv, Drives
  <2>1. UNCHANGED <<life, sandbox, meta, torn, target, early>>
        BY <1>4 DEF Materialize
  <2>2. \E s : s # "creating" /\ Go(d, s)
        BY <1>4, <2>0 DEF Materialize, OnOk, OnLost, OnError
  <2> QED BY <1>2, <2>1, <2>2
<1>5. ASSUME NEW d \in Drivers, ReadMetadata(d) PROVE EarlyReads'
  <2>1. UNCHANGED <<life, sandbox, meta, torn, target>>
        BY <1>5 DEF ReadMetadata
  <2>2. CASE sandbox # "none" \/ meta
    <3>1. /\ Go(d, "creating")
          /\ early' = IF Gone THEN early \ {d} ELSE early \cup {d}
          BY <1>5, <2>2 DEF ReadMetadata
    <3>2. ~Gone
          BY <2>2 DEF EarlyReads, Gone
    <3> QED BY <2>1, <3>1, <3>2 DEF EarlyReads, Go
  <2>3. CASE ~(sandbox # "none" \/ meta)
    <3>1. \E s : s # "creating" /\ Go(d, s)
          BY <1>5, <2>3 DEF ReadMetadata, OnError
    <3>2. early' = early
          BY <1>5, <2>3 DEF ReadMetadata
    <3> QED BY <1>2, <2>1, <3>1, <3>2
  <2> QED BY <2>2, <2>3
<1>6. ASSUME NEW d \in Drivers, Recreate(d) PROVE EarlyReads'
  <2>1. /\ \E s : s # "creating" /\ Go(d, s)
        /\ early' = early \ {d} /\ UNCHANGED <<torn, target>>
        BY <1>6 DEF Recreate
  <2>2. CASE UNCHANGED <<life, meta>>
        BY <1>6, <2>1, <2>2 DEF Recreate, EarlyReads, Go
  <2>3. CASE life' = life + 1
    <3>1. life \in Nat /\ UNCHANGED <<torn, target>>
          BY <1>6 DEF SkillsInv, Recreate, Drives
    <3>2. torn' # "no" => target' \in 0..life' /\ life' # target'
          BY <2>3, <3>1 DEF EarlyReads
    <3> QED BY <2>1, <3>1, <3>2 DEF EarlyReads, Go
  <2> QED BY <1>6, <2>2, <2>3 DEF Recreate
<1>7. CASE Lose
      BY <1>7 DEF Lose, EarlyReads
<1>8. CASE Forget
      BY <1>8 DEF Forget, EarlyReads, SkillsInv, Drives
<1>9. CASE DeletePod \/ PodGone
      BY <1>9 DEF DeletePod, PodGone, EarlyReads
<1> QED BY <1>1, <1>3, <1>4, <1>5, <1>6, <1>7, <1>8, <1>9 DEF RecoveryNext

\* Once the pod of a destroyed session is gone, the session gets a pod only from
\* a recovery that had read its metadata before (recover_session,
\* destroy_session).
THEOREM DestroyedStaysGone == RecoverySpec => NotResurrected
<1>1. RecoveryInit => SkillsInv /\ EarlyReads
      BY SkillsStart DEF RecoveryInit, EarlyReads
<1>2. SkillsInv /\ EarlyReads /\ [RecoveryNext]_recvars => (SkillsInv /\ EarlyReads)'
      BY SkillsStep, EarlyReadsStep
<1>3. EarlyReads /\ [RecoveryNext]_recvars =>
        [torn = "yes" /\ life' # life =>
            \E d \in early : step[d] = "creating" /\ step'[d] # "creating"]_recvars
  <2> SUFFICES ASSUME EarlyReads, RecoveryNext, life' # life
               PROVE  \E d \in early : step[d] = "creating" /\ step'[d] # "creating"
      BY DEF recvars
  <2>1. PICK d \in Drivers : Recreate(d)
        BY DEF RecoveryNext, pod, CallSidecar, ToolRequest, SkillsRequest, Materialize, TakeLock,
               Probe, ReadMetadata, NoReplay, LeaveLock, Lose, Forget, DeletePod, PodGone
  <2>2. step[d] = "creating" /\ d \in early
        BY <2>1 DEF Recreate, EarlyReads
  <2>3. step'[d] # "creating"
        BY <2>1 DEF Recreate, Go, EarlyReads
  <2> QED BY <2>2, <2>3
<1> QED BY <1>1, <1>2, <1>3, PTL DEF RecoverySpec, NotResurrected

-----------------------------------------------------------------------------
(* The clients.                                                            *)

\* Where a block is, and what it owes there.
BlockAt ==
    \/ (\E c : todo = <<CreateCall, c, DestroyCall>>) /\ ~known
    \/ \E c : todo = <<c, DestroyCall>>
    \/ /\ todo = <<DestroyCall>>
       /\ reply # "none" => reclaimed \/ (cancelled /\ client = "go")
    \/ todo = <<>> /\ (known /\ ~reclaimed => cancelled /\ client \in {"go", "rust"})

\* The inductive invariant.
BlockInv ==
    /\ client = "none" => todo = <<>> /\ ~known
    /\ todo = <<>> => reply = "none"
    /\ known \in BOOLEAN /\ reclaimed \in BOOLEAN /\ cancelled \in BOOLEAN
    /\ block => BlockAt

\* The first state: no client has begun.
LEMMA BlockStart == ClientInit => BlockInv
BY DEF ClientInit, BlockInv

\* The calls of a block, one after another.
LEMMA TailsOfBlock ==
    ASSUME NEW c
    PROVE  /\ Len(<<CreateCall, c, DestroyCall>>) = 3 /\ Len(<<c, DestroyCall>>) = 2
           /\ Len(<<DestroyCall>>) = 1 /\ Len(<<>>) = 0
           /\ Tail(<<CreateCall, c, DestroyCall>>) = <<c, DestroyCall>>
           /\ Tail(<<c, DestroyCall>>) = <<DestroyCall>> /\ Tail(<<DestroyCall>>) = <<>>
           /\ Head(<<DestroyCall>>) = DestroyCall
           /\ Head(<<CreateCall, c, DestroyCall>>) = CreateCall
           /\ <<CreateCall, c, DestroyCall>> # <<>> /\ <<c, DestroyCall>> # <<>>
           /\ <<DestroyCall>> # <<>>
OBVIOUS

\* Every step of a client keeps it.
LEMMA BlockStep == BlockInv /\ [ClientNext]_clientvars => BlockInv'
<1> SUFFICES ASSUME BlockInv, [ClientNext]_clientvars PROVE BlockInv'
    OBVIOUS
<1>1. CASE UNCHANGED clientvars
    BY <1>1 DEF BlockInv, BlockAt, clientvars
<1>2. CASE Begin
    <2>1. client = "none" /\ client' # "none"
        BY <1>2 DEF Begin, Clients
    <2>2. ~known' /\ todo' # <<>>
        BY <1>2, <2>1, TailsOfBlock DEF Begin, BlockInv
    <2>3. block' => BlockAt'
        BY <1>2, <2>2 DEF Begin, BlockAt
    <2> QED
        BY <1>2, <2>1, <2>2, <2>3 DEF Begin, BlockInv
<1>3. CASE Attempted
    <2>1. /\ todo # <<>> /\ UNCHANGED <<client, todo, block, known, cancelled>>
          /\ reclaimed => reclaimed'
          /\ reclaimed' \in BOOLEAN
          /\ Now = DestroyCall => reclaimed' \/ (cancelled /\ client = "go")
        BY <1>3 DEF Attempted, CanSend, BlockInv
    <2>2. BlockAt => BlockAt'
        BY <2>1, TailsOfBlock DEF BlockAt, Now
    <2> QED
        BY <2>1, <2>2 DEF BlockInv
<1>4. CASE Again
    BY <1>4 DEF Again, BlockInv, BlockAt
<1>5. CASE Over
    <2>1. /\ reply # "none" /\ reply' = "none" /\ todo # <<>>
          /\ todo' = IF block THEN BlockGoesOn(reply = "ok") ELSE <<>>
          /\ known' = (known \/ (Now = CreateCall /\ reply = "ok"))
          /\ UNCHANGED <<client, block, reclaimed, cancelled>>
        BY <1>5 DEF Over, BlockInv
    <2>2. client # "none"
        BY <2>1 DEF BlockInv
    <2>3. ASSUME block PROVE BlockAt'
        <3>1. CASE (\E c : todo = <<CreateCall, c, DestroyCall>>) /\ ~known
            BY <2>1, <2>3, <3>1, TailsOfBlock DEF BlockGoesOn, BlockAt, Now
        <3>2. CASE \E c : todo = <<c, DestroyCall>>
            BY <2>1, <2>3, <3>2, TailsOfBlock DEF BlockGoesOn, BlockAt
        <3>3. CASE /\ todo = <<DestroyCall>>
                   /\ reclaimed \/ (cancelled /\ client = "go")
            BY <2>1, <2>3, <3>3, TailsOfBlock DEF BlockGoesOn, BlockAt
        <3> QED
            BY <2>1, <2>3, <3>1, <3>2, <3>3 DEF BlockInv, BlockAt
    <2> QED
        BY <2>1, <2>2, <2>3 DEF BlockInv
<1>6. CASE CancelBlock
    <2>1. /\ block /\ Len(todo) = 2 /\ client \in {"python", "go", "rust"}
          /\ cancelled' = TRUE /\ reply' = "none"
          /\ todo' = IF client = "rust" THEN <<>> ELSE Tail(todo)
          /\ UNCHANGED <<client, block, known, reclaimed>>
        BY <1>6 DEF CancelBlock
    <2>2. \E c : todo = <<c, DestroyCall>>
        <3>1. BlockAt
            BY <2>1 DEF BlockInv
        <3>2. \A c : todo # <<CreateCall, c, DestroyCall>>
            BY <2>1, TailsOfBlock
        <3>3. Len(todo) = 2
            BY <2>1
        <3>4. todo # <<DestroyCall>> /\ todo # <<>>
            BY <3>3
        <3> QED
            BY <3>1, <3>2, <3>4 DEF BlockAt
    <2>3. todo' = <<DestroyCall>> \/ (client = "rust" /\ todo' = <<>>)
        BY <2>1, <2>2, TailsOfBlock
    <2> QED
        BY <2>1, <2>3 DEF BlockInv, BlockAt
<1> QED
    BY <1>1, <1>2, <1>3, <1>4, <1>5, <1>6 DEF ClientNext

\* A block that created its sandbox asks for its destruction before it ends,
\* whatever its code did, but for a caller who cancels a Go or a Rust block.
THEOREM BlocksCleanUp == ClientSpec => []BlockCleansUp
<1>1. BlockInv => BlockCleansUp
    BY TailsOfBlock DEF BlockInv, BlockAt, BlockCleansUp
<1> QED
    BY BlockStart, BlockStep, <1>1, PTL DEF ClientSpec

\* The routes that a method with an idempotent verb calls.
Repeated ==
    {"get_account", "get_usage", "get_allowed_commands", "set_allowed_commands",
     "clear_allowed_commands", "get_sandbox", "list_sandboxes", "delete_sandbox",
     "get_image", "list_images", "delete_image", "get_volume", "list_volumes", "delete_volume",
     "list_webhooks", "list_webhook_deliveries", "delete_webhook", "list_mcp_connections",
     "delete_mcp_connection", "list_secrets", "delete_secret", "forget_memory", "search",
     "profile", "list_memories", "get_memory", "relations", "export_memories",
     "get_sandbox_log", "list_processes_in_sandbox", "get_process_output_in_sandbox",
     "list_snapshots_for_session", "get_snapshot", "delete_snapshot"}

\* None of a table adds: they are of other tables, or set or read.
LEMMA RepeatedAddNothing == \A h \in Repeated : ControlRoute(h, "add") \notin ControlRoutes
<1> SUFFICES ASSUME NEW h \in Repeated PROVE ControlRoute(h, "add") \notin ControlRoutes
    OBVIOUS
<1>1. /\ \A S : ControlRoute(h, "add") \notin Reads(S)
      /\ \A S : ControlRoute(h, "add") \notin Sets(S)
      /\ \A S : h \notin S => ControlRoute(h, "add") \notin Adds(S)
      /\ ControlRoute(h, "add") # ControlRoute("search", "count")
    BY DEF Reads, Sets, Adds, ControlRoute
<1>2. ControlRoute(h, "add") \notin SandboxRoutes
    BY <1>1 DEF SandboxRoutes, Repeated
<1>3. ControlRoute(h, "add") \notin FileRoutes
    BY <1>1 DEF FileRoutes, Repeated
<1>4. ControlRoute(h, "add") \notin LspRoutes
    BY <1>1 DEF LspRoutes, Repeated
<1>5. ControlRoute(h, "add") \notin ProcessRoutes
    BY <1>1 DEF ProcessRoutes, Repeated
<1>6. ControlRoute(h, "add") \notin LogRoutes
    BY <1>1 DEF LogRoutes, Repeated
<1>7. ControlRoute(h, "add") \notin TakeoverRoutes
    BY <1>1 DEF TakeoverRoutes, Repeated
<1>8. ControlRoute(h, "add") \notin PreviewRoutes
    BY <1>1 DEF PreviewRoutes, Repeated
<1>9. ControlRoute(h, "add") \notin SnapshotRoutes
    BY <1>1 DEF SnapshotRoutes, Repeated
<1>10. ControlRoute(h, "add") \notin ImageRoutes
    BY <1>1 DEF ImageRoutes, Repeated
<1>11. ControlRoute(h, "add") \notin VolumeRoutes
    BY <1>1 DEF VolumeRoutes, Repeated
<1>12. ControlRoute(h, "add") \notin WebhookRoutes
    BY <1>1 DEF WebhookRoutes, Repeated
<1>13. ControlRoute(h, "add") \notin ConnectionRoutes
    BY <1>1 DEF ConnectionRoutes, Repeated
<1>14. ControlRoute(h, "add") \notin SecretRoutes
    BY <1>1 DEF SecretRoutes, Repeated
<1>15. ControlRoute(h, "add") \notin MemoryWrites
    BY <1>1 DEF MemoryWrites, Repeated
<1>16. ControlRoute(h, "add") \notin MemoryReads
    BY <1>1 DEF MemoryReads, Repeated
<1>17. ControlRoute(h, "add") \notin AccountRoutes
    BY <1>1 DEF AccountRoutes, Repeated
<1>18. ControlRoute(h, "add") \notin UsageRoutes
    BY <1>1 DEF UsageRoutes, Repeated
<1>19. ControlRoute(h, "add") \notin AuthRoutes
    BY <1>1 DEF AuthRoutes, Repeated
<1> QED
    BY <1>2, <1>3, <1>4, <1>5, <1>6, <1>7, <1>8, <1>9, <1>10, <1>11, <1>12, <1>13, <1>14, <1>15, <1>16, <1>17, <1>18, <1>19
    DEF ControlRoutes

\* What a client calls more than once adds nothing.
Careful(S) == \A c \in S : c.verb \in IdempotentMethods => c.to \in Repeated

\* A set of calls is as careful as its parts; a POST is never sent again.
LEMMA CarefulVerbs ==
    /\ \A S : Careful(Post(S)) /\ Careful(Dial(S))
    /\ \A S : S \subseteq Repeated => Careful(Get(S)) /\ Careful(Put(S)) /\ Careful(Delete(S))
    /\ \A S, T : Careful(S) /\ Careful(T) => Careful(S \cup T)
    /\ \A S, T : Careful(S) /\ T \subseteq S => Careful(T)
BY DEF Careful, Post, Dial, Get, Put, Delete, IdempotentMethods

\* Of the Python client, table by table.
LEMMA PythonCareful ==
    /\ Careful(PyAccount)
    /\ Careful(PySandboxes)
    /\ Careful(PyImages)
    /\ Careful(PyWebhooks)
    /\ Careful(PySecrets)
    /\ Careful(PyMemory)
    /\ Careful(PyFiles)
    /\ Careful(PyProcesses)
    /\ Careful(PyPreviews)
<1>1. Careful(PyAccount)
    BY CarefulVerbs DEF PyAccount, Repeated
<1>2. Careful(PySandboxes)
    BY CarefulVerbs DEF PySandboxes, Repeated
<1>3. Careful(PyImages)
    BY CarefulVerbs DEF PyImages, Repeated
<1>4. Careful(PyWebhooks)
    BY CarefulVerbs DEF PyWebhooks, Repeated
<1>5. Careful(PySecrets)
    BY CarefulVerbs DEF PySecrets, Repeated
<1>6. Careful(PyMemory)
    BY CarefulVerbs DEF PyMemory, Repeated
<1>7. Careful(PyFiles)
    BY CarefulVerbs DEF PyFiles, Repeated
<1>8. Careful(PyProcesses)
    BY CarefulVerbs DEF PyProcesses, Repeated
<1>9. Careful(PyPreviews)
    BY CarefulVerbs DEF PyPreviews, Repeated
<1> QED
    BY <1>1, <1>2, <1>3, <1>4, <1>5, <1>6, <1>7, <1>8, <1>9

\* Of the JavaScript client.
LEMMA JavaScriptCareful ==
    /\ Careful(JsFiles) /\ Careful(JsProcesses) /\ Careful(JsSandboxes \ PySandboxes)
    /\ Careful(JavaScript)
<1>1. Careful(JsSandboxes \ PySandboxes)
    <2>1. JsSandboxes \ PySandboxes
              \subseteq Post({"create_snapshot", "restore_snapshot"})
                        \cup Get({"list_snapshots_for_session", "get_snapshot"})
                        \cup Delete({"delete_snapshot"})
        BY DEF JsSandboxes
    <2>2. Careful(Post({"create_snapshot", "restore_snapshot"})
                  \cup Get({"list_snapshots_for_session", "get_snapshot"})
                  \cup Delete({"delete_snapshot"}))
        BY CarefulVerbs DEF Repeated
    <2> QED
        BY <2>1, <2>2, CarefulVerbs
<1>2. Careful(JsSandboxes)
    BY <1>1, PythonCareful DEF Careful
<1>3. Careful(JsFiles) /\ Careful(JsTakeover)
    BY CarefulVerbs DEF JsFiles, JsTakeover
<1>4. Careful(JsProcesses)
    BY PythonCareful DEF JsProcesses, Careful
<1>5. Careful(JsPreviews)
    BY CarefulVerbs DEF JsPreviews, Repeated
<1>6. Careful(JsWebhooks)
    BY CarefulVerbs, PythonCareful DEF JsWebhooks
<1>7. Careful(JsAccount) /\ Careful(JsImages) /\ Careful(JsMemory)
    BY PythonCareful DEF JsAccount, JsImages, JsMemory
<1> QED
    BY <1>1, <1>2, <1>3, <1>4, <1>5, <1>6, <1>7 DEF JavaScript, Careful

\* Of the Go client.
LEMMA GoCareful ==
    /\ Careful(GoFiles) /\ Careful(GoLog) /\ Careful(GoExec) /\ Careful(GoConnections)
    /\ Careful(GoImages) /\ Careful(GoVolumes) /\ Careful(GoLang)
<1>1. Careful(GoAccount)
    BY CarefulVerbs, PythonCareful DEF GoAccount, Repeated
<1>2. Careful(GoExec) /\ Careful(GoTakeover) /\ Careful(GoDesktop) /\ Careful(GoPreview)
    BY CarefulVerbs DEF GoExec, GoTakeover, GoDesktop, GoPreview
<1>3. Careful(GoLog)
    BY CarefulVerbs DEF GoLog, Repeated
<1>4. Careful(GoFiles) /\ Careful(GoProcesses)
    BY JavaScriptCareful DEF GoFiles, GoProcesses, Careful
<1>5. Careful(GoSandbox) /\ Careful(GoSecrets) /\ Careful(GoMemory)
    BY PythonCareful DEF GoSandbox, GoSecrets, GoMemory
<1>6. Careful(GoImages) /\ Careful(GoVolumes) /\ Careful(GoWebhooks) /\ Careful(GoConnections)
    BY PythonCareful DEF GoImages, GoVolumes, GoWebhooks, GoConnections, Careful
<1>7. Careful(GoSnapshots)
    BY JavaScriptCareful DEF GoSnapshots
<1> QED
    BY <1>1, <1>2, <1>3, <1>4, <1>5, <1>6, <1>7 DEF GoLang, Careful

\* Of the Rust client.
LEMMA RustCareful == Careful(Rust)
<1>1. Careful(RustLsp) /\ Careful(RustSearch) /\ Careful(RustFiles)
    BY CarefulVerbs, PythonCareful, GoCareful DEF RustLsp, RustSearch, RustFiles, Careful
<1>2. Rust \subseteq RustLsp \cup RustSearch \cup RustFiles \cup GoLang
    BY DEF Rust, GoLang, RustAccount, RustSandboxes, RustExec, RustAudit, RustProcesses,
           RustTakeover, RustDesktop, RustPreview, RustSnapshots, RustImages, RustVolumes,
           RustWebhooks, RustConnections, RustSecrets, RustMemory
<1> QED
    BY <1>1, <1>2, GoCareful DEF Careful

\* Of the MCP server and the agent adapters.
LEMMA AgentsCareful ==
    /\ Careful(CallsOf["mcp"]) /\ Careful(CallsOf["langchain"]) /\ Careful(CallsOf["vercel"])
<1>1. Careful(McpMemory)
    BY CarefulVerbs DEF McpMemory, Repeated
<1>2. Careful(McpSandboxes) /\ Careful(McpFiles)
    BY PythonCareful DEF McpSandboxes, McpFiles, Careful
<1>3. Careful(McpImages) /\ Careful(McpVolumes) /\ Careful(McpConnections)
    BY GoCareful DEF McpImages, McpVolumes, McpConnections
<1>4. Careful(LangchainFiles) /\ Careful(JsLangchainFiles) /\ Careful(VercelFiles)
    BY JavaScriptCareful DEF LangchainFiles, JsLangchainFiles, VercelFiles, Careful
<1>5. Careful(LangchainProcesses)
    BY PythonCareful DEF LangchainProcesses, Careful
<1>6. Careful(JsLangchainProcesses) /\ Careful(VercelProcesses)
    BY <1>5, CarefulVerbs DEF JsLangchainProcesses, VercelProcesses
<1> QED
    BY <1>1, <1>2, <1>3, <1>4, <1>5, <1>6, CarefulVerbs DEF CallsOf

\* Of every client, and of what its blocks offer.
LEMMA CallsCareful ==
    ASSUME NEW k \in Clients
    PROVE  Careful(CallsOf[k]) /\ Careful(BlocksOf[k])
<1>1. Careful(Python)
    BY PythonCareful, CarefulVerbs
    DEF Python, PyAsyncAccount, PyAsyncSandboxes, PyAsyncImages, PyAsyncWebhooks,
        PyAsyncSecrets, PyAsyncMemory, PyAsyncFiles, PyAsyncProcesses, PyAsyncPreviews
<1>2. Careful(CallsOf[k])
    <2>1. /\ Careful(CallsOf["python"]) /\ Careful(CallsOf["js"]) /\ Careful(CallsOf["go"])
          /\ Careful(CallsOf["rust"])
        BY <1>1, JavaScriptCareful, GoCareful, RustCareful DEF CallsOf
    <2> QED
        BY <2>1, AgentsCareful DEF Clients
<1>3. \A S : Careful(S) => Careful(OfSession(S))
    BY DEF OfSession, Careful
<1>4. Careful(PySession) /\ Careful(PyAsyncSession)
    BY <1>3, PythonCareful, CarefulVerbs DEF PySession, PyAsyncSession
<1>5. Careful(JsSession)
    <2>1. Careful(JsFiles \cup JsProcesses \cup JsTakeover \cup JsPreviews)
        BY JavaScriptCareful DEF JavaScript, Careful
    <2> QED
        BY <1>3, <2>1 DEF JsSession
<1>6. Careful(GoSession) /\ Careful(RustSession)
    BY <1>3, GoCareful, RustCareful DEF GoSession, RustSession
<1>7. Careful({})
    BY DEF Careful
<1> QED
    BY <1>2, <1>4, <1>5, <1>6, <1>7 DEF BlocksOf, Clients

\* A call that may add has run at most once, and not at all before its next
\* attempt or after a 429.
AddsOnce ==
    /\ client = "none" => todo = <<>> /\ reply = "none" /\ applied = 0
    /\ applied \in Nat
    /\ \E S : todo \in Seq(S) /\ Careful(S)
    /\ todo = <<>> => reply = "none"
    /\ todo # <<>> /\ Now.to \notin Repeated =>
           /\ applied <= 1
           /\ reply \in {"none", "429"} => applied = 0

\* The first state: nothing was sent.
LEMMA AddsStart == ClientInit => AddsOnce
<1>1. <<>> \in Seq({}) /\ Careful({})
    BY EmptySeq DEF Careful
<1> QED
    BY <1>1 DEF ClientInit, AddsOnce

\* A call, or the calls of a block, that a client may make.
LEMMA BegunCareful ==
    ASSUME Begin
    PROVE  \E S : todo' \in Seq(S) /\ Careful(S)
<1>1. client' \in Clients /\ Careful(CallsOf[client']) /\ Careful(BlocksOf[client'])
    BY CallsCareful DEF Begin
<1>2. CASE \E c \in CallsOf[client'] : todo' = <<c>>
    BY <1>1, <1>2
<1>3. CASE \E c \in BlocksOf[client'] : todo' = <<CreateCall, c, DestroyCall>>
    <2> DEFINE S == BlocksOf[client'] \cup {CreateCall, DestroyCall}
    <2>1. Careful({CreateCall, DestroyCall})
        BY DEF Careful, CreateCall, DestroyCall, IdempotentMethods, Repeated
    <2>2. Careful(S)
        BY <1>1, <2>1, CarefulVerbs
    <2>3. todo' \in Seq(S)
        BY <1>3
    <2> QED
        BY <2>2, <2>3
<1> QED
    BY <1>2, <1>3 DEF Begin

\* Every step keeps it: only a 429, which the server sent before acting, has a
\* POST sent again.
LEMMA AddsStep ==
    ASSUME BatchCreate = FALSE, AddsOnce, [ClientNext]_clientvars
    PROVE  AddsOnce'
<1>1. CASE UNCHANGED clientvars
    BY <1>1 DEF AddsOnce, Now, clientvars
<1>2. CASE Begin
    <2>1. client = "none" /\ client' # "none" /\ UNCHANGED <<reply, applied>>
        BY <1>2 DEF Begin, Clients
    <2> QED
        BY <1>2, <2>1, BegunCareful DEF AddsOnce
<1>3. CASE Attempted
    <2>1. /\ todo # <<>> /\ reply = "none" /\ UNCHANGED <<client, todo>>
          /\ \/ reply' \in {"lost", "429", "unsent"} /\ applied' = applied
             \/ reply' \in {"ok", "5xx", "lost"} /\ applied' = applied + 1
        BY <1>3 DEF Attempted
    <2> QED
        BY <2>1 DEF AddsOnce, Now
<1>4. CASE Again
    <2>1. /\ reply # "none" /\ Retries(Now.verb, reply) /\ reply' = "none"
          /\ UNCHANGED <<client, todo, applied>>
        BY <1>4 DEF Again
    <2>2. ASSUME todo # <<>>, Now.to \notin Repeated PROVE reply = "429"
        <3> PICK S : todo \in Seq(S) /\ Careful(S)
            BY DEF AddsOnce
        <3>1. Now \in S
            BY <2>2, HeadTailProperties DEF Now
        <3>2. Now.verb \notin IdempotentMethods
            BY <2>2, <3>1 DEF Careful
        <3> QED
            BY <2>1, <3>2 DEF Retries, ShouldRetry, RustShouldRetry
    <2> QED
        BY <2>1, <2>2 DEF AddsOnce, Now
<1>5. CASE Over \/ CancelBlock
    <2>1. /\ todo' \in {Tail(todo), <<>>} /\ applied' = 0 /\ UNCHANGED client
          /\ reply' = "none" /\ client # "none" /\ todo # <<>>
        BY <1>5 DEF Over, CancelBlock, BlockGoesOn, AddsOnce
    <2>2. \E S : todo' \in Seq(S) /\ Careful(S)
        <3> PICK S : todo \in Seq(S) /\ Careful(S)
            BY DEF AddsOnce
        <3>1. <<>> \in Seq(S)
            BY EmptySeq
        <3> QED
            BY <2>1, <3>1, HeadTailProperties
    <2> QED
        BY <2>1, <2>2 DEF AddsOnce
<1> QED
    BY <1>1, <1>2, <1>3, <1>4, <1>5 DEF ClientNext

\* No call of any client, however it retries, makes two of what was asked for
\* once, as long as a create asks for one sandbox (RetryConfig of the SDKs).
THEOREM RetriesAddNothing == BatchCreate = FALSE => (ClientSpec => []RepeatsHarmless)
<1>1. AddsOnce => RepeatsHarmless
    <2> SUFFICES ASSUME AddsOnce, todo # <<>>, applied > 1
                 PROVE  ControlRoute(Now.to, "add") \notin ControlRoutes
        BY DEF RepeatsHarmless
    <2> QED
        BY RepeatedAddNothing DEF AddsOnce
<1> SUFFICES ASSUME BatchCreate = FALSE PROVE ClientSpec => []RepeatsHarmless
    OBVIOUS
<1>2. AddsOnce /\ [ClientNext]_clientvars => AddsOnce'
    BY AddsStep
<1> QED
    BY AddsStart, <1>1, <1>2, PTL DEF ClientSpec

-----------------------------------------------------------------------------
(* The shared sandbox of the tools.                                        *)

\* Where a tool call may be.
Places == {"idle", "ensure", "lock", "op", "audit", "end"} \cup Preparing

\* The call that prepares the sandbox has the lock and is the only one, and an
\* operation comes after it.
PreparingAlone ==
    /\ doing \in [ToolCallIds -> Places]
    /\ prepared \in BOOLEAN /\ prepares = IF prepared THEN 1 ELSE 0
    /\ prepared /\ HasSkills => skilled = TRUE
    /\ \A c \in ToolCallIds : doing[c] \in Preparing => initLock = c /\ ~prepared
    /\ \A c \in ToolCallIds : doing[c] = "op" => prepared

\* The first state: no tool was called.
LEMMA PreparingStart == ToolInit => PreparingAlone
BY DEF ToolInit, PreparingAlone, Places, Preparing

\* A step that leaves the runtime alone and goes where its own guard leads.
LEMMA RuntimeLeft ==
    ASSUME PreparingAlone, UNCHANGED runtimevars, NEW c \in ToolCallIds, NEW d, At(c, d),
           d \in {"ensure", "lock", "audit", "end"} \/ (d = "op" /\ prepared)
    PROVE  PreparingAlone'
BY DEF PreparingAlone, runtimevars, At, Places, Preparing

\* An operation leaves the runtime as it is.
LEMMA ContinueLeaves ==
    ASSUME PreparingAlone, UNCHANGED runtimevars, NEW c \in ToolCallIds, doing[c] = "op",
           NEW rest, NEW o, Continue(c, rest, o)
    PROVE  PreparingAlone'
<1>1. prepared
    BY DEF PreparingAlone
<1> QED
    BY <1>1, RuntimeLeft DEF Continue

\* Creating the session ends with the runtime prepared, the skills to come, or
\* the lock given up.
LEMMA CreateStep ==
    ASSUME PreparingAlone, NEW c \in ToolCallIds, CreateSandbox(c)
    PROVE  PreparingAlone'
<1>1. initLock = c /\ ~prepared /\ prepares = 0
    BY DEF PreparingAlone, CreateSandbox, Preparing
<1>2. \A d \in ToolCallIds \ {c} : doing[d] \notin Preparing /\ doing[d] # "op"
    BY <1>1 DEF PreparingAlone
<1>3. CASE /\ UNCHANGED runtimevars
           /\ \E d \in Preparing : At(c, d)
    BY <1>1, <1>2, <1>3 DEF PreparingAlone, At, Places, Preparing, runtimevars
<1>4. CASE ~HasSkills /\ Prepared(c) /\ UNCHANGED skilled
    <2>1. prepared' = TRUE /\ prepares' = 1 /\ At(c, "op")
        BY <1>1, <1>4 DEF Prepared
    <2>2. doing' \in [ToolCallIds -> Places]
        BY <2>1 DEF PreparingAlone, At, Places
    <2>3. HasSkills => skilled' = TRUE
        BY <1>4
    <2>4. \A d \in ToolCallIds : doing'[d] \notin Preparing
        BY <1>2, <2>1 DEF PreparingAlone, At, Preparing
    <2> QED
        BY <2>1, <2>2, <2>3, <2>4 DEF PreparingAlone
<1>5. CASE PrepareFails(c) /\ UNCHANGED skilled
    BY <1>1, <1>2, <1>5 DEF PreparingAlone, PrepareFails, Ends, At, Places, Preparing
<1>6. \/ UNCHANGED runtimevars /\ (At(c, "skills") \/ At(c, "create again"))
      \/ ~HasSkills /\ Prepared(c) /\ UNCHANGED skilled
      \/ PrepareFails(c) /\ UNCHANGED skilled
    BY DEF CreateSandbox, runtimevars
<1>7. "skills" \in Preparing /\ "create again" \in Preparing
    BY DEF Preparing
<1> QED
    BY <1>3, <1>4, <1>5, <1>6, <1>7

\* So do the skills.
LEMMA SkillsPrepStep ==
    ASSUME PreparingAlone, NEW c \in ToolCallIds, EnsureSessionSkills(c)
    PROVE  PreparingAlone'
<1>1. initLock = c /\ ~prepared /\ prepares = 0
    BY DEF PreparingAlone, EnsureSessionSkills, Preparing
<1>2. \A d \in ToolCallIds \ {c} : doing[d] \notin Preparing /\ doing[d] # "op"
    BY <1>1 DEF PreparingAlone
<1>3. CASE /\ UNCHANGED runtimevars
           /\ At(c, "skills again")
    BY <1>1, <1>2, <1>3 DEF PreparingAlone, At, Places, Preparing, runtimevars
<1>4. CASE skilled' = TRUE /\ Prepared(c)
    <2>1. prepared' = TRUE /\ prepares' = 1 /\ At(c, "op")
        BY <1>1, <1>4 DEF Prepared
    <2>2. doing' \in [ToolCallIds -> Places]
        BY <2>1 DEF PreparingAlone, At, Places
    <2>3. HasSkills => skilled' = TRUE
        BY <1>4
    <2>4. \A d \in ToolCallIds : doing'[d] \notin Preparing
        BY <1>2, <2>1 DEF PreparingAlone, At, Preparing
    <2> QED
        BY <2>1, <2>2, <2>3, <2>4 DEF PreparingAlone
<1>5. CASE PrepareFails(c) /\ UNCHANGED skilled
    BY <1>1, <1>2, <1>5 DEF PreparingAlone, PrepareFails, Ends, At, Places, Preparing
<1>6. \/ UNCHANGED runtimevars /\ At(c, "skills again")
      \/ skilled' = TRUE /\ Prepared(c)
      \/ PrepareFails(c) /\ UNCHANGED skilled
    BY DEF EnsureSessionSkills, runtimevars
<1> QED
    BY <1>3, <1>4, <1>5, <1>6

\* Every step of a call keeps it.
LEMMA PreparingStep == PreparingAlone /\ [ToolNext]_toolvars => PreparingAlone'
<1> SUFFICES ASSUME PreparingAlone, [ToolNext]_toolvars PROVE PreparingAlone'
    OBVIOUS
<1>1. CASE UNCHANGED toolvars
    BY <1>1 DEF PreparingAlone, toolvars
<1> SUFFICES ASSUME NEW c \in ToolCallIds,
                    \/ \E t \in ToolsOf[c] : CallTool(c, t)
                    \/ EnsureReady(c)
                    \/ TakeInitLock(c)
                    \/ CreateSandbox(c)
                    \/ EnsureSessionSkills(c)
                    \/ CancelPreparing(c)
                    \/ \E good, twice \in BOOLEAN : OpAnswers(c, good, twice)
                    \/ \E ran \in BOOLEAN : OpRaises(c, ran) \/ OpCancelled(c, ran)
                    \/ RecordAudit(c)
             PROVE  PreparingAlone'
    BY <1>1 DEF ToolNext
<1>2. CASE \E t \in ToolsOf[c] : CallTool(c, t)
    BY <1>2, RuntimeLeft DEF CallTool, Ends
<1>3. CASE EnsureReady(c)
    <2>1. UNCHANGED runtimevars /\ At(c, IF prepared THEN "op" ELSE "lock")
        BY <1>3 DEF EnsureReady
    <2> QED
        BY <2>1, RuntimeLeft
<1>4. CASE TakeInitLock(c)
    <2>1. CASE prepared
        <3>1. UNCHANGED runtimevars /\ At(c, "op")
            BY <1>4, <2>1 DEF TakeInitLock, runtimevars
        <3> QED
            BY <2>1, <3>1, RuntimeLeft
    <2>2. CASE ~prepared
        <3>1. At(c, "create") /\ initLock = NoCall /\ initLock' = c
              /\ UNCHANGED <<prepared, prepares, skilled>>
            BY <1>4, <2>2 DEF TakeInitLock
        <3>2. \A d \in ToolCallIds : doing[d] \notin Preparing
            BY <3>1, ToolsAssumption DEF PreparingAlone
        <3> QED
            BY <2>2, <3>1, <3>2 DEF PreparingAlone, At, Places, Preparing
    <2> QED
        BY <2>1, <2>2
<1>5. CASE CreateSandbox(c)
    BY <1>5, CreateStep
<1>6. CASE EnsureSessionSkills(c)
    BY <1>6, SkillsPrepStep
<1>7. CASE CancelPreparing(c)
    <2>1. /\ UNCHANGED <<prepared, prepares, skilled>> /\ At(c, "end")
          /\ initLock' = IF initLock = c THEN NoCall ELSE initLock
        BY <1>7 DEF CancelPreparing, Ends
    <2> QED
        BY <2>1 DEF PreparingAlone, At, Places, Preparing
<1>8. CASE \E good, twice \in BOOLEAN : OpAnswers(c, good, twice)
    <2> PICK good \in BOOLEAN, twice \in BOOLEAN : OpAnswers(c, good, twice)
        BY <1>8
    <2>1. /\ doing[c] = "op" /\ UNCHANGED runtimevars
          /\ \E rest, o : Continue(c, rest, o)
        BY DEF OpAnswers
    <2> QED
        BY <2>1, ContinueLeaves
<1>9. CASE \E ran \in BOOLEAN : OpRaises(c, ran) \/ OpCancelled(c, ran)
    <2> PICK ran \in BOOLEAN : OpRaises(c, ran) \/ OpCancelled(c, ran)
        BY <1>9
    <2>1. /\ doing[c] = "op" /\ UNCHANGED runtimevars
          /\ \E rest, o : Continue(c, rest, o)
        BY DEF OpRaises, OpCancelled
    <2> QED
        BY <2>1, ContinueLeaves
<1>10. CASE RecordAudit(c)
    BY <1>10, RuntimeLeft DEF RecordAudit
<1> QED
    BY <1>2, <1>3, <1>4, <1>5, <1>6, <1>7, <1>8, <1>9, <1>10

\* Whichever calls come first together, the sandbox is prepared once, and no
\* operation is sent before its skills are there (LazySandboxRuntime.ensure_ready).
THEOREM PreparedBeforeUse == ToolSpec => []PreparedOnce
<1>1. PreparingAlone => PreparedOnce
    BY DEF PreparingAlone, PreparedOnce
<1> QED
    BY PreparingStart, PreparingStep, <1>1, PTL DEF ToolSpec

-----------------------------------------------------------------------------
(* The credentials of the git tools.                                       *)

\* The roles that have no credential to do with.
Roles == {"main", "content", "parent", "bare"}
\* Operations none of which has a credential to do with.
Plain(q) == \E S : q \in Seq(S) /\ \A s \in S : s.role \in Roles

\* What is left of WithCredential.
AfterWrite == <<Step("execute", "chmod"), Do("execute"), Step("execute", "remove")>>
AfterChmod == <<Do("execute"), Step("execute", "remove")>>
AfterUse   == <<Step("execute", "remove")>>

\* A tool handles a credential from its first step to its last, or never.
Shaped(t) ==
    /\ Plain(t.orElse)
    /\ Plain(t.steps) \/ (t.steps = WithCredential /\ t.orElse = <<>>)

\* WithCredential, operation by operation.
LEMMA CredentialSteps ==
    /\ WithCredential # <<>> /\ Head(WithCredential).role = "write"
    /\ Tail(WithCredential) = AfterWrite
    /\ AfterWrite # <<>> /\ Head(AfterWrite).role = "chmod" /\ Tail(AfterWrite) = AfterChmod
    /\ AfterChmod # <<>> /\ Head(AfterChmod).role = "main" /\ Tail(AfterChmod) = AfterUse
    /\ AfterUse # <<>> /\ Head(AfterUse).role = "remove" /\ Tail(AfterUse) = <<>>
<1>1. WithCredential # <<>> /\ Head(WithCredential).role = "write"
    BY DEF WithCredential, Step, Do
<1>2. Tail(WithCredential) = AfterWrite
    BY DEF WithCredential, AfterWrite, Step, Do
<1>3. AfterWrite # <<>> /\ Head(AfterWrite).role = "chmod" /\ Tail(AfterWrite) = AfterChmod
    BY DEF AfterWrite, AfterChmod, Step, Do
<1>4. AfterChmod # <<>> /\ Head(AfterChmod).role = "main" /\ Tail(AfterChmod) = AfterUse
    BY DEF AfterUse, AfterChmod, Step, Do
<1>5. AfterUse # <<>> /\ Head(AfterUse).role = "remove" /\ Tail(AfterUse) = <<>>
    BY DEF AfterUse, Step
<1> QED
    BY <1>1, <1>2, <1>3, <1>4, <1>5

\* What the finally of an operation leaves to do.
LEMMA FinallySteps ==
    /\ Finally(AfterChmod) = AfterUse
    /\ Finally(AfterUse) = AfterUse
    /\ \A q : Plain(q) => Finally(q) = <<>>
<1>1. Finally(AfterChmod) = AfterUse
    BY DEF Finally, AfterChmod, AfterUse, Step, Do
<1>2. Finally(AfterUse) = AfterUse
    BY DEF Finally, AfterUse, Step
<1>3. ASSUME NEW q, Plain(q), q # <<>> PROVE q[Len(q)].role # "remove"
    <2> PICK S : q \in Seq(S) /\ \A s \in S : s.role \in Roles
        BY <1>3 DEF Plain
    <2>1. Len(q) \in 1..Len(q)
        BY <1>3, EmptySeq
    <2>2. q[Len(q)] \in S
        BY <2>1, ElementOfSeq
    <2> QED
        BY <2>2 DEF Roles
<1> QED
    BY <1>1, <1>2, <1>3 DEF Finally

\* Plain operations, one after another.
LEMMA PlainHead ==
    ASSUME NEW q, Plain(q), q # <<>>
    PROVE  Head(q).role \in Roles /\ Plain(Tail(q))
<1> PICK S : q \in Seq(S) /\ \A s \in S : s.role \in Roles
    BY DEF Plain
<1>1. Head(q) \in S /\ Tail(q) \in Seq(S)
    BY HeadTailProperties
<1> QED
    BY <1>1 DEF Plain

\* From the operations of a set.
LEMMA PlainOver ==
    ASSUME NEW S, NEW q \in Seq(S), \A s \in S : s.role \in Roles
    PROVE  Plain(q)
BY DEF Plain

\* Of up to three operations.
LEMMA PlainSteps ==
    /\ Plain(<<>>)
    /\ \A s : s.role \in Roles => Plain(<<s>>)
    /\ \A s, t : s.role \in Roles /\ t.role \in Roles => Plain(<<s, t>>)
    /\ \A s, t, u : s.role \in Roles /\ t.role \in Roles /\ u.role \in Roles => Plain(<<s, t, u>>)
<1>1. Plain(<<>>)
    <2>1. <<>> \in Seq({})
        BY EmptySeq
    <2>2. ASSUME NEW q \in Seq({}) PROVE Plain(q)
        BY PlainOver
    <2> QED
        BY <2>1, <2>2
<1>2. ASSUME NEW s, s.role \in Roles PROVE Plain(<<s>>)
    <2>1. <<s>> \in Seq({s})
        OBVIOUS
    <2>2. ASSUME NEW q \in Seq({s}) PROVE Plain(q)
        BY <1>2, PlainOver
    <2> QED
        BY <2>1, <2>2
<1>3. ASSUME NEW s, NEW t, s.role \in Roles, t.role \in Roles PROVE Plain(<<s, t>>)
    <2>1. <<s, t>> \in Seq({s, t})
        OBVIOUS
    <2>2. ASSUME NEW q \in Seq({s, t}) PROVE Plain(q)
        BY <1>3, PlainOver
    <2> QED
        BY <2>1, <2>2
<1>4. ASSUME NEW s, NEW t, NEW u, s.role \in Roles, t.role \in Roles, u.role \in Roles
      PROVE  Plain(<<s, t, u>>)
    <2>1. <<s, t, u>> \in Seq({s, t, u})
        OBVIOUS
    <2>2. ASSUME NEW q \in Seq({s, t, u}) PROVE Plain(q)
        BY <1>4, PlainOver
    <2> QED
        BY <2>1, <2>2
<1> QED
    BY <1>1, <1>2, <1>3, <1>4

\* The role of an operation is the one it was given.
LEMMA RolesOfSteps ==
    /\ \A o : Do(o).role = "main"
    /\ \A o, r : Step(o, r).role = r
BY DEF Do, Step

\* A tool of one operation.
LEMMA OneStep == \A name, o, audit : Shaped(Tool(name, <<Do(o)>>, audit))
<1>1. \A o : Plain(<<Do(o)>>)
    BY PlainSteps, RolesOfSteps DEF Roles
<1>2. \A name, q, audit :
          /\ Tool(name, q, audit).steps = q
          /\ Tool(name, q, audit).orElse = <<>>
    BY DEF Tool
<1> QED
    BY <1>1, <1>2, PlainSteps DEF Shaped

\* Every tool of the table, group by group.
LEMMA ToolsShaped == \A t \in AllTools : Shaped(t)
<1>1. \A t \in BashTool \cup PythonTool
                  \cup NodeTool \cup FileCreateTool \cup PresentFilesTool : Shaped(t)
    BY OneStep DEF BashTool, PythonTool, NodeTool, FileCreateTool, PresentFilesTool
<1>2. \A t \in LsTool \cup GlobTool \cup GrepTool \cup SemanticSearchTool \cup WatchTool : Shaped(t)
    BY OneStep DEF LsTool, GlobTool, GrepTool, SemanticSearchTool, WatchTool
<1>3. \A t \in StartProcessTool \cup ProcessOutputTool \cup ProcessInputTool
                  \cup StopProcessTool \cup ListProcessesTool \cup ProcessTreeTool : Shaped(t)
    BY OneStep DEF StartProcessTool, ProcessOutputTool, ProcessInputTool,
                    StopProcessTool, ListProcessesTool, ProcessTreeTool
<1>4. \A t \in HttpRequestTool \cup PtyExecTool
                  \cup RunTestsTool \cup WorkspaceDiffTool \cup ExplainTool : Shaped(t)
    BY OneStep DEF HttpRequestTool, PtyExecTool, RunTestsTool, WorkspaceDiffTool, ExplainTool
<1>5. \A t \in NavigateTool \cup BrowserExecTool \cup ScreenshotTool
                  \cup BrowserCloseTool \cup LspStartTool \cup LspStopTool : Shaped(t)
    BY OneStep DEF NavigateTool, BrowserExecTool, ScreenshotTool,
                    BrowserCloseTool, LspStartTool, LspStopTool
<1>6. \A t \in GitStatus \cup GitAdd \cup GitCommit \cup GitBranch \cup GitCheckout : Shaped(t)
    BY OneStep DEF GitStatus, GitAdd, GitCommit, GitBranch, GitCheckout
<1>7. \A t \in ViewTool : Shaped(t)
    <2> DEFINE text == <<Step("view", "parent"), Do("view")>>
               image == <<Step("view", "parent"), Step("read_image", "bare")>>
    <2>1. Plain(<<Do("view")>>) /\ Plain(<<Do("read_image")>>) /\ Plain(text) /\ Plain(image)
        BY PlainSteps, RolesOfSteps DEF Roles
    <2>2. ASSUME NEW t \in ViewTool
          PROVE  \/ t.steps = <<Do("view")>> /\ t.orElse = text
                 \/ t.steps = <<Do("read_image")>> /\ t.orElse = image
        BY <2>2 DEF ViewTool, Tool
    <2> QED
        BY <2>1, <2>2 DEF Shaped
<1>8. \A t \in StrReplaceTool \cup LspCompletionTool : Shaped(t)
    <2>1. /\ Plain(<<Do("str_replace"), Step("view", "content")>>)
          /\ Plain(<<Do("view"), Do("lsp_open"), Do("lsp_completion")>>)
        BY PlainSteps, RolesOfSteps DEF Roles
    <2>2. ASSUME NEW t \in StrReplaceTool \cup LspCompletionTool
          PROVE  /\ t.orElse = <<>>
                 /\ \/ t.steps = <<Do("str_replace"), Step("view", "content")>>
                    \/ t.steps = <<Do("view"), Do("lsp_open"), Do("lsp_completion")>>
        BY <2>2 DEF StrReplaceTool, LspCompletionTool, Tool
    <2> QED
        BY <2>1, <2>2, PlainSteps DEF Shaped
<1>9. \A t \in ScratchTool : Shaped(t)
    <2>1. ASSUME NEW t \in ScratchTool
          PROVE  t.orElse = <<>> /\ \E o : t.steps = <<Do(o)>>
        BY <2>1 DEF ScratchTool, Tool
    <2>2. \A o : Plain(<<Do(o)>>)
        BY PlainSteps, RolesOfSteps DEF Roles
    <2> QED
        BY <2>1, <2>2, PlainSteps DEF Shaped
<1>10. \A t \in GitClone \cup GitPush \cup GitPull : Shaped(t)
    <2>1. \A name, audit : Shaped(Tool(name, WithCredential, audit))
        BY PlainSteps DEF Shaped, Tool
    <2> QED
        BY <2>1, OneStep DEF GitClone, GitPush, GitPull
<1> QED
    BY <1>1, <1>2, <1>3, <1>4, <1>5, <1>6, <1>7, <1>8, <1>9, <1>10 DEF AllTools

\* A call whose credential is in /tmp has the removal before it, or lost sight
\* of the file.
FileKept(c) ==
    /\ Plain(tool[c].orElse)
    /\ \/ Plain(steps[c])
       \/ /\ steps[c] \in {WithCredential, AfterWrite, AfterChmod, AfterUse}
          /\ tool[c].orElse = <<>>
    /\ doing[c] = "idle" => Plain(steps[c])
    /\ c \in credentials =>
           \/ c \in mislaid
           \/ doing[c] = "op" /\ steps[c] \in {AfterWrite, AfterChmod, AfterUse}

\* tool, steps and doing are functions of the calls.
CallMaps ==
    /\ tool = [c \in ToolCallIds |-> tool[c]]
    /\ steps = [c \in ToolCallIds |-> steps[c]]
    /\ doing = [c \in ToolCallIds |-> doing[c]]
    /\ credentials \subseteq ToolCallIds

\* The inductive invariant.
FilesKept == CallMaps /\ \A c \in ToolCallIds : FileKept(c)

\* The first state: no tool was called.
LEMMA FilesStart == ToolInit => FilesKept
<1>1. Uncalled.orElse = <<>>
    BY DEF Uncalled, Tool
<1> QED
    BY <1>1, PlainSteps DEF ToolInit, FilesKept, FileKept, CallMaps

\* A step of one call leaves the others' as they are.
LEMMA OneCallMoves ==
    ASSUME FilesKept, NEW c \in ToolCallIds,
           tool' = [tool EXCEPT ![c] = tool'[c]],
           steps' = [steps EXCEPT ![c] = steps'[c]],
           doing' = [doing EXCEPT ![c] = doing'[c]],
           credentials' \subseteq credentials \cup {c},
           mislaid \subseteq mislaid',
           FileKept(c)'
    PROVE  FilesKept'
<1>1. CallMaps'
    BY DEF FilesKept, CallMaps
<1>2. ASSUME NEW d \in ToolCallIds, d # c PROVE FileKept(d)'
    BY <1>2 DEF FilesKept, FileKept, CallMaps
<1> QED
    BY <1>1, <1>2 DEF FilesKept

\* Continue goes on with rest.
LEMMA GoesOn ==
    ASSUME FilesKept, NEW c \in ToolCallIds, NEW rest, NEW o, Continue(c, rest, o)
    PROVE  /\ steps' = [steps EXCEPT ![c] = steps'[c]] /\ steps'[c] = rest
           /\ doing' = [doing EXCEPT ![c] = doing'[c]]
           /\ doing'[c] # "idle" /\ (rest # <<>> => doing'[c] = "op")
BY DEF FilesKept, CallMaps, Continue, At

\* A plain operation has no file to do with, and leaves none to remove.
LEMMA PlainStep ==
    ASSUME FilesKept, NEW c \in ToolCallIds, Plain(steps[c]), UNCHANGED tool,
           NEW rest, Plain(rest), NEW o, Continue(c, rest, o),
           credentials' = credentials, mislaid \subseteq mislaid'
    PROVE  FilesKept'
<1>1. c \in credentials => c \in mislaid
    <2>1. ~Plain(AfterUse) /\ ~Plain(AfterWrite)
        BY CredentialSteps, PlainHead DEF Roles
    <2>2. ~Plain(AfterChmod)
        BY <2>1, CredentialSteps, PlainHead
    <2> QED
        BY <2>1, <2>2 DEF FilesKept, FileKept
<1>2. FileKept(c)'
    BY <1>1, GoesOn DEF FilesKept, FileKept
<1> QED
    BY <1>2, GoesOn, OneCallMoves DEF FilesKept, CallMaps

\* An operation of a credential goes on to the removal or knows of no file.
LEMMA CredentialStep ==
    ASSUME FilesKept, NEW c \in ToolCallIds, tool[c].orElse = <<>>, UNCHANGED tool,
           NEW rest, NEW o, Continue(c, rest, o),
           rest \in {AfterWrite, AfterChmod, AfterUse, <<>>},
           credentials' \subseteq credentials \cup {c},
           mislaid \subseteq mislaid',
           rest = <<>> /\ c \in credentials' => c \in mislaid'
    PROVE  FilesKept'
<1>1. FileKept(c)'
    <2>1. Plain(tool'[c].orElse)
        BY DEF FilesKept, FileKept
    <2>2. CASE rest = <<>>
        BY <2>1, <2>2, GoesOn, PlainSteps DEF FileKept
    <2>3. CASE rest # <<>>
        BY <2>1, <2>3, GoesOn DEF FileKept
    <2> QED
        BY <2>2, <2>3
<1> QED
    BY <1>1, GoesOn, OneCallMoves DEF FilesKept, CallMaps

\* An operation that answers keeps it.
LEMMA AnswerStep ==
    ASSUME FilesKept, NEW c \in ToolCallIds, NEW good \in BOOLEAN, NEW twice,
           OpAnswers(c, good, twice)
    PROVE  FilesKept'
<1> DEFINE s == Head(steps[c])
           rest == Tail(steps[c])
<1>1. /\ doing[c] = "op" /\ steps[c] # <<>> /\ UNCHANGED tool
      /\ CredentialFile(c, s.role, good)
      /\ mislaid' = IF s.role = "remove" /\ ~good THEN mislaid \cup {c} ELSE mislaid
      /\ CASE good \/ s.role = "remove" -> Continue(c, rest, outcome[c])
           [] s.role = "main" -> Continue(c, Finally(rest), "bad")
           [] s.role = "content" -> Continue(c, rest, "unread")
           [] s.role = "chmod" -> Continue(c, Finally(rest), "raised")
           [] OTHER -> Continue(c, <<>>, "raised")
    BY DEF OpAnswers
<1>2. mislaid \subseteq mislaid' /\ credentials' \subseteq credentials \cup {c}
    BY <1>1 DEF CredentialFile
<1>3. CASE Plain(steps[c])
    <2>1. s.role \in Roles /\ Plain(rest)
        BY <1>1, <1>3, PlainHead
    <2>2. credentials' = credentials
        BY <1>1, <2>1 DEF CredentialFile, Roles
    <2>3. Plain(Finally(rest)) /\ Plain(<<>>)
        BY <2>1, FinallySteps, PlainSteps
    <2>4. \E q, o : Plain(q) /\ Continue(c, q, o)
        BY <1>1, <2>1, <2>3 DEF Roles
    <2> QED
        BY <1>1, <1>2, <1>3, <2>2, <2>4, PlainStep
<1>4. CASE ~Plain(steps[c])
    <2>1. tool[c].orElse = <<>> /\ steps[c] \in {WithCredential, AfterWrite, AfterChmod, AfterUse}
        BY <1>4 DEF FilesKept, FileKept
    <2>2. CASE steps[c] = WithCredential
        <3>1. s.role = "write" /\ rest = AfterWrite
            BY <2>2, CredentialSteps
        <3>2. CASE good
            <4>1. Continue(c, AfterWrite, outcome[c])
                BY <1>1, <3>1, <3>2
            <4> QED
                BY <1>1, <1>2, <2>1, <4>1, CredentialStep, CredentialSteps
        <3>3. CASE ~good
            <4>1. Continue(c, <<>>, "raised") /\ credentials' = credentials
                BY <1>1, <3>1, <3>3 DEF CredentialFile
            <4>2. c \in credentials => c \in mislaid
                BY <2>2, CredentialSteps DEF FilesKept, FileKept
            <4> QED
                BY <1>1, <1>2, <2>1, <4>1, <4>2, CredentialStep
        <3> QED
            BY <3>2, <3>3
    <2>3. CASE steps[c] = AfterWrite
        <3>1. s.role = "chmod" /\ rest = AfterChmod
            BY <2>3, CredentialSteps
        <3>2. \/ Continue(c, AfterChmod, outcome[c])
              \/ Continue(c, AfterUse, "raised")
            BY <1>1, <3>1, FinallySteps
        <3> QED
            BY <1>1, <1>2, <2>1, <3>2, CredentialStep, CredentialSteps
    <2>4. CASE steps[c] = AfterChmod
        <3>1. s.role = "main" /\ rest = AfterUse
            BY <2>4, CredentialSteps
        <3>2. \E o : Continue(c, AfterUse, o)
            BY <1>1, <3>1, FinallySteps
        <3> QED
            BY <1>1, <1>2, <2>1, <3>2, CredentialStep, CredentialSteps
    <2>5. CASE steps[c] = AfterUse
        <3>1. s.role = "remove" /\ rest = <<>>
            BY <2>5, CredentialSteps
        <3>2. Continue(c, <<>>, outcome[c])
            BY <1>1, <3>1
        <3>3. c \in credentials' => c \in mislaid'
            BY <1>1, <3>1 DEF CredentialFile
        <3> QED
            BY <1>1, <1>2, <2>1, <3>2, <3>3, CredentialStep
    <2> QED
        BY <2>1, <2>2, <2>3, <2>4, <2>5
<1> QED
    BY <1>3, <1>4

\* An operation that raises or is cancelled, and what it leaves to do.
LEMMA FailureStep ==
    ASSUME FilesKept, NEW c \in ToolCallIds, NEW ran \in BOOLEAN, UNCHANGED tool,
           NEW q, NEW o, Continue(c, q, o), doing[c] = "op", steps[c] # <<>>,
           CredentialFile(c, Head(steps[c]).role, ran),
           mislaid' = IF \/ Head(steps[c]).role \in {"write", "chmod"}
                         \/ Head(steps[c]).role = "remove" /\ ~ran
                      THEN mislaid \cup {c} ELSE mislaid,
           \/ Head(steps[c]).role = "main" /\ q = Finally(Tail(steps[c]))
           \/ Head(steps[c]).role # "main" /\ q = <<>>
           \/ Head(steps[c]).role \in {"content", "remove"} /\ q = Tail(steps[c])
           \/ Head(steps[c]).role = "main" /\ q = tool[c].orElse /\ q # <<>>
    PROVE  FilesKept'
<1> DEFINE s == Head(steps[c])
           rest == Tail(steps[c])
<1>1. mislaid \subseteq mislaid' /\ credentials' \subseteq credentials \cup {c}
    BY DEF CredentialFile
<1>2. CASE Plain(steps[c])
    <2>1. s.role \in Roles /\ Plain(rest)
        BY <1>2, PlainHead
    <2>2. credentials' = credentials
        BY <2>1 DEF CredentialFile, Roles
    <2>3. Plain(Finally(rest)) /\ Plain(<<>>) /\ Plain(tool[c].orElse)
        BY <2>1, FinallySteps, PlainSteps DEF FilesKept, FileKept
    <2>4. Plain(q)
        BY <2>1, <2>3 DEF Roles
    <2> QED
        BY <1>1, <1>2, <2>2, <2>4, PlainStep
<1>3. CASE ~Plain(steps[c])
    <2>1. tool[c].orElse = <<>> /\ steps[c] \in {WithCredential, AfterWrite, AfterChmod, AfterUse}
        BY <1>3 DEF FilesKept, FileKept
    <2>2. CASE steps[c] \in {WithCredential, AfterWrite}
        <3>1. q = <<>> /\ c \in mislaid'
            BY <2>2, CredentialSteps
        <3> QED
            BY <1>1, <2>1, <3>1, CredentialStep
    <2>3. CASE steps[c] = AfterChmod
        <3>1. q = AfterUse
            BY <2>1, <2>3, CredentialSteps, FinallySteps
        <3> QED
            BY <1>1, <2>1, <3>1, CredentialStep, CredentialSteps
    <2>4. CASE steps[c] = AfterUse
        <3>1. s.role = "remove" /\ q = <<>>
            BY <2>4, CredentialSteps
        <3>2. c \in credentials' => c \in mislaid'
            BY <3>1 DEF CredentialFile
        <3> QED
            BY <1>1, <2>1, <3>1, <3>2, CredentialStep
    <2> QED
        BY <2>1, <2>2, <2>3, <2>4
<1> QED
    BY <1>2, <1>3

\* So does one that raises or is cancelled.
LEMMA RaiseStep ==
    ASSUME FilesKept, NEW c \in ToolCallIds, NEW ran \in BOOLEAN,
           OpRaises(c, ran) \/ OpCancelled(c, ran)
    PROVE  FilesKept'
<1>1. /\ doing[c] = "op" /\ steps[c] # <<>> /\ UNCHANGED tool
      /\ CredentialFile(c, Head(steps[c]).role, ran)
      /\ mislaid' = IF \/ Head(steps[c]).role \in {"write", "chmod"}
                       \/ Head(steps[c]).role = "remove" /\ ~ran
                    THEN mislaid \cup {c} ELSE mislaid
    BY DEF OpRaises, OpCancelled
<1>2. \E q, o :
          /\ Continue(c, q, o)
          /\ \/ Head(steps[c]).role = "main" /\ q = Finally(Tail(steps[c]))
             \/ Head(steps[c]).role # "main" /\ q = <<>>
             \/ Head(steps[c]).role \in {"content", "remove"} /\ q = Tail(steps[c])
             \/ Head(steps[c]).role = "main" /\ q = tool[c].orElse /\ q # <<>>
    BY DEF OpRaises, OpCancelled
<1> QED
    BY <1>1, <1>2, FailureStep

\* A step that neither runs an operation nor touches a file.
LEMMA NoOperation ==
    ASSUME FilesKept, UNCHANGED <<credentials, mislaid>>, NEW c \in ToolCallIds,
           doing[c] # "op", UNCHANGED <<tool, steps>>,
           \/ At(c, "op") \/ At(c, "lock") \/ At(c, "create") \/ At(c, "create again")
           \/ At(c, "skills") \/ At(c, "skills again") \/ At(c, "end")
    PROVE  FilesKept'
BY DEF FilesKept, FileKept, CallMaps, At

\* And a call of a tool, whose operations are yet to come.
LEMMA CallStep ==
    ASSUME FilesKept, NEW c \in ToolCallIds, NEW t \in AllTools, CallTool(c, t)
    PROVE  FilesKept'
<1>1. /\ doing[c] = "idle" /\ UNCHANGED <<credentials, mislaid>>
      /\ tool' = [tool EXCEPT ![c] = t]
      /\ doing' = [doing EXCEPT ![c] = doing'[c]]
      /\ \/ doing'[c] = "end" /\ UNCHANGED steps
         \/ doing'[c] = "ensure" /\ steps' = [steps EXCEPT ![c] = t.steps]
    BY DEF CallTool, Ends, At, sandboxvars, FilesKept, CallMaps
<1>2. FileKept(c)'
    BY <1>1, ToolsShaped DEF FilesKept, FileKept, CallMaps, Shaped
<1>3. tool' = [tool EXCEPT ![c] = tool'[c]] /\ steps' = [steps EXCEPT ![c] = steps'[c]]
    BY <1>1 DEF FilesKept, CallMaps
<1> QED
    BY <1>1, <1>2, <1>3, OneCallMoves

\* Every step of a call keeps it.
LEMMA FilesStep == FilesKept /\ [ToolNext]_toolvars => FilesKept'
<1> SUFFICES ASSUME FilesKept, [ToolNext]_toolvars PROVE FilesKept'
    OBVIOUS
<1>1. CASE UNCHANGED toolvars
    BY <1>1 DEF FilesKept, FileKept, CallMaps, toolvars
<1> SUFFICES ASSUME NEW c \in ToolCallIds,
                    \/ \E t \in ToolsOf[c] : CallTool(c, t)
                    \/ EnsureReady(c)
                    \/ TakeInitLock(c)
                    \/ CreateSandbox(c)
                    \/ EnsureSessionSkills(c)
                    \/ CancelPreparing(c)
                    \/ \E good, twice \in BOOLEAN : OpAnswers(c, good, twice)
                    \/ \E ran \in BOOLEAN : OpRaises(c, ran) \/ OpCancelled(c, ran)
                    \/ RecordAudit(c)
             PROVE  FilesKept'
    BY <1>1 DEF ToolNext
<1>2. CASE \E t \in ToolsOf[c] : CallTool(c, t)
    <2>1. ToolsOf[c] \subseteq AllTools
        BY ToolsAssumption
    <2> QED
        BY <1>2, <2>1, CallStep
<1>3. CASE \/ EnsureReady(c) \/ TakeInitLock(c) \/ CreateSandbox(c) \/ EnsureSessionSkills(c)
           \/ CancelPreparing(c) \/ RecordAudit(c)
    <2>1. doing[c] # "op" /\ UNCHANGED <<tool, steps, credentials, mislaid>>
        BY <1>3 DEF EnsureReady, TakeInitLock, CreateSandbox, EnsureSessionSkills,
                    CancelPreparing, RecordAudit, sandboxvars, Preparing
    <2>2. \/ At(c, "op") \/ At(c, "lock") \/ At(c, "create") \/ At(c, "create again")
          \/ At(c, "skills") \/ At(c, "skills again") \/ At(c, "end")
        <3>1. EnsureReady(c) => At(c, "op") \/ At(c, "lock")
            BY DEF EnsureReady
        <3>2. CreateSandbox(c) =>
                  At(c, "op") \/ At(c, "skills") \/ At(c, "create again") \/ At(c, "end")
            BY DEF CreateSandbox, Prepared, PrepareFails, Ends
        <3>3. EnsureSessionSkills(c) => At(c, "op") \/ At(c, "skills again") \/ At(c, "end")
            BY DEF EnsureSessionSkills, Prepared, PrepareFails, Ends
        <3>4. TakeInitLock(c) => At(c, "op") \/ At(c, "create")
            BY DEF TakeInitLock
        <3>5. CancelPreparing(c) \/ RecordAudit(c) => At(c, "end")
            BY DEF CancelPreparing, RecordAudit, Ends
        <3> QED
            BY <1>3, <3>1, <3>2, <3>3, <3>4, <3>5
    <2> QED
        BY <2>1, <2>2, NoOperation
<1>4. CASE \E good, twice \in BOOLEAN : OpAnswers(c, good, twice)
    BY <1>4, AnswerStep
<1>5. CASE \E ran \in BOOLEAN : OpRaises(c, ran) \/ OpCancelled(c, ran)
    BY <1>5, RaiseStep
<1> QED
    BY <1>2, <1>3, <1>4, <1>5

\* A git tool that has ended, by an answer, an error or a cancellation, has
\* removed its credential file, unless it never learnt that the file was written
\* or the removal failed (git_tools.py, the finally blocks).
THEOREM CredentialRemoved == ToolSpec => []CredentialGone
<1>1. FilesKept => CredentialGone
    BY DEF FilesKept, FileKept, CallMaps, CredentialGone
<1> QED
    BY FilesStart, FilesStep, <1>1, PTL DEF ToolSpec
=============================================================================
