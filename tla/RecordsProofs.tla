---------------------------- MODULE RecordsProofs ----------------------------
(***************************************************************************)
(* The records the control plane keeps of people and files, for any number *)
(* of tokens, connections and snapshots: a spent token stays spent         *)
(* (AccessTokens), what an operator typed is accounted for and a recording *)
(* is stored once (Takeover), a deleted snapshot leaves nothing behind     *)
(* while a restored session has every file (Snapshots), the audit log of a *)
(* session verifies and is shown whole as long as its rows come in order   *)
(* (ExecLog), and a webhook is attempted as often as configured, with a    *)
(* bound on what workers that do not claim their rows add to that          *)
(* (WebhookDelivery).                                                      *)
(***************************************************************************)
EXTENDS AccessTokens, Takeover, Snapshots, ExecLog, WebhookDelivery, FiniteSetTheorems, WellFoundedInduction, TLAPS

-----------------------------------------------------------------------------
(* Single-use and preview tokens.                                          *)

\* A single-use token that was accepted is remembered, or has expired.
OncesKept == \A t \in Onces :
    /\ redeemed[t] \in {0, 1}
    /\ redeemed[t] = 1 => exp[t] # Never /\ (t \in seen \/ exp[t] <= now)

\* A preview token that was revoked is denied, or has expired; a denial lasts
\* at least as long as its token, whenever it was made.
LinksDenied == \A l \in Links :
    /\ exp[l] <= now + MaxTtl
    /\ denied[l] # Never => exp[l] # Never /\ exp[l] <= denied[l]
    /\ l \in revoked => exp[l] # Never /\ (denied[l] # Never \/ exp[l] <= now)

\* With served empty, no request was let in by a revoked token.
TokensInv == TokensTypeOK /\ OncesKept /\ LinksDenied /\ served = {}

\* The first state: no token was minted.
LEMMA TokensStart == TokensInit => TokensInv
BY TokenAssumption DEF TokensInit, TokensInv, TokensTypeOK, OncesKept, LinksDenied, Never

\* Minting, redeeming, revoking, proxying and the passing of time keep it.
LEMMA TokensStep == TokensInv /\ [TokensNext]_tokenvars => TokensInv'
<1> SUFFICES ASSUME TokensInv, [TokensNext]_tokenvars PROVE TokensInv'
    OBVIOUS
<1> USE TokenAssumption DEF TokensInv, TokensTypeOK, OncesKept, LinksDenied, Never
<1>1. CASE Passes
      BY <1>1 DEF Passes
<1>2. ASSUME NEW t \in Onces, MintOnce(t) PROVE TokensInv'
      BY <1>2 DEF MintOnce
<1>3. ASSUME NEW t \in Onces, Redeem(t) PROVE TokensInv'
      BY <1>3 DEF Redeem, StillSeen, Valid
<1>4. ASSUME NEW l \in Links, Revoke(l) PROVE TokensInv'
      BY <1>4 DEF Revoke, KeptUntil
<1>5. ASSUME NEW l \in Links, Proxy(l) PROVE TokensInv'
      BY <1>5 DEF Proxy, Valid
<1>6. ASSUME NEW l \in Links, NEW ttl \in LinkTtls, MintLink(l, ttl) PROVE TokensInv'
      BY <1>6 DEF MintLink
<1>7. CASE UNCHANGED tokenvars
      BY <1>7 DEF tokenvars
<1>8. QED
      BY <1>1, <1>2, <1>3, <1>4, <1>5, <1>6, <1>7 DEF TokensNext

\* No token is redeemed twice and no revoked link is served, however long the
\* process forgets them after (_consume_takeover_jti, _consume_desktop_jti,
\* PreviewTokenRevocationRepository).
THEOREM TokensStaySpent == TokensSpec => []SpentStays
<1>1. TokensInv => SpentStays
      BY DEF TokensInv, OncesKept, SpentStays
<1>2. QED
      BY <1>1, TokensStart, TokensStep, PTL DEF TokensSpec

-----------------------------------------------------------------------------
(* Human takeover.                                                         *)

\* The mark of the periodic flush never passes what was typed; a connection
\* that closes has no write under way, one that has made its last flush has
\* nothing left to flush.
Mark(c) ==
    /\ flushed[c] <= typed[c]
    /\ conn[c] # "open" => writing[c] = 0
    /\ conn[c] \in {"leaving", "last", "ending", "closed"} => flushed[c] = typed[c]
    /\ logged[c] + writing[c] + lost[c] + cut[c] + (typed[c] - flushed[c]) = typed[c]
    /\ cut[c] > 0 => typed[c] > MaxLogged

FlushMark == \A c \in Conns : Mark(c)

\* The shared recording is the one buffer of everybody who is attached, and
\* its ref_count is their number; a buffer that a connection finalizes has been
\* let go, by that connection and no other.
SharedRecording ==
    /\ shared.refs = Cardinality(Attached)
    /\ shared.buffer = NoBuffer <=> Attached = {}
    /\ \A c \in Attached : mirror[c] = shared.buffer
    /\ shared.buffer # NoBuffer => uploaded[shared.buffer] = 0

\* A recording is finalized by one connection, which was the last of it.
BuffersOnce ==
    /\ \A c \in Conns : conn[c] = "new" => uploaded[c] = 0
    /\ \A c \in Conns : mirror[c] # NoBuffer => conn[mirror[c]] # "new"
    /\ \A c \in Conns : conn[c] = "last" =>
          mirror[c] # NoBuffer /\ mirror[c] # shared.buffer /\ uploaded[mirror[c]] = 0
    /\ \A c, d \in Conns : conn[c] = "last" /\ conn[d] = "last" /\ mirror[c] = mirror[d] => c = d
    /\ \A b \in Buffers : uploaded[b] <= 1

TakeInv == TakeTypeOK /\ FlushMark /\ SharedRecording /\ BuffersOnce

\* The first state: nobody is attached.
LEMMA TakeStart == TakeInit => TakeInv
<1> SUFFICES ASSUME TakeInit PROVE TakeInv
    OBVIOUS
<1>1. Attached = {} /\ Cardinality(Attached) = 0
      BY FS_EmptySet DEF TakeInit, Attached
<1>2. Cardinality(Conns) \in Nat
      BY TakeAssumption, FS_CardinalityType
<1>3. TakeTypeOK
      BY TakeAssumption, <1>2 DEF TakeInit, TakeTypeOK, Buffers
<1>4. FlushMark
      BY TakeAssumption DEF TakeInit, FlushMark, Mark
<1>5. SharedRecording /\ BuffersOnce
      BY TakeAssumption, <1>1 DEF TakeInit, SharedRecording, BuffersOnce, Buffers
<1>6. QED BY <1>3, <1>4, <1>5 DEF TakeInv

\* What a write logs and cuts is the whole chunk, and it cuts of a long one only.
LEMMA LogsAll ==
    ASSUME TakeTypeOK, NEW c \in Conns, NEW n \in Nat, Logs(c, n)
    PROVE  /\ logged'[c] \in Nat /\ cut'[c] \in Nat /\ n > 0 => logged'[c] >= logged[c]
           /\ logged'[c] + cut'[c] = logged[c] + cut[c] + n
           /\ cut'[c] > cut[c] => n > MaxLogged
           /\ logged' \in [Conns -> Nat] /\ cut' \in [Conns -> Nat]
<1>1. Fits(n) \in Nat /\ Fits(n) <= n /\ (Fits(n) < n => n > MaxLogged)
      BY TakeAssumption DEF Fits
<1>2. logged' = [logged EXCEPT ![c] = @ + Fits(n)] /\ cut' = [cut EXCEPT ![c] = @ + (n - Fits(n))]
      BY DEF Logs
<1>3. logged \in [Conns -> Nat] /\ cut \in [Conns -> Nat]
      BY DEF TakeTypeOK
<1> HIDE DEF Fits
<1> QED BY <1>1, <1>2, <1>3

\* A byte is logged, cut, lost with a failed write, being written or not yet flushed.
LEMMA FlushKept ==
    ASSUME TakeInv, [TakeNext]_takevars
    PROVE  FlushMark'
<1> SUFFICES ASSUME NEW c \in Conns PROVE Mark(c)'
    BY DEF FlushMark
<1> USE TakeAssumption DEF TakeInv, TakeTypeOK
<1>1. Mark(c)
      BY DEF FlushMark
<1>2. /\ typed[c] \in Nat /\ flushed[c] \in Nat /\ writing[c] \in Nat /\ logged[c] \in Nat
      /\ lost[c] \in Nat /\ cut[c] \in Nat /\ MaxLogged \in Nat
      OBVIOUS
<1>4. CASE \/ UNCHANGED takevars
           \/ \E d \in Conns \ {c} :
                \/ Attach(d) \/ Type(d) \/ Snapshot(d) \/ SnapshotWritten(d) \/ SnapshotFails(d)
                \/ Disconnect(d) \/ FinalFlush(d) \/ Release(d) \/ FinalizeRecording(d) \/ End(d)
  <2>1. UNCHANGED <<conn[c], typed[c], flushed[c], writing[c], logged[c], lost[c], cut[c]>>
        BY <1>4 DEF takevars, keystrokes, Attach, Type, Snapshot, SnapshotWritten, SnapshotFails, Disconnect,
                    FinalFlush, Logs, Release, FinalizeRecording, End
  <2> QED BY <1>1, <2>1 DEF Mark
<1>5. CASE Attach(c) \/ Release(c) \/ FinalizeRecording(c) \/ End(c)
      BY <1>1, <1>5 DEF Mark, Attach, Release, FinalizeRecording, End, keystrokes
<1>6. CASE Type(c)
  <2>1. /\ typed'[c] = typed[c] + 1 /\ conn[c] = "open"
        /\ UNCHANGED <<conn[c], flushed[c], writing[c], logged[c], lost[c], cut[c]>>
        BY <1>6 DEF Type
  <2> QED BY <1>1, <1>2, <2>1 DEF Mark
<1>7. CASE Snapshot(c)
  <2>1. /\ writing'[c] = typed[c] - flushed[c] /\ flushed'[c] = typed[c]
        /\ UNCHANGED <<conn[c], typed[c], logged[c], lost[c], cut[c]>> /\ conn[c] = "open" /\ writing[c] = 0
        BY <1>7 DEF Snapshot
  <2>2. logged'[c] + writing'[c] + lost'[c] + cut'[c] + (typed'[c] - flushed'[c]) = typed'[c]
        BY <1>1, <1>2, <2>1 DEF Mark
  <2> QED BY <1>1, <1>2, <2>1, <2>2 DEF Mark
<1>8. CASE SnapshotWritten(c)
  <2>1. /\ writing'[c] = 0 /\ writing[c] > 0 /\ Logs(c, writing[c])
        /\ UNCHANGED <<conn[c], typed[c], flushed[c], lost[c]>>
        BY <1>8 DEF SnapshotWritten
  <2>2. /\ logged'[c] + cut'[c] = logged[c] + cut[c] + writing[c] /\ logged'[c] \in Nat /\ cut'[c] \in Nat
        /\ cut'[c] > cut[c] => writing[c] > MaxLogged
        BY <1>2, <2>1, LogsAll
  <2>3. logged'[c] + writing'[c] + lost'[c] + cut'[c] + (typed'[c] - flushed'[c]) = typed'[c]
        BY <1>1, <1>2, <2>1, <2>2 DEF Mark
  <2>4. writing[c] <= typed[c]
        BY <1>1, <1>2 DEF Mark
  <2>5. cut'[c] > 0 => typed[c] > MaxLogged
        BY <1>1, <1>2, <2>2, <2>4 DEF Mark
  <2> QED BY <1>1, <2>1, <2>3, <2>5 DEF Mark
<1>9. CASE Disconnect(c) \/ SnapshotFails(c)
  <2>1. /\ writing'[c] = 0 /\ lost'[c] = lost[c] + writing[c] /\ conn'[c] \in {conn[c], "closing"}
        /\ UNCHANGED <<typed[c], flushed[c], logged[c], cut[c]>>
        BY <1>9 DEF Disconnect, SnapshotFails
  <2> QED BY <1>1, <1>2, <2>1 DEF Mark
<1>10. CASE FinalFlush(c)
  <2>1. /\ flushed'[c] = typed[c] /\ UNCHANGED <<typed[c], writing[c]>> /\ writing[c] = 0
        BY <1>1, <1>10 DEF FinalFlush, Mark
  <2>2. typed[c] - flushed[c] \in Nat
        BY <1>1, <1>2 DEF Mark
  <2>3. CASE Logs(c, typed[c] - flushed[c]) /\ lost'[c] = lost[c]
        BY <1>1, <1>2, <2>1, <2>2, <2>3, LogsAll DEF Mark
  <2>4. CASE lost'[c] = lost[c] + (typed[c] - flushed[c]) /\ UNCHANGED <<logged[c], cut[c]>>
        BY <1>1, <1>2, <2>1, <2>4 DEF Mark
  <2> QED BY <1>10, <2>3, <2>4 DEF FinalFlush
<1> QED BY <1>4, <1>5, <1>6, <1>7, <1>8, <1>9, <1>10 DEF TakeNext

\* Attaching and releasing are the only moves that touch the shared recording,
\* and they keep its count and everybody's mirror.
LEMMA RecordingKept ==
    ASSUME TakeInv, [TakeNext]_takevars
    PROVE  SharedRecording' /\ BuffersOnce'
<1> USE TakeAssumption DEF TakeInv, TakeTypeOK, SharedRecording, BuffersOnce, Buffers
<1>a. IsFiniteSet(Attached)
      BY FS_Subset DEF Attached
<1>1. ASSUME NEW c \in Conns, Attach(c) PROVE SharedRecording' /\ BuffersOnce'
  <2>1. Attached' = Attached \cup {c} /\ c \notin Attached
        BY <1>1 DEF Attach, Attached
  <2>2. Cardinality(Attached') = Cardinality(Attached) + 1
        BY <2>1, <1>a, FS_AddElement
  <2>3. mirror' = [mirror EXCEPT ![c] = shared'.buffer] /\ shared'.refs = shared.refs + 1
        BY <1>1 DEF Attach
  <2>4. CASE shared.buffer = NoBuffer
    <3>1. Attached = {} /\ shared'.buffer = c /\ uploaded[c] = 0 /\ uploaded' = uploaded
          BY <1>1, <2>4 DEF Attach
    <3>2. SharedRecording'
          BY <2>1, <2>2, <2>3, <3>1
    <3> QED BY <1>1, <2>1, <2>3, <3>1, <3>2 DEF Attach
  <2>5. CASE shared.buffer # NoBuffer
    <3>1. shared'.buffer = shared.buffer /\ uploaded' = uploaded
          BY <1>1, <2>5 DEF Attach
    <3>2. SharedRecording'
          BY <2>1, <2>2, <2>3, <2>5, <3>1
    <3>3. \E d \in Conns : mirror[d] = shared.buffer
          BY <2>5 DEF Attached
    <3> QED BY <1>1, <2>1, <2>3, <2>5, <3>1, <3>2, <3>3 DEF Attach
  <2> QED BY <2>4, <2>5
<1>2. ASSUME NEW c \in Conns, Release(c) PROVE SharedRecording' /\ BuffersOnce'
  <2>1. Attached' = Attached \ {c} /\ c \in Attached
        BY <1>2 DEF Release, Attached
  <2>2. Cardinality(Attached') = Cardinality(Attached) - 1
        BY <2>1, <1>a, FS_RemoveElement
  <2>3. mirror' = mirror /\ uploaded' = uploaded /\ mirror[c] = shared.buffer
        BY <1>2, <2>1 DEF Release
  <2>4. CASE shared.refs = 1
    <3>1. Attached' = {}
      <4>1. IsFiniteSet(Attached') /\ Cardinality(Attached') = 0
            BY <2>1, <2>2, <2>4, <1>a, FS_RemoveElement
      <4> QED BY <4>1, FS_EmptySet
    <3>2. shared' = [buffer |-> NoBuffer, refs |-> 0] /\ conn' = [conn EXCEPT ![c] = "last"]
          BY <1>2, <2>4 DEF Release
    <3> QED BY <2>1, <2>2, <2>3, <2>4, <3>1, <3>2
  <2>5. CASE shared.refs # 1
    <3>1. Attached' # {}
      <4>1. Cardinality(Attached') # 0
            BY <2>2, <2>5
      <4> QED BY <4>1, FS_EmptySet
    <3>2. /\ shared' = [shared EXCEPT !.refs = @ - 1]
          /\ conn' = [conn EXCEPT ![c] = "ending"]
          BY <1>2, <2>5 DEF Release
    <3> QED BY <2>1, <2>2, <2>3, <2>5, <3>1, <3>2
  <2> QED BY <2>4, <2>5
<1>3. ASSUME NEW c \in Conns, FinalizeRecording(c) PROVE SharedRecording' /\ BuffersOnce'
  <2>1. Attached' = Attached
        BY <1>3 DEF FinalizeRecording, Attached
  <2> QED BY <1>3, <2>1 DEF FinalizeRecording
<1>4. ASSUME NEW c \in Conns,
             \/ Type(c) \/ Snapshot(c) \/ SnapshotWritten(c) \/ SnapshotFails(c) \/ Disconnect(c)
             \/ FinalFlush(c) \/ End(c)
      PROVE SharedRecording' /\ BuffersOnce'
  <2>1. Attached' = Attached /\ UNCHANGED <<shared, mirror, uploaded>>
        BY <1>4 DEF Type, Snapshot, SnapshotWritten, SnapshotFails, Disconnect, FinalFlush, End, Attached
  <2>2. \A d \in Conns : /\ conn'[d] = "new" <=> conn[d] = "new"
                         /\ conn'[d] = "last" <=> conn[d] = "last"
        BY <1>4 DEF Type, Snapshot, SnapshotWritten, SnapshotFails, Disconnect, FinalFlush, End
  <2> QED BY <2>1, <2>2
<1>5. CASE UNCHANGED takevars
      BY <1>5 DEF takevars, Attached
<1> QED BY <1>1, <1>2, <1>3, <1>4, <1>5 DEF TakeNext

\* Every step keeps the types, given the counts.
LEMMA TakeTypesKept ==
    ASSUME TakeInv, [TakeNext]_takevars
    PROVE  TakeTypeOK'
<1>1. SharedRecording' /\ FlushMark'
      BY RecordingKept, FlushKept
<1> USE TakeAssumption DEF TakeInv, TakeTypeOK, Buffers
<1>2. Cardinality(Conns) \in Nat /\ Cardinality(Attached') \in 0 .. Cardinality(Conns)
      BY FS_Subset, FS_CardinalityType DEF Attached
<1>3. shared' \in [buffer : Buffers \cup {NoBuffer}, refs : 0 .. Cardinality(Conns)]
  <2>1. shared'.refs \in 0 .. Cardinality(Conns)
        BY <1>1, <1>2 DEF SharedRecording
  <2>2. CASE UNCHANGED takevars
        BY <2>2 DEF takevars
  <2>3. ASSUME NEW c \in Conns, Attach(c) \/ Release(c) PROVE shared' \in [buffer : Buffers \cup {NoBuffer}, refs : 0 .. Cardinality(Conns)]
        BY <2>1, <2>3 DEF Attach, Release
  <2>4. ASSUME NEW c \in Conns, 
             \/ Type(c) \/ Snapshot(c) \/ SnapshotWritten(c) \/ SnapshotFails(c) \/ Disconnect(c)
             \/ FinalFlush(c) \/ End(c) \/ FinalizeRecording(c)
        PROVE shared' = shared
        BY <2>4 DEF Type, Snapshot, SnapshotWritten, SnapshotFails, Disconnect, FinalFlush, End, FinalizeRecording
  <2> QED BY <2>2, <2>3, <2>4 DEF TakeNext
<1> DEFINE Rest == 
    /\ conn \in [Conns -> {"new", "open", "closing", "leaving", "last", "ending", "closed"}]
    /\ typed \in [Conns -> 0 .. MaxTyped] /\ flushed \in [Conns -> 0 .. MaxTyped]
    /\ writing \in [Conns -> 0 .. MaxTyped] /\ logged \in [Conns -> Nat]
    /\ lost \in [Conns -> Nat] /\ cut \in [Conns -> Nat] /\ stopped \subseteq Conns
    /\ mirror \in [Conns -> Buffers \cup {NoBuffer}]
    /\ uploaded \in [Buffers -> Nat]
<1>4. Rest'
  <2>1. ASSUME NEW c \in Conns, Attach(c) PROVE Rest'
        BY <1>3, <2>1 DEF Attach, keystrokes
  <2>2. ASSUME NEW c \in Conns, Type(c) PROVE Rest'
        BY <2>2 DEF Type
  <2>4. ASSUME NEW c \in Conns, SnapshotWritten(c) PROVE Rest'
        BY <2>4, LogsAll DEF SnapshotWritten
  <2>3. ASSUME NEW c \in Conns, Snapshot(c) \/ SnapshotFails(c) \/ Disconnect(c) \/ FinalFlush(c) PROVE Rest'
    <3>1. typed[c] - flushed[c] \in 0 .. MaxTyped
          BY DEF FlushMark, Mark
    <3>2. typed[c] \in 0 .. MaxTyped /\ writing[c] \in Nat
          OBVIOUS
    <3>3. CASE Snapshot(c)
          BY <3>1, <3>2, <3>3 DEF Snapshot
    <3>4. CASE Disconnect(c) \/ SnapshotFails(c)
          BY <3>2, <3>4 DEF Disconnect, SnapshotFails
    <3>5. CASE FinalFlush(c)
          BY <3>1, <3>2, <3>5, LogsAll DEF FinalFlush
    <3> QED BY <2>3, <3>3, <3>4, <3>5
  <2>5. ASSUME NEW c \in Conns, Release(c) \/ FinalizeRecording(c) \/ End(c) PROVE Rest'
        BY <2>5 DEF Release, FinalizeRecording, End, BuffersOnce, keystrokes
  <2>6. CASE UNCHANGED takevars
        BY <2>6 DEF takevars, keystrokes
  <2> QED BY <2>1, <2>2, <2>3, <2>4, <2>5, <2>6 DEF TakeNext
<1> QED BY <1>3, <1>4

\* Every reachable state satisfies it.
LEMMA TakeoverInvariant == TakeSpec => []TakeInv
<1>1. TakeInv /\ [TakeNext]_takevars => TakeInv'
      BY FlushKept, RecordingKept, TakeTypesKept DEF TakeInv
<1> QED BY TakeStart, <1>1, PTL DEF TakeSpec

\* Everything typed by a connection that has closed is in the audit log, or in a
\* write that failed or was cut off, and nothing is logged twice, whichever of
\* the periodic and the last flush got to it (_flush_typed_snapshot).
THEOREM KeystrokesLogged == TakeSpec => []KeystrokesAccounted
<1>1. TakeInv => KeystrokesAccounted
  <2> SUFFICES ASSUME TakeInv, NEW c \in Conns
               PROVE  conn[c] = "closed" => logged[c] + lost[c] + cut[c] = typed[c]
      BY DEF TakeInv, FlushMark, Mark, KeystrokesAccounted
  <2>1. Mark(c) /\ typed[c] \in Nat /\ logged[c] \in Nat /\ lost[c] \in Nat /\ cut[c] \in Nat
      BY TakeAssumption DEF TakeInv, TakeTypeOK, FlushMark
  <2>2. conn[c] = "closed" => writing[c] = 0 /\ flushed[c] = typed[c]
      BY <2>1 DEF Mark
  <2> QED BY <2>1, <2>2 DEF Mark
<1> QED BY <1>1, TakeoverInvariant, PTL

\* The recording that several operators share is stored at most once, and not
\* before the last of them has left (the ref_count in _takeover_recordings).
THEOREM RecordedOnce == TakeSpec => []OneRecording
<1>1. TakeInv => OneRecording
  <2> SUFFICES ASSUME TakeInv PROVE OneRecording
      OBVIOUS
  <2> USE DEF TakeInv, SharedRecording, BuffersOnce
  <2>1. \A c \in Attached : uploaded[mirror[c]] = 0
        BY DEF Attached
  <2> QED BY <2>1 DEF OneRecording
<1> QED BY <1>1, TakeoverInvariant, PTL

-----------------------------------------------------------------------------
(* Snapshots.                                                              *)

\* The request is taking a snapshot.
Taking(u) == task[u] \in {"insert", "flush", "copy"}

\* What the row of a request's snapshot says while the request is under way.
TaskRow(u) ==
    /\ task[u] = "idle" <=> snap[u] = NoSnap
    /\ task[u] \in {"list", "seed", "session", "unseed"} <=> seed[u] # NoSeed
    /\ task[u] = "insert" => snapshot[snap[u]] = "none"
    /\ task[u] \in {"flush", "copy"} => snapshot[snap[u]] = "pending"
    /\ task[u] \notin {"idle", "insert"} => snapshot[snap[u]] # "none"
    /\ task[u] = "list" => snapshot[snap[u]] = "completed"
    /\ task[u] \in {"erase", "mark"} => snap[u] \in touched

\* Who takes a snapshot shares it with nobody, but for a delete that is let in.
TakerAlone ==
    /\ \A u, v \in Users : u # v /\ Taking(u) /\ snap[v] = snap[u] =>
            DeletesPending /\ task[v] \in {"erase", "mark"}
    /\ \A u \in Users : Taking(u) => DeletesPending \/ snap[u] \notin touched

\* What was copied and what is left to copy is the whole session, and a restore
\* has a seed of its own.
CopiesWhole ==
    /\ \A s \in Snaps : snapshot[s] = "completed" => s \in touched \/ stored[s] = Files
    /\ \A u \in Users : task[u] = "copy" =>
            snap[u] \in touched \/ left[u] \cup stored[snap[u]] = Files
    /\ \A u \in Users : task[u] = "seed" =>
            snap[u] \in touched \/ left[u] \cup seeded[seed[u]] = Files
    /\ \A u \in Users : task[u] = "session" =>
            snap[u] \in touched \/ seeded[seed[u]] = Files
    /\ \A u, v \in Users : seed[u] = seed[v] /\ seed[u] # NoSeed => u = v

\* Between the last object deleted and the row marked nothing is copied.
Erased ==
    /\ deleted \subseteq touched
    /\ \A s \in touched : snapshot[s] # "none"
    /\ DeletesPending \/
         /\ \A s \in deleted : stored[s] \subseteq refused[s]
         /\ \A u \in Users : task[u] = "mark" => stored[snap[u]] \subseteq refused[snap[u]]

SnapInv ==
    /\ SnapTypeOK /\ (\A u \in Users : TaskRow(u)) 
    /\ TakerAlone /\ CopiesWhole /\ Erased

\* The first state: there is no snapshot.
LEMMA SnapStart == SnapInit => SnapInv
BY SnapAssumption DEF SnapInit, SnapInv, SnapTypeOK, TaskRow, TakerAlone, CopiesWhole, Erased, Taking

\* Nothing left to copy: what was copied is the whole.
LEMMA EmptyUnion == \A S : {} \cup S = S
OBVIOUS

\* A new snapshot has an id nobody has.
LEMMA FreshSnap ==
    ASSUME NEW u \in Users, CountSnapshots(u)
    PROVE  \E s \in UnusedSnaps : snap' = [snap EXCEPT ![u] = s]
BY DEF CountSnapshots

\* The steps of taking a snapshot.
LEMMA TakeSteps ==
    ASSUME SnapInv, NEW u \in Users,
           CountSnapshots(u) \/ InsertSnapshot(u) \/ Flush(u) \/ MarkCompleted(u) \/ MarkFailed(u)
             \/ \E f \in Files : CopyObject(u, f)
    PROVE  SnapInv'
<1> USE SnapAssumption DEF SnapInv, SnapTypeOK, TaskRow, TakerAlone, CopiesWhole, Erased, Taking
<1>1. CASE CountSnapshots(u)
  <2>1. PICK s \in UnusedSnaps : snap' = [snap EXCEPT ![u] = s]
        BY <1>1, FreshSnap
  <2>2. /\ task[u] = "idle" /\ task' = [task EXCEPT ![u] = "insert"]
        /\ s \in Snaps /\ snapshot[s] = "none" /\ s # NoSnap
        /\ \A v \in Users : snap[v] # s
        /\ UNCHANGED <<snapshot, stored, touched, refused, deleted, seed, seeded, left, restored>>
        BY <1>1, <2>1 DEF CountSnapshots, TaskTo, UnusedSnaps
  <2> QED BY <1>1, <2>1, <2>2
<1>2. CASE InsertSnapshot(u)
      BY <1>2 DEF InsertSnapshot, TaskTo
<1>3. CASE Flush(u)
      BY <1>3 DEF Flush, TaskTo
<1>4. CASE MarkCompleted(u)
  <2>1. snap[u] \in touched \/ stored[snap[u]] = Files
    <3>1. left[u] = {} /\ (snap[u] \in touched \/ left[u] \cup stored[snap[u]] = Files)
          BY <1>4 DEF MarkCompleted
    <3> QED BY <3>1, EmptyUnion
  <2> QED BY <1>4, <2>1 DEF MarkCompleted, TaskDone
<1>5. CASE MarkFailed(u)
      BY <1>5 DEF MarkFailed, TaskDone
<1>6. ASSUME NEW f \in Files, CopyObject(u, f) PROVE SnapInv'
      BY <1>6 DEF CopyObject
<1> QED BY <1>1, <1>2, <1>3, <1>4, <1>5, <1>6

\* The steps of restoring one.
LEMMA RestoreSteps ==
    ASSUME SnapInv, NEW u \in Users,
           \/ \E s \in Snaps, i \in Seeds : StartRestore(u, s, i)
           \/ ListKeys(u) \/ SeedFails(u) \/ SeedEnds(u) \/ \E f \in Files : SeedObject(u, f)
           \/ CreateRestored(u) \/ CreateRestoredFails(u) \/ Unseed(u)
    PROVE  SnapInv'
<1> USE SnapAssumption DEF SnapInv, SnapTypeOK, TaskRow, TakerAlone, CopiesWhole, Erased, Taking
<1>1. ASSUME NEW s \in Snaps, NEW i \in Seeds, StartRestore(u, s, i) PROVE SnapInv'
      BY <1>1 DEF StartRestore, TaskTo
<1>2. CASE ListKeys(u)
      BY <1>2 DEF ListKeys, TaskTo
<1>3. CASE SeedFails(u)
      BY <1>3 DEF SeedFails, TaskDone
<1>4. CASE SeedEnds(u)
  <2>1. snap[u] \in touched \/ seeded[seed[u]] = Files
    <3>1. left[u] = {} /\ (snap[u] \in touched \/ left[u] \cup seeded[seed[u]] = Files)
          BY <1>4 DEF SeedEnds, TaskTo
    <3> QED BY <3>1, EmptyUnion
  <2> QED BY <1>4, <2>1 DEF SeedEnds, TaskTo
<1>5. ASSUME NEW f \in Files, SeedObject(u, f) PROVE SnapInv'
      BY <1>5 DEF SeedObject
<1>6. CASE CreateRestored(u)
      BY <1>6 DEF CreateRestored, TaskDone
<1>7. CASE CreateRestoredFails(u)
      BY <1>7 DEF CreateRestoredFails, TaskTo
<1>8. CASE Unseed(u)
      BY <1>8 DEF Unseed, TaskDone
<1> QED BY <1>1, <1>2, <1>3, <1>4, <1>5, <1>6, <1>7, <1>8

\* The steps of deleting one, and the death of a request.
LEMMA DeleteSteps ==
    ASSUME SnapInv, NEW u \in Users,
           \/ \E s \in Snaps : StartDeleteSnapshot(u, s)
           \/ Erase(u) \/ MarkDeleted(u) \/ SnapTaskDies(u)
    PROVE  SnapInv'
<1> USE SnapAssumption DEF SnapInv, SnapTypeOK, TaskRow, TakerAlone, CopiesWhole, Erased, Taking
<1>1. ASSUME NEW s \in Snaps, StartDeleteSnapshot(u, s) PROVE SnapInv'
      BY <1>1 DEF StartDeleteSnapshot, TaskTo, ActiveSnaps, BeingTaken
<1>2. CASE Erase(u)
      BY <1>2 DEF Erase, TaskTo, TaskDone
<1>3. CASE MarkDeleted(u)
      BY <1>3 DEF MarkDeleted, TaskDone
<1>4. CASE SnapTaskDies(u)
      BY <1>4 DEF SnapTaskDies, TaskDone
<1> QED BY <1>1, <1>2, <1>3, <1>4

\* Every reachable state satisfies it.
LEMMA SnapshotInvariant == SnapSpec => []SnapInv
<1>1. SnapInv /\ [SnapNext]_snapvars => SnapInv'
  <2> SUFFICES ASSUME SnapInv, [SnapNext]_snapvars PROVE SnapInv'
      OBVIOUS
  <2>1. CASE UNCHANGED snapvars
        BY <2>1 DEF snapvars, taskvars, SnapInv, SnapTypeOK, TaskRow, TakerAlone, CopiesWhole, Erased, Taking
  <2> QED BY <2>1, TakeSteps, RestoreSteps, DeleteSteps DEF SnapNext
<1> QED BY SnapStart, <1>1, PTL DEF SnapSpec

\* Where a snapshot that is still being taken cannot be deleted, a deleted one
\* has no object left that the store did not refuse to delete (delete_snapshot).
THEOREM DeletedIsGone ==
    ASSUME ~DeletesPending PROVE SnapSpec => []DeletedLeavesNothing
<1>1. SnapInv => DeletedLeavesNothing
      BY DEF SnapInv, Erased, DeletedLeavesNothing
<1> QED BY <1>1, SnapshotInvariant, PTL

\* A restored session has every file of a snapshot nobody began to delete
\* (restore_snapshot).
THEOREM RestoredIsWhole == SnapSpec => []RestoredWhole
<1>1. SnapInv => RestoredWhole
      BY DEF SnapInv, CopiesWhole, RestoredWhole
<1> QED BY <1>1, SnapshotInvariant, PTL

-----------------------------------------------------------------------------
(* The audit log.                                                          *)

\* A set of natural numbers has a least element.
LEMMA LeastOfNaturals ==
    ASSUME NEW S, S \subseteq Nat, S # {} PROVE \E n \in S : \A m \in S : n <= m
<1>1. IsWellFoundedOn({p \in Nat \X Nat : p[1] < p[2]}, Nat)
      BY NatLessThanWellFounded DEF OpToRel
<1>2. PICK x \in S : \A y \in S : ~ (<<y, x>> \in {p \in Nat \X Nat : p[1] < p[2]})
      BY <1>1, WFMin
<1>3. ASSUME NEW m \in S PROVE x <= m
  <2>1. m \in Nat /\ x \in Nat
        OBVIOUS
  <2>2. <<m, x>> \in Nat \X Nat /\ <<m, x>>[1] = m /\ <<m, x>>[2] = x
        BY <2>1
  <2>3. ~ (m < x)
        BY <1>2, <2>2
  <2> QED BY <2>1, <2>3
<1> QED BY <1>3

\* Rows in a strict total order.
Rows(rows) ==
    /\ IsFiniteSet(rows)
    /\ \A r \in rows : r.at \in Nat /\ r.id \in Nat
    /\ \A r, q \in rows : r.id = q.id => r = q

\* The rows that come before a row.
Before(rows, r) == {q \in rows : Precedes(Key(q), Key(r))}

\* Rows come in a strict total order: by started_at, then by id.
LEMMA Ordered ==
    ASSUME NEW rows, Rows(rows)
    PROVE  /\ \A r \in rows : ~Precedes(Key(r), Key(r))
           /\ \A r, q \in rows : ~(Precedes(Key(r), Key(q)) /\ Precedes(Key(q), Key(r)))
           /\ \A r, q \in rows : r # q => Precedes(Key(r), Key(q)) \/ Precedes(Key(q), Key(r))
           /\ \A r, q, s \in rows :
                  Precedes(Key(r), Key(q)) /\ Precedes(Key(q), Key(s)) => Precedes(Key(r), Key(s))
BY DEF Rows, Precedes, Key

\* A row that comes later has more rows before it.
LEMMA MoreBefore ==
    ASSUME NEW rows, Rows(rows), NEW r \in rows, NEW q \in rows, Precedes(Key(r), Key(q))
    PROVE  /\ Cardinality(Before(rows, r)) \in Nat /\ Cardinality(Before(rows, q)) \in Nat
           /\ Cardinality(Before(rows, r)) < Cardinality(Before(rows, q))
<1>1. /\ Before(rows, r) \subseteq Before(rows, q)
      /\ r \in Before(rows, q) /\ r \notin Before(rows, r)
      BY Ordered DEF Before
<1>2. IsFiniteSet(Before(rows, q))
      BY FS_Subset DEF Before, Rows
<1>3. /\ IsFiniteSet(Before(rows, r))
      /\ Cardinality(Before(rows, r)) <= Cardinality(Before(rows, q))
      /\ Cardinality(Before(rows, q)) # Cardinality(Before(rows, r))
      BY <1>1, <1>2, FS_Subset
<1> QED BY <1>2, <1>3, FS_CardinalityType

\* The first of some rows.
LEMMA FirstExists ==
    ASSUME NEW rows, Rows(rows), rows # {}
    PROVE  \E r \in rows : Before(rows, r) = {}
<1> DEFINE S == {Cardinality(Before(rows, r)) : r \in rows}
<1>1. S \subseteq Nat /\ S # {}
  <2>1. \A r \in rows : Cardinality(Before(rows, r)) \in Nat
        BY FS_Subset, FS_CardinalityType DEF Before, Rows
  <2> QED BY <2>1
<1>2. PICK n \in S : \A m \in S : n <= m
      BY <1>1, LeastOfNaturals
<1>3. PICK r \in rows : n = Cardinality(Before(rows, r))
      OBVIOUS
<1>4. ASSUME NEW q \in rows, Precedes(Key(q), Key(r)) PROVE FALSE
  <2>1. /\ Cardinality(Before(rows, q)) \in Nat /\ Cardinality(Before(rows, r)) \in Nat
        /\ Cardinality(Before(rows, q)) < Cardinality(Before(rows, r))
        BY <1>4, MoreBefore
  <2>2. Cardinality(Before(rows, r)) <= Cardinality(Before(rows, q))
        BY <1>2, <1>3
  <2> QED BY <2>1, <2>2
<1>5. Before(rows, r) = {}
      BY <1>4 DEF Before
<1> QED BY <1>5

\* The last of some rows: the one with the fewest rows that are not before it.
LEMMA LastExists ==
    ASSUME NEW rows, Rows(rows), rows # {}
    PROVE  /\ LastOf(rows) \in rows
           /\ \A q \in rows \ {LastOf(rows)} : Precedes(Key(q), Key(LastOf(rows)))
<1> DEFINE S == {Cardinality(rows \ Before(rows, r)) : r \in rows}
<1>1. S \subseteq Nat /\ S # {}
  <2>1. \A r \in rows : Cardinality(rows \ Before(rows, r)) \in Nat
        BY FS_Difference, FS_CardinalityType DEF Rows
  <2> QED BY <2>1
<1>2. PICK n \in S : \A m \in S : n <= m
      BY <1>1, LeastOfNaturals
<1>3. PICK r \in rows : n = Cardinality(rows \ Before(rows, r))
      OBVIOUS
<1>4. ASSUME NEW q \in rows, Precedes(Key(r), Key(q)) PROVE FALSE
  <2>1. /\ rows \ Before(rows, q) \subseteq rows \ Before(rows, r)
        /\ r \in rows \ Before(rows, r) /\ r \notin rows \ Before(rows, q)
        BY <1>4, Ordered DEF Before
  <2>2. IsFiniteSet(rows \ Before(rows, r))
        BY FS_Difference DEF Rows
  <2>3. /\ Cardinality(rows \ Before(rows, q)) <= Cardinality(rows \ Before(rows, r))
        /\ Cardinality(rows \ Before(rows, q)) # Cardinality(rows \ Before(rows, r))
        BY <2>1, <2>2, FS_Subset
  <2>4. /\ Cardinality(rows \ Before(rows, q)) \in Nat /\ Cardinality(rows \ Before(rows, r)) \in Nat
        /\ Cardinality(rows \ Before(rows, r)) <= Cardinality(rows \ Before(rows, q))
        BY <1>1, <1>2, <1>3
  <2> QED BY <2>3, <2>4
<1>5. \A q \in rows \ {r} : Precedes(Key(q), Key(r))
      BY <1>4, Ordered
<1>6. \E x \in rows : \A q \in rows \ {x} : Precedes(Key(q), Key(x))
      BY <1>5
<1> QED BY <1>6 DEF LastOf

\* What the log holds.
LogRows ==
    /\ time \in Nat /\ began \in [Writers -> Nat]
    /\ stage \in [Writers -> {"idle", "calling", "locking", "chaining", "attached", "ending"}]
    /\ Rows(log)
    /\ \A r \in log : r.id \in RowIds /\ r.seq \in 1..Cardinality(log)

\* One process: the chain lock excludes, and what a writer read under it is
\* still the last row.
Chained ==
    /\ \A v, w \in Writers : stage[v] = "chaining" /\ stage[w] = "chaining" => v = w
    /\ prev = [w \in Writers |-> prev[w]]
    /\ \A w \in Writers : stage[w] = "chaining" =>
            prev[w] = IF log = {} THEN Genesis ELSE LastOf(log).id
    /\ InOrder => Verifies

\* The watcher is at a row of the log, and has shown what it passed.
Watching ==
    /\ cursor = <<0, 0>> \/ \E r \in log : cursor = Key(r)
    /\ WatchComplete

\* The first state: the log is empty.
LEMMA LogStart == ExecLogInit => LogRows /\ Chained /\ Watching
<1> SUFFICES ASSUME ExecLogInit PROVE LogRows /\ Chained /\ Watching
    OBVIOUS
<1>1. LogRows
      BY FS_EmptySet DEF ExecLogInit, LogRows, Rows
<1>2. Chained
      BY DEF ExecLogInit, Chained, InOrder, Verifies
<1>3. Watching
      BY DEF ExecLogInit, Watching, WatchComplete
<1> QED BY <1>1, <1>2, <1>3

\* A step of a writer that writes no row.
Quiet == log' = log /\ UNCHANGED watchvars

\* The row that is written comes last in insertion order.
LEMMA RowWritten ==
    ASSUME LogRows, NEW w \in Writers, NEW id \in RowIds, AppendRow(w, id),
           NEW new, new = [id |-> id, at |-> began[w], prev |-> prev[w], seq |-> Cardinality(log) + 1]
    PROVE  /\ log' = log \cup {new} /\ new \notin log
           /\ Rows(log') /\ new.at \in Nat /\ new.id \in RowIds /\ new.prev = prev[w]
           /\ Cardinality(log') = Cardinality(log) + 1 /\ Cardinality(log) \in Nat
           /\ new.seq = Cardinality(log) + 1
           /\ \A q \in log : q.seq < new.seq
           /\ InOrder' => InOrder
           /\ InOrder' => \A q \in log : Precedes(Key(q), Key(new))
<1>1. log' = log \cup {new}
      BY DEF AppendRow
<1>2. new.id = id /\ new.at = began[w] /\ new.prev = prev[w] /\ new.seq = Cardinality(log) + 1
      OBVIOUS
<1>3. \A q \in log : q.id # id
      BY DEF AppendRow
<1>4. IsFiniteSet(log) /\ Cardinality(log) \in Nat
      BY FS_CardinalityType DEF LogRows, Rows
<1>5. new \notin log
      BY <1>2, <1>3
<1>6. IsFiniteSet(log') /\ Cardinality(log') = Cardinality(log) + 1
      BY <1>1, <1>4, <1>5, FS_AddElement
<1>7. new.at \in Nat /\ new.id \in Nat /\ began[w] \in Nat
      BY <1>2 DEF LogRows, RowIds
<1>8. Rows(log')
      BY <1>1, <1>2, <1>3, <1>6, <1>7 DEF LogRows, Rows
<1>9. \A q \in log : q.seq < new.seq
      BY <1>2, <1>4 DEF LogRows
<1>10. InOrder' => InOrder
      BY <1>1 DEF InOrder
<1>11. InOrder' => \A q \in log : Precedes(Key(q), Key(new))
      BY <1>1, <1>9 DEF InOrder
<1> QED BY <1>1, <1>2, <1>4, <1>5, <1>6, <1>7, <1>8, <1>9, <1>10, <1>11

\* Every step keeps what the log holds.
LEMMA RowsStep == ASSUME LogRows, [ExecLogNext]_logvars PROVE LogRows'
<1>1. CASE /\ log' = log /\ time' \in Nat /\ began' \in [Writers -> Nat]
           /\ stage' \in [Writers -> {"idle", "calling", "locking", "chaining", "attached", "ending"}]
      BY <1>1 DEF LogRows, Rows
<1>2. \A w \in Writers : Stamps(w) => time' \in Nat /\ began' \in [Writers -> Nat]
  <2> SUFFICES ASSUME NEW w \in Writers, Stamps(w) PROVE time' \in Nat /\ began' \in [Writers -> Nat]
      OBVIOUS
  <2>1. time' \in Nat
        BY DEF Stamps, LogRows
  <2> QED BY <2>1 DEF Stamps, LogRows
<1>3. ASSUME NEW w \in Writers,
             \/ \E r \in Routes : Call(w, r)
             \/ Answered(w) \/ CallFails(w) \/ Closes(w) \/ ReadLast(w)
      PROVE  LogRows'
  <2>1. log' = log
        BY <1>3 DEF Call, Answered, CallFails, Closes, ReadLast
  <2>2. time' \in Nat /\ began' \in [Writers -> Nat]
        BY <1>2, <1>3 DEF Call, Answered, CallFails, Closes, ReadLast, Returns, LogRows
  <2>3. stage' \in [Writers -> {"idle", "calling", "locking", "chaining", "attached", "ending"}]
        BY <1>3 DEF Call, Answered, CallFails, Closes, ReadLast, Returns, StageTo, LogRows
  <2> QED BY <1>1, <2>1, <2>2, <2>3
<1>4. ASSUME NEW w \in Writers, NEW id \in RowIds, AppendRow(w, id) PROVE LogRows'
  <2> DEFINE new == [id |-> id, at |-> began[w], prev |-> prev[w], seq |-> Cardinality(log) + 1]
  <2>1. /\ log' = log \cup {new} /\ Rows(log') /\ new.id \in RowIds
        /\ Cardinality(log') = Cardinality(log) + 1 /\ Cardinality(log) \in Nat
        /\ new.seq = Cardinality(log) + 1
        BY <1>4, RowWritten
  <2>2. time' = time /\ began' \in [Writers -> Nat]
        BY <1>4 DEF AppendRow, Returns, LogRows
  <2>3. stage' \in [Writers -> {"idle", "calling", "locking", "chaining", "attached", "ending"}]
        BY <1>4 DEF AppendRow, Returns, StageTo, LogRows
  <2> HIDE DEF new
  <2>4. \A r \in log' : r.id \in RowIds /\ r.seq \in 1..Cardinality(log')
        BY <2>1 DEF LogRows
  <2> QED BY <2>1, <2>2, <2>3, <2>4 DEF LogRows
<1>5. CASE WatchFirst \/ WatchNext \/ UNCHANGED logvars
      BY <1>1, <1>5 DEF WatchFirst, WatchNext, logvars, LogRows
<1> QED BY <1>3, <1>4, <1>5 DEF ExecLogNext

\* Under the lock of the one process the chain is read and extended.
LEMMA ChainStep ==
    ASSUME \A v, w \in Writers : ProcessOf[v] = ProcessOf[w],
           LogRows, Chained, [ExecLogNext]_logvars
    PROVE  Chained'
<1>1. stage \in [Writers -> {"idle", "calling", "locking", "chaining", "attached", "ending"}]
      BY DEF LogRows
<1>2. CASE UNCHANGED <<log, stage, prev>>
      BY <1>2 DEF Chained, InOrder, Verifies
<1>3. ASSUME NEW w \in Writers, log' = log, stage'[w] # "chaining",
             \A v \in Writers \ {w} : stage'[v] = stage[v] /\ prev'[v] = prev[v],
             prev' = [v \in Writers |-> prev'[v]]
      PROVE  Chained'
      BY <1>3 DEF Chained, InOrder, Verifies
<1>4. ASSUME NEW w \in Writers,
             \/ \E r \in Routes : Call(w, r)
             \/ Answered(w) \/ CallFails(w) \/ Closes(w)
      PROVE  Chained'
  <2>1. log' = log
        BY <1>4 DEF Call, Answered, CallFails, Closes
  <2>2. /\ stage'[w] # "chaining"
        /\ \A v \in Writers \ {w} : stage'[v] = stage[v]
        BY <1>1, <1>4 DEF Call, Answered, CallFails, Closes, StageTo, Returns
  <2>3. /\ \A v \in Writers \ {w} : prev'[v] = prev[v]
        /\ prev' = [v \in Writers |-> prev'[v]]
        BY <1>4 DEF Call, Answered, CallFails, Closes, Returns, Chained
  <2> QED BY <1>3, <2>1, <2>2, <2>3
<1>5. ASSUME NEW w \in Writers, ReadLast(w) PROVE Chained'
  <2>1. /\ log' = log /\ stage' = [stage EXCEPT ![w] = "chaining"]
        /\ prev' = [prev EXCEPT ![w] = IF log = {} THEN Genesis ELSE LastOf(log).id]
        BY <1>5 DEF ReadLast
  <2>2. \A v \in Writers : stage[v] # "chaining"
        BY <1>5 DEF ReadLast, ChainLockFree
  <2>3. /\ prev'[w] = IF log = {} THEN Genesis ELSE LastOf(log).id
        /\ prev' = [v \in Writers |-> prev'[v]]
        /\ \A v \in Writers : stage'[v] = "chaining" => v = w
        BY <1>1, <2>1, <2>2 DEF Chained
  <2> QED BY <2>1, <2>3 DEF Chained, InOrder, Verifies
<1>6. ASSUME NEW w \in Writers, NEW id \in RowIds, AppendRow(w, id) PROVE Chained'
  <2> DEFINE new == [id |-> id, at |-> began[w], prev |-> prev[w], seq |-> Cardinality(log) + 1]
  <2>1. /\ log' = log \cup {new} /\ new \notin log /\ Rows(log') /\ new.prev = prev[w]
        /\ InOrder' => InOrder
        /\ InOrder' => \A q \in log : Precedes(Key(q), Key(new))
        BY <1>6, RowWritten
  <2> HIDE DEF new
  <2>2. \A v \in Writers : stage'[v] # "chaining"
        BY <1>1, <1>6 DEF AppendRow, StageTo, Returns, Chained
  <2>3. prev' = [v \in Writers |-> prev'[v]]
        BY <1>6 DEF AppendRow, Returns, Chained
  <2>4. ASSUME InOrder', NEW r \in log'
        PROVE  r.prev = IF Before(log', r) = {} THEN Genesis ELSE LastOf(Before(log', r)).id
    <3>1. CASE r = new
      <4>1. Before(log', r) = log
            BY <2>1, <2>4, <3>1, Ordered DEF Before
      <4>2. prev[w] = IF log = {} THEN Genesis ELSE LastOf(log).id
            BY <1>6 DEF AppendRow, Chained
      <4> QED BY <2>1, <3>1, <4>1, <4>2
    <3>2. CASE r \in log
      <4>1. ~Precedes(Key(new), Key(r))
            BY <2>1, <2>4, <3>2, Ordered
      <4>2. Before(log', r) = Before(log, r)
            BY <2>1, <4>1 DEF Before
      <4>3. r.prev = IF Before(log, r) = {} THEN Genesis ELSE LastOf(Before(log, r)).id
            BY <2>1, <2>4, <3>2 DEF Chained, Verifies, Before
      <4> QED BY <4>2, <4>3
    <3> QED BY <2>1, <3>1, <3>2
  <2>5. InOrder' => Verifies'
        BY <2>4 DEF Verifies, Before
  <2> QED BY <2>2, <2>3, <2>5 DEF Chained
<1>7. CASE WatchFirst \/ WatchNext
      BY <1>2, <1>7 DEF WatchFirst, WatchNext
<1>8. CASE UNCHANGED logvars
      BY <1>2, <1>8 DEF logvars
<1> QED BY <1>4, <1>5, <1>6, <1>7, <1>8 DEF ExecLogNext

\* Where the writers of a session are in one process, rows inserted in the order
\* of their started_at verify, however the writers interleave: the chain lock
\* spans the read of the last row and the insert (get_exec_log_chain_lock,
\* verify_chain_rows).
THEOREM ChainVerifiesInOneProcess ==
    ASSUME \A v, w \in Writers : ProcessOf[v] = ProcessOf[w]
    PROVE  ExecLogSpec => []ChainVerifiesInOrder
<1>1. ExecLogInit => LogRows /\ Chained
      BY LogStart
<1>2. LogRows /\ Chained /\ [ExecLogNext]_logvars => (LogRows /\ Chained)'
      BY RowsStep, ChainStep
<1>3. Chained => ChainVerifiesInOrder
      BY DEF Chained, ChainVerifiesInOrder
<1> QED BY <1>1, <1>2, <1>3, PTL DEF ExecLogSpec

\* The batch is the first rows after the cursor, and the cursor moves to its
\* last row: what it passes is in the batch.
LEMMA BatchShown ==
    ASSUME NEW rows, Rows(rows), rows # {}, NextBatch(rows)
    PROVE  /\ \E r \in rows : cursor' = Key(r)
           /\ shown \subseteq shown'
           /\ \A r \in rows : ~Precedes(cursor', Key(r)) => r.id \in shown'
<1> DEFINE sent == {x \in rows : Cardinality(Before(rows, x)) < WatchBatch}
<1>1. shown' = shown \cup {r.id : r \in sent} /\ cursor' = Key(LastOf(sent))
      BY DEF NextBatch, Before
<1>2. sent # {}
  <2>1. PICK r \in rows : Before(rows, r) = {}
        BY FirstExists
  <2>2. Cardinality(Before(rows, r)) = 0
        BY <2>1, FS_EmptySet
  <2>3. 0 < WatchBatch
        BY ExecLogAssumption
  <2> QED BY <2>2, <2>3
<1>3. sent \subseteq rows
      OBVIOUS
<1>4. Rows(sent)
      BY <1>3, FS_Subset DEF Rows
<1>5. LastOf(sent) \in sent /\ LastOf(sent) \in rows
      BY <1>2, <1>3, <1>4, LastExists
<1>6. ASSUME NEW r \in rows, ~Precedes(cursor', Key(r)) PROVE r \in sent
  <2>1. r = LastOf(sent) \/ Precedes(Key(r), Key(LastOf(sent)))
        BY <1>1, <1>5, <1>6, Ordered
  <2>2. CASE Precedes(Key(r), Key(LastOf(sent)))
    <3>1. /\ Cardinality(Before(rows, r)) \in Nat /\ Cardinality(Before(rows, LastOf(sent))) \in Nat
          /\ Cardinality(Before(rows, r)) < Cardinality(Before(rows, LastOf(sent)))
          BY <1>5, <2>2, MoreBefore
    <3>2. Cardinality(Before(rows, LastOf(sent))) < WatchBatch /\ WatchBatch \in Nat
          BY <1>5, ExecLogAssumption
    <3> QED BY <3>1, <3>2
  <2> QED BY <1>5, <2>1, <2>2
<1> HIDE DEF sent
<1> QED BY <1>1, <1>5, <1>6

\* Every step keeps what the watcher has shown.
LEMMA WatchStep == ASSUME LogRows, Watching, [ExecLogNext]_logvars PROVE Watching'
<1>1. CASE UNCHANGED <<log, cursor, shown, since>>
  <2>1. InOrder' <=> InOrder
        BY <1>1 DEF InOrder
  <2> QED BY <1>1, <2>1 DEF Watching, WatchComplete
<1>2. ASSUME NEW w \in Writers,
             \/ \E r \in Routes : Call(w, r)
             \/ Answered(w) \/ CallFails(w) \/ Closes(w) \/ ReadLast(w)
      PROVE  Watching'
  <2>1. UNCHANGED <<log, cursor, shown, since>>
        BY <1>2 DEF Call, Answered, CallFails, Closes, ReadLast, watchvars
  <2> QED BY <1>1, <2>1
<1>3. ASSUME NEW w \in Writers, NEW id \in RowIds, AppendRow(w, id) PROVE Watching'
  <2> DEFINE new == [id |-> id, at |-> began[w], prev |-> prev[w], seq |-> Cardinality(log) + 1]
  <2>1. /\ log' = log \cup {new} /\ new.at \in Nat /\ new.id \in RowIds
        /\ InOrder' => InOrder
        /\ InOrder' => \A q \in log : Precedes(Key(q), Key(new))
        BY <1>3, RowWritten
  <2>2. UNCHANGED <<cursor, shown, since>>
        BY <1>3 DEF AppendRow, watchvars
  <2> HIDE DEF new
  <2>3. InOrder' => Precedes(cursor, Key(new))
    <3>1. CASE cursor = <<0, 0>>
          BY <2>1, <3>1 DEF Precedes, Key, RowIds
    <3> QED BY <2>1, <3>1 DEF Watching
  <2> QED BY <2>1, <2>2, <2>3 DEF Watching, WatchComplete
<1>4. CASE WatchFirst
  <2>1. /\ log' = log /\ log # {} /\ cursor' = Key(LastOf(log)) /\ since' = Cardinality(log)
        BY <1>4 DEF WatchFirst
  <2>2. LastOf(log) \in log
        BY <2>1, LastExists DEF LogRows
  <2>3. \A r \in log : ~(r.seq > Cardinality(log))
    <3>1. Cardinality(log) \in Nat
          BY FS_CardinalityType DEF LogRows, Rows
    <3> QED BY <3>1 DEF LogRows
  <2> QED BY <2>1, <2>2, <2>3 DEF Watching, WatchComplete
<1>5. CASE WatchNext
  <2> DEFINE rows == {r \in log : Precedes(cursor, Key(r))}
  <2>1. rows # {} /\ NextBatch(rows) /\ log' = log /\ since' = since
        BY <1>5 DEF WatchNext
  <2>2. Rows(rows)
        BY FS_Subset DEF Rows, LogRows
  <2>3. /\ \E r \in rows : cursor' = Key(r)
        /\ shown \subseteq shown'
        /\ \A r \in rows : ~Precedes(cursor', Key(r)) => r.id \in shown'
        BY <2>1, <2>2, BatchShown
  <2>4. InOrder' <=> InOrder
        BY <2>1 DEF InOrder
  <2>5. ASSUME InOrder, NEW r \in log, r.seq > since, ~Precedes(cursor', Key(r))
        PROVE  r.id \in shown'
    <3>1. CASE r \in rows
          BY <2>3, <2>5, <3>1
    <3>2. CASE r \notin rows
          BY <2>3, <2>5, <3>2 DEF Watching, WatchComplete
    <3> QED BY <3>1, <3>2
  <2> QED BY <2>1, <2>3, <2>4, <2>5 DEF Watching, WatchComplete
<1>6. CASE UNCHANGED logvars
      BY <1>1, <1>6 DEF logvars, watchvars
<1> QED BY <1>2, <1>3, <1>4, <1>5, <1>6 DEF ExecLogNext

\* In any number of processes, as long as rows come in the order of their
\* started_at, the stream shows every row its cursor has passed since it has one,
\* batch by batch (_watch_event_stream, list_after).
THEOREM WatcherSeesAll == ExecLogSpec => []WatchComplete
<1>1. ExecLogInit => LogRows /\ Watching
      BY LogStart
<1>2. LogRows /\ Watching /\ [ExecLogNext]_logvars => (LogRows /\ Watching)'
      BY RowsStep, WatchStep
<1>3. Watching => WatchComplete
      BY DEF Watching
<1> QED BY <1>1, <1>2, <1>3, PTL DEF ExecLogSpec

-----------------------------------------------------------------------------
(* Webhooks.                                                               *)

\* What an attempt may come to, and a worker's note of one.
Outcomes == {"ok", "error", "unsafe", "secret"}
Attempts == [d : Deliveries, count : Nat, outcome : Outcomes]

\* The types, with the numbers a worker has read.
HookTypes ==
    /\ delivery \in [Deliveries -> {"none", "pending", "delivered", "failed"}]
    /\ count \in [Deliveries -> Nat] /\ sends \in [Deliveries -> Nat]
    /\ batch \in [Hooks -> SUBSET (Deliveries \X Nat)]
    /\ busy \in [Hooks -> Attempts \cup {NoBatch}]
    /\ fan \in [Events -> SUBSET Subs] /\ due \subseteq Deliveries /\ lapses \in Nat

\* Workers that have still to attempt a delivery, and those that have not recorded it.
Reader(d) == {w \in Hooks : \E c \in Nat : <<d, c>> \in batch[w]}
Sender(d) == {w \in Hooks : busy[w] # NoBatch /\ busy[w].d = d}
\* Workers whose failure will not be the last one, by the count they read.
Patient(d) == {w \in Hooks :
    \/ \E c \in Nat : <<d, c>> \in batch[w] /\ c + 1 < MaxAttempts
    \/ busy[w] # NoBatch /\ busy[w].d = d /\ busy[w].count + 1 < MaxAttempts}

\* A worker has a delivery once, with a count the row has passed since.
ReadOnce(d) == \A w \in Hooks :
    /\ \A c \in Nat : <<d, c>> \in batch[w] =>
          /\ c <= count[d] /\ w \notin Sender(d)
          /\ \A b \in Nat : <<d, b>> \in batch[w] => b = c
    /\ w \in Sender(d) => /\ busy[w].count <= count[d]
                          /\ busy[w].outcome = "ok" => d \in acked
                          /\ busy[w].outcome = "secret" => "secret" \in HookFaults

\* A delivery that has no row yet has not been touched.
Fresh(d) ==
    /\ d[1] \notin fired => fan[d[1]] = {}
    /\ d[1] \notin fired \/ d[2] \in fan[d[1]] =>
          count[d] = 0 /\ sends[d] = 0 /\ delivery[d] = "none" /\ Reader(d) = {} /\ Sender(d) = {}

\* What is sent is counted or under way, or its worker died or could not write.
SentCounted(d) ==
    /\ count[d] + Cardinality(Sender(d)) <= sends[d]
    /\ delivery[d] = "pending" => sends[d] <= count[d] + Cardinality(Sender(d)) + lapses

\* While a row is pending, only a patient worker can add to its count, and once the
\* last count but one is in the row nobody becomes patient.
Slack(d) == delivery[d] = "pending" =>
    count[d] + Cardinality(Patient(d)) <= MaxAttempts + Cardinality(Hooks) - 2
\* The attempts made and those already decided on.
Committed(d) ==
    sends[d] + Cardinality(Reader(d)) <= MaxAttempts + 2 * (Cardinality(Hooks) - 1) + lapses

\* What a settled row says is true.
Settled(d) ==
    /\ delivery[d] = "failed" /\ "secret" \notin HookFaults => sends[d] >= MaxAttempts
    /\ delivery[d] = "delivered" => d \in acked

\* The inductive invariant behind TriesCounted.
Tried(d) == ReadOnce(d) /\ Fresh(d) /\ SentCounted(d) /\ Slack(d) /\ Committed(d) /\ Settled(d)
HookInv == HookTypes /\ \A d \in Deliveries : Tried(d)

\* At least one worker, and finitely many.
LEMMA HooksCounted == Hooks # {} => Cardinality(Hooks) \in Nat /\ Cardinality(Hooks) >= 1
BY HookAssumption, FS_CardinalityType, FS_EmptySet

\* The workers that have a delivery are workers, so they can be counted.
LEMMA NoneHeld ==
    ASSUME NEW d
    PROVE  /\ Reader(d) \in SUBSET Hooks /\ Sender(d) \in SUBSET Hooks /\ Patient(d) \in SUBSET Hooks
           /\ IsFiniteSet(Reader(d)) /\ IsFiniteSet(Sender(d)) /\ IsFiniteSet(Patient(d))
           /\ Cardinality(Reader(d)) \in Nat /\ Cardinality(Sender(d)) \in Nat
           /\ Cardinality(Patient(d)) \in Nat
           /\ Cardinality(Patient(d)) <= Cardinality(Hooks)
<1>1. Reader(d) \in SUBSET Hooks /\ Sender(d) \in SUBSET Hooks /\ Patient(d) \in SUBSET Hooks
  BY DEF Reader, Sender, Patient
<1> QED BY <1>1, HookAssumption, FS_Subset, FS_CardinalityType

\* Before the first event nothing was sent.
LEMMA HooksStart == ASSUME Hooks # {}, HookInit PROVE HookInv
<1> USE DEF HookInit
<1>1. HookTypes
  BY DEF HookTypes, NoBatch
<1>2. ASSUME NEW d \in Deliveries PROVE Tried(d)
  <2>1. Reader(d) = {} /\ Sender(d) = {} /\ Patient(d) = {}
    BY DEF Reader, Sender, Patient
  <2>2. count[d] = 0 /\ sends[d] = 0 /\ delivery[d] = "none" /\ lapses = 0 /\ fan[d[1]] = {}
    BY DEF Deliveries
  <2>3. Cardinality({}) = 0
    BY FS_EmptySet
  <2>4. ReadOnce(d)
    BY <2>1 DEF ReadOnce
  <2>5. Fresh(d) /\ Settled(d)
    BY <2>1, <2>2 DEF Fresh, Settled
  <2>8. SentCounted(d)
    BY <2>1, <2>2, <2>3 DEF SentCounted
  <2>6. Slack(d)
    BY <2>2 DEF Slack
  <2>7. Committed(d)
    BY <2>1, <2>2, <2>3, HooksCounted, HookAssumption DEF Committed
  <2> QED BY <2>4, <2>5, <2>6, <2>7, <2>8 DEF Tried
<1> QED BY <1>1, <1>2 DEF HookInv

\* The workers and the log of a delivery stay as they are.
\* What changes neither the workers nor the log leaves who has what.
LEMMA Unread ==
    ASSUME HookInv, NEW d \in Deliveries, UNCHANGED <<batch, busy, acked>>, count'[d] = count[d]
    PROVE  /\ Reader(d)' = Reader(d) /\ Sender(d)' = Sender(d) /\ Patient(d)' = Patient(d)
           /\ ReadOnce(d)'
<1>1. Reader(d)' = Reader(d) /\ Sender(d)' = Sender(d) /\ Patient(d)' = Patient(d)
  BY DEF Reader, Sender, Patient
<1>2. ReadOnce(d)
  BY DEF HookInv, Tried
<1> QED BY <1>1, <1>2 DEF ReadOnce

\* The routes and the backoff: a row appears pending and untouched, or goes.
LEMMA RoutesKeep ==
    ASSUME Hooks # {}, HookInv,
           \/ \E s \in Subs : Register(s) \/ Unregister(s)
           \/ \E e \in Events : Fire(e) \/ \E s \in Subs : Enqueue(e, s)
           \/ \E d \in Deliveries : BackoffOver(d)
    PROVE  HookInv'
<1> USE DEF HookInv, HookTypes
<1>0. UNCHANGED <<batch, busy, acked, count, sends, lapses>>
  BY DEF Register, Unregister, Fire, Enqueue, BackoffOver, rare
<1>1. HookTypes'
  <2>1. ASSUME NEW s \in Subs, Register(s) \/ Unregister(s) PROVE HookTypes'
    BY <1>0, <2>1 DEF Register, Unregister
  <2>2. ASSUME NEW e \in Events, Fire(e) PROVE HookTypes'
    BY <1>0, <2>2 DEF Fire, Registered
  <2>3. ASSUME NEW e \in Events, NEW s \in Subs, Enqueue(e, s) PROVE HookTypes'
    <3>1. fan' \in [Events -> SUBSET Subs]
      BY <2>3 DEF Enqueue
    <3>2. delivery' \in [Deliveries -> {"none", "pending", "delivered", "failed"}]
      BY <2>3 DEF Enqueue
    <3>3. due' \subseteq Deliveries
      BY <2>3 DEF Enqueue, Deliveries
    <3> QED BY <1>0, <3>1, <3>2, <3>3
  <2>4. ASSUME NEW d \in Deliveries, BackoffOver(d) PROVE HookTypes'
    BY <1>0, <2>4 DEF BackoffOver
  <2> QED BY <2>1, <2>2, <2>3, <2>4
<1>2. ASSUME NEW d \in Deliveries PROVE Tried(d)'
  <2> DEFINE same == UNCHANGED <<fan, fired>> /\ delivery'[d] \in {delivery[d], "none"}
  <2>t. Tried(d) /\ d[1] \in Events /\ d[2] \in Subs /\ d = <<d[1], d[2]>>
    BY DEF Deliveries
  <2>u. /\ Reader(d)' = Reader(d) /\ Sender(d)' = Sender(d) /\ Patient(d)' = Patient(d)
        /\ ReadOnce(d)'
    BY <1>0, Unread
  <2>n. Cardinality({}) = 0
    BY FS_EmptySet
  <2>1. CASE same
    BY <1>0, <2>1, <2>t, <2>u DEF Tried, Fresh, SentCounted, Slack, Committed, Settled
  <2>2. ASSUME NEW s \in Subs, Register(s) \/ Unregister(s) PROVE same
    BY <2>2 DEF Register, Unregister
  <2>3. ASSUME NEW e \in Events, Fire(e) PROVE Tried(d)'
    BY <1>0, <2>3, <2>t, <2>u DEF Fire, Tried, Fresh, SentCounted, Slack, Committed, Settled
  <2>4. ASSUME NEW e \in Events, NEW s \in Subs, Enqueue(e, s) PROVE Tried(d)'
    <3>1. CASE d # <<e, s>> \/ s \notin Registered
      <4>1. delivery'[d] = delivery[d] /\ fired' = fired /\ fan'[d[1]] \subseteq fan[d[1]]
        BY <2>4, <2>t, <3>1 DEF Enqueue
      <4> QED BY <1>0, <2>t, <2>u, <4>1 DEF Tried, Fresh, SentCounted, Slack, Committed, Settled
    <3>2. CASE d = <<e, s>> /\ s \in Registered
      <4>1. /\ delivery'[d] = "pending" /\ fired' = fired /\ d[2] \notin fan'[d[1]]
            /\ d[2] \in fan[d[1]] /\ d[1] \in fired
        BY <2>4, <2>t, <3>2 DEF Enqueue, Tried, Fresh
      <4>2. count[d] = 0 /\ sends[d] = 0 /\ Reader(d) = {} /\ Sender(d) = {}
        BY <2>t, <4>1 DEF Tried, Fresh
      <4>3. Patient(d) = {}
        BY <4>2 DEF Patient, Reader, Sender
      <4> QED BY <1>0, <2>t, <2>u, <2>n, <4>1, <4>2, <4>3, HooksCounted, HookAssumption
              DEF Tried, Fresh, SentCounted, Slack, Committed, Settled
    <3> QED BY <3>1, <3>2
  <2>5. ASSUME NEW x \in Deliveries, BackoffOver(x) PROVE same
    BY <2>5 DEF BackoffOver
  <2> QED BY <2>1, <2>2, <2>3, <2>4, <2>5
<1> QED BY <1>1, <1>2

\* Reading a batch commits a worker to an attempt with the count as it is. There are
\* no more of them than workers, and patient ones only while the count is below.
LEMMA ListKeeps ==
    ASSUME Hooks # {}, HookInv, NEW w \in Hooks, ListDue(w)
    PROVE  HookInv'
<1> USE DEF HookInv, HookTypes
<1>0. /\ UNCHANGED <<fan, fired, delivery, count, due, busy, sends, acked, lapses>>
      /\ batch[w] = {} /\ busy[w] = NoBatch
      /\ batch' = [batch EXCEPT ![w] = {<<d, count[d]>> : d \in DueNow}]
      /\ DueNow \subseteq {d \in Deliveries : delivery[d] = "pending"}
  BY DEF ListDue, DueNow, rare
<1>1. HookTypes'
  BY <1>0
<1>2. ASSUME NEW d \in Deliveries PROVE Tried(d)'
  <2>t. Tried(d)
    OBVIOUS
  <2>s. Sender(d)' = Sender(d) /\ w \notin Sender(d)
    BY <1>0 DEF Sender
  <2>b. /\ \A v \in Hooks : v # w => batch'[v] = batch[v]
        /\ \A c \in Nat : <<d, c>> \in batch'[w] <=> d \in DueNow /\ c = count[d]
    BY <1>0
  <2>1. ReadOnce(d)'
    BY <1>0, <2>t, <2>s, <2>b DEF Tried, ReadOnce
  <2>2. CASE d \notin DueNow
    <3>1. Reader(d)' = Reader(d) /\ Patient(d)' = Patient(d)
      BY <1>0, <2>b, <2>2 DEF Reader, Patient
    <3> QED BY <1>0, <2>t, <2>s, <2>1, <3>1 DEF Tried, Fresh, SentCounted, Slack, Committed, Settled
  <2>3. CASE d \in DueNow
    <3>1. delivery[d] = "pending" /\ count[d] \in Nat /\ sends[d] \in Nat
      BY <1>0, <2>3
    <3>2. Fresh(d)'
      BY <1>0, <2>t, <3>1 DEF Tried, Fresh
    <3>3. SentCounted(d)' /\ Settled(d)'
      BY <1>0, <2>t, <2>s DEF Tried, SentCounted, Settled
    <3>4. Slack(d)'
      <4>1. CASE count[d] + 1 < MaxAttempts
        <5>1. Patient(d)' \in SUBSET Hooks
          BY DEF Patient
        <5>2. Cardinality(Patient(d)') <= Cardinality(Hooks) /\ Cardinality(Patient(d)') \in Nat
          BY <5>1, HookAssumption, FS_Subset, FS_CardinalityType
        <5> QED BY <1>0, <3>1, <4>1, <5>2, HooksCounted, HookAssumption DEF Slack
      <4>2. CASE ~(count[d] + 1 < MaxAttempts)
        <5>1. Patient(d)' = Patient(d)
          BY <1>0, <2>b, <2>3, <3>1, <4>2 DEF Patient
        <5> QED BY <1>0, <2>t, <5>1 DEF Tried, Slack
      <4> QED BY <4>1, <4>2
    <3>5. Committed(d)'
      <4>1. Reader(d)' \in SUBSET Hooks /\ Sender(d) \in SUBSET Hooks /\ Reader(d)' \cap Sender(d) = {}
        BY <2>1, <2>s DEF ReadOnce, Reader, Sender
      <4>2. /\ IsFiniteSet(Reader(d)') /\ IsFiniteSet(Sender(d))
            /\ Cardinality(Reader(d)') \in Nat /\ Cardinality(Sender(d)) \in Nat
        BY <4>1, HookAssumption, FS_Subset, FS_CardinalityType
      <4>3. Cardinality(Reader(d)' \cup Sender(d)) = Cardinality(Reader(d)') + Cardinality(Sender(d))
        <5>1. Cardinality(Reader(d)' \cap Sender(d)) = 0
          BY <4>1, FS_EmptySet
        <5>2. ASSUME NEW S, NEW T, IsFiniteSet(S), IsFiniteSet(T), Cardinality(S \cap T) = 0,
                     Cardinality(S) \in Nat, Cardinality(T) \in Nat
              PROVE  Cardinality(S \cup T) = Cardinality(S) + Cardinality(T)
          <6>1. Cardinality(S \cup T) = Cardinality(S) + Cardinality(T) - Cardinality(S \cap T)
            BY <5>2, FS_Union
          <6> QED BY <5>2, <6>1
        <5> QED BY <4>2, <5>1, <5>2
      <4>4. Cardinality(Reader(d)' \cup Sender(d)) <= Cardinality(Hooks)
        BY <4>1, HookAssumption, FS_Subset
      <4>5. count[d] <= MaxAttempts + Cardinality(Hooks) - 2
        BY <2>t, <3>1, NoneHeld, HooksCounted, HookAssumption DEF Tried, Slack
      <4>6. sends[d] <= count[d] + Cardinality(Sender(d)) + lapses
        BY <2>t, <3>1 DEF Tried, SentCounted
      <4> QED BY <1>0, <3>1, <4>2, <4>3, <4>4, <4>5, <4>6, HooksCounted, HookAssumption DEF Committed
    <3> QED BY <2>1, <3>2, <3>3, <3>4, <3>5 DEF Tried
  <2> QED BY <2>2, <2>3
<1> QED BY <1>1, <1>2

\* An attempt turns a commitment into something sent.
LEMMA AttemptKeeps ==
    ASSUME Hooks # {}, HookInv, NEW w \in Hooks, NEW item \in batch[w], NEW outcome \in Outcomes,
           Attempt(w, item, outcome)
    PROVE  HookInv'
<1> USE DEF HookInv, HookTypes
<1>w. PICK x \in Deliveries, n \in Nat : item = <<x, n>>
  OBVIOUS
<1>0. /\ UNCHANGED <<fan, fired, delivery, count, due, lapses>>
      /\ busy[w] = NoBatch /\ <<x, n>> \in batch[w]
      /\ batch' = [batch EXCEPT ![w] = @ \ {<<x, n>>}]
      /\ busy' = [busy EXCEPT ![w] = [d |-> x, count |-> n, outcome |-> outcome]]
      /\ sends' = [sends EXCEPT ![x] = @ + 1]
      /\ acked' = IF outcome = "ok" THEN acked \cup {x} ELSE acked
      /\ outcome = "secret" => "secret" \in HookFaults
  BY <1>w DEF Attempt, rare
<1>b. /\ busy'[w] = [d |-> x, count |-> n, outcome |-> outcome] /\ busy'[w] # NoBatch
      /\ \A v \in Hooks : v # w => busy'[v] = busy[v] /\ batch'[v] = batch[v]
      /\ batch'[w] = batch[w] \ {<<x, n>>}
  BY <1>0 DEF NoBatch, Outcomes
<1>1. HookTypes'
  BY <1>0 DEF Attempts, Outcomes
<1>2. ASSUME NEW d \in Deliveries PROVE Tried(d)'
  <2>t. Tried(d) /\ ReadOnce(d)
    BY DEF Tried
  <2>f. /\ IsFiniteSet(Reader(d)) /\ IsFiniteSet(Sender(d))
        /\ Cardinality(Reader(d)) \in Nat /\ Cardinality(Sender(d)) \in Nat
    BY NoneHeld
  <2>1. CASE d # x
    <3>1. Reader(d)' = Reader(d) /\ Sender(d)' = Sender(d) /\ Patient(d)' = Patient(d)
      <4>1. \A c \in Nat : <<d, c>> \in batch'[w] <=> <<d, c>> \in batch[w]
        BY <1>b, <2>1
      <4>2. Reader(d)' = Reader(d)
        BY <1>b, <4>1 DEF Reader
      <4>3. Sender(d)' = Sender(d)
        BY <1>0, <1>b, <2>1 DEF Sender
      <4>4. Patient(d)' = Patient(d)
        BY <1>0, <1>b, <2>1, <4>1 DEF Patient
      <4> QED BY <4>2, <4>3, <4>4
    <3>2. sends'[d] = sends[d] /\ (d \in acked' <=> d \in acked)
      BY <1>0, <2>1
    <3>3. ReadOnce(d)'
      <4>1. ASSUME NEW v \in Hooks, NEW c \in Nat, <<d, c>> \in batch'[v] PROVE <<d, c>> \in batch[v]
        BY <1>b, <4>1
      <4>2. ASSUME NEW v \in Hooks, v \in Sender(d) PROVE busy'[v] = busy[v]
        BY <1>0, <1>b, <4>2 DEF Sender
      <4> QED BY <1>0, <2>t, <3>1, <3>2, <4>1, <4>2 DEF ReadOnce
    <3> QED BY <1>0, <2>t, <3>1, <3>2, <3>3 DEF Tried, Fresh, SentCounted, Slack, Committed, Settled
  <2>2. CASE d = x
    <3>r. /\ \A c \in Nat : <<d, c>> \in batch[w] => c = n
          /\ w \notin Sender(d) /\ n <= count[d]
      BY <1>0, <2>2, <2>t DEF ReadOnce
    <3>0. /\ sends'[d] = sends[d] + 1 /\ sends[d] \in Nat /\ count[d] \in Nat
          /\ d \in acked => d \in acked'
          /\ w \in Reader(d) /\ w \notin Sender(d)
          /\ \A c \in Nat : <<d, c>> \notin batch'[w]
          /\ n <= count[d]
      <4>1. \A c \in Nat : <<d, c>> \notin batch'[w]
        BY <1>b, <2>2, <3>r
      <4>2. w \in Reader(d)
        BY <1>0, <2>2 DEF Reader
      <4> QED BY <1>0, <2>2, <3>r, <4>1, <4>2
    <3>1. Reader(d)' = Reader(d) \ {w} /\ Sender(d)' = Sender(d) \cup {w}
      <4>1. Reader(d)' = Reader(d) \ {w}
        BY <1>b, <3>0 DEF Reader
      <4>2. busy'[w] # NoBatch /\ busy'[w].d = d
        BY <1>b, <2>2
      <4>3. Sender(d)' = Sender(d) \cup {w}
        BY <1>b, <4>2 DEF Sender
      <4> QED BY <4>1, <4>3
    <3>2. Patient(d)' = Patient(d)
      <4>1. w \in Patient(d) <=> n + 1 < MaxAttempts
        <5>1. w \in Patient(d) <=> \E c \in Nat : <<d, c>> \in batch[w] /\ c + 1 < MaxAttempts
          BY <1>0 DEF Patient
        <5> QED BY <1>0, <2>2, <3>r, <5>1
      <4>2. w \in Patient(d)' <=> n + 1 < MaxAttempts
        <5>1. busy'[w].d = d /\ busy'[w].count = n
          BY <1>b, <2>2
        <5> QED BY <1>b, <3>0, <5>1 DEF Patient
      <4>3. \A v \in Hooks : v # w => (v \in Patient(d)' <=> v \in Patient(d))
        BY <1>b DEF Patient
      <4>4. Patient(d) \subseteq Hooks /\ Patient(d)' \subseteq Hooks
        BY DEF Patient
      <4> QED BY <4>1, <4>2, <4>3, <4>4
    <3>3. ReadOnce(d)'
      <4>1. ASSUME NEW v \in Hooks, v # w PROVE
            /\ \A c \in Nat : <<d, c>> \in batch'[v] =>
                  /\ c <= count'[d] /\ v \notin Sender(d)'
                  /\ \A b \in Nat : <<d, b>> \in batch'[v] => b = c
            /\ v \in Sender(d)' => /\ busy'[v].count <= count'[d]
                                   /\ busy'[v].outcome = "ok" => d \in acked'
                                   /\ busy'[v].outcome = "secret" => "secret" \in HookFaults
        BY <1>0, <1>b, <2>t, <3>0, <3>1, <4>1 DEF ReadOnce
      <4>2. /\ busy'[w].count <= count'[d]
            /\ busy'[w].outcome = "ok" => d \in acked'
            /\ busy'[w].outcome = "secret" => "secret" \in HookFaults
        BY <1>0, <1>b, <2>2, <3>0
      <4> QED BY <3>0, <4>1, <4>2 DEF ReadOnce
    <3>4. /\ Cardinality(Reader(d)') = Cardinality(Reader(d)) - 1
          /\ Cardinality(Sender(d)') = Cardinality(Sender(d)) + 1
      <4>1. Cardinality(Reader(d) \ {w}) = Cardinality(Reader(d)) - 1
        <5> DEFINE S == Reader(d)
        <5>1. IsFiniteSet(S) /\ Cardinality(S) \in Nat /\ w \in S
          BY <2>f, <3>0
        <5> HIDE DEF S
        <5>2. Cardinality(S \ {w}) = Cardinality(S) - 1
          BY <5>1, FS_RemoveElement
        <5> QED BY <5>2 DEF S
      <4>2. Cardinality(Sender(d) \cup {w}) = Cardinality(Sender(d)) + 1
        BY <2>f, <3>0, FS_AddElement
      <4> QED BY <3>1, <4>1, <4>2
    <3>5. Fresh(d)'
      BY <1>0, <2>t, <3>0 DEF Tried, Fresh
    <3>6. SentCounted(d)' /\ Slack(d)' /\ Settled(d)'
      BY <1>0, <2>t, <2>f, <3>0, <3>2, <3>4, HookAssumption DEF Tried, SentCounted, Slack, Settled
    <3>7. Committed(d)'
      BY <1>0, <2>t, <2>f, <3>0, <3>4, HooksCounted, HookAssumption DEF Tried, Committed
    <3> QED BY <3>3, <3>5, <3>6, <3>7 DEF Tried
  <2> QED BY <2>1, <2>2
<1> QED BY <1>1, <1>2

\* A row that stays pending was recorded by a patient worker, which is patient no
\* longer, so its count cannot grow beyond their number.
LEMMA RecordKeeps ==
    ASSUME Hooks # {}, HookInv, NEW w \in Hooks, RecordOutcome(w)
    PROVE  HookInv'
<1> USE DEF HookInv, HookTypes
<1> DEFINE x == busy[w].d
<1>0. /\ UNCHANGED <<fan, fired, batch, sends, acked, lapses>>
      /\ busy[w] # NoBatch /\ busy[w] \in Attempts /\ x \in Deliveries
      /\ busy' = [busy EXCEPT ![w] = NoBatch]
  BY DEF RecordOutcome, Attempts, rare
<1>b. busy'[w] = NoBatch /\ \A v \in Hooks : v # w => busy'[v] = busy[v]
  BY <1>0
<1>c. /\ \A d \in Deliveries : d # x => count'[d] = count[d] /\ delivery'[d] = delivery[d]
      /\ delivery[x] = "none" => count'[x] = count[x] /\ delivery'[x] = "none"
      /\ delivery[x] # "none" =>
            /\ count'[x] = count[x] + 1
            /\ delivery'[x] = IF busy[w].outcome = "ok" THEN "delivered"
                              ELSE IF busy[w].outcome = "secret" \/ Exhausted(w) THEN "failed"
                              ELSE delivery[x]
  BY <1>0 DEF RecordOutcome
<1>1. HookTypes'
  <2>1. count' \in [Deliveries -> Nat] /\ delivery' \in [Deliveries -> {"none", "pending", "delivered", "failed"}]
    BY <1>0 DEF RecordOutcome
  <2>2. busy' \in [Hooks -> Attempts \cup {NoBatch}]
    BY <1>0
  <2>3. due' \subseteq Deliveries
    BY <1>0 DEF RecordOutcome
  <2> QED BY <1>0, <2>1, <2>2, <2>3
<1>2. ASSUME NEW d \in Deliveries PROVE Tried(d)'
  <2>t. Tried(d) /\ ReadOnce(d)
    BY DEF Tried
  <2>f. /\ IsFiniteSet(Patient(d)) /\ IsFiniteSet(Sender(d))
        /\ Cardinality(Patient(d)) \in Nat /\ Cardinality(Sender(d)) \in Nat
    BY NoneHeld
  <2>r. Reader(d)' = Reader(d)
    BY <1>0 DEF Reader
  <2>n. count[d] \in Nat /\ sends[d] \in Nat /\ count'[d] \in Nat /\ count[d] <= count'[d]
    BY <1>1, <1>c
  <2>1. CASE d # x
    <3>1. Sender(d)' = Sender(d) /\ Patient(d)' = Patient(d)
      BY <1>0, <1>b, <2>1 DEF Sender, Patient
    <3>2. ReadOnce(d)'
      BY <1>0, <1>b, <1>c, <2>1, <2>t, <3>1 DEF ReadOnce, Sender
    <3> QED BY <1>0, <1>c, <2>1, <2>t, <2>r, <3>1, <3>2 DEF Tried, Fresh, SentCounted, Slack, Committed, Settled
  <2>2. CASE d = x
    <3>0. w \in Sender(d) /\ \A c \in Nat : <<d, c>> \notin batch[w]
      BY <1>0, <2>2, <2>t DEF Sender, ReadOnce
    <3>1. Sender(d)' = Sender(d) \ {w}
      BY <1>b DEF Sender
    <3>2. Patient(d)' = Patient(d) \ {w}
      <4>1. w \notin Patient(d)'
        BY <1>0, <1>b, <3>0 DEF Patient
      <4>2. \A v \in Hooks : v # w => (v \in Patient(d)' <=> v \in Patient(d))
        BY <1>0, <1>b DEF Patient
      <4>3. Patient(d) \subseteq Hooks /\ Patient(d)' \subseteq Hooks
        BY DEF Patient
      <4> QED BY <4>1, <4>2, <4>3
    <3>3. Cardinality(Sender(d)') = Cardinality(Sender(d)) - 1
      BY <2>f, <3>0, <3>1, FS_RemoveElement
    <3>4. ReadOnce(d)'
      <4>1. ASSUME NEW v \in Hooks, v # w PROVE
            /\ \A c \in Nat : <<d, c>> \in batch'[v] =>
                  /\ c <= count'[d] /\ v \notin Sender(d)'
                  /\ \A b \in Nat : <<d, b>> \in batch'[v] => b = c
            /\ v \in Sender(d)' => /\ busy'[v].count <= count'[d]
                                   /\ busy'[v].outcome = "ok" => d \in acked'
                                   /\ busy'[v].outcome = "secret" => "secret" \in HookFaults
        <5>1. \A c \in Nat : <<d, c>> \in batch'[v] =>
                  /\ c <= count'[d] /\ v \notin Sender(d)'
                  /\ \A b \in Nat : <<d, b>> \in batch'[v] => b = c
          BY <1>0, <2>t, <2>n, <3>1 DEF ReadOnce
        <5>2. v \in Sender(d)' => v \in Sender(d) /\ busy'[v] = busy[v] /\ busy[v].count \in Nat
          BY <1>b, <3>1, <4>1 DEF Sender, Attempts
        <5> QED BY <1>0, <2>t, <2>n, <5>1, <5>2 DEF ReadOnce
      <4> QED BY <1>0, <3>0, <3>1, <4>1 DEF ReadOnce
    <3>5. Fresh(d)'
      BY <1>0, <2>t, <3>0 DEF Tried, Fresh
    <3>6. SentCounted(d)'
      <4>1. count'[d] <= count[d] + 1
        BY <1>c, <2>2, <2>n
      <4>2. delivery'[d] = "pending" => delivery[d] = "pending" /\ count'[d] = count[d] + 1
        BY <1>c, <2>2
      <4> QED BY <1>0, <2>t, <2>f, <2>n, <3>3, <4>1, <4>2 DEF Tried, SentCounted
    <3>7. Slack(d)'
      <4> SUFFICES ASSUME delivery'[d] = "pending"
                   PROVE  count'[d] + Cardinality(Patient(d)') <= MaxAttempts + Cardinality(Hooks) - 2
        BY DEF Slack
      <4>1. delivery[d] = "pending" /\ count'[d] = count[d] + 1 /\ ~Exhausted(w)
        BY <1>c, <2>2
      <4>2. w \in Patient(d)
        BY <1>0, <2>2, <4>1, HookAssumption DEF Patient, Exhausted, Attempts
      <4>3. Cardinality(Patient(d)') = Cardinality(Patient(d)) - 1
        BY <2>f, <3>2, <4>2, FS_RemoveElement
      <4> QED BY <2>t, <2>f, <2>n, <4>1, <4>3, HooksCounted, HookAssumption DEF Tried, Slack
    <3>8. Committed(d)'
      BY <1>0, <2>t, <2>r DEF Tried, Committed
    <3>9. Settled(d)'
      <4>1. CASE delivery'[d] = delivery[d]
        BY <1>0, <2>t, <4>1 DEF Tried, Settled
      <4>2. CASE delivery'[d] # delivery[d] /\ delivery'[d] = "delivered"
        <5>1. busy[w].outcome = "ok"
          BY <1>c, <2>2, <4>2
        <5> QED BY <1>0, <2>t, <3>0, <4>2, <5>1 DEF Settled, ReadOnce
      <4>3. CASE delivery'[d] # delivery[d] /\ delivery'[d] # "delivered"
        <5>1. busy[w].outcome = "secret" \/ Exhausted(w)
          BY <1>c, <2>2, <4>3
        <5>2. busy[w].outcome = "secret" => "secret" \in HookFaults
          BY <2>t, <3>0 DEF ReadOnce
        <5>3. Exhausted(w) => sends[d] >= MaxAttempts
          <6>1. Cardinality(Sender(d)) >= 1
            BY <2>f, <3>0, FS_EmptySet
          <6>2. busy[w].count <= count[d] /\ busy[w].count \in Nat
            BY <1>0, <2>t, <3>0 DEF ReadOnce, Attempts
          <6> QED BY <2>t, <2>f, <2>n, <6>1, <6>2, HookAssumption DEF Tried, SentCounted, Exhausted
        <5> QED BY <1>0, <4>3, <5>1, <5>2, <5>3 DEF Settled
      <4> QED BY <4>1, <4>2, <4>3
    <3> QED BY <3>4, <3>5, <3>6, <3>7, <3>8, <3>9 DEF Tried
  <2> QED BY <2>1, <2>2
<1> QED BY <1>1, <1>2

\* A death, or an outcome that is not written, loses one attempt that was sent, and
\* is counted; an attempt that raises before it is sent only leaves the batch.
LEMMA LapseKeeps ==
    ASSUME Hooks # {}, HookInv, NEW w \in Hooks,
           \/ HookDies(w) \/ OutcomeUnwritten(w)
           \/ \E item \in batch[w] : AttemptRaises(w, item)
    PROVE  HookInv'
<1> USE DEF HookInv, HookTypes
<1>0. /\ UNCHANGED <<fan, fired, delivery, count, due, sends, acked>>
      /\ \/ lapses' = lapses + 1 /\ busy' = [busy EXCEPT ![w] = NoBatch]
         \/ lapses' = lapses /\ busy' = busy
      /\ batch' \in [Hooks -> SUBSET (Deliveries \X Nat)]
      /\ batch'[w] \subseteq batch[w] /\ \A v \in Hooks : v # w => batch'[v] = batch[v]
  <2>1. CASE HookDies(w)
    BY <2>1 DEF HookDies
  <2>2. CASE OutcomeUnwritten(w)
    BY <2>2 DEF OutcomeUnwritten
  <2>3. ASSUME NEW item \in batch[w], AttemptRaises(w, item)
        PROVE  /\ batch' = [batch EXCEPT ![w] = @ \ {item}]
               /\ UNCHANGED <<fan, fired, delivery, count, due, busy, sends, acked, lapses>>
    BY <2>3 DEF AttemptRaises, rare
  <2> QED BY <2>1, <2>2, <2>3
<1>b. \A v \in Hooks : batch'[v] \subseteq batch[v] /\ busy'[v] \in {busy[v], NoBatch}
  BY <1>0
<1>1. HookTypes'
  BY <1>0
<1>2. ASSUME NEW d \in Deliveries PROVE Tried(d)'
  <2>t. Tried(d) /\ ReadOnce(d) /\ count[d] \in Nat /\ sends[d] \in Nat
    BY DEF Tried
  <2>f. /\ IsFiniteSet(Reader(d)) /\ IsFiniteSet(Sender(d)) /\ IsFiniteSet(Patient(d))
        /\ Cardinality(Reader(d)) \in Nat /\ Cardinality(Sender(d)) \in Nat
        /\ Cardinality(Patient(d)) \in Nat
    BY NoneHeld
  <2>1. Reader(d)' \subseteq Reader(d) /\ Patient(d)' \subseteq Patient(d) /\ Sender(d)' \subseteq Sender(d)
    BY <1>b DEF Reader, Patient, Sender
  <2>s. \/ lapses' = lapses + 1 /\ Sender(d)' = Sender(d) \ {w}
        \/ lapses' = lapses /\ Sender(d)' = Sender(d)
    BY <1>0 DEF Sender
  <2>2. /\ Cardinality(Reader(d)') \in Nat /\ Cardinality(Reader(d)') <= Cardinality(Reader(d))
        /\ Cardinality(Patient(d)') \in Nat /\ Cardinality(Patient(d)') <= Cardinality(Patient(d))
        /\ Cardinality(Sender(d)') \in Nat /\ Cardinality(Sender(d)') <= Cardinality(Sender(d))
    <3>1. ASSUME NEW S, IsFiniteSet(S), Cardinality(S) \in Nat, NEW T \in SUBSET S
          PROVE  Cardinality(T) \in Nat /\ Cardinality(T) <= Cardinality(S)
      BY <3>1, FS_Subset, FS_CardinalityType
    <3> QED BY <2>1, <2>f, <3>1
  <2>c. Cardinality(Sender(d)) <= Cardinality(Sender(d)') + (lapses' - lapses)
    <3>1. CASE lapses' = lapses /\ Sender(d)' = Sender(d)
      BY <2>f, <3>1
    <3>2. CASE lapses' = lapses + 1 /\ Sender(d)' = Sender(d) \ {w}
      <4>1. ASSUME NEW S, IsFiniteSet(S), Cardinality(S) \in Nat
            PROVE  Cardinality(S) <= Cardinality(S \ {w}) + 1
        <5>1. IsFiniteSet(S \ {w}) /\ Cardinality(S \ {w}) \in Nat
          BY <4>1, FS_RemoveElement, FS_CardinalityType
        <5>2. CASE w \in S
          <6>1. Cardinality(S \ {w}) = Cardinality(S) - 1
            BY <4>1, <5>2, FS_RemoveElement
          <6> QED BY <4>1, <6>1
        <5>3. CASE w \notin S
          <6>1. Cardinality(S \ {w}) = Cardinality(S)
            BY <4>1, <5>3, FS_RemoveElement
          <6> QED BY <4>1, <6>1
        <5> QED BY <5>2, <5>3
      <4> QED BY <2>f, <3>2, <4>1
    <3> QED BY <2>s, <3>1, <3>2
  <2>3. ReadOnce(d)'
    <3>1. ASSUME NEW v \in Hooks, v \in Sender(d)' PROVE v \in Sender(d) /\ busy'[v] = busy[v]
      BY <1>b, <3>1 DEF Sender
    <3>2. ASSUME NEW v \in Hooks, NEW c \in Nat, <<d, c>> \in batch'[v] PROVE <<d, c>> \in batch[v]
      BY <1>b, <3>2
    <3> QED BY <1>0, <2>t, <3>1, <3>2 DEF ReadOnce
  <2>4. Fresh(d)'
    BY <1>0, <2>t, <2>1 DEF Tried, Fresh
  <2>5. SentCounted(d)' /\ Settled(d)'
    BY <1>0, <2>t, <2>f, <2>2, <2>c, HookAssumption DEF Tried, SentCounted, Settled
  <2>6. Slack(d)' /\ Committed(d)'
    BY <1>0, <2>t, <2>f, <2>2, HooksCounted, HookAssumption DEF Tried, Slack, Committed
  <2> QED BY <2>3, <2>4, <2>5, <2>6 DEF Tried
<1> QED BY <1>1, <1>2

\* Every step keeps it.
LEMMA HooksStep == ASSUME Hooks # {}, HookInv, [HookNext]_hookvars PROVE HookInv'
<1>1. CASE \/ \E s \in Subs : Register(s) \/ Unregister(s)
           \/ \E e \in Events : Fire(e) \/ \E s \in Subs : Enqueue(e, s)
           \/ \E d \in Deliveries : BackoffOver(d)
  BY <1>1, RoutesKeep
<1>2. ASSUME NEW w \in Hooks, HookWorks(w) PROVE HookInv'
  BY <1>2, ListKeeps, AttemptKeeps, RecordKeeps, LapseKeeps DEF HookWorks, Outcomes
<1>3. ASSUME NEW w \in Hooks, OutcomeUnwritten(w) \/ HookDies(w) PROVE HookInv'
  BY <1>3, LapseKeeps
<1>4. CASE UNCHANGED hookvars
  <2>1. ASSUME NEW d \in Deliveries PROVE Tried(d)'
    <3>1. /\ Reader(d)' = Reader(d) /\ Sender(d)' = Sender(d) /\ Patient(d)' = Patient(d)
          /\ ReadOnce(d)'
      BY <1>4, Unread DEF hookvars
    <3> QED BY <1>4, <3>1 DEF hookvars, rare, HookInv, Tried, Fresh, SentCounted, Slack, Committed, Settled
  <2> QED BY <1>4, <2>1 DEF hookvars, rare, HookInv, HookTypes
<1> QED BY <1>1, <1>2, <1>3, <1>4 DEF HookNext

\* With any number of workers, which do not claim what they read, a delivery is given
\* up only after MaxAttempts attempts and tried at most two rounds of the other workers
\* and one attempt per death or unwritten outcome more (list_due, _attempt_delivery, _record_failure).
THEOREM EveryTryCounts == Hooks # {} => (HookSpec => []TriesCounted)
<1> SUFFICES ASSUME Hooks # {} PROVE HookSpec => []TriesCounted
  OBVIOUS
<1>1. HookInit => HookInv
  BY HooksStart
<1>2. HookInv /\ [HookNext]_hookvars => HookInv'
  BY HooksStep
<1>3. HookInv => TriesCounted
  <2> SUFFICES ASSUME HookInv, NEW d \in Deliveries
               PROVE  sends[d] <= MaxAttempts + 2 * (Cardinality(Hooks) - 1) + lapses
    BY DEF TriesCounted, HookInv, Tried, Settled
  <2> QED BY NoneHeld, HooksCounted, HookAssumption DEF HookInv, HookTypes, Tried, Committed
<1> QED BY <1>1, <1>2, <1>3, PTL DEF HookSpec
=============================================================================
