---------------------------- MODULE SidecarProofs ----------------------------
(***************************************************************************)
(* What the sidecar promises about the session it serves, what it runs and *)
(* what it stores, for any number of requests, sessions, processes, ports, *)
(* stops, flushers, files and writes: a session has its budget, does not   *)
(* stand still and starts afresh (SidecarSession), a port is kept by its   *)
(* process, nothing runs untracked and no output is lost unnoticed         *)
(* (SidecarProcesses), a file that counts as synced is in storage          *)
(* (SidecarSync), a call of a kept-alive driver gets its own answer        *)
(* (SidecarInterpreters), and neither a language server nor who asks it is *)
(* forgotten (LanguageServers).                                            *)
(*                                                                         *)
(* The first rests on who holds which lock, and on what /configure has     *)
(* reset by the time it wipes; the synced file on the order of versions: a *)
(* file a flush is at is not remembered as the disk has it, what was read  *)
(* lies between the signature and the disk, and where the disk has the     *)
(* signature again all three are one.  Between two calls the pipes of a    *)
(* driver are empty, and a server has an owner at every step of its life.  *)
(***************************************************************************)
EXTENDS SidecarSession, SidecarProcesses, SidecarInterpreters, LanguageServers,
        SidecarSync, FiniteSetTheorems, TLAPS

-----------------------------------------------------------------------------
(* A session on its pod.                                                   *)

\* What holds of every route.
Sound(k) ==
    /\ k.budget \in {"none", "count", "both"}
    /\ k.lock \in {"", "processes", "interpreter", "node", "browser"}
    /\ k.parts \subseteq SidecarParts /\ k.reads \subseteq SidecarParts

\* The table of routes is as it should be, route by route.
LEMMA RoutesSound == \A k \in SidecarRoutes : Sound(k)
<1>1. Sound(ExecCommand) /\ Sound(ProcessStart) /\ Sound(InterpreterExec) /\
      Sound(NodeInterpreterExec) /\ Sound(BrowserNavigate) /\
      Sound(BrowserExec)
      BY DEF Sound, Route, ReadRoute, SidecarParts, ExecCommand, ProcessStart, InterpreterExec,
         NodeInterpreterExec, BrowserNavigate, BrowserExec
<1>2. Sound(BrowserScreenshot) /\ Sound(LspStart) /\ Sound(LspOpen) /\
      Sound(LspCompletion) /\ Sound(PtyExec) /\ Sound(PtyTakeover)
      BY DEF Sound, Route, ReadRoute, SidecarParts, BrowserScreenshot, LspStart, LspOpen, LspCompletion,
         PtyExec, PtyTakeover
<1>3. Sound(DesktopTakeover) /\ Sound(ScratchSet) /\ Sound(HttpRequest) /\
      Sound(SemanticSearch) /\ Sound(WorkspaceDiff) /\ Sound(FileCreate)
      BY DEF Sound, Route, ReadRoute, SidecarParts, DesktopTakeover, ScratchSet, HttpRequest, SemanticSearch,
         WorkspaceDiff, FileCreate
<1>4. Sound(StrReplace) /\ Sound(InjectSkills) /\ Sound(ViewFile) /\
      Sound(ReadImage) /\ Sound(LsFiles) /\ Sound(GlobFiles)
      BY DEF Sound, Route, ReadRoute, SidecarParts, StrReplace, InjectSkills, ViewFile, ReadImage, LsFiles,
         GlobFiles
<1>5. Sound(GrepFiles) /\ Sound(WatchDirectory) /\ Sound(ExplainLastFailure) /\
      Sound(ScratchGet) /\ Sound(ProcessOutput) /\ Sound(PreviewProxy)
      BY DEF Sound, Route, ReadRoute, SidecarParts, GrepFiles, WatchDirectory, ExplainLastFailure, ScratchGet,
         ProcessOutput, PreviewProxy
<1> QED BY <1>1, <1>2, <1>3, <1>4, <1>5 DEF SidecarRoutes

\* What a request may be.
RequestRecords ==
    [route : SidecarRoutes \cup {Unrouted}, of : 0..MaxTenants,
     at : {"new", "reserve", "check", "enter", "run", "register", "leave", "record",
           "teardown", "done"},
     part : 0..6]

\* Who holds a lock: the request that tears the session down has the budget's,
\* and the others are held by requests that run or are about to leave.
LockHolders == \A l \in SidecarLocks :
    mutex[l] # NoRequest =>
        LET r == mutex[l]
        IN  IF l = "budget" THEN request[r].at = "teardown"
            ELSE request[r].at \in {"run", "leave"} /\ Its(r).lock = l

\* A request that was sent has a route, and is at a step of that route.
Routed == \A r \in SidecarCalls :
    /\ request[r].at # "new" => request[r].route \in SidecarRoutes /\ request[r].of # 0
    /\ request[r].at = "register" => Its(r).lock = ""
    /\ request[r].at = "teardown" => request[r].part \in 1..6

\* The slots that were given out are those counted.
SlotsCounted == ran = execCount

\* /configure installs the session it was called with.
Installing ==
    configuring # 0 => nextTenant # 0 /\ (configuring = 10 => tenant = nextTenant)

\* The inductive invariant.
SessInv == SidecarTypeOK /\ LockHolders /\ Routed /\ SlotsCounted /\ Installing

\* The first state: the pod serves nobody.
LEMMA SessStart == SidecarInit => SessInv
<1> SUFFICES ASSUME SidecarInit PROVE SessInv
    OBVIOUS
<1>1. \A r \in SidecarCalls : request[r].at = "new" /\ request[r].route = Unrouted
      BY DEF SidecarInit
<1>2. SidecarTypeOK
  <2>1. [route |-> Unrouted, of |-> 0, at |-> "new", part |-> 0] \in
            RequestRecords
        BY SidecarAssumption DEF RequestRecords
  <2>2. /\ request \in [SidecarCalls -> RequestRecords]
        /\ holds \in [SidecarParts -> SUBSET (1..MaxTenants)]
        /\ mutex \in [SidecarLocks -> SidecarCalls \cup {NoRequest}]
        BY <2>1 DEF SidecarInit
  <2>3. 0 \in 0..MaxTenants /\ 0 \in 0..ExecCount
        BY SidecarAssumption
  <2>4. /\ tenant = 0 /\ nextTenant = 0 /\ configuring = 0 /\ execCount = 0 /\ execTime = 0
        /\ breached \in BOOLEAN /\ ran = 0 /\ strays = {}
        BY DEF SidecarInit
  <2> QED BY <2>2, <2>3, <2>4 DEF SidecarTypeOK, RequestRecords
<1>3. LockHolders /\ Routed /\ SlotsCounted /\ Installing
      BY <1>1 DEF SidecarInit, LockHolders, Routed, SlotsCounted, Installing
<1> QED BY <1>2, <1>3 DEF SessInv

\* A request that moves keeps who holds which lock.
LEMMA RequestMoves ==
    ASSUME SessInv, NEW r \in SidecarCalls, NEW new \in RequestRecords,
           request' = [request EXCEPT ![r] = new],
           request[r].at # "new", new.at # "new", new.route = request[r].route, new.of = request[r].of,
           new.at = "register" => new.route.lock = "",
           new.at = "teardown" => new.part \in 1..6,
           mutex' \in [SidecarLocks -> SidecarCalls \cup {NoRequest}],
           \A l \in SidecarLocks : mutex'[l] # NoRequest => mutex'[l] \in {mutex[l], r},
           \A l \in SidecarLocks : mutex'[l] = r =>
                IF l = "budget" THEN new.at = "teardown"
                ELSE new.at \in {"run", "leave"} /\ new.route.lock = l
    PROVE  /\ request' \in [SidecarCalls -> RequestRecords]
           /\ LockHolders' /\ Routed'
<1> USE DEF SessInv, SidecarTypeOK
<1>t. request \in [SidecarCalls -> RequestRecords]
      BY DEF RequestRecords
<1>1. request'[r] = new /\ \A q \in SidecarCalls \ {r} : request'[q] = request[q]
      BY <1>t
<1>2. request' \in [SidecarCalls -> RequestRecords]
      BY <1>t
<1>3. Routed'
      BY <1>1 DEF Routed, Its
<1>4. LockHolders'
  <2> SUFFICES ASSUME NEW l \in SidecarLocks, mutex'[l] # NoRequest
               PROVE  IF l = "budget" THEN request'[mutex'[l]].at = "teardown"
                      ELSE request'[mutex'[l]].at \in {"run", "leave"} /\ Its(mutex[l])'.lock = l
      BY DEF LockHolders, Its
  <2>1. CASE mutex'[l] = r
        BY <1>1, <2>1 DEF Its
  <2>2. CASE mutex'[l] # r
    <3>1. mutex'[l] = mutex[l] /\ mutex[l] \in SidecarCalls \ {r} /\ mutex[l] # NoRequest
          BY <2>2
    <3>2. request'[mutex[l]] = request[mutex[l]]
          BY <1>1, <3>1
    <3>3. IF l = "budget" THEN request[mutex[l]].at = "teardown"
          ELSE request[mutex[l]].at \in {"run", "leave"} /\ Its(mutex[l]).lock = l
          BY <3>1 DEF LockHolders
    <3>4. mutex'[l] = mutex[l]
          BY <3>1
    <3> HIDE DEF SessInv, SidecarTypeOK
    <3> QED BY <3>2, <3>3, <3>4 DEF Its
  <2> QED BY <2>1, <2>2
<1> QED BY <1>2, <1>3, <1>4

\* A step that leaves the counts of the budget and /configure alone.
LEMMA QuietStep ==
    ASSUME SessInv, UNCHANGED <<execCount, breached, ran, confvars>>,
           execTime' \in Nat, strays' \subseteq 1..MaxTenants,
           holds' \in [SidecarParts -> SUBSET (1..MaxTenants)],
           mutex' \in [SidecarLocks -> SidecarCalls \cup {NoRequest}],
           request' \in [SidecarCalls -> RequestRecords],
           LockHolders', Routed'
    PROVE  SessInv'
BY DEF SessInv, SidecarTypeOK, SlotsCounted, Installing, confvars, RequestRecords

\* Where a request only goes on, or takes or gives up its lock.
LEMMA GoesOn ==
    ASSUME SessInv, NEW r \in SidecarCalls, NEW at,
           at \in {"reserve", "check", "enter", "run", "register", "leave", "record", "done"},
           at = "register" => Its(r).lock = "",
           Moves(r, at), request[r].at \notin {"new", "teardown"},
           \/ mutex' = mutex /\ (request[r].at \in {"run", "leave"} => at \in {"run", "leave"})
           \/ /\ Its(r).lock \in SidecarLocks \ {"budget"} /\ at = "run"
              /\ mutex' = [mutex EXCEPT ![Its(r).lock] = r] /\ request[r].at \notin {"run", "leave"}
           \/ mutex' = [l \in SidecarLocks |-> IF mutex[l] = r THEN NoRequest ELSE mutex[l]]
    PROVE  /\ request' \in [SidecarCalls -> RequestRecords]
           /\ mutex' \in [SidecarLocks -> SidecarCalls \cup {NoRequest}]
           /\ LockHolders' /\ Routed'
<1> DEFINE new == [request[r] EXCEPT !.at = at]
<1>1. request[r] \in RequestRecords
      BY DEF SessInv, SidecarTypeOK, RequestRecords
<1>2. /\ new \in RequestRecords /\ new.at = at /\ new.route = request[r].route /\ new.of = request[r].of
      /\ request' = [request EXCEPT ![r] = new]
      BY <1>1 DEF RequestRecords, Moves
<1>3. \A l \in SidecarLocks : mutex[l] = r =>
            l # "budget" /\ request[r].at \in {"run", "leave"} /\ Its(r).lock = l
      BY SidecarAssumption DEF SessInv, LockHolders
<1>4. mutex \in [SidecarLocks -> SidecarCalls \cup {NoRequest}] /\ NoRequest # r
      BY SidecarAssumption DEF SessInv, SidecarTypeOK
<1>5. /\ mutex' \in [SidecarLocks -> SidecarCalls \cup {NoRequest}]
      /\ \A l \in SidecarLocks : mutex'[l] # NoRequest => mutex'[l] \in {mutex[l], r}
      /\ \A l \in SidecarLocks : mutex'[l] = r =>
            l # "budget" /\ at \in {"run", "leave"} /\ Its(r).lock = l
      BY <1>3, <1>4
<1>6. /\ request[r].at # "new" /\ new.at # "new"
      /\ new.at = "register" => new.route.lock = ""
      /\ new.at # "teardown"
      BY <1>2 DEF Its
<1>7. \A l \in SidecarLocks : mutex'[l] = r =>
                IF l = "budget" THEN new.at = "teardown"
                ELSE new.at \in {"run", "leave"} /\ new.route.lock = l
      BY <1>2, <1>5 DEF Its
<1> HIDE DEF new
<1> QED BY <1>2, <1>5, <1>6, <1>7, RequestMoves

\* The breach: the budget's lock is taken by the request that tears down.
LEMMA Breaches ==
    ASSUME SessInv, NEW r \in SidecarCalls, Breach(r), request[r].at \in {"reserve", "record"}
    PROVE  /\ request' \in [SidecarCalls -> RequestRecords]
           /\ mutex' \in [SidecarLocks -> SidecarCalls \cup {NoRequest}]
           /\ LockHolders' /\ Routed'
<1> DEFINE new == [request[r] EXCEPT !.at = "teardown", !.part = 1]
<1>1. request[r] \in RequestRecords
      BY DEF SessInv, SidecarTypeOK, RequestRecords
<1>a. new \in RequestRecords
      BY <1>1, 1 \in 0..6, "teardown" \in {"new", "reserve", "check", "enter", "run", "register",
                     "leave", "record", "teardown", "done"} DEF RequestRecords
<1>2. /\ new.at = "teardown" /\ new.part = 1
      /\ new.route = request[r].route /\ new.of = request[r].of
      BY <1>1 DEF RequestRecords
<1>b. request' = [request EXCEPT ![r] = new]
      BY <1>1 DEF RequestRecords, Breach
<1>3. \A l \in SidecarLocks : mutex[l] # r
      BY SidecarAssumption DEF SessInv, LockHolders
<1>4. mutex \in [SidecarLocks -> SidecarCalls \cup {NoRequest}]
      /\ mutex' = [mutex EXCEPT !["budget"] = r]
      BY DEF Breach, SessInv, SidecarTypeOK
<1>5. /\ mutex' \in [SidecarLocks -> SidecarCalls \cup {NoRequest}]
      /\ \A l \in SidecarLocks : mutex'[l] # NoRequest => mutex'[l] \in {mutex[l], r}
      /\ \A l \in SidecarLocks : mutex'[l] = r => l = "budget"
      BY <1>3, <1>4
<1>6. /\ request[r].at # "new" /\ new.at # "new" /\ new.at # "register" /\ new.part \in 1..6
      BY <1>2
<1>7. \A l \in SidecarLocks : mutex'[l] = r =>
                IF l = "budget" THEN new.at = "teardown"
                ELSE new.at \in {"run", "leave"} /\ new.route.lock = l
      BY <1>2, <1>5
<1> HIDE DEF new
<1> QED BY <1>a, <1>2, <1>b, <1>5, <1>6, <1>7, RequestMoves

\* A new request.
LEMMA SentStep ==
    ASSUME SessInv, NEW r \in SidecarCalls, NEW k \in SidecarRoutes, Requested(r, k)
    PROVE  SessInv'
<1> DEFINE new == [route |-> k, of |-> tenant, part |-> 0,
                   at |-> IF k.budget # "none" THEN "reserve" ELSE "enter"]
<1>1. /\ request[r].at = "new" /\ request' = [request EXCEPT ![r] = new]
      /\ UNCHANGED <<holds, mutex, execCount, execTime, breached, ran, confvars, strays>>
      BY DEF Requested, budgetvars
<1>2. /\ new \in RequestRecords /\ new.at \in {"reserve", "enter"} /\ new.route = k /\ new.of # 0
      /\ request \in [SidecarCalls -> RequestRecords]
      BY DEF Requested, SessInv, SidecarTypeOK, RequestRecords
<1> HIDE DEF new
<1>3. /\ request'[r] = new /\ \A q \in SidecarCalls \ {r} : request'[q] = request[q]
      /\ request' \in [SidecarCalls -> RequestRecords]
      BY <1>1, <1>2
<1>4. \A l \in SidecarLocks : mutex[l] # r
      BY <1>1, SidecarAssumption DEF SessInv, LockHolders
<1>5. \A l \in SidecarLocks : mutex[l] # NoRequest => mutex[l] \in SidecarCalls \ {r}
      BY <1>4 DEF SessInv, SidecarTypeOK
<1>6. LockHolders'
      BY <1>1, <1>3, <1>5 DEF SessInv, LockHolders, Its
<1>7. Routed'
      BY <1>2, <1>3 DEF SessInv, Routed, Its
<1> QED BY <1>1, <1>3, <1>6, <1>7, QuietStep DEF SessInv, SidecarTypeOK

\* A slot is counted and given in one step, or the session is torn down.
LEMMA ReserveStep ==
    ASSUME SessInv, NEW r \in SidecarCalls, ReserveSlot(r) PROVE SessInv'
<1>1. request[r].at = "reserve" /\ UNCHANGED <<holds, confvars, strays>>
      BY DEF ReserveSlot
<1>2. CASE Moves(r, "done") /\ UNCHANGED <<mutex, budgetvars>>
      BY <1>1, <1>2, GoesOn, QuietStep DEF SessInv, SidecarTypeOK, budgetvars
<1>3. CASE Breach(r) /\ UNCHANGED <<execCount, execTime, ran>>
  <2>1. /\ request' \in [SidecarCalls -> RequestRecords]
        /\ mutex' \in [SidecarLocks -> SidecarCalls \cup {NoRequest}]
        /\ LockHolders' /\ Routed'
        BY <1>1, <1>3, Breaches
  <2>2. breached' \in BOOLEAN
        BY <1>3 DEF Breach
  <2> QED BY <1>1, <1>3, <2>1, <2>2 DEF SessInv, SidecarTypeOK, SlotsCounted, Installing, confvars, RequestRecords
<1>4. CASE /\ execCount < ExecCount /\ execCount' = execCount + 1 /\ ran' = ran + 1
           /\ Moves(r, IF request[r].route = LspStart THEN "check" ELSE "enter")
           /\ UNCHANGED <<mutex, execTime, breached>>
  <2>1. /\ request' \in [SidecarCalls -> RequestRecords]
        /\ LockHolders' /\ Routed'
        BY <1>1, <1>4, GoesOn
  <2>2. ran' = execCount' /\ execCount' \in 0..ExecCount /\ ran' \in Nat
        BY <1>4, SidecarAssumption DEF SessInv, SidecarTypeOK, SlotsCounted
  <2> QED BY <1>1, <1>4, <2>1, <2>2 DEF SessInv, SidecarTypeOK, SlotsCounted, Installing, confvars, RequestRecords
<1> QED BY <1>2, <1>3, <1>4 DEF ReserveSlot

\* Entering the route takes its lock, leaving it gives it up.
LEMMA RouteSteps ==
    ASSUME SessInv, NEW r \in SidecarCalls,
           CheckServers(r) \/ Enter(r) \/ Unlock(r)
    PROVE  SessInv'
<1>1. UNCHANGED <<holds, budgetvars, confvars, strays>> /\ request[r].at \in {"check", "enter", "leave"}
      BY DEF CheckServers, Enter, Unlock
<1>2. Its(r) \in SidecarRoutes
      BY <1>1 DEF SessInv, Routed, Its
<1>3. Its(r).lock \in {"", "processes", "interpreter", "node", "browser"}
      BY <1>2, RoutesSound DEF Sound
<1>4. /\ request' \in [SidecarCalls -> RequestRecords]
      /\ mutex' \in [SidecarLocks -> SidecarCalls \cup {NoRequest}]
      /\ LockHolders' /\ Routed'
  <2>1. CASE CheckServers(r)
        BY <1>1, <2>1, GoesOn DEF CheckServers, SessInv, SidecarTypeOK
  <2>2. CASE Enter(r)
    <3>1. CASE Moves(r, "done") /\ UNCHANGED mutex
          BY <2>2, <3>1, GoesOn DEF Enter, SessInv, SidecarTypeOK
    <3>2. CASE Moves(r, "run") /\ Its(r).lock = "" /\ mutex' = mutex
          BY <2>2, <3>2, GoesOn DEF Enter, SessInv, SidecarTypeOK
    <3>3. CASE /\ Moves(r, "run") /\ Its(r).lock # ""
               /\ mutex' = [mutex EXCEPT ![Its(r).lock] = r]
      <4>1. Its(r).lock \in SidecarLocks \ {"budget"}
            BY <1>3, <3>3 DEF SidecarLocks
      <4> QED BY <2>2, <3>3, <4>1, GoesOn DEF Enter
    <3> QED BY <2>2, <3>1, <3>2, <3>3 DEF Enter
  <2>3. CASE Unlock(r)
    <3>1. PICK at \in {"record", "done"} : Moves(r, at)
          BY <2>3 DEF Unlock
    <3> QED BY <2>3, <3>1, GoesOn DEF Unlock
  <2> QED BY <2>1, <2>2, <2>3
<1> QED BY <1>1, <1>4, QuietStep DEF SessInv, SidecarTypeOK, budgetvars

\* A request that was sent is of a session.
LEMMA OfASession ==
    ASSUME SessInv, NEW r \in SidecarCalls, request[r].at # "new"
    PROVE  request[r].of \in 1..MaxTenants
<1>1. request[r].of \in 0..MaxTenants /\ request[r].of # 0
      BY DEF SessInv, Routed, SidecarTypeOK
<1>2. MaxTenants \in Nat
      BY SidecarAssumption
<1> QED BY <1>1, <1>2

\* What runs, and what it leaves in the parts.
LEMMA RunSteps ==
    ASSUME SessInv, NEW r \in SidecarCalls, Run(r) \/ RegisterServer(r) PROVE SessInv'
<1>1. /\ UNCHANGED <<mutex, budgetvars, confvars>> /\ request[r].at \in {"run", "register"}
      /\ Its(r) \in SidecarRoutes /\ request[r].of \in 0..MaxTenants
      BY DEF Run, RegisterServer, SessInv, Routed, Its, SidecarTypeOK
<1>2. request[r].of \in 1..MaxTenants
      BY <1>1, OfASession
<1>s. strays' \subseteq 1..MaxTenants
      BY <1>2 DEF Run, RegisterServer, SessInv, SidecarTypeOK
<1>3. \A l \in SidecarLocks : mutex[l] = r => request[r].at = "run" /\ Its(r).lock = l /\ l # "budget"
      BY <1>1, SidecarAssumption DEF SessInv, LockHolders
<1>4. "" \notin SidecarLocks
      BY DEF SidecarLocks
<1>5. CASE request[r].route = LspStart /\ Moves(r, "register")
  <2>1. Its(r).lock = ""
    <3>1. LspStart.lock = ""
          BY DEF LspStart, Route
    <3> QED BY <1>5, <3>1 DEF Its
  <2>2. \A l \in SidecarLocks : mutex[l] # r
        BY <1>3, <1>4, <2>1
  <2>3. mutex' = [l \in SidecarLocks |-> IF mutex[l] = r THEN NoRequest ELSE mutex[l]]
        BY <1>1, <2>2 DEF SessInv, SidecarTypeOK
  <2>4. /\ request' \in [SidecarCalls -> RequestRecords]
        /\ mutex' \in [SidecarLocks -> SidecarCalls \cup {NoRequest}]
        /\ LockHolders' /\ Routed'
        BY <1>1, <1>5, <2>1, <2>3, GoesOn
  <2>5. holds' = holds
        BY <1>1, <1>5, <2>1 DEF Run, RegisterServer, Moves, SessInv, SidecarTypeOK
  <2> QED BY <1>1, <1>s, <2>4, <2>5, QuietStep DEF SessInv, SidecarTypeOK, budgetvars
<1>6. CASE Moves(r, "leave")
  <2>1. /\ request' \in [SidecarCalls -> RequestRecords]
        /\ mutex' \in [SidecarLocks -> SidecarCalls \cup {NoRequest}]
        /\ LockHolders' /\ Routed'
        BY <1>1, <1>6, GoesOn
  <2>2. holds' \in [SidecarParts -> SUBSET (1..MaxTenants)]
    <3>1. CASE Run(r) /\ holds' = [p \in SidecarParts |->
                          IF p \in Its(r).parts THEN holds[p] \cup {request[r].of} ELSE holds[p]]
          BY <1>2, <3>1 DEF SessInv, SidecarTypeOK
    <3>2. CASE \E p \in SidecarParts : holds' = [holds EXCEPT ![p] = {}]
          BY <3>2 DEF SessInv, SidecarTypeOK
    <3>3. CASE RegisterServer(r)
          BY <1>2, <3>3 DEF RegisterServer, SessInv, SidecarTypeOK
    <3>4. CASE holds' = holds
          BY <3>4 DEF SessInv, SidecarTypeOK
    <3> QED BY <3>1, <3>2, <3>3, <3>4 DEF Run, SidecarParts
  <2> QED BY <1>1, <1>s, <2>1, <2>2, QuietStep DEF SessInv, SidecarTypeOK, budgetvars
<1> QED BY <1>5, <1>6 DEF Run, RegisterServer

\* The time is recorded, or the session is torn down.
LEMMA RecordStep ==
    ASSUME SessInv, NEW r \in SidecarCalls, RecordDuration(r) PROVE SessInv'
<1>1. /\ request[r].at = "record" /\ UNCHANGED <<execCount, ran, confvars, strays>>
      /\ request[r].of \in 1..MaxTenants
      BY OfASession DEF RecordDuration
<1>2. execTime' \in Nat
  <2>1. PICK d \in Durations : execTime' = execTime + d
        BY DEF RecordDuration
  <2> QED BY <2>1, SidecarAssumption DEF SessInv, SidecarTypeOK
<1>3. CASE Breach(r) /\ UNCHANGED holds
  <2>1. /\ request' \in [SidecarCalls -> RequestRecords]
        /\ mutex' \in [SidecarLocks -> SidecarCalls \cup {NoRequest}]
        /\ LockHolders' /\ Routed'
        BY <1>1, <1>3, Breaches
  <2>2. breached' \in BOOLEAN
        BY <1>3 DEF Breach
  <2> QED BY <1>1, <1>2, <1>3, <2>1, <2>2
          DEF SessInv, SidecarTypeOK, SlotsCounted, Installing, confvars, RequestRecords
<1>4. CASE /\ Moves(r, "done") /\ UNCHANGED <<mutex, breached>>
           /\ holds' = holds \/ holds' = [holds EXCEPT !["failure"] = {request[r].of}]
  <2>1. holds' \in [SidecarParts -> SUBSET (1..MaxTenants)]
        BY <1>1, <1>4 DEF SessInv, SidecarTypeOK
  <2> QED BY <1>1, <1>2, <1>4, <2>1, GoesOn, QuietStep DEF SessInv, SidecarTypeOK
<1> QED BY <1>3, <1>4 DEF RecordDuration

\* A teardown goes on, and gives the budget's lock up at its end.
LEMMA TeardownStep ==
    ASSUME SessInv, NEW r \in SidecarCalls, Teardown(r) PROVE SessInv'
<1>1. /\ request[r].at = "teardown" /\ UNCHANGED <<budgetvars, confvars, strays>>
      /\ request[r] \in RequestRecords /\ request[r].part \in 1..6
      /\ request[r].of # 0 /\ request[r].route \in SidecarRoutes
      BY DEF Teardown, SessInv, Routed, SidecarTypeOK, RequestRecords
<1>2. Len(TeardownOrder) = 6
      BY DEF TeardownOrder
<1>3. holds' \in [SidecarParts -> SUBSET (1..MaxTenants)]
      BY DEF Teardown, SessInv, SidecarTypeOK
<1>4. \A l \in SidecarLocks : mutex[l] = r => l = "budget"
      BY <1>1, SidecarAssumption DEF SessInv, LockHolders
<1>5. mutex \in [SidecarLocks -> SidecarCalls \cup {NoRequest}] /\ NoRequest # r
      BY SidecarAssumption DEF SessInv, SidecarTypeOK
<1>6. CASE request[r].part < 6
  <2> DEFINE new == [request[r] EXCEPT !.part = request[r].part + 1]
  <2>1. /\ new \in RequestRecords /\ new.at = "teardown" /\ new.part \in 1..6
        /\ new.route = request[r].route /\ new.of = request[r].of
        BY <1>1, <1>6 DEF RequestRecords
  <2>2. request' = [request EXCEPT ![r] = new] /\ mutex' = mutex
        BY <1>2, <1>6 DEF Teardown
  <2> HIDE DEF new
  <2>3. /\ mutex' \in [SidecarLocks -> SidecarCalls \cup {NoRequest}]
        /\ \A l \in SidecarLocks : mutex'[l] # NoRequest => mutex'[l] \in {mutex[l], r}
        /\ \A l \in SidecarLocks : mutex'[l] = r =>
                IF l = "budget" THEN new.at = "teardown"
                ELSE new.at \in {"run", "leave"} /\ new.route.lock = l
        BY <1>4, <1>5, <2>1, <2>2
  <2>4. request[r].at # "new" /\ new.at # "new" /\ new.at # "register"
        BY <1>1, <2>1
  <2>5. request[r].at # "new" /\ new.at # "new" /\ (new.at = "register" => new.route.lock = "")
        BY <2>4
  <2>6. new.at = "teardown" => new.part \in 1..6
        BY <2>1
  <2>7. /\ new \in RequestRecords /\ new.route = request[r].route /\ new.of = request[r].of
        /\ request' = [request EXCEPT ![r] = new]
        BY <2>1, <2>2
  <2>8. request' \in [SidecarCalls -> RequestRecords] /\ LockHolders' /\ Routed'
        BY <2>3, <2>5, <2>6, <2>7, RequestMoves
  <2> QED BY <1>1, <1>3, <1>5, <2>2, <2>8, QuietStep DEF SessInv, SidecarTypeOK, budgetvars
<1>7. CASE ~(request[r].part < 6)
  <2> DEFINE new == [request[r] EXCEPT !.at = "done", !.part = 0]
  <2>1. new \in RequestRecords
        BY <1>1, 0 \in 0..6, "done" \in {"new", "reserve", "check", "enter", "run", "register",
                     "leave", "record", "teardown", "done"} DEF RequestRecords
  <2>2. new.at = "done" /\ new.route = request[r].route /\ new.of = request[r].of
        BY <1>1 DEF RequestRecords
  <2>3. request' = [request EXCEPT ![r] = new] /\ mutex' = [mutex EXCEPT !["budget"] = NoRequest]
        BY <1>2, <1>7 DEF Teardown
  <2> HIDE DEF new
  <2>4. /\ mutex' \in [SidecarLocks -> SidecarCalls \cup {NoRequest}]
        /\ \A l \in SidecarLocks : mutex'[l] # NoRequest => mutex'[l] \in {mutex[l], r}
        /\ \A l \in SidecarLocks : mutex'[l] # r
        BY <1>4, <1>5, <2>3
  <2>5. request[r].at # "new" /\ new.at # "new" /\ new.at # "register" /\ new.at # "teardown"
        BY <1>1, <2>2
  <2>6. request' \in [SidecarCalls -> RequestRecords] /\ LockHolders' /\ Routed'
        BY <2>1, <2>2, <2>3, <2>4, <2>5, RequestMoves
  <2> QED BY <1>1, <1>3, <2>4, <2>6, QuietStep DEF SessInv, SidecarTypeOK, budgetvars
<1> QED BY <1>6, <1>7

\* What runs by itself only writes files and is reaped.
LEMMA ByItselfSteps ==
    ASSUME SessInv,
           \/ \E p \in KeptAlive : BackgroundWrite(p)
           \/ StrayWrite
           \/ \E p \in {"interpreter", "node", "browser", "lsp"} : ReapIdle(p)
    PROVE  SessInv'
<1>1. UNCHANGED <<mutex, request, budgetvars, confvars, strays>>
      BY DEF BackgroundWrite, StrayWrite, ReapIdle
<1>2. holds' \in [SidecarParts -> SUBSET (1..MaxTenants)]
  <2>1. CASE StrayWrite
        BY <2>1 DEF StrayWrite, SessInv, SidecarTypeOK
  <2>2. CASE ~StrayWrite
        BY <2>2 DEF BackgroundWrite, ReapIdle, KeptAlive, SidecarParts, SessInv, SidecarTypeOK
  <2> QED BY <2>1, <2>2
<1>3. LockHolders' /\ Routed'
      BY <1>1 DEF SessInv, LockHolders, Routed, Its
<1> QED BY <1>1, <1>2, <1>3, QuietStep DEF SessInv, SidecarTypeOK, RequestRecords, budgetvars

\* /configure.
LEMMA ConfigSteps ==
    ASSUME SessInv,
           \/ \E t \in 1..MaxTenants : ConfigureBegins(t)
           \/ \E p \in SidecarParts : ConfigureResets(p)
           \/ ConfigureWipes \/ ConfigurePrefetches
    PROVE  SessInv'
<1>1. UNCHANGED <<mutex, request, strays>>
      BY DEF ConfigureBegins, ConfigureResets, ConfigureWipes, ConfigurePrefetches
<1>2. LockHolders' /\ Routed'
      BY <1>1 DEF SessInv, LockHolders, Routed, Its
<1>3. /\ Len(ConfigurePlan) = 10 /\ ConfigurePlan[9] = "wipe" /\ ConfigurePlan[10] = "prefetch"
      /\ \A i \in 0..10 : i > 0 /\ ConfigurePlan[i] = "wipe" => i = 9
      /\ \A i \in 0..10 : i > 0 /\ ConfigurePlan[i] = "prefetch" => i = 10
      /\ \A i \in 0..10 : i > 0 /\ i # 9 /\ i # 10 => ConfigurePlan[i] \in SidecarParts
      BY DEF ConfigurePlan, SidecarParts
<1>m. \A i \in 0..10 : (i + 1) % (10 + 1) = IF i = 10 THEN 0 ELSE i + 1
      OBVIOUS
<1>4. /\ ConfigureNext => configuring' = IF configuring = 10 THEN 0 ELSE configuring + 1
      /\ configuring \in 0..10
      BY <1>3, <1>m DEF ConfigureNext, SessInv, SidecarTypeOK
<1>5. CASE \E t \in 1..MaxTenants : ConfigureBegins(t)
  <2>1. PICK t \in 1..MaxTenants : ConfigureBegins(t)
        BY <1>5
  <2>2. /\ configuring' = 1 /\ nextTenant' = t /\ t # 0 /\ t \in 0..MaxTenants
        /\ UNCHANGED <<tenant, holds, mutex, request, execCount, execTime, breached, ran>>
        BY <2>1, SidecarAssumption DEF ConfigureBegins, budgetvars
  <2>3. SidecarTypeOK'
        BY <1>1, <2>2 DEF SessInv, SidecarTypeOK
  <2> QED BY <1>2, <2>2, <2>3 DEF SessInv, SlotsCounted, Installing
<1>6. ASSUME NEW p \in SidecarParts, ConfigureResets(p) PROVE SessInv'
  <2>1. /\ configuring # 0 /\ configuring # 9 /\ configuring # 10 /\ ConfigureNext
        /\ UNCHANGED <<tenant, nextTenant, mutex, request, execCount, execTime, breached, ran>>
        BY <1>3, <1>4, <1>6 DEF ConfigureResets, Planned, budgetvars, SidecarParts
  <2>2. configuring' \in 0..10 /\ configuring' # 10
        BY <1>4, <2>1
  <2>3. holds' \in [SidecarParts -> SUBSET (1..MaxTenants)]
        BY <1>6 DEF ConfigureResets, SessInv, SidecarTypeOK
  <2> QED BY <1>1, <1>2, <2>1, <2>2, <2>3 DEF SessInv, SidecarTypeOK, SlotsCounted, Installing
<1>7. CASE ConfigureWipes
  <2>1. /\ configuring = 9 /\ ConfigureNext /\ tenant' = nextTenant /\ nextTenant' = nextTenant
        /\ execCount' = 0 /\ execTime' = 0 /\ breached' = FALSE /\ ran' = 0
        BY <1>3, <1>4, <1>7 DEF ConfigureWipes, Planned
  <2>2. configuring' = 10 /\ nextTenant # 0
        BY <1>4, <2>1 DEF SessInv, Installing
  <2>3. holds' \in [SidecarParts -> SUBSET (1..MaxTenants)]
        BY <1>7 DEF ConfigureWipes, SessInv, SidecarTypeOK
  <2>4. 0 \in 0..ExecCount
        BY SidecarAssumption
  <2>5. breached' \in BOOLEAN
        BY <1>7 DEF ConfigureWipes
  <2> QED BY <1>1, <1>2, <2>1, <2>2, <2>3, <2>4, <2>5 DEF SessInv, SidecarTypeOK, SlotsCounted, Installing
<1>8. CASE ConfigurePrefetches
  <2>1. /\ configuring = 10 /\ ConfigureNext
        /\ UNCHANGED <<tenant, nextTenant, mutex, request, execCount, execTime, breached, ran>>
        BY <1>3, <1>4, <1>8 DEF ConfigurePrefetches, Planned, budgetvars
  <2>2. configuring' = 0 /\ tenant # 0 /\ tenant \in 0..MaxTenants
        BY <1>4, <2>1 DEF SessInv, SidecarTypeOK, Installing
  <2>3. tenant \in 1..MaxTenants
        BY <2>2, SidecarAssumption
  <2>4. holds' \in [SidecarParts -> SUBSET (1..MaxTenants)]
        BY <1>8, <2>3 DEF ConfigurePrefetches, SessInv, SidecarTypeOK
  <2> QED BY <1>1, <1>2, <2>1, <2>2, <2>4 DEF SessInv, SidecarTypeOK, SlotsCounted, Installing
<1> QED BY <1>5, <1>6, <1>7, <1>8

\* Every step.
LEMMA SessStep == ASSUME SessInv, [SidecarNext]_sessvars PROVE SessInv'
<1>1. CASE UNCHANGED sessvars
      BY <1>1 DEF sessvars, SessInv, SidecarTypeOK, LockHolders, Routed, SlotsCounted, Installing, Its
<1>2. ASSUME NEW r \in SidecarCalls, NEW k \in RoutesOf[r], Requested(r, k) PROVE SessInv'
  <2>1. k \in SidecarRoutes
        BY SidecarAssumption
  <2> QED BY <1>2, <2>1, SentStep
<1>3. ASSUME NEW r \in SidecarCalls, ReserveSlot(r) PROVE SessInv'
      BY <1>3, ReserveStep
<1>4. ASSUME NEW r \in SidecarCalls, CheckServers(r) \/ Enter(r) \/ Unlock(r) PROVE SessInv'
      BY <1>4, RouteSteps
<1>5. ASSUME NEW r \in SidecarCalls, Run(r) \/ RegisterServer(r) PROVE SessInv'
      BY <1>5, RunSteps
<1>6. ASSUME NEW r \in SidecarCalls, RecordDuration(r) PROVE SessInv'
      BY <1>6, RecordStep
<1>7. ASSUME NEW r \in SidecarCalls, Teardown(r) PROVE SessInv'
      BY <1>7, TeardownStep
<1> QED BY <1>1, <1>2, <1>3, <1>4, <1>5, <1>6, <1>7, ByItselfSteps, ConfigSteps DEF SidecarNext

\* However requests overlap, no more of them run than the budget has slots
\* (_reserve_session_exec_slot_or_raise).
THEOREM BudgetHolds == SidecarSpec => []BudgetBounded
<1>1. SidecarInit => SessInv
      BY SessStart
<1>2. SessInv /\ [SidecarNext]_sessvars => SessInv'
      BY SessStep
<1>3. SessInv => BudgetBounded
      BY SidecarAssumption DEF SessInv, SidecarTypeOK, SlotsCounted, BudgetBounded
<1> QED BY <1>1, <1>2, <1>3, PTL DEF SidecarSpec

\* A request in flight can always go on.
LEMMA SomeoneFree == SessInv => NoStandstill
<1> SUFFICES ASSUME SessInv, InFlight # {}
             PROVE  \E r \in InFlight : Available(NeededLock(r))
    BY DEF NoStandstill
<1>1. "" \notin SidecarLocks /\ "budget" \in SidecarLocks
      BY DEF SidecarLocks
<1>2. mutex \in [SidecarLocks -> SidecarCalls \cup {NoRequest}]
      BY DEF SessInv, SidecarTypeOK
<1>3. ASSUME NEW l \in SidecarLocks \ {"budget"}, mutex[l] # NoRequest
      PROVE  \E r \in InFlight : Available(NeededLock(r))
  <2>1. mutex[l] \in SidecarCalls /\ request[mutex[l]].at \in {"run", "leave"}
        BY <1>2, <1>3 DEF SessInv, LockHolders
  <2>2. NeededLock(mutex[l]) = ""
        BY <2>1 DEF NeededLock
  <2> QED BY <1>1, <2>1, <2>2 DEF InFlight, Available
<1>4. ASSUME \A l \in SidecarLocks \ {"budget"} : mutex[l] = NoRequest, mutex["budget"] # NoRequest
      PROVE  \E r \in InFlight : Available(NeededLock(r))
  <2> DEFINE r == mutex["budget"]
  <2>1. r \in SidecarCalls /\ request[r].at = "teardown"
        BY <1>1, <1>2, <1>4 DEF SessInv, LockHolders
  <2>2. request[r].part \in 1..6
        BY <2>1 DEF SessInv, Routed
  <2>3. TeardownOrder[request[r].part] # "budget"
        BY <2>2 DEF TeardownOrder
  <2>4. NeededLock(r) = LockFor(TeardownOrder[request[r].part])
        BY <2>1 DEF NeededLock
  <2>5. Available(NeededLock(r))
        BY <1>1, <1>4, <2>3, <2>4 DEF Available, LockFor
  <2> QED BY <2>1, <2>5 DEF InFlight
<1>5. CASE \A l \in SidecarLocks : mutex[l] = NoRequest
      BY <1>5 DEF Available
<1> QED BY <1>3, <1>4, <1>5

\* While a request is in flight, one of them can go on: the locks of the routes
\* are held by requests that wait for nothing, and a teardown holds the
\* budget's while it waits for one of those.
THEOREM SomebodyGoesOn == SidecarSpec => []NoStandstill
<1>1. SidecarInit => SessInv
      BY SessStart
<1>2. SessInv /\ [SidecarNext]_sessvars => SessInv'
      BY SessStep
<1> QED BY <1>1, <1>2, SomeoneFree, PTL DEF SidecarSpec

\* The parts that a /configure resets.
ResetParts == SidecarParts \ NeverReset
\* What the parts hold is the session's, or written by a stray process; what
\* /configure has reset is empty, and nothing is in flight while it runs.
OfThisSession ==
    /\ configuring # 0 => InFlight = {}
    /\ \A r \in InFlight : request[r].of = tenant
    /\ \A p \in ResetParts : holds[p] \subseteq {tenant} \cup Strewn(p)
    /\ \A i \in 1..8 : i < configuring => holds[ConfigurePlan[i]] = {}

\* The inductive invariant of a pod whose sessions do not overlap.
FreshInv == SessInv /\ OfThisSession

\* A request's step, when it has sent nothing of another session.
LEMMA FreshRequests ==
    ASSUME FreshInv, NEW r \in SidecarCalls,
           \/ \E k \in SidecarRoutes : Requested(r, k)
           \/ ReserveSlot(r) \/ CheckServers(r) \/ Enter(r) \/ Run(r) \/ RegisterServer(r)
           \/ Unlock(r) \/ RecordDuration(r) \/ Teardown(r)
    PROVE  OfThisSession'
<1>1. UNCHANGED <<tenant, configuring>>
      BY DEF Requested, ReserveSlot, CheckServers, Enter, Run, RegisterServer, Unlock,
             RecordDuration, Teardown, confvars
<1>s. strays \subseteq strays'
      BY DEF Requested, ReserveSlot, CheckServers, Enter, Run, RegisterServer, Unlock,
             RecordDuration, Teardown
<1>2. request \in [SidecarCalls -> RequestRecords] /\ holds \in [SidecarParts -> SUBSET (1..MaxTenants)]
      BY DEF FreshInv, SessInv, SidecarTypeOK, RequestRecords
<1>3. \/ \E k \in SidecarRoutes : Requested(r, k)
      \/ r \in InFlight
      BY DEF ReserveSlot, CheckServers, Enter, Run, RegisterServer, Unlock, RecordDuration,
             Teardown, InFlight
<1>4. configuring = 0
      BY <1>3 DEF Requested, FreshInv, OfThisSession
<1>5. \A q \in SidecarCalls \ {r} : request'[q] = request[q]
      BY <1>2 DEF Requested, ReserveSlot, CheckServers, Enter, Run, RegisterServer, Unlock,
             RecordDuration, Teardown, Moves, Breach
<1>6. request'[r].of = tenant
  <2>1. CASE \E k \in SidecarRoutes : Requested(r, k)
        BY <1>2, <2>1 DEF Requested
  <2>2. CASE r \in InFlight /\ request'[r].of = request[r].of
        BY <2>2 DEF FreshInv, OfThisSession
  <2>3. ASSUME ~ \E k \in SidecarRoutes : Requested(r, k) PROVE request'[r].of = request[r].of
    <3>1. request[r] \in RequestRecords
          BY <1>2
    <3>2. CASE \E at : Moves(r, at)
          BY <1>2, <3>1, <3>2 DEF Moves, RequestRecords
    <3>3. CASE Breach(r)
          BY <1>2, <3>1, <3>3 DEF Breach, RequestRecords
    <3>4. CASE Teardown(r)
          BY <1>2, <3>1, <3>4 DEF Teardown, RequestRecords
    <3> QED BY <2>3, <3>2, <3>3, <3>4 DEF ReserveSlot, CheckServers, Enter, Run, RegisterServer,
                 Unlock, RecordDuration
  <2> QED BY <1>3, <2>1, <2>2, <2>3
<1>7. \A q \in InFlight' : request'[q].of = tenant'
      BY <1>1, <1>5, <1>6 DEF InFlight, FreshInv, OfThisSession
<1>8. \A p \in ResetParts : holds'[p] \subseteq {tenant} \cup Strewn(p)
  <2>1. CASE holds' = holds
        BY <2>1 DEF FreshInv, OfThisSession
  <2>2. CASE \E p \in SidecarParts : holds' = [holds EXCEPT ![p] = {}]
        BY <1>2, <2>2 DEF FreshInv, OfThisSession
  <2>3. CASE \E d \in NeverReset : holds' = [holds EXCEPT ![d] = {request[r].of}]
        BY <1>2, <2>3 DEF FreshInv, OfThisSession, ResetParts
  <2>4. CASE Run(r) /\ holds' = [p \in SidecarParts |->
                          IF p \in Its(r).parts THEN holds[p] \cup {request[r].of} ELSE holds[p]]
    <3>1. request[r].of = tenant
          BY <2>4 DEF Run, InFlight, FreshInv, OfThisSession
    <3> QED BY <2>4, <3>1 DEF FreshInv, OfThisSession, ResetParts
  <2>5. CASE RegisterServer(r)
    <3>1. request[r].of = tenant
          BY <2>5 DEF RegisterServer, InFlight, FreshInv, OfThisSession
    <3> QED BY <1>2, <2>5, <3>1 DEF RegisterServer, FreshInv, OfThisSession, ResetParts
  <2>6. CASE Teardown(r)
        BY <1>2, <2>6 DEF Teardown, FreshInv, OfThisSession, ResetParts
  <2>7. CASE Run(r)
        BY <2>1, <2>2, <2>4, <2>7 DEF Run, SidecarParts
  <2>8. CASE RecordDuration(r)
        BY <2>1, <2>3, <2>8 DEF RecordDuration, NeverReset
  <2> QED BY <2>1, <2>5, <2>6, <2>7, <2>8
          DEF Requested, ReserveSlot, CheckServers, Enter, Unlock
<1>9. \A p \in ResetParts : holds'[p] \subseteq {tenant'} \cup Strewn(p)'
      BY <1>1, <1>s, <1>8 DEF Strewn
<1> QED BY <1>1, <1>4, <1>7, <1>9 DEF OfThisSession

\* What runs by itself writes what its session holds.
LEMMA FreshByItself ==
    ASSUME FreshInv,
           \/ \E p \in KeptAlive : BackgroundWrite(p)
           \/ StrayWrite
           \/ \E p \in {"interpreter", "node", "browser", "lsp"} : ReapIdle(p)
    PROVE  OfThisSession'
<1>1. UNCHANGED <<tenant, configuring, request, strays>> /\ InFlight' = InFlight
      BY DEF BackgroundWrite, StrayWrite, ReapIdle, confvars, InFlight
<1>2. holds \in [SidecarParts -> SUBSET (1..MaxTenants)]
      BY DEF FreshInv, SessInv, SidecarTypeOK
<1>3. \A i \in 1..8 : ConfigurePlan[i] \notin {"files", "tmp"} /\ ConfigurePlan[i] \in SidecarParts
      BY DEF ConfigurePlan, SidecarParts
<1>4. CASE \E p \in KeptAlive : BackgroundWrite(p)
  <2>1. PICK p \in KeptAlive : BackgroundWrite(p)
        BY <1>4
  <2>2. holds[p] \subseteq {tenant}
        BY DEF KeptAlive, ResetParts, NeverReset, SidecarParts, Strewn, FreshInv, OfThisSession
  <2>3. \A q \in SidecarParts : holds'[q] = holds[q] \/ (q \in {"files", "tmp"} /\ holds'[q] = holds[q] \cup holds[p])
        BY <1>2, <2>1 DEF BackgroundWrite
  <2> QED BY <1>1, <1>3, <2>2, <2>3 DEF FreshInv, OfThisSession, ResetParts, Strewn
<1>5. CASE \E p \in {"interpreter", "node", "browser", "lsp"} : ReapIdle(p)
  <2>1. PICK p \in {"interpreter", "node", "browser", "lsp"} : ReapIdle(p)
        BY <1>5
  <2>2. \A q \in SidecarParts : holds'[q] = holds[q] \/ holds'[q] = {}
        BY <1>2, <2>1 DEF ReapIdle
  <2> QED BY <1>1, <1>3, <2>2 DEF FreshInv, OfThisSession, ResetParts, Strewn
<1>6. CASE StrayWrite
  <2>1. \A q \in SidecarParts : holds'[q] = holds[q] \/ (q \in {"files", "tmp"} /\ holds'[q] = holds[q] \cup strays)
        BY <1>2, <1>6 DEF StrayWrite
  <2> QED BY <1>1, <1>3, <2>1 DEF FreshInv, OfThisSession, ResetParts, Strewn
<1> QED BY <1>4, <1>5, <1>6

\* /configure starts when nothing is in flight, and by the wipe it has killed
\* everything that writes files and is tracked.
LEMMA FreshConfigure ==
    ASSUME ~Overlaps, FreshInv,
           \/ \E t \in 1..MaxTenants : ConfigureBegins(t)
           \/ \E p \in SidecarParts : ConfigureResets(p)
           \/ ConfigureWipes \/ ConfigurePrefetches
    PROVE  OfThisSession'
<1>1. request' = request /\ InFlight' = InFlight /\ strays' = strays
      BY DEF ConfigureBegins, ConfigureResets, ConfigureWipes, ConfigurePrefetches, InFlight
<1>2. /\ holds \in [SidecarParts -> SUBSET (1..MaxTenants)]
      /\ configuring \in 0..10 /\ MaxTenants \in Nat
      BY SidecarAssumption DEF FreshInv, SessInv, SidecarTypeOK
<1>3. /\ Len(ConfigurePlan) = 10
      /\ \A i \in 1..10 : ConfigurePlan[i] = "wipe" <=> i = 9
      /\ \A i \in 1..10 : ConfigurePlan[i] = "prefetch" <=> i = 10
      /\ \A i \in 1..8 : ConfigurePlan[i] \in SidecarParts \ {"files", "tmp"}
      BY DEF ConfigurePlan, SidecarParts
<1>m. \A i \in 0..10 : (i + 1) % (10 + 1) = IF i = 10 THEN 0 ELSE i + 1
      OBVIOUS
<1>4. ConfigureNext => configuring' = IF configuring = 10 THEN 0 ELSE configuring + 1
      BY <1>2, <1>3, <1>m DEF ConfigureNext
<1>5. CASE \E t \in 1..MaxTenants : ConfigureBegins(t)
  <2>1. InFlight = {} /\ configuring' = 1 /\ UNCHANGED <<tenant, holds>>
        BY <1>5 DEF ConfigureBegins
  <2> QED BY <1>1, <2>1 DEF FreshInv, OfThisSession, Strewn
<1>6. ASSUME NEW p \in SidecarParts, ConfigureResets(p) PROVE OfThisSession'
  <2>1. /\ configuring \in 1..8 /\ ConfigurePlan[configuring] = p /\ tenant' = tenant
        /\ holds' = [holds EXCEPT ![p] = {}] /\ configuring' = configuring + 1
    <3>1. configuring \in 1..10 /\ ConfigurePlan[configuring] = p /\ p # "wipe" /\ p # "prefetch"
          BY <1>2, <1>6 DEF ConfigureResets, Planned, SidecarParts
    <3>2. configuring \in 1..8
          BY <1>3, <3>1
    <3> QED BY <1>4, <1>6, <3>1, <3>2 DEF ConfigureResets
  <2>2. \A q \in SidecarParts : holds'[q] = IF q = p THEN {} ELSE holds[q]
        BY <1>2, <2>1
  <2>3. \A i \in 1..8 : i < configuring' => holds'[ConfigurePlan[i]] = {}
    <3> SUFFICES ASSUME NEW i \in 1..8, i < configuring' PROVE holds'[ConfigurePlan[i]] = {}
        OBVIOUS
    <3>1. CASE i = configuring
          BY <2>1, <2>2, <3>1
    <3>2. CASE i < configuring
          BY <1>3, <2>2, <3>2 DEF FreshInv, OfThisSession
    <3> QED BY <2>1, <3>1, <3>2
  <2> QED BY <1>1, <2>1, <2>2, <2>3 DEF FreshInv, OfThisSession, ResetParts, Strewn
<1>7. CASE ConfigureWipes
  <2>1. /\ configuring = 9 /\ tenant' = nextTenant /\ configuring' = 10
    <3>1. configuring \in 1..10 /\ ConfigurePlan[configuring] = "wipe"
          BY <1>2, <1>7 DEF ConfigureWipes, Planned
    <3> QED BY <1>3, <1>4, <1>7, <3>1 DEF ConfigureWipes
  <2>2. \A i \in 1..8 : holds[ConfigurePlan[i]] = {}
        BY <2>1 DEF FreshInv, OfThisSession
  <2>3. \A p \in {"processes", "tmux", "interpreter", "node", "browser", "desktop", "lsp", "scratch"} :
            holds[p] = {}
        BY <2>2 DEF ConfigurePlan
  <2>4. \A p \in SidecarParts : holds'[p] =
              IF p \in {"files", "tmp", "pending", "index", "secrets"}
                 \/ (p = "skills" /\ tenant > 0 /\ nextTenant # tenant)
              THEN {} ELSE holds[p]
        BY <1>7 DEF ConfigureWipes
  <2>5. holds'["skills"] \subseteq {nextTenant}
    <3>1. "skills" \in ResetParts /\ "skills" \in SidecarParts
          BY DEF ResetParts, SidecarParts, NeverReset
    <3>2. holds["skills"] \subseteq {tenant} /\ holds["skills"] \subseteq 1..MaxTenants
          BY <1>2, <3>1 DEF FreshInv, OfThisSession, Strewn
    <3>3. tenant \in 0..MaxTenants
          BY DEF FreshInv, SessInv, SidecarTypeOK
    <3> QED BY <1>2, <2>4, <3>1, <3>2, <3>3
  <2>6. \A p \in ResetParts : holds'[p] \subseteq {nextTenant}
        BY <2>3, <2>4, <2>5 DEF ResetParts, SidecarParts, NeverReset
  <2>7. \A i \in 1..8 : holds'[ConfigurePlan[i]] = {}
        BY <1>3, <2>2, <2>4
  <2>8. InFlight = {}
        BY <2>1 DEF FreshInv, OfThisSession
  <2>9. \A p \in ResetParts : holds'[p] \subseteq {tenant'} \cup Strewn(p)'
        BY <2>1, <2>6
  <2> QED BY <1>1, <2>1, <2>7, <2>8, <2>9 DEF OfThisSession
<1>8. CASE ConfigurePrefetches
  <2>1. /\ configuring = 10 /\ tenant' = tenant /\ configuring' = 0
        /\ holds' = [holds EXCEPT !["files"] = @ \cup {tenant}]
    <3>1. configuring \in 1..10 /\ ConfigurePlan[configuring] = "prefetch"
          BY <1>2, <1>8 DEF ConfigurePrefetches, Planned
    <3> QED BY <1>3, <1>4, <1>8, <3>1 DEF ConfigurePrefetches
  <2>2. \A q \in SidecarParts : holds'[q] \subseteq holds[q] \cup {tenant}
        BY <1>2, <2>1
  <2> QED BY <1>1, <2>1, <2>2 DEF FreshInv, OfThisSession, ResetParts, Strewn
<1> QED BY <1>5, <1>6, <1>7, <1>8

\* Where a session is configured once the requests of the last one have ended,
\* its parts hold what is its own and no request reads what another left,
\* whatever of the last session was running and tracked (sidecar_sync.configure
\* kills that before the wipe); its files may also hold what the processes
\* write that earlier sessions left and nobody tracks.
THEOREM NewSessionFresh ==
    ASSUME ~Overlaps
    PROVE  SidecarSpec => []FreshSession
<1>1. SidecarInit => FreshInv
  <2>1. SidecarInit => OfThisSession
        BY DEF SidecarInit, OfThisSession, InFlight, ResetParts
  <2> QED BY <2>1, SessStart DEF FreshInv
<1>2. FreshInv /\ [SidecarNext]_sessvars => FreshInv'
  <2> SUFFICES ASSUME FreshInv, [SidecarNext]_sessvars PROVE FreshInv'
      OBVIOUS
  <2>1. SessInv'
        BY SessStep DEF FreshInv
  <2>2. CASE UNCHANGED sessvars
    <3>1. /\ InFlight' = InFlight
          /\ UNCHANGED <<tenant, holds, request, configuring, strays>>
          BY <2>2 DEF sessvars, InFlight
    <3> QED BY <2>1, <3>1 DEF FreshInv, OfThisSession, Strewn
  <2>3. ASSUME NEW r \in SidecarCalls,
               \/ \E k \in RoutesOf[r] : Requested(r, k)
               \/ ReserveSlot(r) \/ CheckServers(r) \/ Enter(r) \/ Run(r) \/ RegisterServer(r)
               \/ Unlock(r) \/ RecordDuration(r) \/ Teardown(r)
        PROVE  OfThisSession'
    <3>1. RoutesOf[r] \subseteq SidecarRoutes
          BY SidecarAssumption
    <3> QED BY <2>3, <3>1, FreshRequests
  <2>4. CASE SidecarNext
    <3> SUFFICES OfThisSession'
        BY <2>1 DEF FreshInv
    <3>1. CASE \/ \E p \in KeptAlive : BackgroundWrite(p)
               \/ StrayWrite
               \/ \E p \in {"interpreter", "node", "browser", "lsp"} : ReapIdle(p)
          BY <3>1, FreshByItself
    <3>2. CASE \/ \E t \in 1..MaxTenants : ConfigureBegins(t)
               \/ \E p \in SidecarParts : ConfigureResets(p)
               \/ ConfigureWipes \/ ConfigurePrefetches
          BY <3>2, FreshConfigure
    <3> QED BY <2>3, <2>4, <3>1, <3>2 DEF SidecarNext
  <2> QED BY <2>1, <2>2, <2>4 DEF FreshInv
<1>3. FreshInv => FreshSession
  <2> SUFFICES ASSUME FreshInv PROVE FreshSession
      OBVIOUS
  <2>1. \A r \in InFlight : Its(r) \in SidecarRoutes /\ request[r].of = tenant
        BY DEF FreshInv, OfThisSession, SessInv, Routed, InFlight, Its
  <2>2. \A r \in InFlight : Its(r).reads \subseteq SidecarParts
        BY <2>1, RoutesSound DEF Sound
  <2> QED BY <2>1, <2>2 DEF FreshSession, FreshInv, OfThisSession, ResetParts
<1> QED BY <1>1, <1>2, <1>3, PTL DEF SidecarSpec

-----------------------------------------------------------------------------
(* The processes.                                                          *)

\* Only the process being started has no status yet; it is not tracked, and
\* the port it will have is free until it has it (process_start, whose lock is
\* held meanwhile).
StartAlone ==
    /\ starting # NoProc => up /\ status[starting] = "none"
    /\ starting # NoProc /\ portOf[starting] # NoPort => exposedPorts[portOf[starting]] = NoProc
    /\ \A h \in tracked : status[h] # "none"
    /\ ~up => sidecars < MaxSidecars

\* Who gives a port back no longer runs.
ReleasersStopped ==
    /\ \A h \in Procs : reader[h] = "ended" => status[h] \notin {"none", "running"}
    /\ \A h \in Procs : reader[h] = "reading" => status[h] # "none"
    /\ \A h \in Procs : watchdog[h] => status[h] # "none"
    /\ \A r \in StopCalls : stops[r].at # "idle" =>
            stops[r].of \in Procs /\ status[stops[r].of] \notin {"none", "running"}

\* The buffer is the end of what was printed, and an answer ends where the
\* output then ended.
BufferIsEnd == \A h \in Procs :
    /\ bufferStart[h] + buffer[h] = printed[h]
    /\ poll[h].next <= printed[h]

\* The inductive invariant.
ProcessInv ==
    /\ ProcessTypeOK /\ StartAlone /\ ReleasersStopped /\ BufferIsEnd
    /\ PortKept /\ NoOrphan /\ OutputFollowed

\* The first state: nothing was started.
LEMMA ProcessesStart == ProcessInit => ProcessInv
BY ProcessAssumption DEF ProcessInit, ProcessInv, ProcessTypeOK, StartAlone, ReleasersStopped,
   BufferIsEnd, PortKept, NoOrphan, OutputFollowed, ActiveProcs, NoStop, NewPoll, NoProc, NoPort

\* What the tasks of the sidecar do with the output of a process.
LEMMA OutputStep ==
    ASSUME ProcessInv, [ProcessNext]_procvars
    PROVE  /\ BufferIsEnd' /\ OutputFollowed'
           /\ printed' \in [Procs -> Nat] /\ buffer' \in [Procs -> 0..OutputMax]
           /\ bufferStart' \in [Procs -> Nat]
           /\ poll' \in [Procs -> [next : Nat, got : Nat, truncated : BOOLEAN]]
<1> DEFINE Goal == /\ BufferIsEnd' /\ OutputFollowed'
           /\ printed' \in [Procs -> Nat] /\ buffer' \in [Procs -> 0..OutputMax]
           /\ bufferStart' \in [Procs -> Nat]
           /\ poll' \in [Procs -> [next : Nat, got : Nat, truncated : BOOLEAN]]
<1> USE ProcessAssumption DEF ProcessInv, ProcessTypeOK, BufferIsEnd, OutputFollowed
<1>1. ASSUME UNCHANGED outputvars PROVE Goal
      BY <1>1 DEF outputvars
<1>2. ASSUME NEW h \in Procs, Prints(h) PROVE Goal
  <2>1. UNCHANGED poll /\ printed' = [printed EXCEPT ![h] = @ + 1]
        BY <1>2 DEF Prints, AppendOutput
  <2>2. CASE buffer[h] + 1 > OutputMax
    <3>1. bufferStart' = [bufferStart EXCEPT ![h] = @ + 1] /\ UNCHANGED buffer
          BY <1>2, <2>2 DEF Prints, AppendOutput
    <3> QED BY <2>1, <3>1
  <2>3. CASE ~(buffer[h] + 1 > OutputMax)
    <3>1. buffer' = [buffer EXCEPT ![h] = @ + 1] /\ UNCHANGED bufferStart
          BY <1>2, <2>3 DEF Prints, AppendOutput
    <3> QED BY <2>1, <2>3, <3>1
  <2> QED BY <2>2, <2>3
<1>3. ASSUME NEW h \in Procs, Polls(h) PROVE Goal
  <2> DEFINE gone == poll[h].next < bufferStart[h]
             skipped == IF gone THEN 0 ELSE poll[h].next - bufferStart[h]
             chunk == IF skipped < buffer[h] THEN buffer[h] - skipped ELSE 0
             new == [next |-> printed[h], got |-> poll[h].got + chunk, truncated |-> poll[h].truncated \/ gone]
  <2>1. poll' = [poll EXCEPT ![h] = new] /\ UNCHANGED <<printed, buffer, bufferStart>>
        BY <1>3 DEF Polls
  <2>2. /\ poll[h].next \in Nat /\ poll[h].got \in Nat /\ poll[h].truncated \in BOOLEAN
        /\ printed[h] \in Nat /\ bufferStart[h] \in Nat /\ buffer[h] \in Nat
        /\ poll[h].got <= poll[h].next /\ poll[h].next <= printed[h]
        /\ bufferStart[h] + buffer[h] = printed[h] /\ (poll[h].truncated <=> poll[h].got < poll[h].next)
        OBVIOUS
  <2>3. chunk \in Nat /\ new.got <= printed[h] /\ (new.truncated <=> new.got < printed[h])
    <3>1. CASE gone
      <4>1. chunk \in Nat /\ poll[h].got + chunk < printed[h]
            BY <2>2, <3>1
      <4>2. new.truncated = TRUE /\ new.got = poll[h].got + chunk
            BY <3>1
      <4> HIDE DEF new, chunk
      <4> QED BY <4>1, <4>2
    <3>2. CASE ~gone
          BY <2>2, <3>2
    <3> QED BY <3>1, <3>2
  <2>4. new \in [next : Nat, got : Nat, truncated : BOOLEAN] /\ new.next = printed[h]
        BY <2>2, <2>3
  <2> HIDE DEF new
  <2> QED BY <2>1, <2>3, <2>4
<1>4. UNCHANGED outputvars \/ (\E h \in Procs : Prints(h)) \/ (\E h \in Procs : Polls(h))
      BY DEF ProcessNext, procvars, ProcessStarts, Spawned, SpawnFails, Exits, ReaderEnds, ReaderReleases,
             WatchdogFires, StopBegins, StopKills, StopSeesExit, StopJoins, StopReleases, KillAll,
             KillTracked, Shutdown, Crash, Startup, outputvars
<1> HIDE DEF Goal
<1> QED BY <1>1, <1>2, <1>3, <1>4 DEF Goal

\* What the registry, the ports and the tasks say of each other.
Registry ==
    /\ sidecars \in 1..MaxSidecars /\ up \in BOOLEAN
    /\ starting \in Procs \cup {NoProc}
    /\ alive \subseteq Procs /\ doomed \subseteq alive /\ remains \subseteq Forking
    /\ tracked \subseteq Procs
    /\ exposedPorts \in [Ports -> Procs \cup {NoProc}]
    /\ status \in [Procs -> {"none", "running", "exited", "stopped", "killed"}]
    /\ portOf \in [Procs -> Ports \cup {NoPort}]
    /\ reader \in [Procs -> {"off", "reading", "ended"}]
    /\ watchdog \in [Procs -> BOOLEAN]
    /\ stops \in [StopCalls -> [at : {"idle", "term", "kill", "join", "release"},
                                of : Procs \cup {NoProc}]]
    /\ StartAlone /\ ReleasersStopped /\ PortKept /\ NoOrphan

\* Every step of a start, a reader, a watchdog, a stop and the sidecar keeps it.
LEMMA RegistryStep ==
    ASSUME Registry, [ProcessNext]_procvars PROVE Registry'
<1> USE ProcessAssumption DEF Registry, StartAlone, ReleasersStopped, PortKept, NoOrphan,
        ActiveProcs, LockFree, sidecarvars, osvars, handlevars
<1>1. ASSUME NEW h \in Procs, NEW p \in Ports \cup {NoPort}, ProcessStarts(h, p) PROVE Registry'
  <2>1. h \in UnusedProcs
        BY <1>1 DEF ProcessStarts
  <2> QED BY <1>1, <2>1 DEF ProcessStarts, UnusedProcs
<1>2. ASSUME NEW h \in Procs, Spawned(h) PROVE Registry'
      BY <1>2 DEF Spawned
<1>3. ASSUME NEW h \in Procs, SpawnFails(h) PROVE Registry'
      BY <1>3 DEF SpawnFails
<1>4. ASSUME NEW h \in Procs, Exits(h) PROVE Registry'
      BY <1>4 DEF Exits
<1>5. ASSUME NEW h \in Procs, Prints(h) \/ Polls(h) PROVE Registry'
      BY <1>5 DEF Prints, Polls
<1>6. ASSUME NEW h \in Procs, ReaderEnds(h) PROVE Registry'
      BY <1>6 DEF ReaderEnds
<1>7. ASSUME NEW h \in Procs, ReaderReleases(h) PROVE Registry'
      BY <1>7 DEF ReaderReleases, ReleasePort
<1>8. ASSUME NEW h \in Procs, WatchdogFires(h) PROVE Registry'
      BY <1>8 DEF WatchdogFires
<1>9. ASSUME NEW h \in Procs, NEW r \in StopCalls, StopBegins(r, h) PROVE Registry'
      BY <1>9 DEF StopBegins
<1>10. ASSUME NEW r \in StopCalls, StopKills(r) \/ StopSeesExit(r) PROVE Registry'
  <2>1. PICK to \in {"kill", "join"} : stops' = [stops EXCEPT ![r].at = to]
        BY <1>10 DEF StopKills, StopSeesExit
  <2>2. /\ stops' \in [StopCalls -> [at : {"idle", "term", "kill", "join", "release"},
                                     of : Procs \cup {NoProc}]]
        /\ stops[r].at # "idle"
        /\ \A q \in StopCalls : stops'[q].of = stops[q].of /\ (q # r => stops'[q] = stops[q])
        BY <1>10, <2>1 DEF StopKills, StopSeesExit
  <2>3. /\ UNCHANGED <<sidecars, up, starting, alive, remains, tracked, exposedPorts, status, portOf,
                       reader, watchdog>>
        /\ doomed \subseteq doomed' /\ doomed' \subseteq alive
        BY <1>10 DEF StopKills, StopSeesExit
  <2> QED BY <2>2, <2>3
<1>11. ASSUME NEW r \in StopCalls, StopJoins(r) PROVE Registry'
      BY <1>11 DEF StopJoins
<1>12. ASSUME NEW r \in StopCalls, StopReleases(r) PROVE Registry'
      BY <1>12 DEF StopReleases, ReleasePort, NoStop
<1>13. CASE KillAll
      BY <1>13 DEF KillAll, KillTracked
<1>17. CASE Shutdown
      BY <1>17 DEF Shutdown, KillTracked, NoStop
<1>14. CASE Crash
      BY <1>14 DEF Crash, NoStop
<1>15. CASE Startup
      BY <1>15 DEF Startup, Sweep
<1>16. CASE UNCHANGED procvars
      BY <1>16 DEF procvars
<1> QED BY <1>1, <1>2, <1>3, <1>4, <1>5, <1>6, <1>7, <1>8, <1>9, <1>10, <1>11, <1>12, <1>13,
           <1>14, <1>15, <1>16, <1>17 DEF ProcessNext

\* Every reachable state satisfies it.
LEMMA ProcessInvariant == ProcessSpec => []ProcessInv
<1>1. ProcessInv /\ [ProcessNext]_procvars => ProcessInv'
  <2> SUFFICES ASSUME ProcessInv, [ProcessNext]_procvars PROVE ProcessInv'
      OBVIOUS
  <2>1. Registry
        BY DEF ProcessInv, ProcessTypeOK, Registry
  <2>2. Registry'
        BY <2>1, RegistryStep
  <2> QED BY <2>2, OutputStep DEF ProcessInv, ProcessTypeOK, Registry
<1> QED BY ProcessesStart, <1>1, PTL DEF ProcessSpec

\* Whichever of its reader, a stop, a kill-all or a shutdown gives a port back,
\* and however late, a running process keeps the port it asked for, and no port
\* leads to one that is not tracked (_release_exposed_port).
THEOREM PortsKept == ProcessSpec => []PortKept
BY ProcessInvariant, PTL DEF ProcessInv

\* While a sidecar is up every process that was spawned is tracked or dying, over
\* crashes and restarts of the sidecar (_sweep_orphaned_background_processes);
\* what a dead one had forked is not spoken of.
THEOREM NoneOrphaned == ProcessSpec => []NoOrphan
BY ProcessInvariant, PTL DEF ProcessInv

\* A client that polls has had every byte once, or was told that some were
\* dropped, however fast the buffer turns (append_output, read_since).
THEOREM OutputIsFollowed == ProcessSpec => []OutputFollowed
BY ProcessInvariant, PTL DEF ProcessInv

-----------------------------------------------------------------------------
(* The sync of files.                                                      *)

\* The versions written so far.
Known == DOMAIN writes

\* The versions are numbered as they were written, and every version that is
\* anywhere is one of them; the disk has those of the session it serves.
Versioned ==
    /\ \E n \in 0..MaxWrites : Known = 1..n
    /\ \A p \in Paths : disk[p] # NoFile => disk[p] \in Known /\ writes[disk[p]] = serving
    /\ \A p \in Paths : synced[p] # NoFile => synced[p] \in Known
    /\ \A s \in SyncSessions, p \in Paths :
            objects[s][p] # NoFile => objects[s][p] \in Known /\ writes[objects[s][p]] = s
    /\ \A p \in fetching : disk[p] = NoFile /\ objects[serving][p] # NoFile
    /\ handover # "fetch" => fetching = {}

\* The flush is at a file.
AtFile(f) == flush[f].at \in {"stable", "upload", "stored", "again"}

\* The file a flush is at: what the disk has of it is not what is remembered as
\* synced, and only gets newer than what the flush saw.
Candidate(f) ==
    /\ flush[f].file \in Paths \ fetching /\ flush[f].sig \in Known
    /\ disk[flush[f].file] # NoFile =>
            /\ synced[flush[f].file] # disk[flush[f].file]
            /\ flush[f].sig <= disk[flush[f].file]

\* What it read is not older than the signature nor newer than the disk.
HasRead(f) ==
    /\ flush[f].read \in Known /\ writes[flush[f].read] = serving
    /\ flush[f].sig <= flush[f].read
    /\ disk[flush[f].file] # NoFile => flush[f].read <= disk[flush[f].file]
    /\ flush[f].at = "again" => objects[serving][flush[f].file] = flush[f].read

\* One flush at a time, of the session served.
Flushing == \A f \in Flushers :
    /\ flush[f].at # "idle" <=> flushLock = f
    /\ flush[f].at # "idle" => flush[f].of = serving
    /\ AtFile(f) => Candidate(f)
    /\ flush[f].at \in {"stored", "again"} => HasRead(f)

\* The inductive invariant.
SyncInv == SyncTypeOK /\ Versioned /\ Flushing /\ SyncedIsStored

\* The first state: nothing was written.
LEMMA SyncStart == SyncInit => SyncInv
<1> SUFFICES ASSUME SyncInit PROVE SyncInv
    OBVIOUS
<1>1. serving \in SyncSessions
      BY SyncAssumption DEF SyncInit
<1>2. Known = {} /\ {} = 1..0 /\ writes \in [1..0 -> SyncSessions]
      BY DEF SyncInit, Known
<1>3. 0 \in 0..MaxWrites /\ 0 \in 0..MaxConfigures
      BY SyncAssumption
<1>4. SyncTypeOK
  <2>1. IdleFlush \in [at : {"idle", "scan", "take", "stable", "upload", "stored", "again"},
             todo : SUBSET Paths, file : Paths \cup {NoFlusher},
             sig : Versions \cup {NoFile}, read : Versions \cup {NoFile},
             of : SyncSessions \cup {NoFlusher}]
        BY DEF IdleFlush
  <2> QED BY <1>1, <1>2, <1>3, <2>1 DEF SyncInit, SyncTypeOK
<1>5. Versioned
      BY <1>1, <1>2, <1>3 DEF SyncInit, Versioned
<1>6. Flushing /\ SyncedIsStored
      BY <1>1, SyncAssumption DEF SyncInit, Flushing, SyncedIsStored, IdleFlush, AtFile
<1> QED BY <1>4, <1>5, <1>6 DEF SyncInv

\* A new version is newer than every one there is.
LEMMA NewVersion ==
    ASSUME SyncInv, NEW p \in Paths, NEW t \in BOOLEAN, Write(p, t)
    PROVE  \E v \in Versions :
             /\ disk' = [disk EXCEPT ![p] = v] /\ v \notin Known /\ \A k \in Known : k < v
             /\ Known' = Known \cup {v} /\ \E n \in 0..MaxWrites : Known' = 1..n /\ writes' \in [1..n -> SyncSessions]
             /\ writes'[v] = serving /\ \A k \in Known : writes'[k] = writes[k]
<1>1. PICK n \in 0..MaxWrites : Known = 1..n
      BY DEF SyncInv, Versioned
<1>2. Cardinality(DOMAIN writes) = n /\ MaxWrites \in Nat
      BY <1>1, FS_Interval, SyncAssumption DEF Known
<1>3. n < MaxWrites /\ disk' = [disk EXCEPT ![p] = n + 1]
      /\ writes' = [w \in 1..(n + 1) |-> IF w = n + 1 THEN serving ELSE writes[w]]
      BY <1>2 DEF Write
<1>4. serving \in SyncSessions /\ \A k \in Known : writes[k] \in SyncSessions
      BY DEF SyncInv, SyncTypeOK, Known
<1>5. Known' = 1..(n + 1) /\ writes' \in [1..(n + 1) -> SyncSessions]
      BY <1>1, <1>2, <1>3, <1>4 DEF Known
<1>6. n + 1 \in Versions /\ n + 1 \in 0..MaxWrites /\ n + 1 \notin Known /\ \A k \in Known : k < n + 1
      BY <1>1, <1>2, <1>3 DEF Versions
<1>7. 1..(n + 1) = 1..n \cup {n + 1}
      BY <1>2
<1>8. writes'[n + 1] = serving /\ \A k \in Known : writes'[k] = writes[k]
      BY <1>1, <1>2, <1>3
<1> QED BY <1>1, <1>3, <1>5, <1>6, <1>7, <1>8

\* A write moves the disk to a version no flush has seen.
LEMMA WriteStep ==
    ASSUME SyncInv, NEW p \in Paths, NEW t \in BOOLEAN, Write(p, t)
    PROVE  SyncInv'
<1>1. PICK v \in Versions :
             /\ disk' = [disk EXCEPT ![p] = v] /\ v \notin Known /\ \A k \in Known : k < v
             /\ Known' = Known \cup {v} /\ \E n \in 0..MaxWrites : Known' = 1..n /\ writes' \in [1..n -> SyncSessions]
             /\ writes'[v] = serving /\ \A k \in Known : writes'[k] = writes[k]
      BY NewVersion
<1>2. /\ UNCHANGED <<synced, objects, flushvars, handvars>> /\ pending' \subseteq Paths /\ handover = "no"
      BY DEF Write, SyncInv, SyncTypeOK
<1>3. SyncTypeOK'
      BY <1>1, <1>2 DEF SyncInv, SyncTypeOK, flushvars, handvars
<1>4. Versioned'
      BY <1>1, <1>2 DEF SyncInv, SyncTypeOK, Versioned, flushvars, handvars
<1>n. NoFile \notin Known /\ v # NoFile /\ \A k \in Known : k \in Nat
      BY DEF SyncInv, Versioned, Versions, NoFile
<1>5. Flushing'
  <2> SUFFICES ASSUME NEW f \in Flushers
               PROVE  /\ (flush[f].at # "idle" <=> flushLock = f)'
                      /\ (flush[f].at # "idle" => flush[f].of = serving)'
                      /\ (AtFile(f) => Candidate(f))'
                      /\ (flush[f].at \in {"stored", "again"} => HasRead(f))'
      BY DEF Flushing
  <2> USE DEF SyncInv, SyncTypeOK, Flushing, Versioned, flushvars, handvars, AtFile
  <2>1. (AtFile(f) => Candidate(f))'
        BY <1>1, <1>2, <1>n DEF Candidate, Versions
  <2>2. (flush[f].at \in {"stored", "again"} => HasRead(f))'
        BY <1>1, <1>2, <1>n DEF HasRead, Candidate, Versions
  <2> QED BY <1>2, <2>1, <2>2
<1>6. SyncedIsStored'
      BY <1>1, <1>2, <1>n DEF SyncInv, SyncTypeOK, Versioned, SyncedIsStored, flushvars, handvars
<1> QED BY <1>3, <1>4, <1>5, <1>6 DEF SyncInv

\* A file that is removed was at no version.
LEMMA RemoveStep ==
    ASSUME SyncInv, NEW p \in Paths, Remove(p) PROVE SyncInv'
BY DEF Remove, SyncInv, SyncTypeOK, Versioned, Flushing, SyncedIsStored, AtFile, Candidate, HasRead,
       Known, statevars, flushvars, handvars

\* A file that /configure fetches is as its object is.
LEMMA PrefetchStep ==
    ASSUME SyncInv, NEW p \in Paths, Prefetch(p) PROVE SyncInv'
<1> DEFINE v == objects[serving][p]
<1>1. /\ UNCHANGED <<serving, pending, objects, flushLock, flush, scanned, handover, configures, writes>>
      /\ Known' = Known /\ p \in fetching /\ handover = "fetch" /\ fetching' = fetching \ {p}
      BY DEF Prefetch, Known, flushvars
<1>2. \/ disk' = [disk EXCEPT ![p] = v] /\ synced' = [synced EXCEPT ![p] = v]
      \/ disk' = disk /\ synced' = synced
      BY DEF Prefetch
<1>3. /\ disk \in [Paths -> Versions \cup {NoFile}] /\ synced \in [Paths -> Versions \cup {NoFile}]
      /\ v \in Versions \cup {NoFile} /\ v \in Known /\ writes[v] = serving
      BY <1>1 DEF SyncInv, SyncTypeOK, Versioned
<1> HIDE DEF v
<1>4. /\ disk' \in [Paths -> Versions \cup {NoFile}] /\ synced' \in [Paths -> Versions \cup {NoFile}]
      /\ \A q \in Paths \ {p} : disk'[q] = disk[q] /\ synced'[q] = synced[q]
      /\ \/ disk'[p] = v /\ synced'[p] = v
         \/ disk'[p] = disk[p] /\ synced'[p] = synced[p]
      BY <1>2, <1>3
<1>5. SyncTypeOK'
      BY <1>1, <1>4 DEF SyncInv, SyncTypeOK
<1>6. Versioned'
  <2>1. Versioned
        BY DEF SyncInv
  <2>2. \A q \in Paths : disk'[q] # NoFile => disk'[q] \in Known /\ writes[disk'[q]] = serving
        BY <1>3, <1>4, <2>1 DEF Versioned
  <2>3. \A q \in Paths : synced'[q] # NoFile => synced'[q] \in Known
        BY <1>3, <1>4, <2>1 DEF Versioned
  <2>4. \A q \in fetching' : q \in Paths /\ disk'[q] = NoFile /\ objects[serving][q] # NoFile
        BY <1>1, <1>4, <2>1 DEF Versioned, SyncInv, SyncTypeOK
  <2> QED BY <1>1, <2>1, <2>2, <2>3, <2>4 DEF Versioned
<1>7. Flushing'
      BY <1>1, <1>4 DEF SyncInv, SyncTypeOK, Flushing, AtFile, Candidate, HasRead
<1>8. SyncedIsStored'
      BY <1>1, <1>4 DEF SyncInv, SyncTypeOK, SyncedIsStored, v
<1> QED BY <1>5, <1>6, <1>7, <1>8 DEF SyncInv

\* The wipe finds no flush at work, for it has the lock.
LEMMA ConfigureSteps ==
    ASSUME SyncInv, KillWriters \/ (\E s \in SyncSessions : Wipe(s)) \/ ConfigureEnds PROVE SyncInv'
<1> USE DEF SyncInv, SyncTypeOK, Versioned, Flushing, SyncedIsStored, AtFile, Candidate, HasRead,
            Known, statevars, flushvars, handvars, diskvars
<1>1. CASE KillWriters
  <2>1. configures + 1 \in 0..MaxConfigures
        BY <1>1, SyncAssumption DEF KillWriters
  <2>2. SyncTypeOK'
        BY <1>1, <2>1 DEF KillWriters
  <2>3. Versioned' /\ Flushing' /\ SyncedIsStored'
        BY <1>1 DEF KillWriters
  <2> QED BY <2>2, <2>3
<1>2. ASSUME NEW s \in SyncSessions, Wipe(s) PROVE SyncInv'
  <2>1. \A f \in Flushers : flush[f].at = "idle"
        BY <1>2, SyncAssumption DEF Wipe
  <2> QED BY <1>2, <2>1 DEF Wipe, Cleared, Listed
<1>3. CASE ConfigureEnds
      BY <1>3 DEF ConfigureEnds
<1> QED BY <1>1, <1>2, <1>3

\* A step of a flush, which leaves what is served and what is written alone.
FlushStep(f) ==
    \/ FlushPending(f) \/ FlushAll(f) \/ Discover(f)
    \/ \E p \in Paths : FlushRequested(f, p) \/ TakeCandidate(f, p)
    \/ WaitForStable(f) \/ Upload(f) \/ StoreObject(f) \/ Remember(f) \/ FlushEnds(f)

\* The records of flushers.
Records == [at : {"idle", "scan", "take", "stable", "upload", "stored", "again"},
             todo : SUBSET Paths, file : Paths \cup {NoFlusher},
             sig : Versions \cup {NoFile}, read : Versions \cup {NoFile},
             of : SyncSessions \cup {NoFlusher}]

\* What a step of a flush may do to the flusher's own record and to the rest.
LEMMA FlushStepKeeps ==
    ASSUME SyncInv, NEW f \in Flushers, NEW r \in Records,
           UNCHANGED <<disk, writes, serving, handover, configures, fetching>>,
           flush' = [flush EXCEPT ![f] = r],
           flushLock \in {f, NoFlusher}, flushLock' = IF r.at = "idle" THEN NoFlusher ELSE f,
           r.at # "idle" => r.of = serving,
           AtFile(f)' => Candidate(f)', 
           r.at \in {"stored", "again"} => HasRead(f)',
           pending' \subseteq Paths,
           synced' \in [Paths -> Versions \cup {NoFile}],
           \A p \in Paths : synced'[p] # NoFile => synced'[p] \in Known,
           objects' \in [SyncSessions -> [Paths -> Versions \cup {NoFile}]],
           \A s \in SyncSessions, p \in Paths :
            objects'[s][p] # NoFile => objects'[s][p] \in Known /\ writes[objects'[s][p]] = s,
           \A p \in fetching : objects'[serving][p] = objects[serving][p],
           scanned' \in [Paths -> Versions \cup {NoFile}],
           SyncedIsStored'
    PROVE  SyncInv'
<1>1. SyncTypeOK'
      BY DEF SyncInv, SyncTypeOK, Records
<1>2. Versioned'
      BY DEF SyncInv, SyncTypeOK, Versioned, Known
<1>3. Flushing'
  <2> SUFFICES ASSUME NEW g \in Flushers
               PROVE  /\ (flush[g].at # "idle" <=> flushLock = g)'
                      /\ (flush[g].at # "idle" => flush[g].of = serving)'
                      /\ (AtFile(g) => Candidate(g))'
                      /\ (flush[g].at \in {"stored", "again"} => HasRead(g))'
      BY DEF Flushing
  <2>1. flush' \in [Flushers -> Records] /\ flush'[f] = r
        BY DEF SyncInv, SyncTypeOK, Records
  <2>2. CASE g = f
        BY <2>1, <2>2, SyncAssumption
  <2>3. CASE g # f
    <3>1. flush'[g] = flush[g] /\ flush[g].at = "idle" /\ flushLock' # g
          BY <2>3, SyncAssumption DEF SyncInv, SyncTypeOK, Flushing
    <3> QED BY <3>1 DEF AtFile
  <2> QED BY <2>2, <2>3
<1> QED BY <1>1, <1>2, <1>3 DEF SyncInv

\* What is stored and scanned, for the steps that leave it alone.
LEMMA StoredWell ==
    ASSUME SyncInv
    PROVE  /\ scanned \in [Paths -> Versions \cup {NoFile}]
           /\ synced \in [Paths -> Versions \cup {NoFile}]
           /\ \A p \in Paths : synced[p] # NoFile => synced[p] \in Known
           /\ objects \in [SyncSessions -> [Paths -> Versions \cup {NoFile}]]
           /\ \A s \in SyncSessions, p \in Paths :
                objects[s][p] # NoFile => objects[s][p] \in Known /\ writes[objects[s][p]] = s
           /\ pending \subseteq Paths
BY DEF SyncInv, SyncTypeOK, Versioned

\* Taking the lock.
LEMMA FlushStarts ==
    ASSUME SyncInv, NEW f \in Flushers,
           FlushPending(f) \/ FlushAll(f) \/ \E p \in Paths : FlushRequested(f, p)
    PROVE  SyncInv'
<1>1. PICK at \in {"scan", "take"}, todo \in SUBSET Paths : TakeFlushLock(f, at, todo)
      BY DEF FlushPending, FlushAll, FlushRequested, SyncInv, SyncTypeOK
<1> DEFINE r == [IdleFlush EXCEPT !.at = at, !.todo = todo, !.of = serving]
<1>2. r \in Records /\ r.at \in {"scan", "take"} /\ r.of = serving
      BY DEF Records, IdleFlush, SyncInv, SyncTypeOK
<1>3. flush' = [flush EXCEPT ![f] = r] /\ flushLock = NoFlusher /\ flushLock' = f
      /\ UNCHANGED <<disk, writes, serving, handover, configures, fetching, synced, objects>>
      BY <1>1 DEF TakeFlushLock, diskvars, handvars
<1>4. pending' \subseteq Paths /\ scanned' \in [Paths -> Versions \cup {NoFile}]
      BY DEF FlushPending, FlushAll, FlushRequested, SyncInv, SyncTypeOK
<1> HIDE DEF r
<1>5. ~AtFile(f)'
      BY <1>2, <1>3 DEF AtFile, SyncInv, SyncTypeOK
<1>6. SyncedIsStored'
      BY <1>3 DEF SyncInv, SyncedIsStored
<1> QED BY <1>2, <1>3, <1>4, <1>5, <1>6, FlushStepKeeps, StoredWell

\* The flusher that holds the lock.
LEMMA Holder ==
    ASSUME SyncInv, NEW f \in Flushers, flush[f].at # "idle"
    PROVE  flushLock = f /\ flush[f].of = serving /\ flush[f] \in Records
BY DEF SyncInv, SyncTypeOK, Flushing, Records

\* The scan only forgets signatures.
LEMMA DiscoverStep ==
    ASSUME SyncInv, NEW f \in Flushers, Discover(f) PROVE SyncInv'
<1> DEFINE todo == pending \cup {p \in Paths : scanned[p] # NoFile /\ synced[p] # scanned[p]}
           r == [flush[f] EXCEPT !.at = "take", !.todo = todo]
<1>1. flush[f].at = "scan" /\ flushLock = f /\ flush[f].of = serving /\ flush[f] \in Records
      BY Holder DEF Discover
<1>2. todo \in SUBSET Paths
      BY DEF SyncInv, SyncTypeOK
<1>3. r \in Records /\ r.at = "take" /\ r.of = serving
      BY <1>1, <1>2 DEF Records
<1>4. flush' = [flush EXCEPT ![f] = r]
      BY <1>1 DEF Discover, SyncInv, SyncTypeOK
<1>5. UNCHANGED <<disk, writes, serving, handover, configures, fetching, objects, flushLock>>
      BY DEF Discover, diskvars, handvars
<1>6. pending' \subseteq Paths /\ scanned' \in [Paths -> Versions \cup {NoFile}]
      BY DEF Discover, SyncInv, SyncTypeOK
<1>7. synced' \in [Paths -> Versions \cup {NoFile}] /\ \A p \in Paths : synced'[p] \in {synced[p], NoFile}
      BY DEF Discover, SyncInv, SyncTypeOK
<1> HIDE DEF r, todo
<1>8. ~AtFile(f)'
      BY <1>3, <1>4 DEF AtFile, SyncInv, SyncTypeOK
<1>9. SyncedIsStored'
      BY <1>5, <1>7 DEF SyncInv, SyncTypeOK, SyncedIsStored
<1> QED BY <1>1, <1>3, <1>4, <1>5, <1>6, <1>7, <1>8, <1>9, FlushStepKeeps, StoredWell

\* A candidate is a file that is not remembered as it is.
LEMMA CandidateStep ==
    ASSUME SyncInv, NEW f \in Flushers, NEW p \in Paths, TakeCandidate(f, p) PROVE SyncInv'
<1> DEFINE more == [flush[f] EXCEPT !.todo = @ \ {p}]
           next == [flush[f] EXCEPT !.at = "stable", !.todo = @ \ {p}, !.file = p, !.sig = disk[p]]
<1>1. flush[f].at = "take" /\ flushLock = f /\ flush[f].of = serving /\ flush[f] \in Records
      BY Holder DEF TakeCandidate
<1>2. UNCHANGED <<disk, writes, serving, handover, configures, fetching, objects, flushLock, scanned>>
      BY DEF TakeCandidate, diskvars, handvars
<1>3. CASE UNCHANGED synced /\ disk[p] # NoFile /\ synced[p] # disk[p]
           /\ pending' = pending /\ flush' = [flush EXCEPT ![f] = next]
  <2>1. next \in Records /\ next.at = "stable" /\ next.of = serving
        BY <1>1 DEF Records, SyncInv, SyncTypeOK
  <2>2. flush'[f].file = p /\ flush'[f].sig = disk[p] /\ flush'[f].at = "stable"
        BY <1>1, <1>3 DEF Records, SyncInv, SyncTypeOK
  <2>3. p \notin fetching /\ disk[p] \in Known /\ disk[p] \in Nat
        BY <1>3, SyncAssumption DEF SyncInv, SyncTypeOK, Versioned, Versions
  <2>4. Candidate(f)'
        BY <1>2, <1>3, <2>2, <2>3 DEF Candidate, Known
  <2>5. SyncedIsStored'
        BY <1>2, <1>3 DEF SyncInv, SyncedIsStored
  <2> HIDE DEF next
  <2> QED BY <1>1, <1>2, <1>3, <2>1, <2>4, <2>5, FlushStepKeeps, StoredWell
<1>4. CASE pending' = pending \ {p} /\ flush' = [flush EXCEPT ![f] = more]
           /\ (synced' = synced \/ synced' = [synced EXCEPT ![p] = NoFile])
  <2>1. more \in Records /\ more.at = "take" /\ more.of = serving
        BY <1>1 DEF Records
  <2>2. flush'[f].at = "take"
        BY <1>1, <1>4 DEF Records, SyncInv, SyncTypeOK
  <2>3. ~AtFile(f)'
        BY <2>2 DEF AtFile
  <2>4. synced' \in [Paths -> Versions \cup {NoFile}] /\ \A q \in Paths : synced'[q] \in {synced[q], NoFile}
        BY <1>4 DEF SyncInv, SyncTypeOK
  <2>5. SyncedIsStored'
        BY <1>2, <2>4 DEF SyncInv, SyncTypeOK, SyncedIsStored
  <2> HIDE DEF more
  <2> QED BY <1>1, <1>2, <1>4, <2>1, <2>3, <2>4, <2>5, FlushStepKeeps, StoredWell
<1>5. \/ /\ pending' = pending \ {p} /\ flush' = [flush EXCEPT ![f].todo = @ \ {p}]
         /\ (synced' = synced \/ synced' = [synced EXCEPT ![p] = NoFile])
      \/ /\ UNCHANGED synced /\ disk[p] # NoFile /\ synced[p] # disk[p] /\ pending' = pending
         /\ flush' = [flush EXCEPT ![f].at = "stable", ![f].todo = @ \ {p},
                                    ![f].file = p, ![f].sig = disk[p]]
      BY DEF TakeCandidate, statevars
<1>6. [flush EXCEPT ![f].todo = @ \ {p}] = [flush EXCEPT ![f] = more]
      OBVIOUS
<1>7. [flush EXCEPT ![f].at = "stable", ![f].todo = @ \ {p}, ![f].file = p, ![f].sig = disk[p]]
      = [flush EXCEPT ![f] = next]
      BY DEF SyncInv, SyncTypeOK
<1> QED BY <1>3, <1>4, <1>5, <1>6, <1>7

\* What a flusher is left with when it is done with a file.
LEMMA SettledRecord ==
    ASSUME SyncInv, NEW f \in Flushers, flush[f].at # "idle", Settled(f)
    PROVE  \E r \in Records : /\ flush' = [flush EXCEPT ![f] = r]
                              /\ r.at = "take" /\ r.of = serving
                              /\ ~AtFile(f)'
<1> DEFINE r == [flush[f] EXCEPT !.at = "take", !.file = NoFlusher, !.sig = NoFile, !.read = NoFile]
<1>1. flush[f] \in Records /\ flush[f].of = serving
      BY Holder
<1>2. r \in Records /\ r.at = "take" /\ r.of = serving
      BY <1>1 DEF Records
<1>3. flush' = [flush EXCEPT ![f] = r]
      BY <1>1 DEF Settled, SyncInv, SyncTypeOK
<1>4. flush'[f] = r
      BY <1>3 DEF SyncInv, SyncTypeOK
<1> HIDE DEF r
<1>5. ~AtFile(f)'
      BY <1>2, <1>4 DEF AtFile
<1> QED BY <1>2, <1>3, <1>5

\* A step that leaves a flusher settled and gives up what it remembers, or
\* remembers what the object has.
LEMMA SettledStep ==
    ASSUME SyncInv, NEW f \in Flushers, flush[f].at # "idle", Settled(f),
           UNCHANGED <<disk, writes, serving, handover, configures, fetching, objects, flushLock, scanned>>,
           pending' \subseteq Paths,
           synced' \in [Paths -> Versions \cup {NoFile}],
           \A p \in Paths : synced'[p] # synced[p] =>
               \/ synced'[p] = NoFile
               \/ synced'[p] = disk[p] /\ objects[serving][p] = disk[p]
    PROVE  SyncInv'
<1>1. PICK r \in Records : /\ flush' = [flush EXCEPT ![f] = r]
                           /\ r.at = "take" /\ r.of = serving /\ ~AtFile(f)'
      BY SettledRecord
<1>2. flushLock = f
      BY Holder
<1>3. \A p \in Paths : synced'[p] # NoFile => synced'[p] \in Known
      BY DEF SyncInv, SyncTypeOK, Versioned
<1>4. SyncedIsStored'
  <2>1. \A p \in Paths : disk[p] # NoFile /\ synced'[p] = disk[p] => objects[serving][p] = disk[p]
        BY DEF SyncInv, SyncedIsStored
  <2> QED BY <2>1 DEF SyncInv, SyncedIsStored
<1> QED BY <1>1, <1>2, <1>3, <1>4, FlushStepKeeps, StoredWell

\* The wait changes nothing but where the flush is.
LEMMA StableStep ==
    ASSUME SyncInv, NEW f \in Flushers, WaitForStable(f) PROVE SyncInv'
<1> DEFINE r == [flush[f] EXCEPT !.at = "upload"]
<1>1. flush[f].at = "stable" /\ flushLock = f /\ flush[f].of = serving /\ flush[f] \in Records
      BY Holder DEF WaitForStable
<1>2. UNCHANGED <<disk, writes, serving, handover, configures, fetching, objects, flushLock, scanned, synced>>
      BY DEF WaitForStable, diskvars, handvars
<1>3. Candidate(f)
      BY <1>1 DEF SyncInv, Flushing, AtFile
<1>4. CASE Settled(f) /\ pending' = pending \cup {flush[f].file}
      BY <1>1, <1>2, <1>3, <1>4, SettledStep DEF SyncInv, SyncTypeOK, Candidate
<1>5. CASE flush' = [flush EXCEPT ![f] = r] /\ pending' = pending
  <2>1. r \in Records /\ r.at = "upload" /\ r.of = serving
        BY <1>1 DEF Records
  <2>2. flush'[f] = r /\ r.file = flush[f].file /\ r.sig = flush[f].sig
        BY <1>1, <1>5 DEF Records, SyncInv, SyncTypeOK
  <2> HIDE DEF r
  <2>3. Candidate(f)'
        BY <1>2, <1>3, <2>2 DEF Candidate, Known
  <2>4. SyncedIsStored'
        BY <1>2 DEF SyncInv, SyncedIsStored
  <2> QED BY <1>1, <1>2, <1>5, <2>1, <2>3, <2>4, FlushStepKeeps, StoredWell
<1> QED BY <1>4, <1>5 DEF WaitForStable

\* What is read is not older than the signature.
LEMMA UploadStep ==
    ASSUME SyncInv, NEW f \in Flushers, Upload(f) PROVE SyncInv'
<1> DEFINE p == flush[f].file
           r == [flush[f] EXCEPT !.at = "stored", !.read = disk[p]]
<1>1. flush[f].at = "upload" /\ flushLock = f /\ flush[f].of = serving /\ flush[f] \in Records
      BY Holder DEF Upload
<1>2. UNCHANGED <<disk, writes, serving, handover, configures, fetching, objects, flushLock, scanned, synced>>
      BY DEF Upload, diskvars, handvars
<1>3. Candidate(f)
      BY <1>1 DEF SyncInv, Flushing, AtFile
<1>4. CASE Settled(f) /\ pending' = pending \cup {p}
      BY <1>1, <1>2, <1>3, <1>4, SettledStep DEF SyncInv, SyncTypeOK, Candidate
<1>5. CASE flush' = [flush EXCEPT ![f] = r] /\ pending' = pending /\ disk[p] # NoFile
  <2>0. disk[p] \in Known /\ writes[disk[p]] = serving /\ disk[p] \in Versions /\ disk[p] \in Nat
        BY <1>3, <1>5, SyncAssumption DEF Candidate, SyncInv, SyncTypeOK, Versioned, Versions
  <2>1. r \in Records /\ r.at = "stored" /\ r.of = serving
        BY <1>1, <2>0 DEF Records
  <2>2. flush'[f] = r /\ r.file = p /\ r.sig = flush[f].sig /\ r.read = disk[p]
        BY <1>1, <1>5 DEF Records, SyncInv, SyncTypeOK
  <2> HIDE DEF r
  <2>3. Candidate(f)'
        BY <1>2, <1>3, <2>2 DEF Candidate, Known
  <2>4. HasRead(f)'
        BY <1>2, <1>3, <1>5, <2>0, <2>1, <2>2 DEF HasRead, Candidate, Known
  <2>5. SyncedIsStored'
        BY <1>2 DEF SyncInv, SyncedIsStored
  <2> QED BY <1>1, <1>2, <1>5, <2>1, <2>3, <2>4, <2>5, FlushStepKeeps, StoredWell
<1>6. \/ Settled(f) /\ pending' = pending \cup {p}
      \/ /\ flush' = [flush EXCEPT ![f].at = "stored", ![f].read = disk[p]]
         /\ pending' = pending /\ disk[p] # NoFile
      BY DEF Upload
<1>7. [flush EXCEPT ![f].at = "stored", ![f].read = disk[p]] = [flush EXCEPT ![f] = r]
      BY DEF SyncInv, SyncTypeOK
<1> QED BY <1>4, <1>5, <1>6, <1>7

\* The object is of the session served, and of a file not remembered.
LEMMA StoreStep ==
    ASSUME SyncInv, NEW f \in Flushers, StoreObject(f) PROVE SyncInv'
<1> DEFINE p == flush[f].file
           v == flush[f].read
           r == [flush[f] EXCEPT !.at = "again"]
<1>1. flush[f].at = "stored" /\ flushLock = f /\ flush[f].of = serving /\ flush[f] \in Records
      BY Holder DEF StoreObject
<1>2. UNCHANGED <<disk, writes, serving, handover, configures, fetching, flushLock, scanned, synced, pending>>
      BY DEF StoreObject, diskvars, handvars, statevars
<1>3. Candidate(f) /\ HasRead(f)
      BY <1>1 DEF SyncInv, Flushing, AtFile
<1>4. p \in Paths \ fetching /\ v \in Known /\ writes[v] = serving /\ serving \in SyncSessions
      BY <1>3 DEF Candidate, HasRead, SyncInv, SyncTypeOK
<1>5. v \in Versions
      BY <1>1, <1>4, SyncAssumption DEF Records, SyncInv, Versioned, Versions, NoFile
<1>6. objects' = [objects EXCEPT ![serving][p] = v] /\ flush' = [flush EXCEPT ![f] = r]
      BY <1>1 DEF StoreObject
<1>7. r \in Records /\ r.at = "again" /\ r.of = serving
      BY <1>1 DEF Records
<1>8. flush'[f] = r /\ r.file = p /\ r.sig = flush[f].sig /\ r.read = v
      BY <1>1, <1>6 DEF Records, SyncInv, SyncTypeOK
<1>9. /\ objects' \in [SyncSessions -> [Paths -> Versions \cup {NoFile}]]
      /\ objects'[serving][p] = v
      /\ \A q \in Paths \ {p} : objects'[serving][q] = objects[serving][q]
      /\ \A s \in SyncSessions \ {serving} : objects'[s] = objects[s]
      BY <1>4, <1>5, <1>6 DEF SyncInv, SyncTypeOK
<1> HIDE DEF r, p, v
<1>10. \A s \in SyncSessions, q \in Paths :
            objects'[s][q] # NoFile => objects'[s][q] \in Known /\ writes[objects'[s][q]] = s
  <2> SUFFICES ASSUME NEW s \in SyncSessions, NEW q \in Paths, objects'[s][q] # NoFile
               PROVE  objects'[s][q] \in Known /\ writes[objects'[s][q]] = s
      OBVIOUS
  <2>1. CASE s = serving /\ q = p
        BY <1>4, <1>9, <2>1
  <2>2. CASE ~(s = serving /\ q = p)
    <3>1. objects'[s][q] = objects[s][q]
          BY <1>9, <2>2
    <3> QED BY <3>1 DEF SyncInv, Versioned
  <2> QED BY <2>1, <2>2
<1>11. Candidate(f)'
  <2>1. disk[p] # NoFile => synced[p] # disk[p] /\ flush[f].sig <= disk[p]
        BY <1>3 DEF Candidate, p
  <2> QED BY <1>2, <1>3, <1>4, <1>8, <2>1 DEF Candidate, Known
<1>12. HasRead(f)'
  <2>1. flush[f].sig <= v /\ (disk[p] # NoFile => v <= disk[p])
        BY <1>3 DEF HasRead, p, v
  <2> QED BY <1>2, <1>4, <1>7, <1>8, <1>9, <2>1 DEF HasRead, Known
<1>13. SyncedIsStored'
  <2>1. ASSUME NEW q \in Paths, disk[q] # NoFile, synced[q] = disk[q]
        PROVE  objects'[serving][q] = disk[q]
    <3>1. q # p
          BY <1>3, <2>1 DEF Candidate, p
    <3> QED BY <1>9, <2>1, <3>1 DEF SyncInv, SyncedIsStored
  <2> QED BY <1>2, <1>10, <2>1 DEF SyncedIsStored
<1>14. \A q \in fetching : objects'[serving][q] = objects[serving][q]
      BY <1>4, <1>9 DEF SyncInv, SyncTypeOK
<1> QED BY <1>1, <1>2, <1>6, <1>7, <1>9, <1>10, <1>11, <1>12, <1>13, <1>14, FlushStepKeeps, StoredWell

\* Here a flush remembers: the disk has the version it saw first, which is then
\* the one it read, for none older comes back, and the object has it.
LEMMA RememberStep ==
    ASSUME SyncInv, NEW f \in Flushers, Remember(f) PROVE SyncInv'
<1> DEFINE p == flush[f].file
<1>1. flush[f].at = "again" /\ flush[f] \in Records /\ Settled(f)
      BY Holder DEF Remember
<1>2. UNCHANGED <<disk, writes, serving, handover, configures, fetching, objects, flushLock, scanned>>
      BY DEF Remember, diskvars, handvars
<1>3. Candidate(f) /\ HasRead(f)
      BY <1>1 DEF SyncInv, Flushing, AtFile
<1>4. p \in Paths /\ objects[serving][p] = flush[f].read
      BY <1>1, <1>3 DEF Candidate, HasRead
<1>5. disk[p] # NoFile /\ disk[p] = flush[f].sig => objects[serving][p] = disk[p]
  <2>1. flush[f].read \in Nat /\ flush[f].sig \in Nat
        BY <1>1, SyncAssumption DEF Records, Versions, NoFile
  <2>2. HasRead(f) => flush[f].sig <= flush[f].read /\ (disk[p] # NoFile => flush[f].read <= disk[p])
        BY DEF HasRead
  <2> HIDE DEF p
  <2> QED BY <1>3, <1>4, <2>1, <2>2
<1>6. pending' \subseteq Paths
      BY <1>4 DEF Remember, SyncInv, SyncTypeOK
<1>7. \/ synced' = synced \/ synced' = [synced EXCEPT ![p] = NoFile]
      \/ synced' = [synced EXCEPT ![p] = disk[p]] /\ disk[p] # NoFile /\ disk[p] = flush[f].sig
      BY DEF Remember
<1> HIDE DEF p
<1>8. synced' \in [Paths -> Versions \cup {NoFile}]
      BY <1>4, <1>7 DEF SyncInv, SyncTypeOK
<1>9. \A q \in Paths : synced'[q] # synced[q] =>
               \/ synced'[q] = NoFile
               \/ synced'[q] = disk[q] /\ objects[serving][q] = disk[q]
      BY <1>4, <1>5, <1>7 DEF SyncInv, SyncTypeOK
<1> QED BY <1>1, <1>2, <1>6, <1>8, <1>9, SettledStep

\* Giving up the lock.
LEMMA EndStep ==
    ASSUME SyncInv, NEW f \in Flushers, FlushEnds(f) PROVE SyncInv'
<1>1. flush[f].at = "take" /\ flushLock = f /\ IdleFlush \in Records /\ IdleFlush.at = "idle"
      BY Holder DEF FlushEnds, Records, IdleFlush
<1>2. flush' = [flush EXCEPT ![f] = IdleFlush] /\ flushLock' = NoFlusher
      /\ UNCHANGED <<disk, writes, serving, handover, configures, fetching, objects, scanned, synced, pending>>
      BY DEF FlushEnds, diskvars, handvars, statevars
<1>3. ~AtFile(f)'
      BY <1>1, <1>2 DEF AtFile, SyncInv, SyncTypeOK
<1>4. SyncedIsStored'
      BY <1>2 DEF SyncInv, SyncedIsStored
<1> QED BY <1>1, <1>2, <1>3, <1>4, FlushStepKeeps, StoredWell

\* Every step, where no copy brings an old version back.
LEMMA SyncStep ==
    ASSUME ~CopiesBack, SyncInv, [SyncNext]_syncvars PROVE SyncInv'
<1>1. CASE UNCHANGED syncvars
      BY <1>1 DEF syncvars, SyncInv, SyncTypeOK, Versioned, Flushing, SyncedIsStored, AtFile, Candidate, HasRead, Known
<1>2. ASSUME NEW p \in Paths, \/ \E t \in BOOLEAN : Write(p, t)
                              \/ Remove(p) \/ CopyBack(p) \/ Prefetch(p)
      PROVE  SyncInv'
      BY <1>2, WriteStep, RemoveStep, PrefetchStep DEF CopyBack
<1>3. ASSUME NEW f \in Flushers, FlushStep(f) PROVE SyncInv'
      BY <1>3, FlushStarts, DiscoverStep, CandidateStep, StableStep, UploadStep, StoreStep, RememberStep, EndStep
         DEF FlushStep
<1> QED BY <1>1, <1>2, <1>3, ConfigureSteps DEF SyncNext, FlushStep

\* Where nothing brings an older version back with its signature, a file whose
\* signature is remembered is in storage as it is, and a prefix has only what
\* its session wrote, however writers, flushes and /configure interleave
\* (_sync_candidate_paths, configure).
THEOREM SyncedInStorage ==
    ASSUME ~CopiesBack PROVE SyncSpec => []SyncedIsStored
<1>1. SyncInv => SyncedIsStored
      BY DEF SyncInv
<1> QED BY <1>1, SyncStart, SyncStep, PTL DEF SyncSpec

-----------------------------------------------------------------------------
(* The kept-alive drivers.                                                 *)

\* The call that has the lock is at an await under it; the handle is none
\* while it starts a driver, and the driver it was sent to while it reads.
LockRight ==
    /\ \A c \in Calls : execCall[c] \in {"spawn", "read"} <=> lockOf = c
    /\ \A c \in Calls : execCall[c] = "spawn" => handle = NoDriver
    /\ \A c \in Calls : execCall[c] = "read" => handle # NoDriver /\ ranIn[c] = handle

\* A driver in the handle was started and not killed; one that was not started
\* has nothing on its pipes, and one that exited no request.
HandleRuns ==
    /\ handle # NoDriver => driver[handle] \in {"up", "exited"} /\ handle \notin reaped
    /\ \A d \in reaped : driver[d] # "unused"
    /\ \A d \in Drivers : driver[d] = "up" => d = handle \/ d \in reaped
    /\ \A d \in Drivers : driver[d] = "unused" =>
           d \notin printedIn /\ requests[d] = <<>> /\ output[d] = <<>>
    /\ \A d \in Drivers : driver[d] = "exited" => requests[d] = <<>>

\* Between two calls the pipes of the handle's driver are empty; during one
\* they hold its request, or its answer, or the driver is gone.
PipesClean == handle # NoDriver /\ handle \notin printedIn =>
    /\ lockOf = NoCall => requests[handle] = <<>> /\ output[handle] = <<>>
    /\ lockOf # NoCall =>
           \/ requests[handle] = <<lockOf>> /\ output[handle] = <<>>
           \/ requests[handle] = <<>> /\ output[handle] = <<lockOf>>
           \/ /\ driver[handle] = "exited"
              /\ requests[handle] = <<>> /\ output[handle] = <<>>

InterpreterInv ==
    /\ InterpreterTypeOK /\ LockRight /\ HandleRuns /\ PipesClean /\ AnswersOwn

\* The first state: no driver was started.
LEMMA InterpretersStart == InterpreterInit => InterpreterInv
<1> SUFFICES ASSUME InterpreterInit PROVE InterpreterInv
    OBVIOUS
<1>1. <<>> \in Seq(Calls) /\ <<>> \in Seq(PipeLines)
  OBVIOUS
<1>2. InterpreterTypeOK
  BY <1>1 DEF InterpreterInit, InterpreterTypeOK
<1>3. LockRight /\ HandleRuns /\ PipesClean /\ AnswersOwn
  BY InterpreterAssumption DEF InterpreterInit, LockRight, HandleRuns, PipesClean, AnswersOwn
<1> QED
  BY <1>2, <1>3 DEF InterpreterInv

\* What a kill leaves: the driver in the handle is none that runs.
LEMMA KilledIs ==
    ASSUME InterpreterTypeOK, NEW d \in Drivers
    PROVE  /\ Killed(d) \in [Drivers -> {"unused", "up", "exited", "killed"}]
           /\ \A e \in Drivers : Killed(d)[e] = "up" <=> driver[e] = "up" /\ e # d
           /\ \A e \in Drivers : \A at \in {"unused", "exited"} : Killed(d)[e] = at <=> driver[e] = at
           /\ \A e \in Drivers : e # d => Killed(d)[e] = driver[e]
BY DEF InterpreterTypeOK, Killed

\* A call that gives up the driver, and one that only lets the lock go.
LEMMA AbandonKeeps ==
    ASSUME InterpreterInv, NEW c \in Calls, execCall[c] = "read", Abandon(c)
    PROVE  InterpreterInv'
<1> USE InterpreterAssumption
<1>1. /\ handle \in Drivers /\ lockOf = c
      /\ driver' = Killed(handle) /\ handle' = NoDriver /\ lockOf' = NoCall
      /\ execCall' = [execCall EXCEPT ![c] = "failed"]
      /\ UNCHANGED <<requests, output, printedIn, answer, ranIn, reaped, idle>>
  BY DEF Abandon, Fails, results, pipes, InterpreterInv, InterpreterTypeOK, LockRight
<1>2. InterpreterTypeOK'
  BY <1>1, KilledIs DEF InterpreterInv, InterpreterTypeOK
<1>3. LockRight'
  BY <1>1 DEF InterpreterInv, InterpreterTypeOK, LockRight
<1>4. HandleRuns'
  BY <1>1, KilledIs DEF InterpreterInv, InterpreterTypeOK, HandleRuns
<1>5. PipesClean'
  BY <1>1 DEF PipesClean
<1>6. AnswersOwn'
  BY <1>1, KilledIs DEF InterpreterInv, InterpreterTypeOK, AnswersOwn
<1> QED
  BY <1>2, <1>3, <1>4, <1>5, <1>6 DEF InterpreterInv

\* A call gets the lock: with a fresh driver its request is alone on the pipes.
LEMMA TakeLockKeeps ==
    ASSUME InterpreterInv, NEW c \in Calls, TakeLock(c)
    PROVE  InterpreterInv'
<1> USE InterpreterAssumption
<1>1. /\ execCall[c] = "new" /\ lockOf = NoCall /\ lockOf' = c /\ UNCHANGED <<reaped, idle>>
  BY DEF TakeLock
<1>2. CASE StillFresh /\ UNCHANGED <<handle, driver>> /\ Send(c, handle)
  <2>1. /\ handle \in Drivers /\ handle' = handle /\ driver' = driver
        /\ requests' = IF driver[handle] = "up"
                       THEN [requests EXCEPT ![handle] = Append(@, c)] ELSE requests
        /\ ranIn' = [ranIn EXCEPT ![c] = handle] /\ execCall' = [execCall EXCEPT ![c] = "read"]
        /\ UNCHANGED <<output, printedIn, answer>>
    BY <1>2 DEF StillFresh, Send, InterpreterInv, InterpreterTypeOK
  <2>2. InterpreterTypeOK'
    BY <1>1, <2>1 DEF InterpreterInv, InterpreterTypeOK
  <2>3. LockRight'
    BY <1>1, <2>1 DEF InterpreterInv, InterpreterTypeOK, LockRight
  <2>4. HandleRuns'
    BY <1>1, <2>1 DEF InterpreterInv, InterpreterTypeOK, HandleRuns
  <2>5. PipesClean'
    <3> SUFFICES ASSUME handle \notin printedIn
                 PROVE  \/ requests'[handle] = <<c>> /\ output[handle] = <<>>
                        \/ /\ driver[handle] = "exited"
                           /\ requests'[handle] = <<>> /\ output[handle] = <<>>
      BY <1>1, <2>1 DEF PipesClean
    <3>1. requests[handle] = <<>> /\ output[handle] = <<>>
      BY <1>1, <2>1 DEF InterpreterInv, PipesClean
    <3>2. driver[handle] \in {"up", "exited"}
      BY <2>1 DEF InterpreterInv, HandleRuns
    <3>3. Append(<<>>, c) = <<c>>
      OBVIOUS
    <3> QED
      BY <2>1, <3>1, <3>2, <3>3 DEF InterpreterInv, InterpreterTypeOK
  <2>6. AnswersOwn'
    BY <1>1, <2>1 DEF InterpreterInv, InterpreterTypeOK, AnswersOwn
  <2> QED
    BY <2>2, <2>3, <2>4, <2>5, <2>6 DEF InterpreterInv
<1>3. CASE /\ driver' = IF handle # NoDriver THEN Killed(handle) ELSE driver
           /\ handle' = NoDriver /\ execCall' = [execCall EXCEPT ![c] = "spawn"]
           /\ UNCHANGED <<pipes, results>>
  <2>1. UNCHANGED <<requests, output, printedIn, answer, ranIn>>
    BY <1>3 DEF pipes, results
  <2>2. /\ driver' \in [Drivers -> {"unused", "up", "exited", "killed"}]
        /\ \A e \in Drivers : driver'[e] = "up" <=> driver[e] = "up" /\ e # handle
        /\ \A e \in Drivers : \A at \in {"unused", "exited"} : driver'[e] = at <=> driver[e] = at
    BY <1>3, KilledIs DEF InterpreterInv, InterpreterTypeOK
  <2>3. InterpreterTypeOK'
    BY <1>1, <1>3, <2>1, <2>2 DEF InterpreterInv, InterpreterTypeOK
  <2>4. LockRight'
    BY <1>1, <1>3, <2>1 DEF InterpreterInv, InterpreterTypeOK, LockRight
  <2>5. HandleRuns'
    BY <1>1, <1>3, <2>1, <2>2 DEF InterpreterInv, InterpreterTypeOK, HandleRuns
  <2>6. PipesClean'
    BY <1>3 DEF PipesClean
  <2>7. AnswersOwn'
    BY <1>1, <1>3, <2>1, <2>2 DEF InterpreterInv, InterpreterTypeOK, AnswersOwn, HandleRuns
  <2> QED
    BY <2>3, <2>4, <2>5, <2>6, <2>7 DEF InterpreterInv
<1> QED
  BY <1>2, <1>3 DEF TakeLock

\* A driver was started for the call, or could not be.
LEMMA SpawnKeeps ==
    ASSUME InterpreterInv, NEW c \in Calls, NEW d \in Drivers,
           DriverReady(c, d) \/ DriverFails(c, d)
    PROVE  InterpreterInv'
<1> USE InterpreterAssumption
<1>1. /\ execCall[c] = "spawn" /\ lockOf = c /\ handle = NoDriver
      /\ driver[d] = "unused" /\ d \notin printedIn /\ d \notin reaped
      /\ requests[d] = <<>> /\ output[d] = <<>>
  BY DEF DriverReady, DriverFails, InterpreterInv, LockRight, HandleRuns
<1>2. CASE DriverReady(c, d)
  <2>1. /\ driver' = [driver EXCEPT ![d] = "up"] /\ handle' = d
        /\ idle' = FALSE /\ UNCHANGED <<lockOf, reaped, output, printedIn, answer>>
        /\ ranIn' = [ranIn EXCEPT ![c] = d] /\ execCall' = [execCall EXCEPT ![c] = "read"]
        /\ requests' = [requests EXCEPT ![d] = Append(@, c)]
    BY <1>2 DEF DriverReady, Send, InterpreterInv, InterpreterTypeOK
  <2>2. InterpreterTypeOK'
    <3>1. Append(requests[d], c) \in Seq(Calls)
      BY DEF InterpreterInv, InterpreterTypeOK
    <3> QED
      BY <1>1, <2>1, <3>1 DEF InterpreterInv, InterpreterTypeOK
  <2>3. LockRight'
    BY <1>1, <2>1 DEF InterpreterInv, InterpreterTypeOK, LockRight
  <2>4. HandleRuns'
    BY <1>1, <2>1 DEF InterpreterInv, InterpreterTypeOK, HandleRuns
  <2>5. PipesClean'
    <3>1. Append(<<>>, c) = <<c>>
      OBVIOUS
    <3> QED
      BY <1>1, <2>1, <3>1 DEF InterpreterInv, InterpreterTypeOK, PipesClean
  <2>6. AnswersOwn'
    BY <1>1, <2>1 DEF InterpreterInv, InterpreterTypeOK, AnswersOwn
  <2> QED
    BY <2>2, <2>3, <2>4, <2>5, <2>6 DEF InterpreterInv
<1>3. CASE DriverFails(c, d)
  <2>1. /\ driver' = [driver EXCEPT ![d] = "killed"] /\ lockOf' = NoCall
        /\ execCall' = [execCall EXCEPT ![c] = "failed"]
        /\ UNCHANGED <<handle, requests, output, printedIn, reaped, idle, answer, ranIn>>
    BY <1>3 DEF DriverFails, Fails, pipes, results
  <2>2. InterpreterTypeOK'
    BY <1>1, <2>1 DEF InterpreterInv, InterpreterTypeOK
  <2>3. LockRight'
    BY <1>1, <2>1 DEF InterpreterInv, InterpreterTypeOK, LockRight
  <2>4. HandleRuns'
    BY <1>1, <2>1 DEF InterpreterInv, InterpreterTypeOK, HandleRuns
  <2>5. PipesClean'
    BY <1>1, <2>1 DEF PipesClean
  <2>6. AnswersOwn'
    BY <1>1, <2>1 DEF InterpreterInv, InterpreterTypeOK, AnswersOwn
  <2> QED
    BY <2>2, <2>3, <2>4, <2>5, <2>6 DEF InterpreterInv
<1> QED
  BY <1>2, <1>3

\* What the call reads is one whole line: on a clean pipe its own answer.
LEMMA ReadKeeps ==
    ASSUME InterpreterInv, NEW c \in Calls, ReadLine(c)
    PROVE  InterpreterInv'
<1> USE InterpreterAssumption
<1> DEFINE first == Head(output[handle])
           rest == Tail(output[handle])
<1>1. /\ execCall[c] = "read" /\ lockOf = c /\ handle \in Drivers /\ ranIn[c] = handle
      /\ output[handle] # <<>>
      /\ output' = [output EXCEPT ![handle] = rest]
      /\ idle' = FALSE /\ lockOf' = NoCall
      /\ UNCHANGED <<handle, driver, requests, reaped, ranIn, printedIn>>
  BY DEF ReadLine, InterpreterInv, InterpreterTypeOK, LockRight
<1>2. /\ output[handle] \in Seq(PipeLines)
      /\ first \in PipeLines /\ rest \in Seq(PipeLines)
  BY <1>1 DEF InterpreterInv, InterpreterTypeOK
<1>3. handle \notin printedIn =>
          /\ first = c /\ rest = <<>>
          /\ requests[handle] = <<>>
  <2>1. Head(<<c>>) = c /\ Tail(<<c>>) = <<>>
    OBVIOUS
  <2> QED
    BY <1>1, <2>1 DEF InterpreterInv, PipesClean
<1>4. \/ /\ execCall' = [execCall EXCEPT ![c] = "answered"]
         /\ answer' = [answer EXCEPT ![c] = first]
      \/ execCall' = [execCall EXCEPT ![c] = "failed"] /\ answer' = answer
  BY DEF ReadLine
<1> HIDE DEF first, rest
<1>5. InterpreterTypeOK'
  <2>1. output' \in [Drivers -> Seq(PipeLines)]
    BY <1>1, <1>2 DEF InterpreterInv, InterpreterTypeOK
  <2>2. answer' \in [Calls -> PipeLines \cup {NoCall}]
    BY <1>2, <1>4 DEF InterpreterInv, InterpreterTypeOK
  <2> QED
    BY <1>1, <1>4, <2>1, <2>2 DEF InterpreterInv, InterpreterTypeOK
<1>6. LockRight'
  BY <1>1, <1>4 DEF InterpreterInv, InterpreterTypeOK, LockRight
<1>7. HandleRuns'
  BY <1>1, <1>4 DEF InterpreterInv, InterpreterTypeOK, HandleRuns
<1>8. PipesClean'
  <2>1. output'[handle] = rest
    BY <1>1 DEF InterpreterInv, InterpreterTypeOK
  <2> QED
    BY <1>1, <1>3, <2>1 DEF PipesClean
<1>9. AnswersOwn'
  <2>1. handle \notin printedIn => first = c
    BY <1>3
  <2>2. /\ \A b \in Calls \ {c} : execCall'[b] = execCall[b] /\ answer'[b] = answer[b]
        /\ execCall'[c] = "answered" => answer'[c] = first
    BY <1>4 DEF InterpreterInv, InterpreterTypeOK
  <2>3. ranIn[c] = handle /\ UNCHANGED <<handle, driver, reaped, ranIn, printedIn>>
    BY <1>1
  <2> QED
    BY <2>1, <2>2, <2>3 DEF InterpreterInv, AnswersOwn
<1> QED
  BY <1>5, <1>6, <1>7, <1>8, <1>9 DEF InterpreterInv

\* The driver answers, user code prints, or the driver exits.
LEMMA DriverKeeps ==
    ASSUME InterpreterInv, NEW d \in Drivers,
           Answers(d) \/ DriverExits(d) \/ \E l \in {"noise", "json"} : PrintsLine(d, l)
    PROVE  InterpreterInv'
<1> USE InterpreterAssumption
<1>1. /\ driver[d] = "up"
      /\ UNCHANGED <<lockOf, handle, reaped, idle, execCall, answer, ranIn>>
      /\ \A e \in Drivers \ {d} : driver'[e] = driver[e] /\ requests'[e] = requests[e]
                                  /\ output'[e] = output[e]
      /\ driver'[d] \in {"up", "exited"} /\ (driver'[d] = "exited" => requests'[d] = <<>>)
      /\ printedIn \subseteq printedIn' /\ printedIn' \subseteq printedIn \cup {d}
  <2>1. CASE Answers(d)
    <3>1. PICK todo, out : /\ requests' = [requests EXCEPT ![d] = todo]
                           /\ output' = [output EXCEPT ![d] = out]
      BY <2>1 DEF Answers
    <3>2. /\ driver[d] = "up"
          /\ UNCHANGED <<lockOf, handle, driver, reaped, idle, execCall, answer, ranIn, printedIn>>
      BY <2>1 DEF Answers, results
    <3>3. \A e \in Drivers \ {d} : requests'[e] = requests[e] /\ output'[e] = output[e]
      BY <3>1, <3>2 DEF InterpreterInv, InterpreterTypeOK
    <3> QED
      BY <3>2, <3>3
  <2>2. CASE DriverExits(d)
    BY <2>2 DEF DriverExits, results, InterpreterInv, InterpreterTypeOK
  <2>3. CASE \E l \in {"noise", "json"} : PrintsLine(d, l)
    <3>1. PICK out : output' = [output EXCEPT ![d] = out]
      BY <2>3 DEF PrintsLine
    <3>2. /\ driver[d] = "up" /\ printedIn' = printedIn \cup {d}
          /\ UNCHANGED <<lockOf, handle, driver, requests, reaped, idle, execCall, answer, ranIn>>
      BY <2>3 DEF PrintsLine, results
    <3>3. \A e \in Drivers \ {d} : requests'[e] = requests[e] /\ output'[e] = output[e]
      BY <3>1, <3>2 DEF InterpreterInv, InterpreterTypeOK
    <3> QED
      BY <3>2, <3>3
  <2> QED
    BY <2>1, <2>2, <2>3
<1>2. InterpreterTypeOK'
  <2>1. ASSUME Answers(d) PROVE InterpreterTypeOK'
    <3>1. requests[d] \in Seq(Calls) /\ requests[d] # <<>> /\ output[d] \in Seq(PipeLines)
      BY <2>1 DEF Answers, InterpreterInv, InterpreterTypeOK
    <3>2. Head(requests[d]) \in Calls /\ Tail(requests[d]) \in Seq(Calls)
      BY <3>1
    <3>3. Append(output[d], Head(requests[d])) \in Seq(PipeLines)
      BY <3>1, <3>2 DEF PipeLines
    <3> QED
      BY <2>1, <3>2, <3>3 DEF Answers, results, InterpreterInv, InterpreterTypeOK
  <2>2. ASSUME DriverExits(d) PROVE InterpreterTypeOK'
    <3>1. <<>> \in Seq(Calls)
      OBVIOUS
    <3> QED
      BY <2>2, <3>1 DEF DriverExits, results, InterpreterInv, InterpreterTypeOK
  <2>3. ASSUME NEW l \in {"noise", "json"}, PrintsLine(d, l) PROVE InterpreterTypeOK'
    <3>1. Append(output[d], l) \in Seq(PipeLines)
      BY DEF InterpreterInv, InterpreterTypeOK, PipeLines
    <3> QED
      BY <2>3, <3>1 DEF PrintsLine, results, InterpreterInv, InterpreterTypeOK
  <2> QED
    BY <2>1, <2>2, <2>3
<1>3. LockRight'
  BY <1>1 DEF InterpreterInv, LockRight
<1>4. HandleRuns'
  <2>1. \A e \in Drivers : driver'[e] = "unused" => e # d /\ driver[e] = "unused"
    BY <1>1
  <2>2. \A e \in Drivers : driver'[e] = "up" => driver[e] = "up"
    BY <1>1
  <2>3. reaped \subseteq Drivers /\ handle \in Drivers \cup {NoDriver}
    BY DEF InterpreterInv, InterpreterTypeOK
  <2> QED
    BY <1>1, <2>1, <2>2, <2>3 DEF InterpreterInv, HandleRuns
<1>5. PipesClean'
  <2> SUFFICES ASSUME handle # NoDriver, handle \notin printedIn'
               PROVE  /\ lockOf = NoCall => requests'[handle] = <<>> /\ output'[handle] = <<>>
                      /\ lockOf # NoCall =>
                             \/ requests'[handle] = <<lockOf>> /\ output'[handle] = <<>>
                             \/ requests'[handle] = <<>> /\ output'[handle] = <<lockOf>>
                             \/ /\ driver'[handle] = "exited"
                                /\ requests'[handle] = <<>> /\ output'[handle] = <<>>
    BY <1>1 DEF PipesClean
  <2>1. /\ handle \in Drivers
        /\ lockOf = NoCall => requests[handle] = <<>> /\ output[handle] = <<>>
        /\ lockOf # NoCall =>
               \/ requests[handle] = <<lockOf>> /\ output[handle] = <<>>
               \/ requests[handle] = <<>> /\ output[handle] = <<lockOf>>
               \/ /\ driver[handle] = "exited"
                  /\ requests[handle] = <<>> /\ output[handle] = <<>>
    BY <1>1 DEF InterpreterInv, InterpreterTypeOK, PipesClean
  <2>2. CASE handle # d
    BY <1>1, <2>1, <2>2
  <2>3. CASE handle = d /\ Answers(d)
    <3>1. /\ requests[d] = <<lockOf>> /\ output[d] = <<>> /\ lockOf # NoCall
      BY <2>1, <2>3 DEF Answers
    <3>2. requests'[d] = Tail(<<lockOf>>) /\ output'[d] = Append(<<>>, Head(<<lockOf>>))
      BY <2>3, <3>1 DEF Answers, InterpreterInv, InterpreterTypeOK
    <3>3. Tail(<<lockOf>>) = <<>> /\ Head(<<lockOf>>) = lockOf /\ Append(<<>>, lockOf) = <<lockOf>>
      OBVIOUS
    <3> QED
      BY <2>3, <3>1, <3>2, <3>3
  <2>4. CASE handle = d /\ DriverExits(d)
    BY <2>1, <2>4 DEF DriverExits, InterpreterInv, InterpreterTypeOK
  <2>5. CASE handle = d /\ \E l \in {"noise", "json"} : PrintsLine(d, l)
    BY <2>5 DEF PrintsLine
  <2> QED
    BY <2>2, <2>3, <2>4, <2>5
<1>6. AnswersOwn'
  <2>1. \A e \in Drivers : driver'[e] = "up" => driver[e] = "up"
    BY <1>1
  <2> QED
    BY <1>1, <2>1 DEF InterpreterInv, AnswersOwn
<1> QED
  BY <1>2, <1>3, <1>4, <1>5, <1>6 DEF InterpreterInv

\* A failed write lets the lock go, with nothing left on the pipes.
LEMMA WriteFailsKeeps ==
    ASSUME InterpreterInv, NEW c \in Calls, WriteFails(c)
    PROVE  InterpreterInv'
<1> USE InterpreterAssumption
<1>1. /\ execCall[c] = "read" /\ lockOf = c /\ handle \in Drivers
      /\ driver[handle] = "exited"
      /\ \A i \in DOMAIN output[handle] : output[handle][i] # c
      /\ lockOf' = NoCall /\ execCall' = [execCall EXCEPT ![c] = "failed"]
      /\ UNCHANGED <<handle, driver, requests, output, printedIn, reaped, idle, answer, ranIn>>
  BY DEF WriteFails, Fails, pipes, results, InterpreterInv, InterpreterTypeOK, LockRight
<1>2. InterpreterTypeOK'
  BY <1>1 DEF InterpreterInv, InterpreterTypeOK
<1>3. LockRight'
  BY <1>1 DEF InterpreterInv, InterpreterTypeOK, LockRight
<1>4. HandleRuns'
  BY <1>1 DEF InterpreterInv, HandleRuns
<1>5. PipesClean'
  <2>1. output[handle] # <<c>>
    BY <1>1
  <2>2. requests[handle] = <<>>
    BY <1>1 DEF InterpreterInv, HandleRuns
  <2> QED
    BY <1>1, <2>1, <2>2 DEF InterpreterInv, PipesClean
<1>6. AnswersOwn'
  BY <1>1 DEF InterpreterInv, InterpreterTypeOK, AnswersOwn
<1> QED
  BY <1>2, <1>3, <1>4, <1>5, <1>6 DEF InterpreterInv

\* Reset, and the reaper in its two steps.
LEMMA ResetKeeps ==
    ASSUME InterpreterInv,
           Reset \/ IdleElapses \/ ReapHandle \/ \E d \in Drivers : ReapKills(d)
    PROVE  InterpreterInv'
<1> USE InterpreterAssumption
<1>1. UNCHANGED <<lockOf, requests, output, printedIn, execCall, answer, ranIn>>
  BY DEF Reset, IdleElapses, ReapHandle, ReapKills, pipes, results
<1>2. CASE Reset
  <2>1. lockOf = NoCall /\ handle \in Drivers /\ driver' = Killed(handle) /\ handle' = NoDriver
        /\ UNCHANGED <<reaped, idle>>
    BY <1>2 DEF Reset, InterpreterInv, InterpreterTypeOK
  <2>2. InterpreterTypeOK'
    BY <1>1, <2>1, KilledIs DEF InterpreterInv, InterpreterTypeOK
  <2>3. LockRight'
    BY <1>1, <2>1, KilledIs DEF InterpreterInv, InterpreterTypeOK, LockRight
  <2>4. HandleRuns'
    BY <1>1, <2>1, KilledIs DEF InterpreterInv, InterpreterTypeOK, HandleRuns
  <2>5. PipesClean' /\ AnswersOwn'
    BY <1>1, <2>1, KilledIs DEF InterpreterInv, InterpreterTypeOK, HandleRuns, PipesClean, AnswersOwn
  <2> QED
    BY <2>2, <2>3, <2>4, <2>5 DEF InterpreterInv
<1>3. CASE IdleElapses
  BY <1>1, <1>3 DEF IdleElapses, InterpreterInv, InterpreterTypeOK, LockRight, HandleRuns,
     PipesClean, AnswersOwn
<1>4. CASE ReapHandle
  <2>1. lockOf = NoCall /\ handle \in Drivers /\ reaped' = reaped \cup {handle}
        /\ handle' = NoDriver /\ UNCHANGED <<driver, idle>>
    BY <1>4 DEF ReapHandle, InterpreterInv, InterpreterTypeOK
  <2> QED
    BY <1>1, <2>1 DEF InterpreterInv, InterpreterTypeOK, LockRight, HandleRuns, PipesClean,
       AnswersOwn
<1>5. ASSUME NEW d \in Drivers, ReapKills(d) PROVE InterpreterInv'
  <2>1. d \in reaped /\ reaped' = reaped \ {d} /\ driver' = Killed(d) /\ UNCHANGED <<handle, idle>>
        /\ d # handle
    BY <1>5 DEF ReapKills, InterpreterInv, HandleRuns
  <2>2. InterpreterTypeOK'
    BY <1>1, <2>1, KilledIs DEF InterpreterInv, InterpreterTypeOK
  <2>3. LockRight'
    BY <1>1, <2>1, KilledIs DEF InterpreterInv, InterpreterTypeOK, LockRight
  <2>4. HandleRuns'
    BY <1>1, <2>1, KilledIs DEF InterpreterInv, InterpreterTypeOK, HandleRuns
  <2>5. PipesClean' /\ AnswersOwn'
    BY <1>1, <2>1, KilledIs DEF InterpreterInv, InterpreterTypeOK, HandleRuns, PipesClean, AnswersOwn
  <2> QED
    BY <2>2, <2>3, <2>4, <2>5 DEF InterpreterInv
<1> QED
  BY <1>2, <1>3, <1>4, <1>5

\* Every step of the drivers keeps the invariant.
LEMMA InterpretersStep == InterpreterInv /\ [InterpreterNext]_interpretervars => InterpreterInv'
<1> SUFFICES ASSUME InterpreterInv, [InterpreterNext]_interpretervars PROVE InterpreterInv'
    OBVIOUS
<1>1. ASSUME NEW c \in Calls, CallTimesOut(c) \/ EndOfFile(c) \/ Malformed(c) PROVE InterpreterInv'
  BY <1>1, AbandonKeeps DEF CallTimesOut, EndOfFile, Malformed
<1>2. CASE UNCHANGED interpretervars
  BY <1>2 DEF interpretervars, InterpreterInv, InterpreterTypeOK, LockRight, HandleRuns,
     PipesClean, AnswersOwn
<1> QED
  BY <1>1, <1>2, TakeLockKeeps, SpawnKeeps, WriteFailsKeeps, ReadKeeps, ResetKeeps, DriverKeeps
     DEF InterpreterNext

\* For any number of calls and drivers, a call gets its own answer.
THEOREM CallsGetOwnAnswers == InterpreterSpec => []AnswersOwn
<1>1. InterpreterInv => AnswersOwn
  BY DEF InterpreterInv
<1> QED
  BY InterpretersStart, InterpretersStep, <1>1, PTL DEF InterpreterSpec

-----------------------------------------------------------------------------
(* LanguageServers.                                                        *)

\* A server that is not started has no task; one in its start's hands is not
\* registered, nor taken to be ended; one of the registry is past its start
\* and has, or had, a reader task.
StartFirst == \A s \in Servers :
    /\ startAt[s] \in {"none", "counted"} => server[s] = "none" /\ stopping[s] = "none"
    /\ startAt[s] \in {"handshake", "ready"} => readTask[s] # "none" /\ stopping[s] = "none"
    /\ s \in registered => startAt[s] = "over" /\ readTask[s] # "none"

\* A request that found its server belongs to one with a reader task, and its
\* future is among those the task, while it runs, has to resolve.
AskInHand == \A a \in Asks :
    /\ completion[a] # "new" => asked[a] \in Servers /\ readTask[asked[a]] # "none"
    /\ completion[a] = "waiting" /\ a \notin late =>
           a \in awaited[asked[a]] /\ readTask[asked[a]] = "on"
    /\ completion[a] = "new" => \A s \in Servers : a \notin awaited[s]

ServersInv == ServersTypeOK /\ StartFirst /\ AskInHand /\ NoneForgotten

\* Once its futures have failed, a server's reader task may end.
LEMMA FailedAllTold ==
    ASSUME ServersInv, NEW s \in Servers, FailsAll(s),
           readTask' = readTask \/ readTask' = [readTask EXCEPT ![s] = "over"]
    PROVE  AskInHand'
<1> USE DEF ServersInv, ServersTypeOK, FailsAll
<1> SUFFICES ASSUME NEW a \in Asks
             PROVE  /\ completion'[a] # "new" => asked'[a] \in Servers /\ readTask'[asked'[a]] # "none"
                    /\ completion'[a] = "waiting" /\ a \notin late' =>
                           a \in awaited'[asked'[a]] /\ readTask'[asked'[a]] = "on"
                    /\ completion'[a] = "new" => \A r \in Servers : a \notin awaited'[r]
  BY DEF AskInHand
<1>1. asked' = asked /\ late' = late
  OBVIOUS
<1>2. CASE completion[a] = "new"
  <2>1. completion'[a] = "new" /\ \A r \in Servers : a \notin awaited'[r]
    BY <1>2 DEF AskInHand
  <2> QED  BY <2>1
<1>3. CASE completion[a] # "new"
  <2>1. asked[a] \in Servers /\ readTask'[asked[a]] # "none"
    BY <1>3 DEF AskInHand
  <2>2. completion'[a] = IF a \in awaited[s] THEN "failed" ELSE completion[a]
    OBVIOUS
  <2>3. asked[a] = s => completion'[a] # "waiting" \/ a \in late'
    BY <1>1, <2>1, <2>2 DEF AskInHand
  <2>4. CASE asked[a] # s
    <3>1. awaited'[asked[a]] = awaited[asked[a]] /\ readTask'[asked[a]] = readTask[asked[a]]
      BY <2>1, <2>4
    <3> QED  BY <1>1, <2>1, <2>2, <3>1 DEF AskInHand
  <2>5. completion'[a] # "new"
    BY <1>3, <2>2
  <2> QED  BY <2>1, <2>3, <2>4, <2>5, <1>1
<1> QED  BY <1>2, <1>3

\* The starts of servers keep the invariant.
LEMMA ServerStarts ==
    ASSUME ServersInv, NEW s \in Servers,
           CountServers(s) \/ StartServer(s) \/ Initialized(s)
           \/ HandshakeFails(s) \/ InsertServer(s)
    PROVE  ServersInv'
<1> USE DEF ServersInv, ServersTypeOK, lives, asks, StartTo
<1>1. CASE CountServers(s)
  <2>1. ServersTypeOK'
    BY <1>1 DEF CountServers
  <2>2. StartFirst' /\ AskInHand' /\ NoneForgotten'
    BY <1>1 DEF CountServers, StartFirst, AskInHand, NoneForgotten
  <2> QED  BY <2>1, <2>2
<1>2. CASE StartServer(s)
  <2>1. ServersTypeOK'
    BY <1>2 DEF StartServer
  <2>2. StartFirst' /\ NoneForgotten'
    BY <1>2 DEF StartServer, StartFirst, NoneForgotten
  <2>3. AskInHand'
    BY <1>2 DEF StartServer, StartFirst, AskInHand
  <2> QED  BY <2>1, <2>2, <2>3
<1>3. CASE Initialized(s)
  <2>1. ServersTypeOK'
    BY <1>3 DEF Initialized
  <2>2. StartFirst' /\ AskInHand' /\ NoneForgotten'
    BY <1>3 DEF Initialized, StartFirst, AskInHand, NoneForgotten
  <2> QED  BY <2>1, <2>2
<1>4. CASE HandshakeFails(s)
  <2>1. ServersTypeOK'
    BY <1>4 DEF HandshakeFails
  <2>2. StartFirst' /\ AskInHand' /\ NoneForgotten'
    BY <1>4 DEF HandshakeFails, StartFirst, AskInHand, NoneForgotten
  <2> QED  BY <2>1, <2>2
<1>5. CASE InsertServer(s)
  <2>1. ServersTypeOK'
    BY <1>5 DEF InsertServer
  <2>2. StartFirst' /\ AskInHand' /\ NoneForgotten'
    BY <1>5 DEF InsertServer, StartFirst, AskInHand, NoneForgotten
  <2> QED  BY <2>1, <2>2
<1> QED  BY <1>1, <1>2, <1>3, <1>4, <1>5

\* Requests keep the invariant.
LEMMA ServerAsks ==
    ASSUME ServersInv, NEW a \in Asks,
           (\E s \in Servers : FindServer(a, s))
           \/ SendRequest(a) \/ FrameResolves(a) \/ AskTimesOut(a)
    PROVE  ServersInv'
<1> USE DEF ServersInv, ServersTypeOK, lives, asks
<1>1. ASSUME NEW s \in Servers, FindServer(a, s)  PROVE ServersInv'
  <2>1. ServersTypeOK'
    BY <1>1 DEF FindServer
  <2>2. StartFirst' /\ NoneForgotten'
    BY <1>1 DEF FindServer, StartFirst, NoneForgotten
  <2>3. AskInHand'
    BY <1>1 DEF FindServer, StartFirst, AskInHand
  <2> QED  BY <2>1, <2>2, <2>3
<1>2. CASE SendRequest(a)
  <2>1. asked[a] \in Servers /\ readTask[asked[a]] \in {"on", "over"}
    BY <1>2 DEF SendRequest, AskInHand
  <2>2. ServersTypeOK'
    BY <1>2, <2>1 DEF SendRequest
  <2>3. StartFirst' /\ NoneForgotten'
    BY <1>2 DEF SendRequest, StartFirst, NoneForgotten
  <2>4. AskInHand'
    BY <1>2, <2>1 DEF SendRequest, AskInHand
  <2> QED  BY <2>2, <2>3, <2>4
<1>3. CASE FrameResolves(a)
  <2>1. asked[a] \in Servers
    BY <1>3 DEF FrameResolves, AskInHand
  <2>2. ServersTypeOK'
    BY <1>3, <2>1 DEF FrameResolves
  <2>3. StartFirst' /\ NoneForgotten'
    BY <1>3 DEF FrameResolves, StartFirst, NoneForgotten
  <2>4. AskInHand'
    BY <1>3, <2>1 DEF FrameResolves, AskInHand
  <2> QED  BY <2>2, <2>3, <2>4
<1>4. CASE AskTimesOut(a)
  <2>1. asked[a] \in Servers
    BY <1>4 DEF AskTimesOut, AskInHand
  <2>2. ServersTypeOK'
    BY <1>4, <2>1 DEF AskTimesOut
  <2>3. StartFirst' /\ NoneForgotten'
    BY <1>4 DEF AskTimesOut, StartFirst, NoneForgotten
  <2>4. AskInHand'
    BY <1>4, <2>1 DEF AskTimesOut, AskInHand
  <2> QED  BY <2>2, <2>3, <2>4
<1> QED  BY <1>1, <1>2, <1>3, <1>4

\* Exits, ends and kills keep the invariant: whoever ends a reader task, or
\* takes a server that has none any more, fails the futures of that server.
LEMMA ServerEnds ==
    ASSUME ServersInv, NEW s \in Servers,
           ServerExits(s) \/ ReadLoopEnds(s) \/ IdleTimeout(s)
           \/ GraceOver(s) \/ KillServer(s) \/ KillEnds(s)
    PROVE  ServersInv'
<1> USE DEF ServersInv, ServersTypeOK, lives, asks, FailsAll
<1>1. CASE ServerExits(s)
  <2>1. ServersTypeOK'
    BY <1>1 DEF ServerExits
  <2>2. StartFirst' /\ AskInHand' /\ NoneForgotten'
    BY <1>1 DEF ServerExits, StartFirst, AskInHand, NoneForgotten
  <2> QED  BY <2>1, <2>2
<1>2. CASE ReadLoopEnds(s)
  <2>1. ServersTypeOK'
    BY <1>2 DEF ReadLoopEnds
  <2>2. StartFirst' /\ NoneForgotten'
    BY <1>2 DEF ReadLoopEnds, StartFirst, NoneForgotten
  <2>3. AskInHand'
    BY <1>2, FailedAllTold DEF ReadLoopEnds
  <2> QED  BY <2>1, <2>2, <2>3
<1>3. CASE IdleTimeout(s)
  <2>1. ServersTypeOK'
    BY <1>3 DEF IdleTimeout
  <2>2. StartFirst' /\ AskInHand' /\ NoneForgotten'
    BY <1>3 DEF IdleTimeout, StartFirst, AskInHand, NoneForgotten
  <2> QED  BY <2>1, <2>2
<1>4. CASE GraceOver(s)
  <2>1. ServersTypeOK'
    BY <1>4 DEF GraceOver
  <2>2. StartFirst' /\ AskInHand' /\ NoneForgotten'
    BY <1>4 DEF GraceOver, StartFirst, AskInHand, NoneForgotten
  <2> QED  BY <2>1, <2>2
<1>5. CASE KillServer(s)
  <2>1. ServersTypeOK'
    BY <1>5 DEF KillServer
  <2>2. StartFirst' /\ NoneForgotten'
    BY <1>5 DEF KillServer, StartFirst, NoneForgotten
  <2>3. AskInHand'
    BY <1>5, FailedAllTold DEF KillServer
  <2> QED  BY <2>1, <2>2, <2>3
<1>6. CASE KillEnds(s)
  <2>1. ServersTypeOK'
    BY <1>6 DEF KillEnds
  <2>2. StartFirst' /\ NoneForgotten'
    BY <1>6 DEF KillEnds, StartFirst, NoneForgotten
  <2>3. AskInHand'
    BY <1>6, FailedAllTold DEF KillEnds
  <2> QED  BY <2>1, <2>2, <2>3
<1> QED  BY <1>1, <1>2, <1>3, <1>4, <1>5, <1>6

\* Servers taken from the registry are in the hands of who took them.
LEMMA ServerTakes ==
    ASSUME ServersInv, NEW which \in SUBSET registered,
           NEW to \in {"shutdown", "kill"}, Takes(which, to)
    PROVE  ServersInv'
<1> USE DEF ServersInv, ServersTypeOK, Takes, asks
<1>1. ServersTypeOK'
  OBVIOUS
<1>2. StartFirst' /\ NoneForgotten'
  BY DEF StartFirst, NoneForgotten
<1>3. AskInHand'
  BY DEF AskInHand
<1> QED  BY <1>1, <1>2, <1>3

\* NothingLost, for any number of servers and requests: a server that runs is
\* registered or in somebody's hands, and the end of a reader task leaves
\* nobody waiting who asked before it (lsp_start, _kill_lsp_handle and the
\* finally of the reader task).
THEOREM ServersLoseNothing == ServersSpec => [](ServersTypeOK /\ NothingLost)
<1>1. ServersInit => ServersInv
  BY DEF ServersInit, ServersInv, ServersTypeOK, StartFirst, AskInHand, NoneForgotten
<1>2. ServersInv /\ [ServersNext]_servervars => ServersInv'
  <2> SUFFICES ASSUME ServersInv, [ServersNext]_servervars  PROVE ServersInv'
    OBVIOUS
  <2>1. CASE UNCHANGED servervars
    BY <2>1 DEF servervars, ServersInv, ServersTypeOK, StartFirst, AskInHand, NoneForgotten
  <2>2. ASSUME NEW s \in Servers, StopServer(s)  PROVE ServersInv'
    BY <2>2, ServerTakes DEF StopServer
  <2>3. CASE KillAllServers \/ ReapIdleServers
    BY <2>3, ServerTakes DEF KillAllServers, ReapIdleServers
  <2> QED
    BY <2>1, <2>2, <2>3, ServerStarts, ServerAsks, ServerEnds DEF ServersNext
<1>3. ServersInv => ServersTypeOK /\ NothingLost
  BY DEF ServersInv, AskInHand, NothingLost, NoneLeftWaiting
<1> QED  BY <1>1, <1>2, <1>3, PTL DEF ServersSpec
=============================================================================
