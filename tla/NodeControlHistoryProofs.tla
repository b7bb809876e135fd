----------------------- MODULE NodeControlHistoryProofs -----------------------
(***************************************************************************)
(* What NodeControl's cached statuses say of the real processes, proved for *)
(* every set of goroutines and every setting, with the status monitor       *)
(* running beside StartClient and StopClient and with commands that fail.   *)
(***************************************************************************)
EXTENDS NodeControlHistory, NodeControlProofs

USE DEF NodeStatuses, LookStates, WorkStates, PCs, StartPCs, StopPCs,
        IsClientUp, IsNodeBusy, Goto, Return, Unlock, Agrees

\* The history variable only watches.
LEMMA HistoryOnly == HistorySpec => Spec
<1>1. HistoryInit => Init
  BY DEF HistoryInit
<1>2. [HistoryNext]_historyVars => [Next]_vars
  BY DEF HistoryNext, historyVars
<1>. QED
  BY <1>1, <1>2, PTL DEF HistorySpec, Spec

\* No process starts or dies on its own in a step that is not Disturbed ...
LEMMA OnlyNodeControl ==
    ASSUME TypeOK, ~Disturbed, NEW p \in Procs PROVE ~BackendChange(p)
<1>. SUFFICES ASSUME BackendChange(p) PROVE FALSE
  OBVIOUS
<1>1. running'[p] = ~running[p]
  BY DEF TypeOK, BackendChange
<1>2. running' # running
  BY <1>1 DEF TypeOK
<1>. QED
  BY <1>2 DEF BackendChange, Disturbed, OutsideChange

\* ... and upchecks answer what is true.
LEMMA TrueProbe ==
    ASSUME TypeOK, ~Disturbed, NEW g \in Goroutines, NEW p \in Procs, Probe(g, p)
    PROVE  look' = [look EXCEPT ![g][p] = IF running[p] THEN "up" ELSE "down"]
<1>1. PICK up \in Upcheck(p) :
         look' = [look EXCEPT ![g][p] = IF up THEN "up" ELSE "down"]
  BY DEF Probe
<1>2. look'[g][p] = IF up THEN "up" ELSE "down"
  BY <1>1 DEF TypeOK
<1>3. ~running[p] => up = FALSE
  BY <1>1, UpcheckType DEF Upcheck
<1>4. running[p] => up = TRUE
  BY <1>2, UpcheckType DEF Disturbed, WrongAnswer, Probe
<1>. QED
  BY <1>1, <1>3, <1>4 DEF TypeOK

LEMMA TrueWait ==
    ASSUME TypeOK, ~Disturbed, NEW p \in Procs, WaitUpcheck(p)
    PROVE  status' = [status EXCEPT ![p] = running[p]]
<1>1. work'[p] = "read" /\ work[p] = "wait"
  BY DEF TypeOK, WaitUpcheck
<1>2. status'[p] = running[p]
  BY <1>1 DEF Disturbed, WrongAnswer
<1>. QED
  BY <1>2 DEF TypeOK, WaitUpcheck

------------------------------------------------------------------------------
\* One step of Process.Stop: it ends well only with the process down and the
\* cache agreeing, and leaves the other process alone.
LEMMA StopWork ==
    ASSUME TypeOK, ~Disturbed, NEW p \in Procs, ProcStop(p),
           \A q \in Procs : /\ Stopped(q)
                            /\ work[q] # "wait" => (status[q] => running[q])
    PROVE  \A q \in Procs : /\ Stopped(q)'
                            /\ work'[q] # "wait" => (status'[q] => running'[q])
<1>1. CASE StopCommand(p)
  <2>1. CASE work' = [work EXCEPT ![p] = "ok"] /\ UNCHANGED <<running, status>>
    BY <1>1, <2>1 DEF TypeOK, Stopped, StopCommand
  <2>2. CASE work' = [work EXCEPT ![p] = "wait"] /\ UNCHANGED status
    BY <1>1, <2>2 DEF TypeOK, Stopped, StopCommand
  <2>3. CASE work' = [work EXCEPT ![p] = "err"] /\ UNCHANGED running
    <3>1. PICK cleared \in BOOLEAN : status' = [status EXCEPT ![p] = ~cleared]
      BY <1>1, <2>3 DEF TypeOK, StopCommand
    <3>2. running[p]
      BY <1>1, <2>3 DEF TypeOK, Stopped, StopCommand
    <3>. QED
      BY <2>3, <3>1, <3>2 DEF TypeOK, Stopped
  <2>. QED
    BY <1>1, <2>1, <2>2, <2>3 DEF StopCommand
<1>2. CASE WaitUpcheck(p)
  <2>1. /\ status' = [status EXCEPT ![p] = running[p]]
        /\ work' = [work EXCEPT ![p] = "read"]
        /\ running' = running
    BY <1>2, TrueWait DEF WaitUpcheck
  <2>. QED
    BY <2>1 DEF TypeOK, Stopped
<1>3. CASE WaitRead(p)
  BY <1>3 DEF TypeOK, Stopped, WaitRead
<1>4. CASE WaitOver(p, FALSE)
  BY <1>4 DEF TypeOK, Stopped, WaitOver
<1>. QED
  BY <1>1, <1>2, <1>3, <1>4 DEF ProcStop

\* The same for Process.Start, which also never ends a process.
LEMMA StartWork ==
    ASSUME TypeOK, ~Disturbed, NEW p \in Procs, ProcStart(p),
           \A q \in Procs : Started(q) /\ (status[q] => running[q])
    PROVE  \A q \in Procs : /\ Started(q)' /\ (status'[q] => running'[q])
                            /\ running[q] => running'[q]
<1>1. CASE StartCommand(p)
  BY <1>1 DEF TypeOK, Started, StartCommand
<1>2. CASE WaitUpcheck(p)
  <2>1. /\ status' = [status EXCEPT ![p] = running[p]]
        /\ work' = [work EXCEPT ![p] = "read"]
        /\ running' = running
    BY <1>2, TrueWait DEF WaitUpcheck
  <2>. QED
    BY <2>1 DEF TypeOK, Started
<1>3. CASE WaitRead(p)
  BY <1>3 DEF TypeOK, Started, WaitRead
<1>4. CASE WaitOver(p, TRUE)
  BY <1>4 DEF TypeOK, Started, WaitOver
<1>. QED
  BY <1>1, <1>2, <1>3, <1>4 DEF ProcStart

------------------------------------------------------------------------------
\* The answers that status checks hold stay true.
LEMMA LookStep ==
    ASSUME HistoryInv, clean, StatusInv', ~Disturbed, [Next]_vars
    PROVE  LookInv'
<1>. USE ConstantsAssumption, ProcsType
     DEF HistoryInv, CleanInv, StatusInv, TypeOK, HolderInv, LookInv, IdleInv
<1>1. CASE UNCHANGED vars
  BY <1>1 DEF vars
<1>2. ASSUME NEW g \in Goroutines, Call(g) PROVE LookInv'
  BY <1>2 DEF Call, CallStart, CallStop, CallCheck
<1>3. ASSUME NEW g \in Goroutines, CheckClientUpStatus(g) PROVE LookInv'
  <2>1. CASE CheckCached(g)
    BY <2>1 DEF CheckCached
  <2>2. CASE SetFetched(g)
    BY <2>2 DEF SetFetched, Fetched, AreClientsUp, CheckReturns, Todo
  <2>3. ASSUME NEW p \in Procs, Probe(g, p) PROVE LookInv'
    <3>1. /\ look' = [look EXCEPT ![g][p] = IF running[p] THEN "up" ELSE "down"]
          /\ UNCHANGED <<running, status>>
      BY <2>3, TrueProbe DEF Probe
    <3>. QED
      BY <3>1
  <2>4. ASSUME NEW p \in Procs, StoreStatus(g, p) PROVE LookInv'
    BY <2>4 DEF StoreStatus
  <2>5. ASSUME NEW p \in Procs, ReadBack(g, p) PROVE LookInv'
    BY <2>5 DEF ReadBack
  <2>. QED
    BY <1>3, <2>1, <2>2, <2>3, <2>4, <2>5 DEF CheckClientUpStatus
<1>4. ASSUME NEW g \in Goroutines, StartClient(g) PROVE LookInv'
  <2>1. CASE StartLock(g)
    BY <2>1 DEF StartLock
  <2>2. CASE StartAgain(g)
    BY <2>2 DEF StartAgain
  <2>3. CASE StartMark(g)
    BY <2>3 DEF StartMark
  <2>4. CASE StartDone(g)
    BY <2>4 DEF StartDone
  <2>5. CASE StartOk(g)
    BY <2>5 DEF StartOk
  <2>6. ASSUME NEW p \in Procs, StartProc(g, p) PROVE LookInv'
    BY <2>6 DEF StartProc, Disturbed, Overlap
  <2>. QED
    BY <1>4, <2>1, <2>2, <2>3, <2>4, <2>5, <2>6 DEF StartClient
<1>5. ASSUME NEW g \in Goroutines, StopClient(g) PROVE LookInv'
  <2>1. CASE StopLock(g)
    BY <2>1 DEF StopLock
  <2>2. CASE StopCons(g)
    BY <2>2 DEF StopCons
  <2>3. CASE StopMark(g)
    BY <2>3 DEF StopMark
  <2>4. CASE StopPeers(g)
    BY <2>4 DEF StopPeers
  <2>5. CASE StopDone(g)
    BY <2>5 DEF StopDone
  <2>6. CASE StopConsensusWait(g)
    BY <2>6 DEF StopConsensusWait
  <2>7. CASE StopOk(g)
    BY <2>7 DEF StopOk
  <2>8. ASSUME NEW p \in Procs, StopProc(g, p) PROVE LookInv'
    BY <2>8 DEF StopProc, Disturbed, Overlap
  <2>. QED
    BY <1>5, <2>1, <2>2, <2>3, <2>4, <2>5, <2>6, <2>7, <2>8 DEF StopClient
<1>6. ASSUME NEW p \in Procs, BackendChange(p) PROVE LookInv'
  BY <1>6, OnlyNodeControl
<1>. QED
  BY <1>1, <1>2, <1>3, <1>4, <1>5, <1>6 DEF Next, Step

\* The caches are right, or the node is busy.
LEMMA CacheStep ==
    ASSUME HistoryInv, clean, StatusInv', ~Disturbed, [Next]_vars
    PROVE  CacheInv'
<1>. USE ConstantsAssumption, ProcsType
     DEF HistoryInv, CleanInv, StatusInv, TypeOK, HolderInv, CacheInv
<1>1. CASE UNCHANGED vars
  BY <1>1 DEF vars
<1>2. ASSUME NEW g \in Goroutines, Call(g) PROVE CacheInv'
  BY <1>2 DEF Call, CallStart, CallStop, CallCheck
<1>3. ASSUME NEW g \in Goroutines, CheckClientUpStatus(g) PROVE CacheInv'
  <2>1. CASE CheckCached(g)
    BY <2>1 DEF CheckCached
  <2>2. CASE SetFetched(g)
    BY <2>2 DEF SetFetched, Fetched, AreClientsUp, CheckReturns
  <2>3. ASSUME NEW p \in Procs, Probe(g, p) PROVE CacheInv'
    BY <2>3 DEF Probe
  <2>4. ASSUME NEW p \in Procs, StoreStatus(g, p) PROVE CacheInv'
    BY <2>4 DEF StoreStatus, LookInv
  <2>5. ASSUME NEW p \in Procs, ReadBack(g, p) PROVE CacheInv'
    BY <2>5 DEF ReadBack
  <2>. QED
    BY <1>3, <2>1, <2>2, <2>3, <2>4, <2>5 DEF CheckClientUpStatus
<1>4. ASSUME NEW g \in Goroutines, StartClient(g) PROVE CacheInv'
  <2>1. CASE StartLock(g)
    BY <2>1 DEF StartLock
  <2>2. CASE StartAgain(g)
    BY <2>2 DEF StartAgain
  <2>3. CASE StartMark(g)
    BY <2>3 DEF StartMark
  <2>4. CASE StartDone(g)
    BY <2>4 DEF StartDone
  <2>5. CASE StartOk(g)
    BY <2>5 DEF StartOk, ResultInv
  <2>6. ASSUME NEW p \in Procs, StartProc(g, p) PROVE CacheInv'
    BY <2>6, StartWork DEF StartProc, StatusTellsPhase, ResultInv
  <2>. QED
    BY <1>4, <2>1, <2>2, <2>3, <2>4, <2>5, <2>6 DEF StartClient
<1>5. ASSUME NEW g \in Goroutines, StopClient(g) PROVE CacheInv'
  <2>1. CASE StopLock(g)
    <3>1. \A h \in Goroutines : pc[h] # "stopProcs"
      BY <2>1 DEF StopLock
    <3>2. UNCHANGED <<nodeStatus, running, status>>
      BY <2>1 DEF StopLock
    <3>. QED
      BY <3>1, <3>2
  <2>2. CASE StopCons(g)
    BY <2>2 DEF StopCons, QuietInv
  <2>3. CASE StopMark(g)
    BY <2>3 DEF StopMark
  <2>4. CASE StopPeers(g)
    BY <2>4 DEF StopPeers, ResultInv
  <2>5. CASE StopDone(g)
    BY <2>5 DEF StopDone, ResultInv, StatusTellsPhase, WorkInv, Stopped
  <2>6. CASE StopConsensusWait(g)
    BY <2>6 DEF StopConsensusWait, ResultInv
  <2>7. CASE StopOk(g)
    BY <2>7 DEF StopOk, ResultInv
  <2>8. ASSUME NEW p \in Procs, StopProc(g, p) PROVE CacheInv'
    BY <2>8, StopWork DEF StopProc, StatusTellsPhase, ResultInv
  <2>. QED
    BY <1>5, <2>1, <2>2, <2>3, <2>4, <2>5, <2>6, <2>7, <2>8 DEF StopClient
<1>6. ASSUME NEW p \in Procs, BackendChange(p) PROVE CacheInv'
  BY <1>6, OnlyNodeControl
<1>. QED
  BY <1>1, <1>2, <1>3, <1>4, <1>5, <1>6 DEF Next, Step

\* The results of starts and stops are what the processes do.
LEMMA ResultStep ==
    ASSUME HistoryInv, clean, StatusInv', ~Disturbed, [Next]_vars
    PROVE  ResultInv'
<1>. USE ConstantsAssumption, ProcsType
     DEF HistoryInv, CleanInv, StatusInv, TypeOK, HolderInv, ResultInv
<1>1. CASE UNCHANGED vars
  BY <1>1 DEF vars, Started, Stopped
<1>2. ASSUME NEW g \in Goroutines, Call(g) PROVE ResultInv'
  BY <1>2 DEF Call, CallStart, CallStop, CallCheck, Started, Stopped
<1>3. ASSUME NEW g \in Goroutines, CheckClientUpStatus(g) PROVE ResultInv'
  <2>1. CASE CheckCached(g)
    BY <2>1 DEF CheckCached, Started, Stopped
  <2>2. CASE SetFetched(g)
    BY <2>2 DEF SetFetched, Fetched, AreClientsUp, CheckReturns, Started, Stopped
  <2>3. ASSUME NEW p \in Procs, Probe(g, p) PROVE ResultInv'
    BY <2>3 DEF Probe, Started, Stopped
  <2>4. ASSUME NEW p \in Procs, StoreStatus(g, p) PROVE ResultInv'
    BY <2>4 DEF StoreStatus, LookInv, Started, Stopped
  <2>5. ASSUME NEW p \in Procs, ReadBack(g, p) PROVE ResultInv'
    BY <2>5 DEF ReadBack, Started, Stopped
  <2>. QED
    BY <1>3, <2>1, <2>2, <2>3, <2>4, <2>5 DEF CheckClientUpStatus
<1>4. ASSUME NEW g \in Goroutines, StartClient(g) PROVE ResultInv'
  <2>1. CASE StartLock(g)
    BY <2>1 DEF StartLock
  <2>2. CASE StartAgain(g)
    BY <2>2 DEF StartAgain
  <2>3. CASE StartMark(g)
    BY <2>3 DEF StartMark, CacheInv, Started, Todo
  <2>4. CASE StartDone(g)
    BY <2>4 DEF StartDone, WorkDone, Started
  <2>5. CASE StartOk(g)
    BY <2>5 DEF StartOk
  <2>6. ASSUME NEW p \in Procs, StartProc(g, p) PROVE ResultInv'
    BY <2>6, StartWork DEF StartProc, CacheInv
  <2>. QED
    BY <1>4, <2>1, <2>2, <2>3, <2>4, <2>5, <2>6 DEF StartClient
<1>5. ASSUME NEW g \in Goroutines, StopClient(g) PROVE ResultInv'
  <2>1. CASE StopLock(g)
    BY <2>1 DEF StopLock
  <2>2. CASE StopCons(g)
    BY <2>2 DEF StopCons
  <2>3. CASE StopMark(g)
    BY <2>3 DEF StopMark, CacheInv, QuietInv
  <2>4. CASE StopPeers(g)
    BY <2>4 DEF StopPeers, Stopped, Todo
  <2>5. CASE StopDone(g)
    BY <2>5 DEF StopDone, WorkDone, Stopped
  <2>6. CASE StopConsensusWait(g)
    BY <2>6 DEF StopConsensusWait
  <2>7. CASE StopOk(g)
    BY <2>7 DEF StopOk
  <2>8. ASSUME NEW p \in Procs, StopProc(g, p) PROVE ResultInv'
    BY <2>8, StopWork DEF StopProc, CacheInv
  <2>. QED
    BY <1>5, <2>1, <2>2, <2>3, <2>4, <2>5, <2>6, <2>7, <2>8 DEF StopClient
<1>6. ASSUME NEW p \in Procs, BackendChange(p) PROVE ResultInv'
  BY <1>6, OnlyNodeControl
<1>. QED
  BY <1>1, <1>2, <1>3, <1>4, <1>5, <1>6 DEF Next, Step

\* The client's status is what the processes do, or tells of a failed stop.
LEMMA ClientStep ==
    ASSUME HistoryInv, clean, StatusInv', ~Disturbed, [Next]_vars
    PROVE  ClientInv'
<1>. USE ConstantsAssumption, ProcsType
     DEF HistoryInv, CleanInv, StatusInv, TypeOK, HolderInv, ClientInv
<1>1. CASE UNCHANGED vars
  BY <1>1 DEF vars
<1>2. ASSUME NEW g \in Goroutines, Call(g) PROVE ClientInv'
  BY <1>2 DEF Call, CallStart, CallStop, CallCheck
<1>3. ASSUME NEW g \in Goroutines, CheckClientUpStatus(g) PROVE ClientInv'
  <2>1. CASE CheckCached(g)
    BY <2>1 DEF CheckCached
  <2>2. CASE SetFetched(g)
    BY <2>2 DEF SetFetched, Fetched, AreClientsUp, CheckReturns, LookInv
  <2>3. ASSUME NEW p \in Procs, Probe(g, p) PROVE ClientInv'
    BY <2>3 DEF Probe
  <2>4. ASSUME NEW p \in Procs, StoreStatus(g, p) PROVE ClientInv'
    BY <2>4 DEF StoreStatus
  <2>5. ASSUME NEW p \in Procs, ReadBack(g, p) PROVE ClientInv'
    BY <2>5 DEF ReadBack
  <2>. QED
    BY <1>3, <2>1, <2>2, <2>3, <2>4, <2>5 DEF CheckClientUpStatus
<1>4. ASSUME NEW g \in Goroutines, StartClient(g) PROVE ClientInv'
  <2>1. CASE StartLock(g)
    BY <2>1 DEF StartLock
  <2>2. CASE StartAgain(g)
    BY <2>2 DEF StartAgain
  <2>3. CASE StartMark(g)
    BY <2>3 DEF StartMark
  <2>4. CASE StartDone(g)
    BY <2>4 DEF StartDone, WorkDone, ResultInv, Started
  <2>5. CASE StartOk(g)
    BY <2>5 DEF StartOk
  <2>6. ASSUME NEW p \in Procs, StartProc(g, p) PROVE ClientInv'
    BY <2>6, StartWork DEF StartProc, CacheInv, ResultInv
  <2>. QED
    BY <1>4, <2>1, <2>2, <2>3, <2>4, <2>5, <2>6 DEF StartClient
<1>5. ASSUME NEW g \in Goroutines, StopClient(g) PROVE ClientInv'
  <2>1. CASE StopLock(g)
    BY <2>1 DEF StopLock
  <2>2. CASE StopCons(g)
    BY <2>2 DEF StopCons
  <2>3. CASE StopMark(g)
    BY <2>3 DEF StopMark
  <2>4. CASE StopPeers(g)
    BY <2>4 DEF StopPeers, StatusTellsPhase
  <2>5. CASE StopDone(g)
    BY <2>5 DEF StopDone, StatusTellsPhase
  <2>6. CASE StopConsensusWait(g)
    BY <2>6 DEF StopConsensusWait
  <2>7. CASE StopOk(g)
    BY <2>7 DEF StopOk
  <2>8. ASSUME NEW p \in Procs, StopProc(g, p) PROVE ClientInv'
    BY <2>8 DEF StopProc, StatusTellsPhase
  <2>. QED
    BY <1>5, <2>1, <2>2, <2>3, <2>4, <2>5, <2>6, <2>7, <2>8 DEF StopClient
<1>6. ASSUME NEW p \in Procs, BackendChange(p) PROVE ClientInv'
  BY <1>6, OnlyNodeControl
<1>. QED
  BY <1>1, <1>2, <1>3, <1>4, <1>5, <1>6 DEF Next, Step

------------------------------------------------------------------------------
\* A status check that is over has forgotten its answers.
LEMMA IdleStep ==
    ASSUME TypeOK, IdleInv, [Next]_vars PROVE IdleInv'
<1>. USE ConstantsAssumption, ProcsType DEF TypeOK, IdleInv
<1>1. CASE UNCHANGED vars
  BY <1>1 DEF vars
<1>2. ASSUME NEW g \in Goroutines, Call(g) PROVE IdleInv'
  BY <1>2 DEF Call, CallStart, CallStop, CallCheck
<1>3. ASSUME NEW g \in Goroutines, CheckClientUpStatus(g) PROVE IdleInv'
  <2>1. CASE CheckCached(g)
    BY <2>1 DEF CheckCached
  <2>2. CASE SetFetched(g)
    BY <2>2 DEF SetFetched, Fetched, AreClientsUp, CheckReturns, Todo
  <2>3. ASSUME NEW p \in Procs, Probe(g, p) PROVE IdleInv'
    BY <2>3 DEF Probe
  <2>4. ASSUME NEW p \in Procs, StoreStatus(g, p) PROVE IdleInv'
    BY <2>4 DEF StoreStatus
  <2>5. ASSUME NEW p \in Procs, ReadBack(g, p) PROVE IdleInv'
    BY <2>5 DEF ReadBack
  <2>. QED
    BY <1>3, <2>1, <2>2, <2>3, <2>4, <2>5 DEF CheckClientUpStatus
<1>4. ASSUME NEW g \in Goroutines, StartClient(g) PROVE IdleInv'
  <2>1. CASE StartLock(g)
    BY <2>1 DEF StartLock
  <2>2. CASE StartAgain(g)
    BY <2>2 DEF StartAgain
  <2>3. CASE StartMark(g)
    BY <2>3 DEF StartMark
  <2>4. CASE StartDone(g)
    BY <2>4 DEF StartDone
  <2>5. CASE StartOk(g)
    BY <2>5 DEF StartOk
  <2>6. ASSUME NEW p \in Procs, StartProc(g, p) PROVE IdleInv'
    BY <2>6 DEF StartProc
  <2>. QED
    BY <1>4, <2>1, <2>2, <2>3, <2>4, <2>5, <2>6 DEF StartClient
<1>5. ASSUME NEW g \in Goroutines, StopClient(g) PROVE IdleInv'
  <2>1. CASE StopLock(g)
    BY <2>1 DEF StopLock
  <2>2. CASE StopCons(g)
    BY <2>2 DEF StopCons
  <2>3. CASE StopMark(g)
    BY <2>3 DEF StopMark
  <2>4. CASE StopPeers(g)
    BY <2>4 DEF StopPeers
  <2>5. CASE StopDone(g)
    BY <2>5 DEF StopDone
  <2>6. CASE StopConsensusWait(g)
    BY <2>6 DEF StopConsensusWait
  <2>7. CASE StopOk(g)
    BY <2>7 DEF StopOk
  <2>8. ASSUME NEW p \in Procs, StopProc(g, p) PROVE IdleInv'
    BY <2>8 DEF StopProc
  <2>. QED
    BY <1>5, <2>1, <2>2, <2>3, <2>4, <2>5, <2>6, <2>7, <2>8 DEF StopClient
<1>6. ASSUME NEW p \in Procs, BackendChange(p) PROVE IdleInv'
  BY <1>6 DEF BackendChange
<1>. QED
  BY <1>1, <1>2, <1>3, <1>4, <1>5, <1>6 DEF Next, Step

\* From a coherent state everything starts afresh.
LEMMA CoherentStart ==
    StatusInv /\ IdleInv /\ Coherent => CleanInv
<1>. SUFFICES ASSUME StatusInv, IdleInv, Coherent PROVE CleanInv
  OBVIOUS
<1>1. \A g \in Goroutines : pc[g] \notin StartPCs \cup StopPCs \cup {"fetch"}
  BY ConstantsAssumption DEF StatusInv, HolderInv, Coherent
<1>. QED
  BY <1>1 DEF Coherent, IdleInv, CleanInv, Overlap, LookInv, CacheInv, ResultInv,
              ClientInv

\* The inductive invariant of the history.
THEOREM HistoryInvariant == HistorySpec => []HistoryInv
<1>1. HistoryInit /\ StatusInv => HistoryInv
  <2>. SUFFICES ASSUME HistoryInit, StatusInv PROVE HistoryInv
    OBVIOUS
  <2>1. IdleInv
    BY DEF HistoryInit, Init, Todo, IdleInv
  <2>. QED
    BY <2>1, CoherentStart DEF HistoryInit, HistoryInv, Coherent
<1>2. HistoryInv /\ StatusInv' /\ [HistoryNext]_historyVars => HistoryInv'
  <2>. SUFFICES ASSUME HistoryInv, StatusInv', [HistoryNext]_historyVars PROVE HistoryInv'
    OBVIOUS
  <2>1. CASE UNCHANGED historyVars
    <3>1. UNCHANGED vars /\ clean' = clean
      BY <2>1 DEF historyVars
    <3>2. IdleInv' /\ CleanInv' = CleanInv
      BY <3>1 DEF vars, HistoryInv, IdleInv, CleanInv, Overlap, LookInv, CacheInv,
                  ResultInv, Started, Stopped, ClientInv
    <3>. QED
      BY <3>1, <3>2 DEF HistoryInv
  <2>2. CASE HistoryNext
    <3>1. [Next]_vars /\ clean' = ((clean /\ ~Disturbed) \/ Coherent')
      BY <2>2 DEF HistoryNext
    <3>2. IdleInv'
      BY <3>1, IdleStep DEF HistoryInv, StatusInv
    <3>3. CASE Coherent'
      <4>1. CleanInv'
        BY <3>2, <3>3, CoherentStart, PTL
      <4>. QED
        BY <3>1, <3>2, <3>3, <4>1 DEF HistoryInv
    <3>4. CASE clean /\ ~Disturbed
      <4>1. LookInv' /\ CacheInv' /\ ResultInv' /\ ClientInv'
        BY <3>1, <3>4, LookStep, CacheStep, ResultStep, ClientStep
      <4>2. ~Overlap'
        BY <3>4 DEF Disturbed
      <4>. QED
        BY <3>1, <3>2, <3>4, <4>1, <4>2 DEF HistoryInv, CleanInv
    <3>5. CASE ~Coherent' /\ ~(clean /\ ~Disturbed)
      BY <3>1, <3>2, <3>5 DEF HistoryInv
    <3>. QED
      BY <3>3, <3>4, <3>5
  <2>. QED
    BY <2>1, <2>2
<1>. QED
  BY <1>1, <1>2, HistoryOnly, StatusInvariant, PTL DEF HistorySpec

\* A StopClient that reports success has stopped every process, with status
\* checks running and commands failing, unless it was Disturbed.
THEOREM HibernatedAlwaysStopped == HistorySpec => []HibernatedMeansStopped
<1>1. HistoryInv => HibernatedMeansStopped
  BY DEF HistoryInv, CleanInv, ResultInv, HibernatedMeansStopped
<1>. QED
  BY <1>1, HistoryInvariant, PTL

\* A node that is not busy and whose client is reported Up really serves, unless
\* it was Disturbed.
THEOREM UpAlwaysRunning == HistorySpec => []UpMeansRunning
<1>1. HistoryInv => UpMeansRunning
  BY DEF HistoryInv, CleanInv, ClientInv, UpMeansRunning
<1>. QED
  BY <1>1, HistoryInvariant, PTL

==============================================================================
