-------------------------- MODULE NodeControlProofs --------------------------
(***************************************************************************)
(* Proofs about NodeControl, for every set of goroutines and every setting. *)
(***************************************************************************)
EXTENDS NodeControl, TLAPS

USE DEF NodeStatuses, LookStates, WorkStates, PCs, StartPCs, StopPCs,
        Undecided, IsClientUp, IsNodeBusy, Goto, Return, Unlock

\* The blockchain client is always among the processes.
LEMMA ProcsType ==
    /\ "bc" \in Procs
    /\ Procs \subseteq {"bc", "pm"}
    /\ "pm" \in Procs <=> WithPrivMan
BY ConstantsAssumption DEF Procs

\* A fresh round of upchecks or of process work.
LEMMA TodoType ==
    /\ Todo \in [Procs -> LookStates]
    /\ Todo \in [Procs -> WorkStates]
BY DEF Todo

\* An upcheck answers with a boolean.
LEMMA UpcheckType ==
    ASSUME TypeOK, NEW p \in Procs
    PROVE  Upcheck(p) \subseteq BOOLEAN
BY DEF TypeOK, Upcheck

------------------------------------------------------------------------------
\* What the steps of Process.Start and Process.Stop preserve: the type of the
\* process state, and the results already in.
LEMMA ProcWorkType ==
    ASSUME TypeOK, NEW p \in Procs, ProcStart(p) \/ ProcStop(p)
    PROVE  /\ work' \in [Procs -> WorkStates]
           /\ running' \in [Procs -> BOOLEAN]
           /\ status' \in [Procs -> BOOLEAN]
           /\ \A q \in Procs : work[q] \in {"ok", "err"} =>
                                 work'[q] = work[q]
<1>1. CASE StopCommand(p)
  BY <1>1 DEF TypeOK, StopCommand
<1>2. CASE StartCommand(p)
  BY <1>2 DEF TypeOK, StartCommand
<1>3. CASE WaitUpcheck(p)
  BY <1>3, UpcheckType DEF TypeOK, WaitUpcheck
<1>4. CASE WaitOver(p, TRUE) \/ WaitOver(p, FALSE)
  BY <1>4 DEF TypeOK, WaitOver
<1>5. CASE WaitRead(p)
  BY <1>5 DEF TypeOK, WaitRead
<1>. QED
  BY <1>1, <1>2, <1>3, <1>4, <1>5 DEF ProcStart, ProcStop

------------------------------------------------------------------------------
\* NodeControl's variables keep their types.
LEMMA TypeStep == TypeOK /\ [Next]_vars => TypeOK'
<1>. SUFFICES ASSUME TypeOK, [Next]_vars PROVE TypeOK'
  OBVIOUS
<1>. USE ConstantsAssumption, TodoType
<1>1. CASE UNCHANGED vars
  BY <1>1 DEF TypeOK, vars
<1>2. ASSUME NEW g \in Goroutines, Call(g) PROVE TypeOK'
  <2>1. CASE CallStart(g)
    BY <2>1 DEF TypeOK, CallStart
  <2>2. CASE CallStop(g)
    BY <2>2 DEF TypeOK, CallStop
  <2>3. ASSUME NEW force \in BOOLEAN, CallCheck(g, force) PROVE TypeOK'
    BY <2>3 DEF TypeOK, CallCheck
  <2>. QED
    BY <1>2, <2>1, <2>2, <2>3 DEF Call
<1>3. ASSUME NEW g \in Goroutines, CheckClientUpStatus(g) PROVE TypeOK'
  <2>1. CASE CheckCached(g)
    BY <2>1 DEF TypeOK, CheckCached
  <2>2. ASSUME NEW p \in Procs, Probe(g, p) PROVE TypeOK'
    BY <2>2 DEF TypeOK, Probe
  <2>3. ASSUME NEW p \in Procs, StoreStatus(g, p) PROVE TypeOK'
    BY <2>3 DEF TypeOK, StoreStatus
  <2>4. ASSUME NEW p \in Procs, ReadBack(g, p) PROVE TypeOK'
    BY <2>4 DEF TypeOK, ReadBack
  <2>5. CASE SetFetched(g)
    BY <2>5 DEF TypeOK, Fetched, CheckReturns, AreClientsUp, SetFetched
  <2>. QED
    BY <1>3, <2>1, <2>2, <2>3, <2>4, <2>5 DEF CheckClientUpStatus
<1>4. ASSUME NEW g \in Goroutines, StartClient(g) PROVE TypeOK'
  <2>1. CASE StartLock(g)
    BY <2>1 DEF TypeOK, StartLock
  <2>2. CASE StartAgain(g)
    BY <2>2 DEF TypeOK, StartAgain
  <2>3. CASE StartMark(g)
    BY <2>3 DEF TypeOK, StartMark
  <2>4. ASSUME NEW p \in Procs, StartProc(g, p) PROVE TypeOK'
    BY <2>4, ProcWorkType DEF TypeOK, StartProc
  <2>5. CASE StartDone(g)
    BY <2>5 DEF TypeOK, StartDone
  <2>6. CASE StartOk(g)
    BY <2>6 DEF TypeOK, StartOk
  <2>. QED
    BY <1>4, <2>1, <2>2, <2>3, <2>4, <2>5, <2>6 DEF StartClient
<1>5. ASSUME NEW g \in Goroutines, StopClient(g) PROVE TypeOK'
  <2>1. CASE StopLock(g)
    BY <2>1 DEF TypeOK, StopLock
  <2>2. CASE StopCons(g)
    <3>1. CASE nodeStatus' = "OK" /\ Unlock(g, FALSE)
      BY <2>2, <3>1 DEF TypeOK, StopCons
    <3>2. CASE UNCHANGED nodeStatus /\ Unlock(g, FALSE)
      BY <2>2, <3>2 DEF TypeOK, StopCons
    <3>3. CASE UNCHANGED <<nodeStatus, mux, ret>> /\ Goto(g, "stopWait")
      BY <2>2, <3>3 DEF TypeOK, StopCons
    <3>. QED
      BY <2>2, <3>1, <3>2, <3>3 DEF StopCons
  <2>3. CASE StopMark(g)
    BY <2>3 DEF TypeOK, StopMark
  <2>4. CASE StopPeers(g)
    BY <2>4 DEF TypeOK, StopPeers
  <2>5. ASSUME NEW p \in Procs, StopProc(g, p) PROVE TypeOK'
    BY <2>5, ProcWorkType DEF TypeOK, StopProc
  <2>6. CASE StopDone(g)
    BY <2>6 DEF TypeOK, StopDone
  <2>7. CASE StopConsensusWait(g)
    BY <2>7 DEF TypeOK, StopConsensusWait
  <2>8. CASE StopOk(g)
    BY <2>8 DEF TypeOK, StopOk
  <2>. QED
    BY <1>5, <2>1, <2>2, <2>3, <2>4, <2>5, <2>6, <2>7, <2>8 DEF StopClient
<1>6. ASSUME NEW p \in Procs, BackendChange(p) PROVE TypeOK'
  BY <1>6 DEF TypeOK, BackendChange
<1>. QED
  BY <1>1, <1>2, <1>3, <1>4, <1>5, <1>6 DEF Next, Step

------------------------------------------------------------------------------
\* Between lock and unlock a goroutine keeps the mutex, and nobody else does.
LEMMA HolderStep ==
    StatusInv /\ TypeOK' /\ [Next]_vars => HolderInv'
<1>. SUFFICES ASSUME StatusInv, TypeOK', [Next]_vars PROVE HolderInv'
  OBVIOUS
<1>. USE ConstantsAssumption, ProcsType DEF StatusInv, TypeOK, HolderInv
<1>1. CASE UNCHANGED vars
  BY <1>1 DEF vars
<1>2. ASSUME NEW g \in Goroutines, Call(g) PROVE HolderInv'
  <2>1. CASE CallStart(g)
    BY <2>1 DEF CallStart
  <2>2. CASE CallStop(g)
    BY <2>2 DEF CallStop
  <2>3. ASSUME NEW force \in BOOLEAN, CallCheck(g, force) PROVE HolderInv'
    BY <2>3 DEF CallCheck
  <2>. QED
    BY <1>2, <2>1, <2>2, <2>3 DEF Call
<1>3. ASSUME NEW g \in Goroutines, CheckClientUpStatus(g) PROVE HolderInv'
  <2>1. CASE CheckCached(g)
    BY <2>1 DEF CheckCached
  <2>2. CASE SetFetched(g)
    BY <2>2 DEF SetFetched, Fetched, CheckReturns
  <2>3. ASSUME NEW p \in Procs, Probe(g, p) PROVE HolderInv'
    BY <2>3 DEF Probe
  <2>4. ASSUME NEW p \in Procs, StoreStatus(g, p) PROVE HolderInv'
    BY <2>4 DEF StoreStatus
  <2>5. ASSUME NEW p \in Procs, ReadBack(g, p) PROVE HolderInv'
    BY <2>5 DEF ReadBack
  <2>. QED
    BY <1>3, <2>1, <2>2, <2>3, <2>4, <2>5 DEF CheckClientUpStatus
<1>4. ASSUME NEW g \in Goroutines, StartClient(g) PROVE HolderInv'
  <2>1. CASE StartLock(g)
    BY <2>1 DEF StartLock
  <2>2. CASE StartAgain(g)
    BY <2>2 DEF StartAgain
  <2>3. CASE StartMark(g)
    BY <2>3 DEF StartMark
  <2>4. CASE StartDone(g)
    BY <2>4 DEF StartDone
  <2>5. CASE StartOk(g)
    BY <2>5 DEF StartOk
  <2>6. ASSUME NEW p \in Procs, StartProc(g, p) PROVE HolderInv'
    BY <2>6, ProcWorkType DEF StartProc
  <2>. QED
    BY <1>4, <2>1, <2>2, <2>3, <2>4, <2>5, <2>6 DEF StartClient
<1>5. ASSUME NEW g \in Goroutines, StopClient(g) PROVE HolderInv'
  <2>1. CASE StopLock(g)
    BY <2>1 DEF StopLock
  <2>2. CASE StopCons(g)
    BY <2>2 DEF StopCons
  <2>3. CASE StopMark(g)
    BY <2>3 DEF StopMark
  <2>4. CASE StopPeers(g)
    BY <2>4 DEF StopPeers
  <2>5. CASE StopDone(g)
    BY <2>5 DEF StopDone
  <2>6. CASE StopConsensusWait(g)
    BY <2>6 DEF StopConsensusWait
  <2>7. CASE StopOk(g)
    BY <2>7 DEF StopOk
  <2>8. ASSUME NEW p \in Procs, StopProc(g, p) PROVE HolderInv'
    BY <2>8, ProcWorkType DEF StopProc
  <2>. QED
    BY <1>5, <2>1, <2>2, <2>3, <2>4, <2>5, <2>6, <2>7, <2>8 DEF StopClient
<1>6. ASSUME NEW p \in Procs, BackendChange(p) PROVE HolderInv'
  BY <1>6 DEF BackendChange
<1>. QED
  BY <1>1, <1>2, <1>3, <1>4, <1>5, <1>6 DEF Next, Step

\* The results of both processes are in before they are looked at.
LEMMA WorkStep ==
    StatusInv /\ TypeOK' /\ [Next]_vars => WorkInv'
<1>. SUFFICES ASSUME StatusInv, TypeOK', [Next]_vars PROVE WorkInv'
  OBVIOUS
<1>. USE ConstantsAssumption, ProcsType DEF StatusInv, TypeOK, HolderInv, WorkInv
<1>1. CASE UNCHANGED vars
  BY <1>1 DEF vars
<1>2. ASSUME NEW g \in Goroutines, Call(g) PROVE WorkInv'
  <2>1. CASE CallStart(g)
    BY <2>1 DEF CallStart
  <2>2. CASE CallStop(g)
    BY <2>2 DEF CallStop
  <2>3. ASSUME NEW force \in BOOLEAN, CallCheck(g, force) PROVE WorkInv'
    BY <2>3 DEF CallCheck
  <2>. QED
    BY <1>2, <2>1, <2>2, <2>3 DEF Call
<1>3. ASSUME NEW g \in Goroutines, CheckClientUpStatus(g) PROVE WorkInv'
  <2>1. CASE CheckCached(g)
    BY <2>1 DEF CheckCached
  <2>2. CASE SetFetched(g)
    BY <2>2 DEF SetFetched, Fetched, CheckReturns
  <2>3. ASSUME NEW p \in Procs, Probe(g, p) PROVE WorkInv'
    BY <2>3 DEF Probe
  <2>4. ASSUME NEW p \in Procs, StoreStatus(g, p) PROVE WorkInv'
    BY <2>4 DEF StoreStatus
  <2>5. ASSUME NEW p \in Procs, ReadBack(g, p) PROVE WorkInv'
    BY <2>5 DEF ReadBack
  <2>. QED
    BY <1>3, <2>1, <2>2, <2>3, <2>4, <2>5 DEF CheckClientUpStatus
<1>4. ASSUME NEW g \in Goroutines, StartClient(g) PROVE WorkInv'
  <2>1. CASE StartLock(g)
    BY <2>1 DEF StartLock
  <2>2. CASE StartAgain(g)
    BY <2>2 DEF StartAgain
  <2>3. CASE StartMark(g)
    BY <2>3 DEF StartMark
  <2>4. CASE StartDone(g)
    BY <2>4 DEF StartDone
  <2>5. CASE StartOk(g)
    BY <2>5 DEF StartOk
  <2>6. ASSUME NEW p \in Procs, StartProc(g, p) PROVE WorkInv'
    BY <2>6, ProcWorkType DEF StartProc
  <2>. QED
    BY <1>4, <2>1, <2>2, <2>3, <2>4, <2>5, <2>6 DEF StartClient
<1>5. ASSUME NEW g \in Goroutines, StopClient(g) PROVE WorkInv'
  <2>1. CASE StopLock(g)
    BY <2>1 DEF StopLock
  <2>2. CASE StopCons(g)
    BY <2>2 DEF StopCons
  <2>3. CASE StopMark(g)
    BY <2>3 DEF StopMark
  <2>4. CASE StopPeers(g)
    BY <2>4 DEF StopPeers
  <2>5. CASE StopDone(g)
    BY <2>5 DEF StopDone
  <2>6. CASE StopConsensusWait(g)
    BY <2>6 DEF StopConsensusWait
  <2>7. CASE StopOk(g)
    BY <2>7 DEF StopOk
  <2>8. ASSUME NEW p \in Procs, StopProc(g, p) PROVE WorkInv'
    BY <2>8, ProcWorkType DEF StopProc
  <2>. QED
    BY <1>5, <2>1, <2>2, <2>3, <2>4, <2>5, <2>6, <2>7, <2>8 DEF StopClient
<1>6. ASSUME NEW p \in Procs, BackendChange(p) PROVE WorkInv'
  BY <1>6 DEF BackendChange
<1>. QED
  BY <1>1, <1>2, <1>3, <1>4, <1>5, <1>6 DEF Next, Step

\* The status between operations is OK, or tells of a failure.
LEMMA QuietStep ==
    StatusInv /\ TypeOK' /\ [Next]_vars => QuietInv'
<1>. SUFFICES ASSUME StatusInv, TypeOK', [Next]_vars PROVE QuietInv'
  OBVIOUS
<1>. USE ConstantsAssumption, ProcsType DEF StatusInv, TypeOK, HolderInv, WorkInv, QuietInv, StatusTellsPhase, WorkDone
<1>1. CASE UNCHANGED vars
  BY <1>1 DEF vars
<1>2. ASSUME NEW g \in Goroutines, Call(g) PROVE QuietInv'
  <2>1. CASE CallStart(g)
    BY <2>1 DEF CallStart
  <2>2. CASE CallStop(g)
    BY <2>2 DEF CallStop
  <2>3. ASSUME NEW force \in BOOLEAN, CallCheck(g, force) PROVE QuietInv'
    BY <2>3 DEF CallCheck
  <2>. QED
    BY <1>2, <2>1, <2>2, <2>3 DEF Call
<1>3. ASSUME NEW g \in Goroutines, CheckClientUpStatus(g) PROVE QuietInv'
  <2>1. CASE CheckCached(g)
    BY <2>1 DEF CheckCached
  <2>2. CASE SetFetched(g)
    BY <2>2 DEF SetFetched, Fetched, CheckReturns
  <2>3. ASSUME NEW p \in Procs, Probe(g, p) PROVE QuietInv'
    BY <2>3 DEF Probe
  <2>4. ASSUME NEW p \in Procs, StoreStatus(g, p) PROVE QuietInv'
    BY <2>4 DEF StoreStatus
  <2>5. ASSUME NEW p \in Procs, ReadBack(g, p) PROVE QuietInv'
    BY <2>5 DEF ReadBack
  <2>. QED
    BY <1>3, <2>1, <2>2, <2>3, <2>4, <2>5 DEF CheckClientUpStatus
<1>4. ASSUME NEW g \in Goroutines, StartClient(g) PROVE QuietInv'
  <2>1. CASE StartLock(g)
    BY <2>1 DEF StartLock
  <2>2. CASE StartAgain(g)
    BY <2>2 DEF StartAgain
  <2>3. CASE StartMark(g)
    BY <2>3 DEF StartMark
  <2>4. CASE StartDone(g)
    BY <2>4 DEF StartDone
  <2>5. CASE StartOk(g)
    BY <2>5 DEF StartOk
  <2>6. ASSUME NEW p \in Procs, StartProc(g, p) PROVE QuietInv'
    BY <2>6, ProcWorkType DEF StartProc
  <2>. QED
    BY <1>4, <2>1, <2>2, <2>3, <2>4, <2>5, <2>6 DEF StartClient
<1>5. ASSUME NEW g \in Goroutines, StopClient(g) PROVE QuietInv'
  <2>1. CASE StopLock(g)
    BY <2>1 DEF StopLock
  <2>2. CASE StopCons(g)
    BY <2>2 DEF StopCons
  <2>3. CASE StopMark(g)
    BY <2>3 DEF StopMark
  <2>4. CASE StopPeers(g)
    BY <2>4 DEF StopPeers
  <2>5. CASE StopDone(g)
    BY <2>5 DEF StopDone
  <2>6. CASE StopConsensusWait(g)
    BY <2>6 DEF StopConsensusWait
  <2>7. CASE StopOk(g)
    BY <2>7 DEF StopOk
  <2>8. ASSUME NEW p \in Procs, StopProc(g, p) PROVE QuietInv'
    BY <2>8, ProcWorkType DEF StopProc
  <2>. QED
    BY <1>5, <2>1, <2>2, <2>3, <2>4, <2>5, <2>6, <2>7, <2>8 DEF StopClient
<1>6. ASSUME NEW p \in Procs, BackendChange(p) PROVE QuietInv'
  BY <1>6 DEF BackendChange
<1>. QED
  BY <1>1, <1>2, <1>3, <1>4, <1>5, <1>6 DEF Next, Step

\* The status tells the phase of the operation in progress.
LEMMA PhaseStep ==
    StatusInv /\ TypeOK' /\ [Next]_vars => StatusTellsPhase'
<1>. SUFFICES ASSUME StatusInv, TypeOK', [Next]_vars PROVE StatusTellsPhase'
  OBVIOUS
<1>. USE ConstantsAssumption, ProcsType DEF StatusInv, TypeOK, HolderInv, StatusTellsPhase
<1>1. CASE UNCHANGED vars
  BY <1>1 DEF vars
<1>2. ASSUME NEW g \in Goroutines, Call(g) PROVE StatusTellsPhase'
  <2>1. CASE CallStart(g)
    BY <2>1 DEF CallStart
  <2>2. CASE CallStop(g)
    BY <2>2 DEF CallStop
  <2>3. ASSUME NEW force \in BOOLEAN, CallCheck(g, force) PROVE StatusTellsPhase'
    BY <2>3 DEF CallCheck
  <2>. QED
    BY <1>2, <2>1, <2>2, <2>3 DEF Call
<1>3. ASSUME NEW g \in Goroutines, CheckClientUpStatus(g) PROVE StatusTellsPhase'
  <2>1. CASE CheckCached(g)
    BY <2>1 DEF CheckCached
  <2>2. CASE SetFetched(g)
    BY <2>2 DEF SetFetched, Fetched, CheckReturns
  <2>3. ASSUME NEW p \in Procs, Probe(g, p) PROVE StatusTellsPhase'
    BY <2>3 DEF Probe
  <2>4. ASSUME NEW p \in Procs, StoreStatus(g, p) PROVE StatusTellsPhase'
    BY <2>4 DEF StoreStatus
  <2>5. ASSUME NEW p \in Procs, ReadBack(g, p) PROVE StatusTellsPhase'
    BY <2>5 DEF ReadBack
  <2>. QED
    BY <1>3, <2>1, <2>2, <2>3, <2>4, <2>5 DEF CheckClientUpStatus
<1>4. ASSUME NEW g \in Goroutines, StartClient(g) PROVE StatusTellsPhase'
  <2>1. CASE StartLock(g)
    BY <2>1 DEF StartLock, QuietInv
  <2>2. CASE StartAgain(g)
    BY <2>2 DEF StartAgain
  <2>3. CASE StartMark(g)
    BY <2>3 DEF StartMark
  <2>4. CASE StartDone(g)
    BY <2>4 DEF StartDone
  <2>5. CASE StartOk(g)
    BY <2>5 DEF StartOk
  <2>6. ASSUME NEW p \in Procs, StartProc(g, p) PROVE StatusTellsPhase'
    BY <2>6, ProcWorkType DEF StartProc
  <2>. QED
    BY <1>4, <2>1, <2>2, <2>3, <2>4, <2>5, <2>6 DEF StartClient
<1>5. ASSUME NEW g \in Goroutines, StopClient(g) PROVE StatusTellsPhase'
  <2>1. CASE StopLock(g)
    BY <2>1 DEF StopLock, QuietInv
  <2>2. CASE StopCons(g)
    BY <2>2 DEF StopCons
  <2>3. CASE StopMark(g)
    BY <2>3 DEF StopMark
  <2>4. CASE StopPeers(g)
    BY <2>4 DEF StopPeers
  <2>5. CASE StopDone(g)
    BY <2>5 DEF StopDone
  <2>6. CASE StopConsensusWait(g)
    BY <2>6 DEF StopConsensusWait
  <2>7. CASE StopOk(g)
    BY <2>7 DEF StopOk
  <2>8. ASSUME NEW p \in Procs, StopProc(g, p) PROVE StatusTellsPhase'
    BY <2>8, ProcWorkType DEF StopProc
  <2>. QED
    BY <1>5, <2>1, <2>2, <2>3, <2>4, <2>5, <2>6, <2>7, <2>8 DEF StopClient
<1>6. ASSUME NEW p \in Procs, BackendChange(p) PROVE StatusTellsPhase'
  BY <1>6 DEF BackendChange
<1>. QED
  BY <1>1, <1>2, <1>3, <1>4, <1>5, <1>6 DEF Next, Step
------------------------------------------------------------------------------
\* The inductive invariant holds in every reachable state.
THEOREM StatusInvariant == Spec => []StatusInv
<1>1. Init => StatusInv
  BY ConstantsAssumption, ProcsType, TodoType
  DEF Init, StatusInv, TypeOK, HolderInv, WorkInv, QuietInv, StatusTellsPhase
<1>2. StatusInv /\ [Next]_vars => StatusInv'
  <2>. SUFFICES ASSUME StatusInv, [Next]_vars PROVE StatusInv'
    OBVIOUS
  <2>1. TypeOK'
    BY TypeStep DEF StatusInv
  <2>. QED
    BY <2>1, HolderStep, WorkStep, QuietStep, PhaseStep DEF StatusInv
<1>. QED
  BY <1>1, <1>2, PTL DEF Spec

\* Every variable of NodeControl keeps its type, whatever the callers of
\* StartClient, StopClient and CheckClientUpStatus do.
THEOREM TypeCorrect == Spec => []TypeOK
<1>1. StatusInv => TypeOK
  BY DEF StatusInv
<1>. QED
  BY <1>1, StatusInvariant, PTL

\* SetNodeStatus is only ever called under startStopMux: the status that peers
\* and proxies read always tells the operation in progress.
THEOREM StatusAlwaysTellsPhase == Spec => []StatusTellsPhase
<1>1. StatusInv => StatusTellsPhase
  BY DEF StatusInv
<1>. QED
  BY <1>1, StatusInvariant, PTL

\* A hibernator that refuses requests while nothing is in progress got there
\* by a process that failed to start or stop.
THEOREM BusyAlwaysMeansFailure == Spec => []BusyMeansFailure
<1>1. StatusInv => BusyMeansFailure
  BY ConstantsAssumption DEF StatusInv, QuietInv, BusyMeansFailure
<1>. QED
  BY <1>1, StatusInvariant, PTL

==============================================================================
