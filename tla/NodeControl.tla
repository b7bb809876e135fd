----------------------------- MODULE NodeControl -----------------------------
(***************************************************************************)
(* One Node Hibernator's NodeControl (node/control.go): StartClient,        *)
(* StopClient and CheckClientUpStatus, called by any number of goroutines,  *)
(* over the blockchain client and privacy manager processes they control.   *)
(*                                                                          *)
(* Every access to state that another goroutine may change is a step of its *)
(* own: the mutex startStopMux serialises StartClient and StopClient, but   *)
(* CheckClientUpStatus writes clientStatus and the cached process statuses  *)
(* without it.                                                              *)
(***************************************************************************)
EXTENDS Naturals, FiniteSets

CONSTANTS
    Goroutines,     \* the goroutines that call into NodeControl
    Checkers,       \* those that call CheckClientUpStatus outside StartClient
    NoOne,          \* "startStopMux is not held"
    WithPrivMan,    \* a privacy manager is configured next to the client
    Docker,         \* the processes run as containers; the others use shell
    StrictMode,     \* BasicConfig.DisableStrictMode is false
    MayFail,        \* start/stop commands can fail or run out of retries
    FlakyUpcheck,   \* an upcheck of a running process can fail
    Backend         \* processes may be started or die behind NodeControl

Procs == {"bc"} \cup (IF WithPrivMan THEN {"pm"} ELSE {})

ASSUME ConstantsAssumption ==
    /\ NoOne \notin Goroutines
    /\ Checkers \subseteq Goroutines
    /\ WithPrivMan \in BOOLEAN
    /\ Docker \subseteq {"bc", "pm"}
    /\ {StrictMode, MayFail, FlakyUpcheck, Backend} \subseteq BOOLEAN

VARIABLES
    nodeStatus,     \* what peers and proxies are told: core.NodeStatus
    clientStatus,   \* cached core.ClientStatus; "Unset" is its zero value
    mux,            \* the goroutine that holds startStopMux
    pc,             \* where each goroutine is
    look,           \* the upchecks of each goroutine's CheckClientUpStatus
    work,           \* the Start/Stop of each process by the mutex holder
    ret,            \* the boolean each goroutine's last call returned
    running,        \* external: the process really answers its upcheck
    status          \* Process.status, the cache of the last upcheck

vars == <<nodeStatus, clientStatus, mux, pc, look, work, ret, running, status>>

StartPCs == {"startAgain", "startMark", "startPm", "startBc", "startDone",
             "startOk"}
StopPCs == {"stopCons", "stopWait", "stopPeers", "stopProcs", "stopDone",
            "stopCW", "stopSleep"}
PCs == {"idle", "check", "fetch", "startLock", "stopLock"}
         \cup StartPCs \cup StopPCs

NodeStatuses == {"OK", "ShutdownInprogress", "StartupInprogress",
                 "ConsensusWait"}

\* How far one UpdateStatus of a status check is: the upcheck has answered up
\* or down, the answer is stored, the field has been read back as ...
LookStates == {"todo", "up", "down", "stored", "isUp", "isDown"}

\* ... and how far Process.Start or Process.Stop is.
WorkStates == {"todo", "wait", "read", "isUp", "isDown", "ok", "err"}

\* One type invariant for the variables of NodeControl.
TypeOK ==
    /\ nodeStatus \in NodeStatuses
    /\ clientStatus \in {"Unset", "Up", "Down"}
    /\ mux \in Goroutines \cup {NoOne}
    /\ pc \in [Goroutines -> PCs]
    /\ look \in [Goroutines -> [Procs -> LookStates]]
    /\ work \in [Procs -> WorkStates]
    /\ ret \in [Goroutines -> BOOLEAN]
    /\ running \in [Procs -> BOOLEAN]
    /\ status \in [Procs -> BOOLEAN]

Todo == [p \in Procs |-> "todo"]

\* The answers an upcheck of process p can give.
Upcheck(p) == {running[p]} \cup (IF FlakyUpcheck THEN {FALSE} ELSE {})

\* NewNodeControl: the processes are created (and upchecked once) in whatever
\* state the machine is in; clientStatus keeps its zero value.
Init ==
    /\ nodeStatus = "OK"
    /\ clientStatus = "Unset"
    /\ mux = NoOne
    /\ pc = [g \in Goroutines |-> "idle"]
    /\ look = [g \in Goroutines |-> Todo]
    /\ work = Todo
    /\ ret = [g \in Goroutines |-> FALSE]
    /\ running \in [Procs -> BOOLEAN]
    /\ status \in [Procs -> BOOLEAN]
    /\ \A p \in Procs : status[p] \in Upcheck(p)

------------------------------------------------------------------------------
(* Shared pieces *)

IsClientUp == clientStatus = "Up"

IsNodeBusy == nodeStatus \in {"ShutdownInprogress", "StartupInprogress"}

Goto(g, label) == pc' = [pc EXCEPT ![g] = label]

\* `return r` of a call made without startStopMux.
Return(g, r) == Goto(g, "idle") /\ ret' = [ret EXCEPT ![g] = r]

\* `return r` of StartClient or StopClient: the deferred Unlock runs.
Unlock(g, r) == Return(g, r) /\ mux' = NoOne

------------------------------------------------------------------------------
(* CheckClientUpStatus(connectToClient).  A goroutine that holds the mutex  *)
(* in these steps is inside StartClient.                                    *)

\* The call. Without connectToClient it returns false when the cached status
\* is not Up; otherwise it goes on to ask the processes.
CallCheck(g, connectToClient) ==
    /\ pc[g] = "idle"
    /\ Goto(g, IF connectToClient THEN "fetch" ELSE "check")
    /\ UNCHANGED <<nodeStatus, clientStatus, mux, look, work, ret, running,
                   status>>

CheckCached(g) ==
    /\ pc[g] = "check"
    /\ \/ IsClientUp /\ Goto(g, "fetch") /\ UNCHANGED ret
       \/ ~IsClientUp /\ Return(g, FALSE)
    /\ UNCHANGED <<nodeStatus, clientStatus, mux, look, work, running, status>>

\* fetchCurrentClientStatuses asks the processes in parallel: process p
\* answers ...
Probe(g, p) ==
    /\ pc[g] = "fetch"
    /\ look[g][p] = "todo"
    /\ \E up \in Upcheck(p) :
         look' = [look EXCEPT ![g][p] = IF up THEN "up" ELSE "down"]
    /\ UNCHANGED <<nodeStatus, clientStatus, mux, pc, work, ret, running,
                   status>>

\* ... and UpdateStatus stores the answer in Process.status, unlocked.
StoreStatus(g, p) ==
    /\ pc[g] = "fetch"
    /\ look[g][p] \in {"up", "down"}
    /\ status' = [status EXCEPT ![p] = look[g][p] = "up"]
    /\ look' = [look EXCEPT ![g][p] = "stored"]
    /\ UNCHANGED <<nodeStatus, clientStatus, mux, pc, work, ret, running>>

\* UpdateStatus returns the field as it reads it back, which another goroutine
\* may have written in between.
ReadBack(g, p) ==
    /\ pc[g] = "fetch"
    /\ look[g][p] = "stored"
    /\ look' = [look EXCEPT ![g][p] = IF status[p] THEN "isUp" ELSE "isDown"]
    /\ UNCHANGED <<nodeStatus, clientStatus, mux, pc, work, ret, running,
                   status>>

\* wg.Wait() is over, and all processes are up.
Fetched(g) ==
    /\ pc[g] = "fetch"
    /\ \A p \in Procs : look[g][p] \in {"isUp", "isDown"}

AreClientsUp(g) == \A p \in Procs : look[g][p] = "isUp"

\* The return of CheckClientUpStatus: to its caller, or in StartClient to
\* `already up` or to the start of the processes.
CheckReturns(g) ==
    /\ look' = [look EXCEPT ![g] = Todo]
    /\ \/ /\ mux = g /\ ~AreClientsUp(g)
          /\ Goto(g, "startMark")
          /\ UNCHANGED <<mux, ret>>
       \/ mux = g /\ AreClientsUp(g) /\ Unlock(g, TRUE)
       \/ mux # g /\ Return(g, AreClientsUp(g)) /\ UNCHANGED mux

\* Mutant of SetFetched: SetClntStatus is called only when the client is up.
SetFetchedUpOnly(g) ==
    /\ Fetched(g)
    /\ clientStatus' = IF AreClientsUp(g) THEN "Up" ELSE clientStatus
    /\ CheckReturns(g)
    /\ UNCHANGED <<nodeStatus, work, running, status>>

\* SetClntStatus with the combined result, and the return.
SetFetched(g) ==
    /\ Fetched(g)
    /\ clientStatus' = IF AreClientsUp(g) THEN "Up" ELSE "Down"
    /\ CheckReturns(g)
    /\ UNCHANGED <<nodeStatus, work, running, status>>

------------------------------------------------------------------------------
(* Process.Start and Process.Stop, called by the mutex holder *)

\* The command of Process.Stop, or its early return when the cached status is
\* already false. A failed container stop clears the cache, a failed shell
\* command leaves it.
StopCommand(p) ==
    /\ work[p] = "todo"
    /\ \/ /\ ~status[p]
          /\ work' = [work EXCEPT ![p] = "ok"]
          /\ UNCHANGED <<running, status>>
       \/ /\ status[p]
          /\ \E dead \in IF MayFail THEN BOOLEAN ELSE {TRUE} :
               running' = [running EXCEPT ![p] = @ /\ ~dead]
          /\ work' = [work EXCEPT ![p] = "wait"]
          /\ UNCHANGED status
       \/ /\ status[p] /\ MayFail
          /\ \E cleared \in IF p \in Docker THEN BOOLEAN ELSE {FALSE} :
               status' = [status EXCEPT ![p] = ~cleared]
          /\ work' = [work EXCEPT ![p] = "err"]
          /\ UNCHANGED running

\* The upcheck that decides WaitToBeDown or WaitToComeUp: the first with the
\* wanted answer, or the one of the last retry. UpdateStatus stores it ...
WaitUpcheck(p) ==
    /\ work[p] = "wait"
    /\ \E up \in Upcheck(p) : status' = [status EXCEPT ![p] = up]
    /\ work' = [work EXCEPT ![p] = "read"]
    /\ UNCHANGED running

\* ... and returns the field as it reads it back.
WaitRead(p) ==
    /\ work[p] = "read"
    /\ work' = [work EXCEPT ![p] = IF status[p] THEN "isUp" ELSE "isDown"]
    /\ UNCHANGED <<running, status>>

\* The wait ends well when that is the wanted answer; either way setStatus
\* writes it once more.
WaitOver(p, wanted) ==
    /\ work[p] \in {"isUp", "isDown"}
    /\ LET up == work[p] = "isUp" IN
         /\ status' = [status EXCEPT ![p] = up]
         /\ work' = [work EXCEPT ![p] = IF up = wanted THEN "ok" ELSE "err"]
    /\ UNCHANGED running

\* The command of Process.Start, or its early return when the cached status is
\* already true. A failed command leaves the cache alone.
StartCommand(p) ==
    /\ work[p] = "todo"
    /\ \/ /\ status[p]
          /\ work' = [work EXCEPT ![p] = "ok"]
          /\ UNCHANGED running
       \/ /\ ~status[p]
          /\ \E alive \in IF MayFail THEN BOOLEAN ELSE {TRUE} :
               running' = [running EXCEPT ![p] = @ \/ alive]
          /\ work' = [work EXCEPT ![p] = "wait"]
       \/ /\ ~status[p] /\ MayFail
          /\ work' = [work EXCEPT ![p] = "err"]
          /\ UNCHANGED running
    /\ UNCHANGED status

------------------------------------------------------------------------------
(* StartClient *)

CallStart(g) ==
    /\ pc[g] = "idle"
    /\ Goto(g, "startLock")
    /\ UNCHANGED <<nodeStatus, clientStatus, mux, look, work, ret, running,
                   status>>

\* Mutant of StartLock: StartClient does not take startStopMux first.
StartLockUnlocked(g) ==
    /\ pc[g] = "startLock"
    /\ \/ IsClientUp /\ Return(g, TRUE) /\ UNCHANGED mux
       \/ ~IsClientUp /\ Goto(g, "startAgain") /\ mux' = g /\ UNCHANGED ret
    /\ UNCHANGED <<nodeStatus, clientStatus, look, work, running, status>>

\* Lock, and the first IsClientUp of the condition.
StartLock(g) ==
    /\ pc[g] = "startLock"
    /\ mux = NoOne
    /\ \/ IsClientUp /\ Return(g, TRUE) /\ UNCHANGED mux
       \/ ~IsClientUp /\ Goto(g, "startAgain") /\ mux' = g /\ UNCHANGED ret
    /\ UNCHANGED <<nodeStatus, clientStatus, look, work, running, status>>

\* The second IsClientUp: when a status check set Up in between, the whole
\* condition is false and the start goes ahead.
StartAgain(g) ==
    /\ pc[g] = "startAgain"
    /\ Goto(g, IF IsClientUp THEN "startMark" ELSE "fetch")
    /\ UNCHANGED <<nodeStatus, clientStatus, mux, look, work, ret, running,
                   status>>

StartMark(g) ==
    /\ pc[g] = "startMark"
    /\ nodeStatus' = "StartupInprogress"
    /\ work' = Todo
    /\ Goto(g, IF WithPrivMan THEN "startPm" ELSE "startBc")
    /\ UNCHANGED <<clientStatus, mux, look, ret, running, status>>

ProcStart(p) ==
    StartCommand(p) \/ WaitUpcheck(p) \/ WaitRead(p) \/ WaitOver(p, TRUE)

\* The privacy manager is started first; the client is started after it,
\* whether or not that failed.
StartProc(g, p) ==
    /\ pc[g] = IF p = "pm" THEN "startPm" ELSE "startBc"
    /\ ProcStart(p)
    /\ IF work'[p] \in {"ok", "err"}
       THEN Goto(g, IF p = "pm" THEN "startBc" ELSE "startDone")
       ELSE UNCHANGED pc
    /\ UNCHANGED <<nodeStatus, clientStatus, mux, look, ret>>

\* Mutant of WorkDone: `gs || ts` for `gs && ts`.
WorkDoneOr == \E p \in Procs : work[p] = "ok"

WorkDone == \A p \in Procs : work[p] = "ok"

\* Both started: SetClntStatus(Up). Otherwise the status stays
\* StartupInprogress.
StartDone(g) ==
    /\ pc[g] = "startDone"
    /\ \/ /\ WorkDone
          /\ clientStatus' = "Up"
          /\ Goto(g, "startOk")
          /\ UNCHANGED <<mux, ret>>
       \/ ~WorkDone /\ Unlock(g, FALSE) /\ UNCHANGED clientStatus
    /\ UNCHANGED <<nodeStatus, look, work, running, status>>

\* Mutant of StartOk: SetNodeStatus(OK) is missing.
StartOkStillBusy(g) ==
    /\ pc[g] = "startOk"
    /\ Unlock(g, TRUE)
    /\ UNCHANGED <<nodeStatus, clientStatus, look, work, running, status>>

StartOk(g) ==
    /\ pc[g] = "startOk"
    /\ nodeStatus' = "OK"
    /\ Unlock(g, TRUE)
    /\ UNCHANGED <<clientStatus, look, work, running, status>>

StartClient(g) ==
    \/ StartLock(g) \/ StartAgain(g) \/ StartMark(g)
    \/ \E p \in Procs : StartProc(g, p)
    \/ StartDone(g) \/ StartOk(g)

------------------------------------------------------------------------------
(* StopClient *)

CallStop(g) ==
    /\ pc[g] = "idle"
    /\ Goto(g, "stopLock")
    /\ UNCHANGED <<nodeStatus, clientStatus, mux, look, work, ret, running,
                   status>>

\* Mutant of StopLock: the IsNodeBusy check is missing.
StopLockWhileBusy(g) ==
    /\ pc[g] = "stopLock"
    /\ mux = NoOne
    /\ \/ ~IsClientUp /\ Return(g, TRUE) /\ UNCHANGED mux
       \/ IsClientUp /\ Goto(g, "stopCons") /\ mux' = g /\ UNCHANGED ret
    /\ UNCHANGED <<nodeStatus, clientStatus, look, work, running, status>>

\* Lock; `already down` and `busy` return at once.
StopLock(g) ==
    /\ pc[g] = "stopLock"
    /\ mux = NoOne
    /\ \/ ~IsClientUp /\ Return(g, TRUE) /\ UNCHANGED mux
       \/ IsClientUp /\ IsNodeBusy /\ Return(g, FALSE) /\ UNCHANGED mux
       \/ /\ IsClientUp /\ ~IsNodeBusy
          /\ Goto(g, "stopCons")
          /\ mux' = g
          /\ UNCHANGED ret
    /\ UNCHANGED <<nodeStatus, clientStatus, look, work, running, status>>

\* checkAndValidateConsensus: an error, or whether this is a consensus node.
StopCons(g) ==
    /\ pc[g] = "stopCons"
    /\ \/ nodeStatus' = "OK" /\ Unlock(g, FALSE)
       \/ \E consensusNode \in BOOLEAN :
            /\ UNCHANGED nodeStatus
            /\ IF consensusNode /\ StrictMode
               THEN Unlock(g, FALSE)
               ELSE Goto(g, "stopWait") /\ UNCHANGED <<mux, ret>>
    /\ UNCHANGED <<clientStatus, look, work, running, status>>

\* The random sleep is over: announce the shutdown to the peers ...
StopMark(g) ==
    /\ pc[g] = "stopWait"
    /\ nodeStatus' = "ShutdownInprogress"
    /\ Goto(g, "stopPeers")
    /\ UNCHANGED <<clientStatus, mux, look, work, ret, running, status>>

\* Mutants of StopPeers: a failed validation does not take the announcement
\* back, or returns without the deferred Unlock.
StopPeersStillBusy(g) ==
    /\ pc[g] = "stopPeers"
    /\ \/ UNCHANGED <<nodeStatus, work>> /\ Unlock(g, FALSE)
       \/ /\ Goto(g, "stopProcs")
          /\ work' = Todo
          /\ UNCHANGED <<nodeStatus, mux, ret>>
    /\ UNCHANGED <<clientStatus, look, running, status>>

StopPeersStillLocked(g) ==
    /\ pc[g] = "stopPeers"
    /\ \/ nodeStatus' = "OK" /\ Return(g, FALSE) /\ UNCHANGED <<mux, work>>
       \/ /\ Goto(g, "stopProcs")
          /\ work' = Todo
          /\ UNCHANGED <<nodeStatus, mux, ret>>
    /\ UNCHANGED <<clientStatus, look, running, status>>

\* ... and ask them (ValidatePeers).
StopPeers(g) ==
    /\ pc[g] = "stopPeers"
    /\ \/ nodeStatus' = "OK" /\ Unlock(g, FALSE) /\ UNCHANGED work
       \/ /\ Goto(g, "stopProcs")
          /\ work' = Todo
          /\ UNCHANGED <<nodeStatus, mux, ret>>
    /\ UNCHANGED <<clientStatus, look, running, status>>

ProcStop(p) ==
    StopCommand(p) \/ WaitUpcheck(p) \/ WaitRead(p) \/ WaitOver(p, FALSE)

\* stopProcesses runs one goroutine per process and waits for both.
StopProc(g, p) ==
    /\ pc[g] = "stopProcs"
    /\ ProcStop(p)
    /\ IF \A q \in Procs : work'[q] \in {"ok", "err"}
       THEN Goto(g, "stopDone")
       ELSE UNCHANGED pc
    /\ UNCHANGED <<nodeStatus, clientStatus, mux, look, ret>>

\* Mutant of StopDone: SetNodeStatus is given the client's status.
StopDoneWrongSetter(g) ==
    /\ pc[g] = "stopDone"
    /\ \/ /\ WorkDone
          /\ nodeStatus' = "Down"
          /\ Goto(g, "stopCW")
          /\ UNCHANGED <<mux, ret>>
       \/ ~WorkDone /\ Unlock(g, FALSE) /\ UNCHANGED nodeStatus
    /\ UNCHANGED <<clientStatus, look, work, running, status>>

\* Both stopped: SetClntStatus(Down). Otherwise the status stays
\* ShutdownInprogress.
StopDone(g) ==
    /\ pc[g] = "stopDone"
    /\ \/ /\ WorkDone
          /\ clientStatus' = "Down"
          /\ Goto(g, "stopCW")
          /\ UNCHANGED <<mux, ret>>
       \/ ~WorkDone /\ Unlock(g, FALSE) /\ UNCHANGED clientStatus
    /\ UNCHANGED <<nodeStatus, look, work, running, status>>

StopConsensusWait(g) ==
    /\ pc[g] = "stopCW"
    /\ nodeStatus' = "ConsensusWait"
    /\ Goto(g, "stopSleep")
    /\ UNCHANGED <<clientStatus, mux, look, work, ret, running, status>>

\* CONSENSUS_WAIT_TIME is over.
StopOk(g) ==
    /\ pc[g] = "stopSleep"
    /\ nodeStatus' = "OK"
    /\ Unlock(g, TRUE)
    /\ UNCHANGED <<clientStatus, look, work, running, status>>

StopClient(g) ==
    \/ StopLock(g) \/ StopCons(g) \/ StopMark(g) \/ StopPeers(g)
    \/ \E p \in Procs : StopProc(g, p)
    \/ StopDone(g) \/ StopConsensusWait(g) \/ StopOk(g)

CheckClientUpStatus(g) ==
    \/ CheckCached(g)
    \/ \E p \in Procs : Probe(g, p) \/ StoreStatus(g, p) \/ ReadBack(g, p)
    \/ SetFetched(g)

------------------------------------------------------------------------------
(* The environment, and the open component *)

\* A process is started, or dies, without NodeControl.
BackendChange(p) ==
    /\ Backend
    /\ running' = [running EXCEPT ![p] = ~@]
    /\ UNCHANGED <<nodeStatus, clientStatus, mux, pc, look, work, ret, status>>

\* The steps of a call in progress.
Step(g) == StartClient(g) \/ StopClient(g) \/ CheckClientUpStatus(g)

Call(g) ==
    \/ CallStart(g)
    \/ CallStop(g)
    \/ g \in Checkers /\ \E force \in BOOLEAN : CallCheck(g, force)

Next ==
    \/ \E g \in Goroutines : Call(g) \/ Step(g)
    \/ \E p \in Procs : BackendChange(p)

Spec == Init /\ [][Next]_vars

\* The Go scheduler runs every runnable goroutine, and sync.Mutex hands the
\* lock to a waiter that has waited too long (starvation mode): the two lock
\* steps are strongly fair.
Fairness ==
    \A g \in Goroutines :
        /\ WF_vars(Step(g))
        /\ SF_vars(StartLock(g))
        /\ SF_vars(StopLock(g))

FairSpec == Spec /\ Fairness

------------------------------------------------------------------------------
(* Properties *)

\* From SetNodeStatus(ShutdownInprogress) until the processes are down, the
\* status that peers and proxies read says so: no concurrent StartClient,
\* StopClient or status check can hide a shutdown in progress. The same for a
\* start, and ConsensusWait lasts exactly as long as the sleep of StopClient.
StatusTellsPhase ==
    \A g \in Goroutines :
        /\ pc[g] \in {"stopPeers", "stopProcs", "stopDone", "stopCW"}
             => nodeStatus = "ShutdownInprogress"
        /\ pc[g] \in {"startPm", "startBc", "startDone", "startOk"}
             => nodeStatus = "StartupInprogress"
        /\ pc[g] = "stopSleep" <=> nodeStatus = "ConsensusWait" /\ mux = g

\* The node is left busy (and its proxies refuse every request) only by a
\* StartClient or StopClient one of whose processes failed; every other path
\* out of them restores OK.
BusyMeansFailure ==
    mux = NoOne => /\ nodeStatus # "ConsensusWait"
                   /\ IsNodeBusy => \E p \in Procs : work[p] = "err"

\* The inductive strengthening of the two invariants above: who holds the
\* mutex, how far stopProcesses and the two Starts are, and what the status
\* says while StartClient and StopClient have not written it yet.
HolderInv ==
    \A g \in Goroutines :
        /\ pc[g] \in StartPCs \cup StopPCs => mux = g
        /\ mux = g => pc[g] \in StartPCs \cup StopPCs \cup {"fetch"}

WorkInv ==
    \A g \in Goroutines :
        /\ pc[g] = "startBc" =>
             \A p \in Procs \ {"bc"} : work[p] \in {"ok", "err"}
        /\ pc[g] \in {"startDone", "stopDone"} =>
             \A p \in Procs : work[p] \in {"ok", "err"}

Undecided == {"fetch", "startAgain", "startMark"}

QuietInv ==
    /\ \A g \in Goroutines :
         pc[g] \in {"stopCons", "stopWait"} => nodeStatus = "OK"
    /\ nodeStatus = "ConsensusWait" =>
         \E g \in Goroutines : mux = g /\ pc[g] = "stopSleep"
    /\ IsNodeBusy =>
         \/ \E p \in Procs : work[p] = "err"
         \/ \E g \in Goroutines : mux = g /\ pc[g] \notin Undecided

StatusInv ==
    TypeOK /\ HolderInv /\ WorkInv /\ QuietInv /\ StatusTellsPhase

\* Every call of StartClient, StopClient and CheckClientUpStatus returns: no
\* path keeps startStopMux, and no goroutine waits for it forever.
CallsReturn ==
    \A g \in Goroutines : pc[g] # "idle" ~> pc[g] = "idle"

\* A busy node becomes available again unless a process failed to start or
\* stop.
BusyEnds ==
    IsNodeBusy ~> ~IsNodeBusy \/ \E p \in Procs : work[p] = "err"

==============================================================================
