------------------------------ MODULE Hibernator ------------------------------
(***************************************************************************)
(* One Node Hibernator at work: NodeControl and the goroutines that call    *)
(* it, namely the start/stop monitor and the client status monitor          *)
(* (node/control.go), the inactivity and resync trackers                    *)
(* (node/activity.go), and the handlers of proxied HTTP requests, websocket *)
(* connections (proxy/) and RPC calls from peers (node/api.go).             *)
(*                                                                          *)
(* They talk over channels of capacity one; a full channel blocks the       *)
(* sender.                                                                  *)
(***************************************************************************)
EXTENDS NodeControl

CONSTANTS
    NodeMonitor, StatusMonitor, Tracker, ResyncTracker,
    Handlers,           \* goroutines that serve one request at a time
    Kinds,              \* the requests they serve: "http", "ws", "rpc", "isUp"
    InactivityTime,     \* in ticks of the tracker
    ResyncSet,          \* BasicConfig.IsResyncTimerSet()
    PollStatus          \* UpchkPollingInterval is short enough to matter

ASSUME HibernatorAssumption ==
    /\ Goroutines = Handlers \cup {NodeMonitor, StatusMonitor, Tracker,
                                   ResyncTracker}
    /\ NodeMonitor \notin {StatusMonitor, Tracker, ResyncTracker}
    /\ StatusMonitor \notin {Tracker, ResyncTracker}
    /\ Tracker # ResyncTracker
    /\ Handlers \cap {NodeMonitor, StatusMonitor, Tracker, ResyncTracker} = {}
    /\ Checkers = Handlers \cup {StatusMonitor, Tracker}
    /\ Kinds \subseteq {"http", "ws", "rpc", "isUp"}
    /\ InactivityTime \in Nat \ {0}
    /\ {ResyncSet, PollStatus} \subseteq BOOLEAN

VARIABLES
    at,         \* where each goroutine is between its calls of NodeControl
    kind,       \* what each handler serves
    full,       \* the channels that hold a message
    count,      \* inactiveTimeCount
    seen,       \* the count that the tracker's `count++` has read
    timer       \* the resync timer: armed, and a tick waiting in its channel

hvars == <<at, kind, full, count, seen, timer>>
allVars == <<vars, hvars>>

Channels == {"stopClnt", "stopClntComplete", "startClnt", "startClntComplete",
             "inactivityReset", "syncReset"}

Places == {"loop", "first", "inc", "process", "check", "wait", "start", "stop",
           "free", "reset", "sync", "decide", "prepare", "connect", "forward",
           "open"}

\* The type invariant of the hibernator's own state.
HTypeOK ==
    /\ at \in [Goroutines -> Places]
    /\ kind \in [Handlers -> {"http", "ws", "rpc", "isUp"}]
    /\ full \subseteq Channels
    /\ count \in Nat
    /\ seen \in Nat
    /\ timer \in [armed : BOOLEAN, tick : BOOLEAN]

HInit ==
    /\ Init
    /\ at = [g \in Goroutines |->
               CASE g \in Handlers -> "free"
                 [] g = StatusMonitor -> "first"
                 [] OTHER -> "loop"]
    /\ kind = [h \in Handlers |-> "http"]
    /\ full = {}
    /\ count = 0
    /\ seen = 0
    /\ timer = [armed |-> ResyncSet, tick |-> FALSE]

At(g, place) == at' = [at EXCEPT ![g] = place]

Send(c) == c \notin full /\ full' = full \cup {c}
Receive(c) == c \in full /\ full' = full \ {c}

\* The goroutine is not inside a call of NodeControl.
Here(g, place) == at[g] = place /\ pc[g] = "idle"

------------------------------------------------------------------------------
(* StartNodeMonitor: serves one start or stop request at a time *)

MonitorStop ==
    /\ Here(NodeMonitor, "loop")
    /\ Receive("stopClnt")
    /\ CallStop(NodeMonitor)
    /\ At(NodeMonitor, "stop")
    /\ UNCHANGED <<kind, count, seen, timer>>

MonitorStart ==
    /\ Here(NodeMonitor, "loop")
    /\ Receive("startClnt")
    /\ CallStart(NodeMonitor)
    /\ At(NodeMonitor, "start")
    /\ UNCHANGED <<kind, count, seen, timer>>

\* Mutant of MonitorDone: the monitor does not report that the stop is over.
MonitorDoneSilent ==
    /\ pc[NodeMonitor] = "idle"
    /\ \/ at[NodeMonitor] = "stop" /\ UNCHANGED full
       \/ at[NodeMonitor] = "start" /\ Send("startClntComplete")
    /\ At(NodeMonitor, "loop")
    /\ UNCHANGED <<vars, kind, count, seen, timer>>

MonitorDone ==
    /\ pc[NodeMonitor] = "idle"
    /\ \/ at[NodeMonitor] = "stop" /\ Send("stopClntComplete")
       \/ at[NodeMonitor] = "start" /\ Send("startClntComplete")
    /\ At(NodeMonitor, "loop")
    /\ UNCHANGED <<vars, kind, count, seen, timer>>

(* startClientStatusMonitor: only the first check connects to the client    *)
(* whatever the cached status is                                            *)

StatusTick ==
    /\ PollStatus
    /\ pc[StatusMonitor] = "idle"
    /\ CallCheck(StatusMonitor, at[StatusMonitor] = "first")
    /\ At(StatusMonitor, "loop")
    /\ UNCHANGED <<kind, full, count, seen, timer>>

------------------------------------------------------------------------------
(* trackInactivity *)

\* Mutant of TrackTick: the limit is tested after one more increment.
TrackTickLate ==
    /\ Here(Tracker, "loop")
    /\ \/ count > InactivityTime /\ At(Tracker, "process") /\ UNCHANGED seen
       \/ count <= InactivityTime /\ At(Tracker, "inc") /\ seen' = count
    /\ UNCHANGED <<vars, kind, full, count, timer>>

TrackTick ==
    /\ Here(Tracker, "loop")
    /\ \/ count = InactivityTime /\ At(Tracker, "process") /\ UNCHANGED seen
       \/ count # InactivityTime /\ At(Tracker, "inc") /\ seen' = count
    /\ UNCHANGED <<vars, kind, full, count, timer>>

\* inactiveTimeCount++ is not atomic: the resync tracker may reset the count
\* after it was read.
TrackIncrement ==
    /\ Here(Tracker, "inc")
    /\ count' = seen + 1
    /\ seen' = 0
    /\ At(Tracker, "loop")
    /\ UNCHANGED <<vars, kind, full, timer>>

TrackReset ==
    /\ Here(Tracker, "loop")
    /\ Receive("inactivityReset")
    /\ count' = 0
    /\ UNCHANGED <<vars, at, kind, seen, timer>>

\* Mutants of ProcessInactivity: the check trusts the cached client status, or
\* a busy node is set back to OK.
ProcessInactivityCached ==
    /\ Here(Tracker, "process")
    /\ \/ /\ IsNodeBusy
          /\ count' = 0
          /\ At(Tracker, "loop")
          /\ UNCHANGED vars
       \/ /\ ~IsNodeBusy
          /\ CallCheck(Tracker, FALSE)
          /\ At(Tracker, "check")
          /\ UNCHANGED count
    /\ UNCHANGED <<kind, full, seen, timer>>

ProcessInactivityClears ==
    /\ Here(Tracker, "process")
    /\ \/ /\ IsNodeBusy
          /\ count' = 0
          /\ At(Tracker, "loop")
          /\ nodeStatus' = "OK"
          /\ UNCHANGED <<clientStatus, mux, pc, look, work, ret, running, status>>
       \/ /\ ~IsNodeBusy
          /\ CallCheck(Tracker, TRUE)
          /\ At(Tracker, "check")
          /\ UNCHANGED count
    /\ UNCHANGED <<kind, full, seen, timer>>

\* processInactivity
ProcessInactivity ==
    /\ Here(Tracker, "process")
    /\ \/ /\ IsNodeBusy
          /\ count' = 0
          /\ At(Tracker, "loop")
          /\ UNCHANGED vars
       \/ /\ ~IsNodeBusy
          /\ CallCheck(Tracker, TRUE)
          /\ At(Tracker, "check")
          /\ UNCHANGED count
    /\ UNCHANGED <<kind, full, seen, timer>>

RequestStop ==
    /\ Here(Tracker, "check")
    /\ \/ /\ ret[Tracker]
          /\ Send("stopClnt")
          /\ At(Tracker, "wait")
          /\ UNCHANGED count
       \/ /\ ~ret[Tracker]
          /\ count' = 0
          /\ At(Tracker, "loop")
          /\ UNCHANGED full
    /\ UNCHANGED <<vars, kind, seen, timer>>

StopCompleted ==
    /\ Here(Tracker, "wait")
    /\ Receive("stopClntComplete")
    /\ count' = 0
    /\ At(Tracker, "loop")
    /\ UNCHANGED <<vars, kind, seen, timer>>

------------------------------------------------------------------------------
(* trackResyncTimer: a one-shot time.Timer *)

TimerFires ==
    /\ timer.armed
    /\ timer' = [armed |-> FALSE, tick |-> TRUE]
    /\ UNCHANGED <<vars, at, kind, full, count, seen>>

\* Mutants of ResyncTick: the tracker does not wait for its request to be
\* served, or takes one tick off the count instead of resetting it.
ResyncTickNoWait ==
    /\ Here(ResyncTracker, "loop")
    /\ timer.tick
    /\ timer' = [timer EXCEPT !.tick = FALSE]
    /\ \/ IsNodeBusy /\ UNCHANGED <<full, count>>
       \/ ~IsNodeBusy /\ count' = 0 /\ Send("startClnt")
    /\ UNCHANGED <<vars, at, kind, seen>>

ResyncTickDecrements ==
    /\ Here(ResyncTracker, "loop")
    /\ timer.tick
    /\ timer' = [timer EXCEPT !.tick = FALSE]
    /\ \/ IsNodeBusy /\ UNCHANGED <<at, full, count>>
       \/ /\ ~IsNodeBusy
          /\ count' = count - 1
          /\ Send("startClnt")
          /\ At(ResyncTracker, "wait")
    /\ UNCHANGED <<vars, kind, seen>>

\* processResyncRequest; ResetInactivity runs in this goroutine.
ResyncTick ==
    /\ Here(ResyncTracker, "loop")
    /\ timer.tick
    /\ timer' = [timer EXCEPT !.tick = FALSE]
    /\ \/ IsNodeBusy /\ UNCHANGED <<at, full, count>>
       \/ /\ ~IsNodeBusy
          /\ count' = 0
          /\ Send("startClnt")
          /\ At(ResyncTracker, "wait")
    /\ UNCHANGED <<vars, kind, seen>>

\* timer.Reset does not drain a tick that is already in the channel.
ResyncReset ==
    /\ Here(ResyncTracker, "loop")
    /\ Receive("syncReset")
    /\ timer' = [timer EXCEPT !.armed = TRUE]
    /\ UNCHANGED <<vars, at, kind, count, seen>>

ResyncStarted ==
    /\ Here(ResyncTracker, "wait")
    /\ Receive("startClntComplete")
    /\ At(ResyncTracker, "loop")
    /\ UNCHANGED <<vars, kind, count, seen, timer>>

------------------------------------------------------------------------------
(* Request handlers *)

\* A request arrives. The HTTP proxy refuses it when the node is busy, and
\* forwards it at once when its path does not count as activity; a websocket
\* connection prepares the client without asking whether the node is busy; the
\* RPC PrepareForPrivateTx resets the timers first.
Arrive(h, k) ==
    /\ Here(h, "free")
    /\ kind' = [kind EXCEPT ![h] = k]
    /\ \/ /\ k = "http" /\ ~IsNodeBusy
          /\ \E place \in {"reset", "forward"} : At(h, place)
          /\ UNCHANGED vars
       \/ k = "ws" /\ CallStart(h) /\ At(h, "connect")
       \/ k = "rpc" /\ At(h, "reset") /\ UNCHANGED vars
       \/ k = "isUp" /\ CallCheck(h, FALSE) /\ At(h, "check")
    /\ UNCHANGED <<full, count, seen, timer>>

\* Where ResetInactiveSyncTime returns to. PrepareForPrivateTx asks whether
\* the node is busy only now; the proxies go on to PrepareClient.
AfterReset(h) ==
    IF kind[h] = "rpc" THEN At(h, "decide") /\ UNCHANGED vars
                       ELSE At(h, "prepare") /\ CallStart(h)

\* ResetInactiveSyncTime blocks while the trackers do not empty the channels.
ResetInactivity(h) ==
    /\ Here(h, "reset")
    /\ Send("inactivityReset")
    /\ IF ResyncSet THEN At(h, "sync") /\ UNCHANGED vars ELSE AfterReset(h)
    /\ UNCHANGED <<kind, count, seen, timer>>

ResetSync(h) ==
    /\ Here(h, "sync")
    /\ Send("syncReset")
    /\ AfterReset(h)
    /\ UNCHANGED <<kind, count, seen, timer>>

\* PrepareForPrivateTx: false at once when busy; otherwise PrepareClient, in
\* the background when the client is not up.
Decide(h) ==
    /\ Here(h, "decide")
    /\ \/ IsNodeBusy /\ At(h, "free") /\ UNCHANGED vars
       \/ ~IsNodeBusy /\ At(h, "prepare") /\ CallStart(h)
    /\ UNCHANGED <<kind, full, count, seen, timer>>

\* PrepareClient has returned. HandlePrivateTx may still turn a request down
\* when a participant is not ready; the HTTP proxy calls it only with a privacy
\* manager.
Prepared(h) ==
    /\ Here(h, "prepare")
    /\ \/ ret[h] /\ kind[h] # "rpc" /\ At(h, "forward")
       \/ (~ret[h] \/ kind[h] # "http" \/ WithPrivMan) /\ At(h, "free")
    /\ UNCHANGED <<vars, kind, full, count, seen, timer>>

\* The client's answer comes back; a websocket stays open.
Forward(h) ==
    /\ Here(h, "forward")
    /\ At(h, IF kind[h] = "ws" THEN "open" ELSE "free")
    /\ UNCHANGED <<vars, kind, full, count, seen, timer>>

\* PrepareClient of a websocket connection has returned; dialling the client
\* or upgrading the connection may still fail.
Connected(h) ==
    /\ Here(h, "connect")
    /\ \/ ret[h] /\ At(h, "open")
       \/ At(h, "free")
    /\ UNCHANGED <<vars, kind, full, count, seen, timer>>

\* A message on an open websocket; a busy node closes the connection, and so
\* may either end.
Message(h) ==
    /\ Here(h, "open")
    /\ \/ ~IsNodeBusy /\ At(h, "reset")
       \/ At(h, "free")
    /\ UNCHANGED <<vars, kind, full, count, seen, timer>>

\* IsNodeUp answers.
Answer(h) ==
    /\ Here(h, "check")
    /\ At(h, "free")
    /\ UNCHANGED <<vars, kind, full, count, seen, timer>>

Handle(h) ==
    \/ ResetInactivity(h) \/ ResetSync(h) \/ Decide(h) \/ Prepared(h)
    \/ Forward(h) \/ Connected(h) \/ Answer(h)

------------------------------------------------------------------------------
Track == \/ TrackTick \/ TrackIncrement \/ ProcessInactivity
         \/ RequestStop \/ StopCompleted

Monitor == MonitorStop \/ MonitorStart \/ MonitorDone

Resync == ResyncTick \/ ResyncStarted

InsideNodeControl ==
    /\ \/ \E g \in Goroutines : Step(g)
       \/ \E p \in Procs : BackendChange(p)
    /\ UNCHANGED hvars

HNext ==
    \/ InsideNodeControl
    \/ Monitor \/ StatusTick \/ Track \/ TrackReset
    \/ TimerFires \/ Resync \/ ResyncReset
    \/ \E h \in Handlers :
         Handle(h) \/ Message(h) \/ \E k \in Kinds : Arrive(h, k)

HSpec == HInit /\ [][HNext]_allVars

\* Every goroutine runs, every ticker ticks and an armed timer fires. A waiter
\* for startStopMux is not passed over forever (sync.Mutex hands the lock over
\* in starvation mode), nor are the ready reset in trackInactivity's select and
\* the ready start request in StartNodeMonitor's (Go picks a case at random).
\* Requests need not arrive.
Lock(g) == StartLock(g) \/ StopLock(g)

HFairness ==
    /\ \A g \in Goroutines : WF_allVars(Step(g) /\ UNCHANGED hvars)
    /\ \A g \in Handlers \cup {NodeMonitor} :
         SF_allVars(Lock(g) /\ UNCHANGED hvars)
    /\ WF_allVars(Monitor) /\ SF_allVars(MonitorStart)
    /\ WF_allVars(StatusTick)
    /\ WF_allVars(Track) /\ SF_allVars(TrackReset)
    /\ WF_allVars(TimerFires) /\ WF_allVars(Resync) /\ WF_allVars(ResyncReset)
    /\ \A h \in Handlers : WF_allVars(Handle(h))

FairHSpec == HSpec /\ HFairness

------------------------------------------------------------------------------
(* Properties *)

\* The tracker's test for equality with InactivityTime is never jumped over,
\* although the resync tracker writes the count without a lock.
CountInRange ==
    /\ count <= InactivityTime
    /\ at[Tracker] = "inc" => seen < InactivityTime

\* No start or stop request and no answer is lost or doubled: while a tracker
\* waits, its request is either queued, being served by the start/stop monitor
\* or answered, exactly one of the three; and none of them otherwise. So the
\* monitor never blocks on an answer nobody reads, and no tracker takes the
\* answer to an earlier request for its own.
ExactlyOne(a, b, c) == IF a THEN ~b /\ ~c ELSE b # c

RequestState(waiting, request, serving, answer) ==
    IF waiting
    THEN ExactlyOne(request \in full, at[NodeMonitor] = serving, answer \in full)
    ELSE request \notin full /\ at[NodeMonitor] # serving /\ answer \notin full

AnswersMatchRequests ==
    /\ RequestState(at[Tracker] = "wait",
                    "stopClnt", "stop", "stopClntComplete")
    /\ RequestState(at[ResyncTracker] = "wait",
                    "startClnt", "start", "startClntComplete")

\* Every accepted request is finished, although its handler may have to wait
\* for a tracker that itself waits for StopClient.
RequestsFinish ==
    \A h \in Handlers :
        at[h] \notin {"free", "open"} ~> at[h] \in {"free", "open"}

\* A cached Up that is no longer true (a check that looked before StopClient
\* stopped the processes wrote it afterwards) does not outlast the requests: the
\* inactivity tracker alone, without the status monitor, asks the client and
\* replaces it.
StaleUp == IsClientUp /\ (\E p \in Procs : ~running[p]) /\ ~IsNodeBusy

RequestsStop == <>[](\A h \in Handlers : at[h] \in {"free", "open"})

StaleUpEnds == RequestsStop => []<>~StaleUp

\* When requests stop coming, a running node is asked to stop again and again
\* until it is down (or stuck).
InactivityNoticed ==
    RequestsStop => []<>(\/ at[NodeMonitor] = "stop"
                         \/ \E p \in Procs : ~running[p]
                         \/ IsNodeBusy)

\* With a resync time configured, a hibernated node is woken up again.
HibernatedWakesUp ==
    ResyncSet => (at[NodeMonitor] = "stop" /\ clientStatus = "Down" ~> IsClientUp)

\* The hibernator uses NodeControl as an open component: what holds for every
\* caller of NodeControl holds here.
UsesNodeControl == Spec

==============================================================================
