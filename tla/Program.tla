------------------------------- MODULE Program -------------------------------
(***************************************************************************)
(* The life of the program: main reads the configuration, builds the node   *)
(* control, the proxies and the RPC server, starts them, waits for a signal *)
(* or for a server that fails, and shuts everything down.  Meanwhile the    *)
(* proxies serve, the client's status is checked and the start/stop monitor *)
(* asks for consensus before a hibernation: what those need of the          *)
(* configuration is modelled here, what they do otherwise in Hibernator.    *)
(***************************************************************************)
EXTENDS Configuration

CONSTANTS
    Configs,        \* what the configuration file may hold
    MaxProxies      \* bound: proxies in a configuration

ASSUME ProgramAssumption ==
    /\ MaxProxies \in Nat
    /\ \A c \in Configs :
         /\ c.proxies \in Seq({c.proxies[i] : i \in DOMAIN c.proxies})
         /\ Len(c.proxies) <= MaxProxies

RPC == 0                            \* the server of the RPC service
Servers == 0 .. MaxProxies
Monitors == {"node", "status", "inactivity", "resync"}
Processes == {"client", "privMan"}
Replies == {"failed", "rpcError", "other", "expected"}

VARIABLES
    cfg, actual,    \* the configuration, and the consensus the client runs
    pc,             \* where main is
    next,           \* how far the range loop over the proxies is
    server,         \* the goroutine of each server
    sig,            \* sigc holds a signal
    monitor,        \* the goroutines of NodeControl
    stopSent,       \* the monitors whose stop channel has been sent to or closed
    consValid, infoFailed,  \* admin_nodeInfo was found to agree; it failed
    rule,           \* the consensus rule used last
    reply, up,      \* what each upcheck URL replies; the cached client status
    panicAt         \* the nil or missing value a goroutine tripped over

vars == <<cfg, actual, pc, next, server, sig, monitor, stopSent, consValid,
          infoFailed, rule, reply, up, panicAt>>

Starting == {"load", "build", "startNode", "startProxies", "startRPC"}
Stopping == {"stopProxies", "stopRPC", "waitRPC", "stopNode", "leave"}
Over == {"exit", "crashed"}
Trips == {"none", "proxyPath", "txHandler", "consensus", "process", "nodeInfo"}

\* The type invariant of the program.
TypeOK ==
    /\ cfg \in Configs
    /\ actual \in {"raft", "istanbul", "clique"}
    /\ pc \in Starting \cup Stopping \cup Over \cup {"run"}
    /\ next \in 1 .. MaxProxies + 1
    /\ server \in [Servers -> {"off", "serving", "closing", "reporting", "gone"}]
    /\ monitor \in [Monitors -> {"off", "running", "stopped"}]
    /\ stopSent \in SUBSET Monitors
    /\ {sig, consValid, infoFailed, up} \subseteq BOOLEAN
    /\ rule \in {"none", "raft", "istanbul", "clique", "besuClique"}
    /\ reply \in [Processes -> Replies]
    /\ panicAt \in Trips

Init ==
    /\ cfg \in Configs
    /\ actual \in {"raft", "istanbul", "clique"}
    /\ \A c \in cfg.client : c.type = "besu" => actual = "clique"
    /\ pc = "load"
    /\ next = 1
    /\ server = [s \in Servers |-> "off"]
    /\ sig = FALSE
    /\ monitor = [m \in Monitors |-> "off"]
    /\ stopSent = {}
    /\ consValid = FALSE /\ infoFailed = FALSE
    /\ rule = "none"
    /\ reply = [w \in Processes |-> "expected"]
    /\ up = TRUE
    /\ panicAt = "none"

------------------------------------------------------------------------------
(* Start *)

running == <<monitor, stopSent, consValid, infoFailed, rule, reply, up, panicAt>>
Go(place) == pc' = place

\* A goroutine of the program trips over a value, and nobody recovers.
Panic(where) == Go("crashed") /\ panicAt' = where

\* readNodeConfigFromFile.
Load ==
    /\ pc = "load"
    /\ Go(IF Loads(cfg) THEN "build" ELSE "exit")
    /\ UNCHANGED <<cfg, actual, next, server, sig, running>>

\* The proxies that MakeProxyServices does not get past.
Unmade == {i \in DOMAIN cfg.proxies : ProxyHandler(cfg.proxies[i]) \in {"error", "panic"}}

\* NewNodeControl, MakeProxyServices and NewRPCService; what they make of the
\* configuration are operators of Configuration.
Build ==
    /\ pc = "build"
    /\ IF Unmade = {} THEN Go("startNode") /\ UNCHANGED panicAt
       ELSE \E i \in Unmade :
              /\ \A j \in Unmade : i <= j
              /\ IF ProxyHandler(cfg.proxies[i]) = "panic" THEN Panic("proxyPath")
                 ELSE Go("exit") /\ UNCHANGED panicAt
    /\ UNCHANGED <<cfg, actual, next, server, sig, monitor, stopSent, consValid,
                   infoFailed, rule, reply, up>>

\* The resync tracker returns at once when no resync time is set. main goes on
\* to range over the proxies.
StartNode ==
    /\ pc = "startNode"
    /\ monitor' = [m \in Monitors |-> IF m = "resync" /\ ~IsResyncTimerSet(cfg)
                                      THEN "stopped" ELSE "running"]
    /\ next' = 1
    /\ Go("startProxies")
    /\ UNCHANGED <<cfg, actual, server, sig, stopSent, consValid, infoFailed,
                   rule, reply, up, panicAt>>

\* Mutant of StartProxy: an index loop that goes on while i <= len.
StartProxyOneTooMany ==
    /\ pc = "startProxies"
    /\ IF next <= Len(cfg.proxies) + 1
       THEN /\ server' = [server EXCEPT ![next] = "serving"]
            /\ next' = next + 1
            /\ UNCHANGED pc
       ELSE Go("startRPC") /\ UNCHANGED <<server, next>>
    /\ UNCHANGED <<cfg, actual, sig, running>>

\* The next iteration, or the end, of the range loop.
StartProxy ==
    /\ pc = "startProxies"
    /\ IF next <= Len(cfg.proxies)
       THEN /\ server' = [server EXCEPT ![next] = "serving"]
            /\ next' = next + 1
            /\ UNCHANGED pc
       ELSE Go("startRPC") /\ UNCHANGED <<server, next>>
    /\ UNCHANGED <<cfg, actual, sig, running>>

\* The TLS files are read again; by now they may be gone, and main returns.
StartRPC ==
    /\ pc = "startRPC"
    /\ \/ /\ server' = [server EXCEPT ![RPC] = "serving"]
          /\ Go("run")
       \/ /\ \E s \in cfg.server : s.tls # {}
          /\ Go("exit")
          /\ UNCHANGED server
    /\ UNCHANGED <<cfg, actual, next, sig, running>>

------------------------------------------------------------------------------
(* Servers *)

\* A server cannot listen, or stops accepting, and reports it on its channel,
\* which has no buffer.
ServerFails(s) ==
    /\ pc \notin Over
    /\ server[s] = "serving"
    /\ server' = [server EXCEPT ![s] = "reporting"]
    /\ UNCHANGED <<cfg, actual, pc, next, sig, running>>

\* ListenAndServe returns ErrServerClosed. The RPC server takes it for what it
\* is, a proxy reports it as well.
ServerReturns(s) ==
    /\ pc \notin Over
    /\ server[s] = "closing"
    /\ server' = [server EXCEPT ![s] = IF s = RPC THEN "gone" ELSE "reporting"]
    /\ UNCHANGED <<cfg, actual, pc, next, sig, running>>

\* A request for a proxied client gets as far as HandlePrivateTx, which one for
\* a path in ignorePathsForActivity does not. net/http
\* recovers from a panic in its handlers; the goroutines of a websocket
\* connection have nobody to recover.
ServeRequest(s) ==
    /\ pc \notin Over
    /\ s # RPC /\ server[s] = "serving"
    /\ TxHandler(cfg) = "nil"
    /\ \/ ProxyHandler(cfg.proxies[s]) = "ws" /\ Panic("txHandler")
       \/ /\ ProxyHandler(cfg.proxies[s]) = "http" /\ WithPrivMan(cfg)
          /\ panicAt' = "txHandler"
          /\ UNCHANGED pc
    /\ UNCHANGED <<cfg, actual, next, server, sig, monitor, stopSent, consValid,
                   infoFailed, rule, reply, up>>

------------------------------------------------------------------------------
(* Monitors *)

\* External: the health of a process changes.
ClientChanges ==
    /\ pc = "run"
    /\ \E w \in Managed(cfg), r \in Replies : r # reply[w] /\ reply' = [reply EXCEPT ![w] = r]
    /\ UNCHANGED <<cfg, actual, pc, next, server, sig, monitor, stopSent,
                   consValid, infoFailed, rule, up, panicAt>>

\* Does not look when the cached status is not Up and it is not told to.
CheckClientUpStatus(connectToClient) ==
    /\ pc \notin Over
    /\ up \/ connectToClient
    /\ IF \E w \in Managed(cfg) : ProcessControl(ProcessOf(cfg, w)) = "nil"
       THEN Panic("process") /\ UNCHANGED up
       ELSE /\ up' = \A w \in Managed(cfg) :
                        IsProcessUp(The(ProcessOf(cfg, w).upcheck), reply[w])
            /\ UNCHANGED <<pc, panicAt>>
    /\ UNCHANGED <<cfg, actual, next, server, sig, monitor, stopSent, consValid,
                   infoFailed, rule, reply>>

\* A tick of the status monitor.
StatusCheck == monitor["status"] = "running" /\ CheckClientUpStatus(FALSE)

\* The first tick, a request for the client's state, a start or a stop.
ForcedCheck == monitor["node"] # "off" /\ CheckClientUpStatus(TRUE)

\* External: admin_nodeInfo can fail, be answered with an RPC error (the admin
\* API is not enabled) or another result without an eth part, lack the
\* protocols or the consensus key, or tell the consensus. The call does not go
\* through the client's own TLS configuration and fails when it has to.
NodeInfoReplies ==
    {"failed"} \cup
    IF The(cfg.client).tls \in {{}, PmClientTLS(cfg)}
    THEN {"rpcError", "incomplete", "info"} ELSE {}

\* n.consensus.ValidateShutdown() of a handler that may be nil.
UseRule ==
    IF ConsensusHandler(cfg) = "nil"
    THEN Panic("consensus") /\ UNCHANGED rule
    ELSE rule' = ConsensusHandler(cfg) /\ UNCHANGED <<pc, panicAt>>

\* Mutant of CheckAndValidateConsensus: consValid is set before the answer is
\* looked at.
CheckOnlyOnce ==
    /\ pc \notin Over
    /\ monitor["node"] = "running"
    /\ IF ~consValid /\ IsGoQuorumClient(cfg)
       THEN /\ consValid' = TRUE
            /\ \E info \in NodeInfoReplies :
                 CASE info = "failed" -> infoFailed' = TRUE /\ UseRule
                   [] info = "rpcError" ->
                        Panic("nodeInfo") /\ UNCHANGED <<infoFailed, rule>>
                   [] info = "info" /\ IsConsensusValid(cfg, actual) ->
                        UseRule /\ UNCHANGED infoFailed
                   [] info = "incomplete" \/ (info = "info" /\ ~IsConsensusValid(cfg, actual)) ->
                        UNCHANGED <<pc, infoFailed, rule, panicAt>>
       ELSE UseRule /\ UNCHANGED <<consValid, infoFailed>>
    /\ UNCHANGED <<cfg, actual, next, server, sig, monitor, stopSent, reply, up>>

\* checkAndValidateConsensus, at the start of a hibernation. A call that fails
\* counts as agreement, an RPC error has no result to be taken apart.
CheckAndValidateConsensus ==
    /\ pc \notin Over
    /\ monitor["node"] = "running"
    /\ IF ~consValid /\ IsGoQuorumClient(cfg)
       THEN \E info \in NodeInfoReplies :
              CASE info = "failed" ->
                     consValid' = TRUE /\ infoFailed' = TRUE /\ UseRule
                [] info = "rpcError" ->
                     Panic("nodeInfo") /\ UNCHANGED <<consValid, infoFailed, rule>>
                [] info = "info" /\ IsConsensusValid(cfg, actual) ->
                     consValid' = TRUE /\ UseRule /\ UNCHANGED infoFailed
                [] info = "incomplete" \/ (info = "info" /\ ~IsConsensusValid(cfg, actual)) ->
                     UNCHANGED <<pc, consValid, infoFailed, rule, panicAt>>
       ELSE UseRule /\ UNCHANGED <<consValid, infoFailed>>
    /\ UNCHANGED <<cfg, actual, next, server, sig, monitor, stopSent, reply, up>>

\* The stop case of a monitor's select.
MonitorStops(m) ==
    /\ pc \notin Over
    /\ m \in stopSent /\ monitor[m] = "running"
    /\ monitor' = [monitor EXCEPT ![m] = "stopped"]
    /\ UNCHANGED <<cfg, actual, pc, next, server, sig, stopSent, consValid,
                   infoFailed, rule, reply, up, panicAt>>

------------------------------------------------------------------------------
(* Shutdown *)

\* SIGINT or SIGTERM: caught from the time main waits until it has shut down.
\* sigc holds one.
Signal ==
    /\ pc \notin Over
    /\ IF pc \in Starting THEN Go("exit") /\ UNCHANGED sig
                          ELSE sig' = TRUE /\ UNCHANGED pc
    /\ UNCHANGED <<cfg, actual, next, server, running>>

\* One of the signal and the errors is received, whichever is ready.
WaitForShutdown ==
    /\ pc = "run"
    /\ \/ sig /\ sig' = FALSE /\ UNCHANGED server
       \/ \E s \in Servers : /\ server[s] = "reporting"
                             /\ server' = [server EXCEPT ![s] = "gone"]
                             /\ UNCHANGED sig
    /\ next' = 1
    /\ Go("stopProxies")
    /\ UNCHANGED <<cfg, actual, running>>

Close(s) == server' = [server EXCEPT ![s] = IF @ = "serving" THEN "closing" ELSE @]

\* Mutant of StopProxy: it waits for the goroutine, as the WaitGroup of a
\* pointer receiver would.
StopProxyWaits ==
    /\ pc = "stopProxies"
    /\ IF next <= Len(cfg.proxies)
       THEN /\ Close(next)
            /\ next' = IF server[next] = "gone" THEN next + 1 ELSE next
            /\ UNCHANGED pc
       ELSE Go("stopRPC") /\ UNCHANGED <<server, next>>
    /\ UNCHANGED <<cfg, actual, sig, running>>

\* ProxyServer.Stop works on a copy whose WaitGroup counts nobody: it does not
\* wait for the goroutine.
StopProxy ==
    /\ pc = "stopProxies"
    /\ IF next <= Len(cfg.proxies)
       THEN Close(next) /\ next' = next + 1 /\ UNCHANGED pc
       ELSE Go("stopRPC") /\ UNCHANGED <<server, next>>
    /\ UNCHANGED <<cfg, actual, sig, running>>

StopRPC ==
    /\ pc = "stopRPC"
    /\ Close(RPC)
    /\ Go("waitRPC")
    /\ UNCHANGED <<cfg, actual, next, sig, running>>

\* shutdownWg.Wait().
WaitRPC ==
    /\ pc = "waitRPC"
    /\ server[RPC] = "gone"
    /\ Go("stopNode")
    /\ UNCHANGED <<cfg, actual, next, server, sig, running>>

\* NodeControl.Stop: close one channel and send on two of capacity one.
StopNode ==
    /\ pc = "stopNode"
    /\ stopSent' = Monitors
    /\ Go("leave")
    /\ UNCHANGED <<cfg, actual, next, server, sig, monitor, consValid, infoFailed,
                   rule, reply, up, panicAt>>

\* main returns, whether or not the monitors have stopped.
Exit ==
    /\ pc = "leave"
    /\ Go("exit")
    /\ UNCHANGED <<cfg, actual, next, server, sig, running>>

------------------------------------------------------------------------------
Main ==
    \/ Load \/ Build \/ StartNode \/ StartProxy \/ StartRPC
    \/ WaitForShutdown \/ StopProxy \/ StopRPC \/ WaitRPC \/ StopNode \/ Exit

Next ==
    \/ Main \/ Signal \/ ClientChanges \/ StatusCheck \/ ForcedCheck
    \/ CheckAndValidateConsensus
    \/ \E s \in Servers : ServerFails(s) \/ ServerReturns(s) \/ ServeRequest(s)
    \/ \E m \in Monitors : MonitorStops(m)

Spec == Init /\ [][Next]_vars

\* main and the servers' goroutines run, the status monitor's ticker ticks.
\* Requests, signals, failures and hibernations need not come.
Fairness ==
    /\ WF_vars(Main) /\ WF_vars(StatusCheck)
    /\ \A s \in Servers : WF_vars(ServerReturns(s))

FairSpec == Spec /\ Fairness

------------------------------------------------------------------------------
(* Properties *)

\* Of what a configuration that passes validation is made into, only the
\* transaction handler of a Besu client is missing when it is used: no proxied
\* request, status check or hibernation meets another nil value. (An RPC error
\* in answer to admin_nodeInfo is not a nil value of ours, and a path that is
\* there twice stops the program before it runs.)
NothingMissing ==
    /\ panicAt \in {"none", "proxyPath", "txHandler", "nodeInfo"}
    /\ panicAt = "txHandler" => IsBesuClient(cfg)
    /\ panicAt = "proxyPath" => \E i \in DOMAIN cfg.proxies : cfg.proxies[i].paths = "bad"

\* However many hibernations are tried, a GoQuorum node hibernates by the rule
\* of the consensus it runs, unless it could not be asked.
RuleConfirmed ==
    rule # "none" /\ IsGoQuorumClient(cfg) => rule = actual \/ infoFailed

\* A signal, or a server that fails, ends the program, in whatever order servers
\* fail and whether or not main still listens to them. The exception: the RPC
\* server fails while main no longer listens, and main waits for it for ever.
ShutdownEnds ==
    pc \in Stopping \/ (pc = "run" /\ (sig \/ \E s \in Servers : server[s] = "reporting"))
        ~> pc \in Over \/ (pc = "waitRPC" /\ server[RPC] = "reporting")

\* A managed process does not answer its upcheck as configured.
Dead(w) ==
    /\ pc = "run" /\ w \in Managed(cfg)
    /\ \A u \in ProcessOf(cfg, w).upcheck :
         /\ u.returnType.lower
         /\ reply[w] \in {"failed", "rpcError"}
            \/ (Is(u.returnType, "string") /\ reply[w] = "other")

\* A process that does not answer its upcheck as configured is found to be down
\* by the status monitor, if returnType is written in lower case.
DeadClientNoticed == \A w \in Processes : Dead(w) ~> ~up \/ ~Dead(w)

\* Besu is a supported client: no request that a proxy accepts crashes the
\* program that manages a Besu client.
BesuSupported == pc = "crashed" => ~IsBesuClient(cfg)

==============================================================================
