---------------------------- MODULE ProgramProofs ----------------------------
(***************************************************************************)
(* TypeOK, NothingMissing and RuleConfirmed hold for every configuration    *)
(* file, not only for those that TLC enumerates.                            *)
(***************************************************************************)
EXTENDS Program, TLAPS

\* Nothing runs before the configuration has been found valid.
LoadedInv ==
    /\ pc \notin {"load", "exit"} => Loads(cfg)
    /\ pc = "load" => /\ \A s \in Servers : server[s] = "off"
                      /\ \A m \in Monitors : monitor[m] = "off"

\* A rule is used only once the consensus has been confirmed, or could not be.
ConfirmedInv ==
    /\ actual \in {"raft", "istanbul", "clique"}
    /\ rule \in {"none", ConsensusHandler(cfg)}
    /\ IsGoQuorumClient(cfg) =>
         /\ rule # "none" => consValid
         /\ consValid => IsConsensusValid(cfg, actual) \/ infoFailed

ProgramInv == LoadedInv /\ ConfirmedInv /\ NothingMissing

------------------------------------------------------------------------------
(* What validation is worth to the builders *)

\* IsValid admits nothing that populateConsensusHandler has no rule for.
LEMMA ValidHasHandler ==
    ASSUME Loads(cfg)
    PROVE  /\ ConsensusHandler(cfg) # "nil"
           /\ ConsensusHandler(cfg) # "none"
           /\ TxHandler(cfg) = "nil" => IsBesuClient(cfg)
<1>1. /\ The(cfg.client) \in cfg.client
      /\ BlockchainClientIsValid(The(cfg.client))
  BY DEF Loads, BasicIsValid, The
<1>2. /\ The(cfg.client).type \in {"goquorum", "besu"}
      /\ The(cfg.client).type = "goquorum" =>
           \E w \in {"raft", "istanbul", "clique"} : The(cfg.client).consensus.word = w
      /\ The(cfg.client).type = "besu" => The(cfg.client).consensus.word = "clique"
  BY <1>1 DEF BlockchainClientIsValid, Is
<1> QED
  BY <1>2 DEF ConsensusHandler, TxHandler, IsGoQuorumClient, IsBesuClient, Is

\* NewNodeControl makes a process control of every process it manages.
LEMMA ValidHasProcess ==
    ASSUME Loads(cfg), NEW w \in Managed(cfg)
    PROVE  ProcessControl(ProcessOf(cfg, w)) # "nil"
<1>1. CASE w = "client"
  <2>1. BlockchainClientIsValid(The(cfg.client))
    BY DEF Loads, BasicIsValid, The
  <2>2. ProcessIsValid(The(The(cfg.client).process))
    BY <2>1 DEF BlockchainClientIsValid, The
  <2> QED
    BY <1>1, <2>2 DEF ProcessOf, ProcessIsValid, ProcessControl
<1>2. CASE w # "client"
  <2>1. cfg.privMan # {}
    BY <1>2 DEF Managed, WithPrivMan
  <2>2. PrivacyManagerIsValid(The(cfg.privMan))
    BY <2>1 DEF Loads, BasicIsValid, The
  <2>3. ProcessIsValid(The(The(cfg.privMan).process))
    BY <2>2 DEF PrivacyManagerIsValid, The
  <2> QED
    BY <1>2, <2>3 DEF ProcessOf, ProcessIsValid, ProcessControl
<1> QED
  BY <1>1, <1>2

\* MakeProxyServices panics only over a path.
LEMMA UnmadeIsBad ==
    ASSUME NEW i, ProxyHandler(cfg.proxies[i]) = "panic",
           ProxyIsValid(cfg.proxies[i])
    PROVE  cfg.proxies[i].paths = "bad"
BY DEF ProxyHandler, ProxyIsValid

\* A consensus that admin_nodeInfo agrees with is the one whose rule is used.
LEMMA ConfirmedIsHandler ==
    ASSUME IsGoQuorumClient(cfg),
           actual \in {"raft", "istanbul", "clique"},
           IsConsensusValid(cfg, actual)
    PROVE  ConsensusHandler(cfg) = actual
<1>1. The(cfg.client).consensus.word = actual
  BY DEF IsConsensusValid, Is, IsExactly
<1> QED
  BY <1>1 DEF ConsensusHandler, IsGoQuorumClient, IsBesuClient, Is

------------------------------------------------------------------------------
(* Every step preserves the invariant *)

\* The rule that UseRule takes is the handler, which exists.
LEMMA UseRuleKeeps ==
    ASSUME Loads(cfg), UseRule
    PROVE  /\ rule' = ConsensusHandler(cfg) /\ rule' # "none"
           /\ pc' = pc /\ panicAt' = panicAt
  BY ValidHasHandler DEF UseRule

\* The invariant holds when the program starts.
LEMMA InitInv == Init => ProgramInv
  BY DEF Init, ProgramInv, LoadedInv, ConfirmedInv, NothingMissing, Starting, Over

\* main and the servers' goroutines leave the configuration, the confirmed
\* consensus and, but for the making of the proxies, the panics alone.
LEMMA MainKeeps ==
    ASSUME ProgramInv,
           \/ Main \/ Signal
           \/ \E s \in Servers : ServerFails(s) \/ ServerReturns(s)
    PROVE  ProgramInv'
<1> USE DEF ProgramInv
<1>1. UNCHANGED <<cfg, actual, consValid, infoFailed, rule>>
  BY DEF Main, Signal, ServerFails, ServerReturns, Load, Build, StartNode,
         StartProxy, StartRPC, WaitForShutdown, StopProxy, StopRPC, WaitRPC,
         StopNode, Exit, running
<1>2. ConfirmedInv'
  BY <1>1 DEF ConfirmedInv
<1>3. CASE Build
  <2>1. Loads(cfg) /\ pc = "build"
    BY <1>3 DEF Build, LoadedInv
  <2>2. \/ pc' \in {"startNode", "exit"} /\ panicAt' = panicAt
        \/ /\ panicAt' = "proxyPath"
           /\ \E i \in DOMAIN cfg.proxies : ProxyHandler(cfg.proxies[i]) = "panic"
    BY <1>3 DEF Build, Panic, Go, Unmade
  <2>3. \A i \in DOMAIN cfg.proxies : ProxyIsValid(cfg.proxies[i])
    BY <2>1 DEF Loads, BasicIsValid
  <2>4. NothingMissing'
    BY <1>1, <2>2, <2>3, UnmadeIsBad DEF NothingMissing
  <2>5. LoadedInv'
    <3>1. pc' # "load"
      BY <1>3 DEF Build, Panic, Go
    <3> QED
      BY <1>1, <2>1, <3>1 DEF LoadedInv
  <2> QED
    BY <1>2, <2>4, <2>5
<1>4. CASE ~Build
  <2>1. panicAt' = panicAt
    BY <1>4 DEF Main, Signal, ServerFails, ServerReturns, Load, StartNode,
         StartProxy, StartRPC, WaitForShutdown, StopProxy, StopRPC, WaitRPC,
         StopNode, Exit, running
  <2>2. NothingMissing'
    BY <1>1, <2>1 DEF NothingMissing
  <2>3. LoadedInv'
    <3>1. CASE Load
      BY <3>1 DEF Load, LoadedInv, Go
    <3>2. CASE StartNode \/ StartProxy \/ StartRPC
      BY <3>2, <1>1 DEF StartNode, StartProxy, StartRPC, LoadedInv, Go
    <3>3. CASE WaitForShutdown \/ StopProxy \/ StopRPC \/ WaitRPC \/ StopNode \/ Exit
      BY <3>3, <1>1 DEF WaitForShutdown, StopProxy, StopRPC, WaitRPC, StopNode, Exit,
                        LoadedInv, Go
    <3>4. CASE Signal
      BY <3>4, <1>1 DEF Signal, LoadedInv, Go, Over, Starting, running
    <3>5. CASE \E s \in Servers : ServerFails(s) \/ ServerReturns(s)
      BY <3>5, <1>1 DEF ServerFails, ServerReturns, LoadedInv, Over
    <3> QED
      BY <1>4, <3>1, <3>2, <3>3, <3>4, <3>5 DEF Main
  <2> QED
    BY <1>2, <2>2, <2>3
<1> QED
  BY <1>3, <1>4

\* A request, a status check or a hibernation finds what it needs.
LEMMA UseKeeps ==
    ASSUME ProgramInv,
           \/ StatusCheck \/ ForcedCheck \/ CheckAndValidateConsensus
           \/ \E s \in Servers : ServeRequest(s)
    PROVE  ProgramInv'
<1>1. Loads(cfg) /\ pc \notin {"load", "exit", "crashed"}
  BY DEF ProgramInv, LoadedInv, StatusCheck, ForcedCheck, CheckClientUpStatus,
         CheckAndValidateConsensus, ServeRequest, Over, Monitors
<1>2. ASSUME NEW b, CheckClientUpStatus(b) PROVE ProgramInv'
  BY <1>1, <1>2, ValidHasProcess
     DEF CheckClientUpStatus, ProgramInv, LoadedInv, ConfirmedInv, NothingMissing
<1>3. CASE \E s \in Servers : ServeRequest(s)
  BY <1>1, <1>3, ValidHasHandler
     DEF ServeRequest, Panic, Go, ProgramInv, LoadedInv, ConfirmedInv, NothingMissing
<1>4. CASE CheckAndValidateConsensus
  <2>1. UNCHANGED <<cfg, actual, server, monitor>>
    BY <1>4 DEF CheckAndValidateConsensus
  <2>2. CASE ~consValid /\ IsGoQuorumClient(cfg)
    <3>1. PICK info \in NodeInfoReplies :
            CASE info = "failed" ->
                   consValid' = TRUE /\ infoFailed' = TRUE /\ UseRule
              [] info = "rpcError" ->
                   Panic("nodeInfo") /\ UNCHANGED <<consValid, infoFailed, rule>>
              [] info = "info" /\ IsConsensusValid(cfg, actual) ->
                   consValid' = TRUE /\ UseRule /\ UNCHANGED infoFailed
              [] info = "incomplete" \/ (info = "info" /\ ~IsConsensusValid(cfg, actual)) ->
                   UNCHANGED <<pc, consValid, infoFailed, rule, panicAt>>
      BY <1>4, <2>2 DEF CheckAndValidateConsensus
    <3>2. info \in {"failed", "rpcError", "incomplete", "info"}
      BY DEF NodeInfoReplies
    <3>3. CASE info = "failed"
      <4>1. consValid' = TRUE /\ infoFailed' = TRUE /\ UseRule
        BY <3>1, <3>3
      <4> QED
        BY <1>1, <2>1, <4>1, UseRuleKeeps
           DEF ProgramInv, LoadedInv, ConfirmedInv, NothingMissing
    <3>4. CASE info = "rpcError"
      <4>1. Panic("nodeInfo") /\ UNCHANGED <<consValid, infoFailed, rule>>
        BY <3>1, <3>4
      <4> QED
        BY <1>1, <2>1, <4>1
           DEF Panic, Go, ProgramInv, LoadedInv, ConfirmedInv, NothingMissing
    <3>5. CASE info = "info" /\ IsConsensusValid(cfg, actual)
      <4>1. consValid' = TRUE /\ UseRule /\ UNCHANGED infoFailed
        BY <3>1, <3>5
      <4> QED
        BY <1>1, <2>1, <3>5, <4>1, UseRuleKeeps
           DEF ProgramInv, LoadedInv, ConfirmedInv, NothingMissing
    <3>6. CASE info = "incomplete" \/ (info = "info" /\ ~IsConsensusValid(cfg, actual))
      <4>1. UNCHANGED <<pc, consValid, infoFailed, rule, panicAt>>
        BY <3>1, <3>6
      <4> QED
        BY <2>1, <4>1 DEF ProgramInv, LoadedInv, ConfirmedInv, NothingMissing
    <3> QED
      BY <3>2, <3>3, <3>4, <3>5, <3>6
  <2>3. CASE ~(~consValid /\ IsGoQuorumClient(cfg))
    <3>1. UseRule /\ UNCHANGED <<consValid, infoFailed>>
      BY <1>4, <2>3 DEF CheckAndValidateConsensus
    <3> QED
      BY <1>1, <2>1, <2>3, <3>1, UseRuleKeeps
         DEF ProgramInv, LoadedInv, ConfirmedInv, NothingMissing
  <2> QED
    BY <2>2, <2>3
<1> QED
  BY <1>2, <1>3, <1>4 DEF StatusCheck, ForcedCheck

\* Every step keeps the invariant.
LEMMA StepInv == ProgramInv /\ [Next]_vars => ProgramInv'
<1> SUFFICES ASSUME ProgramInv, [Next]_vars PROVE ProgramInv'
  OBVIOUS
<1>1. CASE ClientChanges \/ \E m \in Monitors : MonitorStops(m)
  BY <1>1 DEF ClientChanges, MonitorStops, ProgramInv, LoadedInv, ConfirmedInv,
              NothingMissing
<1>2. CASE UNCHANGED vars
  BY <1>2 DEF vars, ProgramInv, LoadedInv, ConfirmedInv, NothingMissing
<1> QED
  BY <1>1, <1>2, MainKeeps, UseKeeps DEF Next

------------------------------------------------------------------------------
\* Whatever the configuration file holds, if the program gets past reading it,
\* no request, status check or hibernation meets a nil value but the
\* transaction handler of a Besu client.
THEOREM NeverMissing == Spec => []NothingMissing
<1>1. ProgramInv => NothingMissing
  BY DEF ProgramInv
<1> QED
  BY <1>1, InitInv, StepInv, PTL DEF Spec

\* Whatever the configuration file holds and however often a hibernation is
\* tried, a GoQuorum node hibernates by the rule of the consensus it runs, or
\* it could not be asked.
THEOREM RuleAlwaysConfirmed == Spec => []RuleConfirmed
<1>1. ProgramInv => RuleConfirmed
  BY ConfirmedIsHandler DEF ProgramInv, ConfirmedInv, RuleConfirmed
<1> QED
  BY <1>1, InitInv, StepInv, PTL DEF Spec

------------------------------------------------------------------------------
(* Types *)

\* There is a server for each proxy.
LEMMA ProxyCount ==
    ASSUME TypeOK
    PROVE  Len(cfg.proxies) \in 0 .. MaxProxies /\ MaxProxies \in Nat
<1>1. PICK P : cfg.proxies \in Seq(P)
  BY ProgramAssumption DEF TypeOK
<1>2. Len(cfg.proxies) \in 0 .. MaxProxies /\ MaxProxies \in Nat
  <2>1. Len(cfg.proxies) \in Nat
    BY <1>1
  <2>2. Len(cfg.proxies) <= MaxProxies /\ MaxProxies \in Nat
    BY ProgramAssumption DEF TypeOK
  <2>. QED
    BY <2>1, <2>2
<1>. QED
  BY <1>2

\* The servers that main starts and stops are the RPC server and the proxies.
LEMMA ServersMove ==
    ASSUME TypeOK, [Next]_vars
    PROVE  UNCHANGED server
           \/ \E s \in Servers : \E state \in {"serving", "closing", "reporting", "gone"} :
                server' = [server EXCEPT ![s] = state]
<1>1. RPC \in Servers /\ (next <= Len(cfg.proxies) => next \in Servers)
  BY ProxyCount DEF RPC, Servers, TypeOK
<1>2. CASE StartProxy \/ StartRPC
  BY <1>1, <1>2 DEF StartProxy, StartRPC
<1>3. ASSUME NEW s \in Servers, Close(s)
      PROVE  \E state \in {"serving", "closing", "reporting", "gone"} :
               UNCHANGED server \/ server' = [server EXCEPT ![s] = state]
  <2>1. CASE server[s] = "serving"
    BY <1>3, <2>1 DEF Close
  <2>2. CASE server[s] # "serving"
    <3>1. server' = [server EXCEPT ![s] = server[s]]
      BY <1>3, <2>2 DEF Close
    <3>. QED
      BY <3>1 DEF TypeOK
  <2>. QED
    BY <2>1, <2>2
<1>4. CASE StopProxy \/ StopRPC
  BY <1>1, <1>3, <1>4 DEF StopProxy, StopRPC
<1>5. CASE WaitForShutdown
  BY <1>5 DEF WaitForShutdown
<1>6. ASSUME NEW s \in Servers, ServerFails(s) \/ ServerReturns(s)
      PROVE  \E state \in {"serving", "closing", "reporting", "gone"} :
               server' = [server EXCEPT ![s] = state]
  BY <1>6 DEF ServerFails, ServerReturns
<1>7. CASE \/ Load \/ Build \/ StartNode \/ WaitRPC \/ StopNode \/ Exit \/ Signal
           \/ ClientChanges \/ StatusCheck \/ ForcedCheck \/ CheckAndValidateConsensus
           \/ (\E s \in Servers : ServeRequest(s))
           \/ (\E m \in Monitors : MonitorStops(m)) \/ UNCHANGED vars
  BY <1>7 DEF Load, Build, StartNode, WaitRPC, StopNode, Exit, Signal, ClientChanges,
              StatusCheck, ForcedCheck, CheckClientUpStatus, CheckAndValidateConsensus, ServeRequest, MonitorStops, vars
<1>. QED
  BY <1>2, <1>4, <1>5, <1>6, <1>7 DEF Next, Main

\* main goes from one place to another, and through the proxies.
LEMMA IndexStep ==
    ASSUME TypeOK, [Next]_vars
    PROVE  /\ pc' \in Starting \cup Stopping \cup Over \cup {"run"}
           /\ next' \in 1 .. MaxProxies + 1
<1>. USE DEF Starting, Stopping, Over, Go
<1>1. /\ pc \in Starting \cup Stopping \cup Over \cup {"run"}
      /\ next \in 1 .. MaxProxies + 1
      /\ Len(cfg.proxies) \in 0 .. MaxProxies /\ MaxProxies \in Nat
  BY ProxyCount DEF TypeOK
<1>2. CASE UNCHANGED <<pc, next>>
  BY <1>1, <1>2
<1>3. CASE pc' = "crashed" /\ UNCHANGED next
  BY <1>1, <1>3
<1>4. CASE Load \/ Build
  BY <1>1, <1>4 DEF Load, Build, Panic
<1>5. CASE StartNode \/ StartRPC \/ WaitForShutdown
  BY <1>1, <1>5 DEF StartNode, StartRPC, WaitForShutdown
<1>6. CASE StartProxy
  BY <1>1, <1>6 DEF StartProxy
<1>7. CASE StopProxy
  BY <1>1, <1>7 DEF StopProxy
<1>8. CASE StopRPC \/ WaitRPC \/ StopNode \/ Exit
  BY <1>1, <1>8 DEF StopRPC, WaitRPC, StopNode, Exit
<1>9. CASE Signal
  BY <1>1, <1>9 DEF Signal
<1>10. CASE StatusCheck \/ ForcedCheck \/ \E s \in Servers : ServeRequest(s)
  BY <1>2, <1>3, <1>10 DEF StatusCheck, ForcedCheck, CheckClientUpStatus,
                           ServeRequest, Panic
<1>11. CASE CheckAndValidateConsensus
  <2>1. UseRule => UNCHANGED pc \/ pc' = "crashed"
    BY DEF UseRule, Panic
  <2>2. UNCHANGED pc \/ pc' = "crashed"
    <3>1. CASE ~(~consValid /\ IsGoQuorumClient(cfg))
      BY <1>11, <2>1, <3>1 DEF CheckAndValidateConsensus
    <3>2. CASE ~consValid /\ IsGoQuorumClient(cfg)
      BY <1>11, <2>1, <3>2 DEF CheckAndValidateConsensus, NodeInfoReplies, Panic
    <3>. QED
      BY <3>1, <3>2
  <2>3. UNCHANGED next
    BY <1>11 DEF CheckAndValidateConsensus
  <2>. QED
    BY <1>2, <1>3, <2>2, <2>3
<1>12. CASE \/ ClientChanges \/ UNCHANGED vars
            \/ (\E s \in Servers : ServerFails(s) \/ ServerReturns(s))
            \/ (\E m \in Monitors : MonitorStops(m))
  BY <1>2, <1>12 DEF ClientChanges, ServerFails, ServerReturns, MonitorStops, vars
<1>. QED
  BY <1>4, <1>5, <1>6, <1>7, <1>8, <1>9, <1>10, <1>11, <1>12 DEF Next, Main

\* The monitors, and what is known of the client.
LEMMA RunningStep ==
    ASSUME ProgramInv, TypeOK, [Next]_vars
    PROVE  /\ monitor' \in [Monitors -> {"off", "running", "stopped"}]
           /\ stopSent' \in SUBSET Monitors
           /\ {sig', consValid', infoFailed', up'} \subseteq BOOLEAN
           /\ reply' \in [Processes -> Replies]
           /\ panicAt' \in Trips
<1>1. monitor' \in [Monitors -> {"off", "running", "stopped"}] /\ stopSent' \in SUBSET Monitors
  <2>1. CASE StartNode \/ StopNode
    BY <2>1 DEF StartNode, StopNode, TypeOK
  <2>2. ASSUME NEW m \in Monitors, MonitorStops(m)
        PROVE  monitor' \in [Monitors -> {"off", "running", "stopped"}]
               /\ stopSent' \in SUBSET Monitors
    BY <2>2 DEF MonitorStops, TypeOK
  <2>3. UNCHANGED <<monitor, stopSent>> \/ StartNode \/ StopNode
        \/ \E m \in Monitors : MonitorStops(m)
    BY DEF Next, Main, Load, Build, StartProxy, StartRPC, WaitForShutdown, StopProxy,
           StopRPC, WaitRPC, Exit, Signal, ClientChanges, StatusCheck, ForcedCheck,
           CheckClientUpStatus,
           CheckAndValidateConsensus, ServerFails, ServerReturns, ServeRequest,
           running, vars
  <2>. QED
    BY <2>1, <2>2, <2>3 DEF TypeOK
<1>2. sig' \in BOOLEAN /\ reply' \in [Processes -> Replies]
  BY DEF Next, Main, Load, Build, StartNode, StartProxy, StartRPC, WaitForShutdown,
         StopProxy, StopRPC, WaitRPC, StopNode, Exit, Signal, ClientChanges,
         StatusCheck, ForcedCheck, CheckClientUpStatus, CheckAndValidateConsensus, ServerFails, ServerReturns,
         ServeRequest, MonitorStops, running, vars, TypeOK
<1>3. up' \in BOOLEAN
  <2>1. ASSUME NEW b, CheckClientUpStatus(b) PROVE up' \in BOOLEAN
    BY <2>1 DEF CheckClientUpStatus, TypeOK
  <2>2. CASE ~StatusCheck /\ ~ForcedCheck
    BY <2>2 DEF Next, Main, Load, Build, StartNode, StartProxy, StartRPC,
       WaitForShutdown, StopProxy, StopRPC, WaitRPC, StopNode, Exit, Signal,
       ClientChanges, CheckAndValidateConsensus, ServerFails, ServerReturns,
       ServeRequest, MonitorStops, running, vars, TypeOK
  <2>. QED
    BY <2>1, <2>2 DEF StatusCheck, ForcedCheck
<1>4. /\ {consValid', infoFailed'} \subseteq BOOLEAN
      /\ panicAt' \in Trips
  <2>1. UseRule => panicAt' \in {panicAt, "consensus"}
    BY DEF UseRule, Panic
  <2>2. CASE CheckAndValidateConsensus
    <3>1. CASE ~(~consValid /\ IsGoQuorumClient(cfg))
      BY <2>1, <2>2, <3>1 DEF CheckAndValidateConsensus, TypeOK, Trips
    <3>2. CASE ~consValid /\ IsGoQuorumClient(cfg)
      BY <2>1, <2>2, <3>2 DEF CheckAndValidateConsensus, NodeInfoReplies, Panic, TypeOK,
                               Trips
    <3>. QED
      BY <3>1, <3>2
  <2>3. CASE Build \/ StatusCheck \/ ForcedCheck \/ \E s \in Servers : ServeRequest(s)
    BY <2>3 DEF Build, StatusCheck, ForcedCheck, CheckClientUpStatus, ServeRequest,
                Panic, TypeOK, Trips
  <2>4. UNCHANGED <<consValid, infoFailed, panicAt>> \/ CheckAndValidateConsensus
        \/ Build \/ StatusCheck \/ ForcedCheck \/ \E s \in Servers : ServeRequest(s)
    BY DEF Next, Main, Load, StartNode, StartProxy, StartRPC, WaitForShutdown,
           StopProxy, StopRPC, WaitRPC, StopNode, Exit, Signal, ClientChanges,
           ServerFails, ServerReturns, MonitorStops, running, vars
  <2>. QED
    BY <2>2, <2>3, <2>4 DEF TypeOK
<1>. QED
  BY <1>1, <1>2, <1>3, <1>4

\* The rule that is used is one of ConsensusRules.
LEMMA RuleStep ==
    ASSUME TypeOK, [Next]_vars
    PROVE  rule' \in {"none", "raft", "istanbul", "clique", "besuClique"}
<1>1. ConsensusHandler(cfg) \in {"nil", "raft", "istanbul", "clique", "besuClique"}
  BY DEF ConsensusHandler
<1>2. UseRule => rule' = rule \/ (rule' = ConsensusHandler(cfg) /\ rule' # "nil")
  BY DEF UseRule
<1>3. CASE CheckAndValidateConsensus
  <2>1. rule' = rule \/ UseRule
    <3>1. CASE ~(~consValid /\ IsGoQuorumClient(cfg))
      BY <1>3, <3>1 DEF CheckAndValidateConsensus
    <3>2. CASE ~consValid /\ IsGoQuorumClient(cfg)
      BY <1>3, <3>2 DEF CheckAndValidateConsensus, NodeInfoReplies
    <3>. QED
      BY <3>1, <3>2
  <2>. QED
    BY <1>1, <1>2, <2>1 DEF TypeOK
<1>4. CASE ~CheckAndValidateConsensus
  <2>1. rule' = rule
    BY <1>4 DEF Next, Main, Load, Build, StartNode, StartProxy, StartRPC,
       WaitForShutdown, StopProxy, StopRPC, WaitRPC, StopNode, Exit, Signal,
       ClientChanges, StatusCheck, ForcedCheck, CheckClientUpStatus, ServerFails, ServerReturns, ServeRequest,
       MonitorStops, running, vars
  <2>. QED
    BY <2>1 DEF TypeOK
<1>. QED
  BY <1>3, <1>4

\* The program's variables have their types: in particular main starts and
\* stops exactly the proxies that there are.
THEOREM ProgramAlwaysTyped == Spec => []TypeOK
<1>. DEFINE Inv == ProgramInv /\ TypeOK
<1>1. Init => Inv
  <2>. SUFFICES ASSUME Init PROVE Inv
    OBVIOUS
  <2>1. TypeOK
    <3>1. 1 \in 1 .. MaxProxies + 1
      BY ProgramAssumption
    <3>. QED
      BY <3>1 DEF Init, TypeOK, Starting, Processes, Replies, Trips
  <2>. QED
    BY <2>1, InitInv
<1>2. Inv /\ [Next]_vars => Inv'
  <2>. SUFFICES ASSUME Inv, [Next]_vars PROVE Inv'
    OBVIOUS
  <2>1. ProgramInv'
    BY StepInv
  <2>2. cfg' = cfg /\ actual' = actual
    BY DEF Next, Main, Load, Build, StartNode, StartProxy, StartRPC, WaitForShutdown,
           StopProxy, StopRPC, WaitRPC, StopNode, Exit, Signal, ClientChanges,
           StatusCheck, ForcedCheck, CheckClientUpStatus, CheckAndValidateConsensus, ServerFails, ServerReturns,
           ServeRequest, MonitorStops, vars
  <2>3. server' \in [Servers -> {"off", "serving", "closing", "reporting", "gone"}]
    BY ServersMove DEF TypeOK
  <2>4. TypeOK'
    BY <2>2, <2>3, IndexStep, RunningStep, RuleStep DEF TypeOK
  <2>. QED
    BY <2>1, <2>4
<1>3. Inv => TypeOK
  OBVIOUS
<1>. QED
  BY <1>1, <1>2, <1>3, PTL DEF Spec

==============================================================================
