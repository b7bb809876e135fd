# Quorum Hibernate: a TLA+ model

Node Hibernator (quorum-hibernate) sits in front of an Ethereum client and its
privacy manager. It proxies their traffic, stops ("hibernates") them when no
request has come for a while, starts them again when one does, and agrees with
the hibernators of the other nodes that the network can spare the node. This
directory models that program from its source, checks the model with TLC and
proves its main safety properties with TLAPS. Paths below are relative to the
repository.

## 1. The system

| Component | State | Operations | Interacts through |
| --- | --- | --- | --- |
| Node control (`node/control.go`) | `nodeStatus`, `clientStatus`, `startStopMux`, `consValid` | `StartClient`, `StopClient`, `CheckClientUpStatus`, `IsNodeBusy` | called by every goroutine below; drives processes, consensus and peer manager |
| Process control (`process/`) | cached `status` of each process | `Start`, `Stop`, `UpdateStatus` | shell or docker commands, upcheck RPCs |
| Monitors (`node/control.go`) | none | start/stop monitor, client status monitor | six channels of capacity one |
| Inactivity and resync monitor (`node/activity.go`) | `inactiveTimeCount`, a timer | `trackInactivity`, `trackResyncTimer` | asks the start/stop monitor and waits for its answer |
| Proxies (`proxy/`) | open connections | HTTP handler, websocket handler | `ResetInactiveSyncTime`, `PrepareClient`, peer manager |
| RPC API (`node/api.go`, `rpc/`) | none | `NodeStatus`, `PrepareForPrivateTx`, `IsNodeUp` | called by the peers' hibernators |
| Peer manager (`p2p/`) | the peers file, re-read on use; the list last read, not locked | `ValidatePeers`, `ValidatePeerPrivateTxStatus` | RPC fan-out to all peers |
| Consensus checks (`consensus/`) | none | `ValidateShutdown` for Raft, Istanbul, Clique, Besu Clique | RPCs of the client |
| Private transactions (`privatetx/`) | none | `IsPrivateTx` | called by the proxies |
| Configuration (`config/`) | the configuration, read once at start | `Read`, the `IsValid` methods, `IsConsensusValid` | read by every component |
| Program (`main.go`, `rpc/service.go`, `proxy/server.go`) | the servers and their goroutines | `Start`, `waitForShutdown`, `Shutdown` | error channels without buffer, WaitGroups, stop channels |
| HTTP client, logging (`core/`, `log/`) | none | | not modelled, see section 7 |

What is hard about it:

* **Concurrency.** A request's `StartClient`, the tracker's `StopClient` and
  three sources of status checks overlap. The mutex covers the first two only;
  status checks write `clientStatus` and the processes' cached statuses
  without it.
* **Blocking.** Trackers, monitors and handlers wait for one another over
  channels of capacity one and one mutex.
* **Distribution.** Two hibernators may decide to hibernate at once, calls to
  peers fail, and the consensus check is old when it is acted upon.
* **Inference.** The consensus rules never see who is down; they infer it from
  recent blocks.
* **Failure.** Commands fail, processes die or are started by hand, upchecks
  time out, servers fail while others do.
* **Configuration.** What exists is decided when the program is built, what is
  used when a request, a status check or a hibernation comes.

Correctness of each part: the status shown to peers and proxies is true (node
control); a hibernated node is down and a node reported up answers (process
control); nothing is lost, doubled or blocked for ever (monitors, trackers,
handlers); nodes go down one at a time (peer manager) and never too many of
them (consensus checks); a check of the peers ends and concludes only from what
it was told (peer manager); what validation admits is complete (configuration);
a failure or a signal ends the program (life cycle).

## 2. The modules

| Module | Models | Uses |
| --- | --- | --- |
| `NodeControl` | `NodeControl` and `process/`, called by any set of goroutines | |
| `NodeControlHistory` | the same with a history variable: when the cached statuses can be relied on | extends `NodeControl` |
| `Hibernator` | monitors, trackers and request handlers | extends `NodeControl` |
| `OrderlyHibernation` | abstract: what the hibernators of a network promise | |
| `Network` | `StopClient` and `ValidatePeers` between hibernators | implements `OrderlyHibernation` |
| `ConsensusRules` | the four `ValidateShutdown` as operators | |
| `Chain` | members of a chain that hibernate by those rules | extends `ConsensusRules` |
| `PrivateTx` | `IsPrivateTx` as operators over abstract requests | |
| `PeerManager` | both checks of the peers, step by step, with the peers file | extends `PrivateTx` |
| `Configuration` | readers, `IsValid`, and what is made of a configuration, as operators | |
| `Program` | `main`: start, servers, monitors, shutdown | extends `Configuration` |
| `NodeControlProofs`, `NodeControlHistoryProofs`, `NetworkProofs`, `ChainProofs`, `HibernatorProofs`, `PeerManagerProofs`, `ProgramProofs` | theorems | |
| `MC...` | constants and symmetry for TLC | |

**NodeControl.** The variables are the fields of `NodeControl` and
`Process`; `pc` is each goroutine's place inside a call, `look` the upchecks of
its `CheckClientUpStatus`, `work` the `Start` or `Stop` of each process by the
holder of the mutex, and `running` whether a process really answers, which the
code can only ask. Each read or write of a field that another goroutine may
touch is one step; steps on state protected by the mutex are merged. The code's
early returns are the disjuncts of `StartLock`, `StopLock`, `StopCons` and
`StopPeers`; a failed stop or start leaves the node busy, as the code's
comments say it does. The wait loops of `process/` (30 upchecks, one second
apart) are one step, the upcheck that decides the loop, since the earlier ones
store the same value as the cache already has or one that the last overwrites.
`UpdateStatus` stores its answer, the wait loops store it a second time, and
either returns the field it reads back, process by process and each in its own
step: checks that overlap may return each other's answer.

**NodeControlHistory** adds `clean`, which stays true until something disturbs
the caches (`Disturbed`: an upcheck of a running process fails, a process is
started or dies behind the hibernator, a status check reads and writes the
caches while a start or a stop does), and becomes true again in a state where
nothing is in progress and the caches are right (`Coherent`). It restricts
nothing: the status monitor, failing commands and every interleaving stay.

**Hibernator.** Each goroutine has a place `at` in its own loop and, while it
is inside a call of NodeControl, a `pc`. `full` is the set of channels that
hold a message: a send waits until its channel is empty. The unlocked
`inactiveTimeCount++` is a read (`TrackTick`) and a write (`TrackIncrement`);
the resync tracker's reset may come in between. Handlers serve one request at
a time: HTTP (refused when the node is busy), websocket (the connection starts
the client without asking whether the node is busy, each message asks), RPC
`PrepareForPrivateTx` (resets the timers before it asks) and `IsNodeUp`.

**Network.** The view other nodes have of `StopClient`: consensus check, random
sleep, announcement, one answer per peer, stop, `ConsensusWait`. A failed call
leaves the zero value of the answer, which announces nothing. Time is counted
in ticks; `MaxWait` bounds the age of a consensus check when the last peer has
answered, `Lag` is how long a stopped node goes unnoticed, `ConsWait` the sleep
of `StopClient`. `CheckConsensus` is an ideal rule (fewer than `MaxDown` nodes
are missing after `Lag`); `Chain` checks how close the real ones come to it.
A stop that fails leaves the node announced ("stuck") until a start revives it.
`OrderlyHibernation` has only the nodes that go down and those that are down:
nodes that coordinate never go together, and one goes only when its circle can
spare it.
In the code the random sleep is at most 5 s and an RPC at most 10 s, against a
sleep of 60 s in `ConsensusWait`: about 45 s are left for a stopped node to be
missed by the consensus check of the next one.

**Chain.** A sliding window of block sealers, of which the RPCs of the clients
report the counts or the last block. Sealers, leader elections and the answers
of the RPCs are external and follow how the code uses them; `Hibernate` is a
whole `StopClient` that passes the rule, one at a time as `Network` shows, after
the previous node's `ConsensusWait`. That is a fixed 60 s (`node/control.go:20`)
and lasts `WaitBlocks` blocks, fewer than the window in both runs; in a chain
that has stopped it ends without a block. `since` counts the blocks since the
last hibernation, and the history variable `early` records one that was decided
before the rule could see the one before it (`TooEarly`: fewer than `Reach`
blocks ago, or a window too short for the number of members, or Raft learners,
which the rule takes for voters).

**PeerManager.** A handler with a private transaction and a `StopClient` each
fan out over one caller per peer. `call[g][i]` is the i-th caller of goroutine
`g`: calling, its answer queued in `resCh` (one at a time), or received by the
collector, which stops counting at `expected`. Every use of the peers file is
three steps, since two goroutines may be in it: read the file, store the list in
`pm.cfg.Peers`, look at what is stored there by then. `StopClient` calls the
`Others` of its list, each from the caller with the peer's index. `used` records the lists
a check has looked at. A call that fails is a result with an error for a
private transaction (left out of the array) and a zero status for a hibernation
(kept, and announcing nothing): the JSON decoder rejects a response whose error
field is not null, so that the branch "some node managers did not respond" of
`ValidatePeers` is never taken and has no counterpart.

In a request, JSON of an unexpected type (`privatetx/quorum.go:77,117,120`)
panics; `net/http` recovers it, so that the request ends without being
forwarded. The same panic in a websocket goroutine ends the program, which this
module does not show (`Program` shows such an end for the nil handler of Besu).

**Configuration, Program.** A configuration is a record whose strings are
reduced to what the code tells apart (set or not, which word, whether it is in
lower case) and whose optional parts are sets of at most one element. `IsValid`
methods are predicates; `ConsensusHandler`, `TxHandler`, `ProcessControl` and
`ProxyHandler` are what the constructors make of it: a value, "nil", an error
that ends `main`, or the panic of a path that is registered twice or empty. `Program`
walks `main` from the configuration file to the end: each server is a goroutine
that serves, reports an error on a channel without buffer, and is gone once
somebody has received it; `next` is where a range loop over the proxies is.
`ServeRequest`, `StatusCheck`, `ForcedCheck` and `CheckAndValidateConsensus` are
the moments at which a proxied request, the status monitor, a check that asks
the client in any case and a hibernation use a component; a nil one is a panic,
fatal unless `net/http` recovers it. A check of the monitor asks only when the
client is believed to be up, and covers the client and the privacy manager. The
reply to `admin_nodeInfo` may be missing, without the part the code takes apart
(a panic), incomplete (an error), or name the consensus. `ignorePathsForActivity` (`proxy/http.go:31`) decides only whether a
request counts as activity, which `Program` does not have.

## 3. What the runs check

| Run | Instance | Shows |
| --- | --- | --- |
| `node_races` | 2 goroutines that start, stop and check, both processes (one docker, one shell), every failure, flaky upchecks, processes that change on their own | `TypeOK`; `StatusTellsPhase`: the status tells the operation in progress; `BusyMeansFailure`: only a failed process leaves the node busy; `HibernatedMeansStopped`, `UpMeansRunning`: a stop that reports success and a client reported up are true of the processes, unless disturbed |
| `net_orderly` | 3 nodes, one lossy link in both directions, failing stops, one node of a circle may be down, `ConsWait = Lag + MaxWait` | `TypeOK`; `MutualExclusion` of nodes that reach each other; `QuorumKept` in every set of nodes that all hear each other; `OrderlySpec`: the network implements `OrderlyHibernation` |
| `net_unreachable` | lossy link | `OneAtATime` is **violated** (section 6) |
| `chain_quorum` | 5 members, one of them a learner under Raft, all four rules, a window of 10 blocks and a wait of 6 | `TypeOK`; `RulesSeeTheRest`: a rule errs only by the members it cannot see; `QuorumUnlessEarly`: the quorum is lost only after a hibernation decided too early |
| `chain_short_wait` | 5 Clique signers, a window of 10 blocks and a wait of 4 | `QuorumKept` is **violated** (section 6) |
| `hib_requests` | one handler with all request kinds, failing processes, fairness | `RequestsFinish`; `InactivityNoticed`; `StaleUpEnds`; `CallsReturn`, `BusyEnds`; `UsesNodeControl` |
| `hib_safety` | one handler, resync timer, status monitor | `HTypeOK`, `CountInRange`, `AnswersMatchRequests` |
| `hib_resync` | no requests, resync timer, fairness | `HibernatedWakesUp` is **violated** (section 6) |
| `peers` | a request and a `StopClient`, lists of two peers, one of them invalid, one edit of the file, private, malformed and batched requests, fairness | `TypeOK`; `ChecksEnd`; `NothingLeft`: checks that see one version of the file leave no caller or answer behind; `GoesAheadChecked`, `StopsChecked`: what they conclude was said |
| `peers_unheard` | the same | `UnheardIsDown` is **violated** (section 6) |
| `program` | some forty configurations: each client with each consensus, each field right or wrong, up to two proxies; fairness | `TypeOK`; `NothingMissing`: a valid configuration is complete, but for Besu's transaction handler; `RuleConfirmed`: hibernation by the rule of the consensus really run; `ShutdownEnds`; `DeadClientNoticed` |
| `program_besu` | the same configurations | `BesuSupported` is **violated** (section 6) |

Properties that hold only under conditions have them in their statement:

* `HibernatedMeansStopped` and `UpMeansRunning` say `clean`. They fail without
  it: a status check that overlaps `StopClient` may store an upcheck taken
  before the stop, and after an upcheck of a running process has failed
  `Process.Stop` returns at once.
* `QuorumKept` of `Network` needs `LongSleep`, that is `ConsWait >= Lag + MaxWait`
  (it is violated at `ConsWait = 1`, `Lag = MaxWait = 1` and holds from 2 on).
* In `Chain`, `RulesSeeTheRest` has no condition: a hibernation that passes
  exceeds the documented share by at most the members of `TakenForUp`, those
  that are down with a block in reach of the rule, and Raft's learners.
  `QuorumUnlessEarly` needs every hibernation to have come `Reach` blocks after
  the one before: the window for Istanbul and Clique, one block more than there
  are members for Besu. The clients report on 64 blocks
  (`consensus/quorum/istanbul.go:70`); the 60 seconds of `ConsensusWait` are fewer
  blocks than that when a block takes a second, and far fewer when it takes
  longer, so nothing in the code ensures it (`chain_short_wait`). With learners
  Raft loses its quorum whatever the wait.
* `StaleUpEnds`: a cached Up that a check stored although the client was stopped
  in the meantime does not outlast the requests, because the inactivity tracker
  asks the client before it tries to stop it. The run has no status monitor
  (`PollStatus` is `FALSE`), so that the tracker has to do it alone.
* `ChecksEnd` leaves out a check that `Miscounted`: `peerPrivateTxStatus` counts
  with one list and calls with another, so after an edit in between it may wait
  for an answer nobody sends (a peer was removed) or for callers that nobody
  receives from (two were added). Every other check ends, also one that saw
  several versions. `NothingLeft` and `GoesAheadChecked` are about one version
  (`OneVersion`).
* `GoesAheadChecked` requires a participant that is ready, none that said it is
  not, and every managed participant to have been called; one whose call failed
  is skipped, against the documentation (`peers_unheard`).
* `RuleConfirmed` leaves out a client whose `admin_nodeInfo` call failed, which
  the code takes for agreement; it fails whenever the client needs a TLS
  configuration that the privacy manager does not have, because the call is made
  through the latter's HTTP client (`node/control.go:426`).
* `ShutdownEnds` leaves out an RPC server that fails when `main` no longer
  listens: `Shutdown` then waits for a goroutine that waits for `main` (a second
  instance of the program, with every port taken, gets there as soon as the
  proxy's error is received first).
* `DeadClientNoticed` is about the client and the privacy manager, and leaves out
  a `returnType` with capitals: validation lowers the case of a copy,
  `IsProcessUp` does not know the original and reports every process as up.

The last three exceptions, and the miscount, are hazards of the code that the
models contain (they are listed in `PROJECT.json`); the properties state that
they are the only ones of their kind.

## 4. Bounds

Two goroutines in `NodeControl` are enough for one holder of the mutex and one
status check or waiter, the only two that interact. `Hibernator` has all four
internal goroutines and one handler, which already contends with both trackers for channels and the mutex; the inactivity
time is one or two ticks, and two makes the count pass through a value that is
neither zero nor the limit. Privacy manager and docker are left out there, since `NodeControl`
covers them. `hib_safety` compares states by `ReadResults` (a `VIEW`), which leaves out a
result once nobody will read it any more. Three nodes in `Network` are a pair that cannot reach each other
and a third that both reach. Five members in `Chain` make the tolerated number
two for Raft and Clique (so that a second hibernation is decided with one member
down) and one for Istanbul; a window of two blocks per member is the smallest
from which Clique can tell a missing member at all, and waits of 6 and 4 blocks
leave members that are down in it.
In `PeerManager` two callers are what it takes for one to wait for the channel
of the other, and one edit of the file is enough to separate the count from the
calls; the requests are a plain one with two participants, one with its
participants in the second parameter and one of them unknown, an empty list, a
mention of the keyword elsewhere, a batch, and some with JSON of the wrong type
or the wrong number of parameters. In `Program` two proxies and the
RPC server are enough for servers that fail before, while and after `main`
listens.
The theorems of section 5 have none of these bounds: goroutines, handlers,
nodes, members, peers, participants, proxies, window and waits are arbitrary.
Symmetry is used where goroutines or members are interchangeable and only
invariants are checked.

## 5. Fairness and proofs

**Fairness.** Every goroutine inside a call goes on (weak fairness of its
steps): sleeps, RPCs and commands end, which the code ensures by bounded retries
and HTTP timeouts (a shell command that hangs is outside the model). Taking
`startStopMux` is strongly fair: Go's mutex hands the lock to a waiter that has
waited for more than a millisecond. Where a `select` has several ready cases Go
picks at random, so the reset of the tracker and the start request of the
monitor are strongly fair as well. Tickers tick and an armed timer fires.
In `PeerManager` the goroutines of a check run and every call ends, by an answer
or by the HTTP client's timeout; the file need not be edited. In `Program`,
`main` and the servers' goroutines run and the status monitor's ticker ticks.
Requests, signals, failures and hibernations need not come and processes need
not change.

**Proved with TLAPS**, for every value of the constants that the named
assumptions (`ConstantsAssumption`, `NetworkAssumption`, `ChainAssumption`,
`HibernatorAssumption`, `PeerManagerAssumption`, `ProgramAssumption`) admit.
Every safety invariant that a passing run checks, and the two refinements, are
stated by a theorem:

* `NodeControlProofs`: `TypeCorrect`, `StatusAlwaysTellsPhase`,
  `BusyAlwaysMeansFailure`, for any number of goroutines and all failures. The
  inductive invariant `StatusInv` adds who may hold the mutex (`HolderInv`: a
  goroutine in the locked part of a call is the holder, and conversely), that
  both processes have an outcome when `StartClient` or `StopClient` combines
  them (`WorkInv`), and that nothing but the holder, or a failure it left
  behind, explains a busy status (`QuietInv`). The status properties alone are
  not inductive: without `HolderInv` a second goroutine could be in a locked
  part and overwrite the status.
* `NodeControlHistoryProofs`: `HibernatedAlwaysStopped` and `UpAlwaysRunning`,
  for any number of goroutines that start, stop and check, with every failure;
  no assumption but that of the constants. `HistoryInv` adds to `StatusInv` what
  holds while `clean`: status checks in progress hold true answers (`LookInv`),
  where a cache agrees with its process (`CacheInv`: everywhere but between a
  command and the upcheck that follows it), what the results of `Start` and
  `Stop` say of the process in each phase (`ResultInv`), and what the status of
  the client is worth to who reads it (`ClientInv`). A stop of a container that
  fails clears the cache of a process that runs on; the invariant survives it
  because the node then stays busy until a start has put it right.
* `NetworkProofs`: `NetworkTypeCorrect` and `MutuallyExclusive`, for any number
  of nodes, any peers files and any unreliable links. `ExclusionInv` says that
  of two nodes that hear each other at most one has *passed* the other, that is,
  has heard that it announces nothing; since a node announces before it asks,
  the second to ask hears the first.
  Under `LongSleep`, `QuorumAlwaysKept` and `NetworkIsOrderly`, the refinement
  of `OrderlyHibernation`. `QuorumInv` adds that the sleep of a node tells how
  long it has been gone (`SleepTellsGone`), and that a consensus check, however
  old, still leaves room for the node that made it among those that were missing
  at the time (`MissingAtCheck`, `RoomLeft`). A node that stopped since is not
  among them: it must still be asleep, hence announced, and the peers check
  hears it if both are of one circle. That is where the length of the sleep
  enters.
* `ChainProofs`: `ChainAlwaysTyped`, `ChainSeesTheRest` and `ChainKeepsQuorum`
  (`QuorumUnlessEarly`), for any members, learners, window and wait. A member
  that is down and not in `TakenForUp` has no block in reach of the rule, and
  each rule counts it as down: Besu because its last block is older than N,
  Clique because it is two blocks behind the even share, Istanbul because it is
  two behind the busiest member, which by the pigeonhole principle has two
  blocks of a window of more than N. What the rule counts is less than what is
  tolerated, so there is room for one more beside those taken for up. Raft is
  told who is active. `ChainInv` adds that the blocks since the last hibernation
  were sealed by members that are up (`SealedByUp`), so that nobody is taken for
  up once they fill the reach of the rule.
* `HibernatorProofs`: `HibernatorUsesNodeControl`, every step of the composed
  system is a step of NodeControl or leaves it alone, so `HibernatorTellsPhase`
  follows; `HibernatorAlwaysTyped`; `CountAlwaysInRange`; `AnswersAlwaysMatch`.
* `PeerManagerProofs`: `PeersAlwaysTyped`, `NothingEverLeft`,
  `StopsAlwaysChecked` and `GoesAheadAlwaysChecked`; any number of handlers, any
  requests and lists, and edits of the file between any two steps.
  `CheckInv` says how far each check is (`HandlerInv`, `StopperInv`): as long as
  it has looked at one list (`SameList`), the callers that the count has
  promised to the collector are those that are or will be started (`Started`),
  so that counting `expected` answers leaves nobody behind. `StopClient` needs
  no such proviso, because it counts and calls from the one list it holds.
  `ReportInv` says that a caller has nothing to report before it was answered.
* `ProgramProofs`: `NeverMissing` and `RuleAlwaysConfirmed`, for every
  configuration file and not only the enumerated ones. Three lemmas say what
  validation is worth to the constructors (`ValidHasHandler`,
  `ValidHasProcess`, `ConfirmedIsHandler`); the invariant adds that nothing runs
  before the configuration was found valid (`LoadedInv`) and that a rule is used
  only after the consensus was confirmed or could not be (`ConfirmedInv`, which
  is what a second hibernation relies on). `ProgramAlwaysTyped` says in
  particular that `main` starts and stops the proxies that there are.

**Only model-checked:** everything with fairness (`CallsReturn`, `BusyEnds`,
`RequestsFinish`, `InactivityNoticed`, `StaleUpEnds`, `ChecksEnd`,
`ShutdownEnds`, `DeadClientNoticed`), which is out of this prover's reach, and the
five violations of section 6.

## 6. Where code and documentation disagree

1. `net_unreachable`: a peer that cannot be reached does not stop a hibernation
   (`p2p/service.go:235`), although `docs/architecture.md:33` and the comment
   at `p2p/service.go:151` say it does. Two nodes hibernate together.
2. `hib_resync`: the resync timer fires once (`node/activity.go:60`), although
   `README.md:36` promises a periodic wake-up. After the first resync, or when
   the timer fires while the node is still up, nothing wakes it but a request.
3. `program_besu`: `NewNodeControl` makes no transaction handler for Besu
   (`node/control.go:95`), and the websocket proxy uses it for every message
   (`proxy/websocket.go:267`, `proxy/core.go:50`) in a goroutine where a panic
   ends the program, although `README.md:27` and `docs/config.md:38` offer Besu
   and websocket proxies. Over HTTP, and only with a privacy manager, the same
   panic aborts each request.

4. `chain_short_wait`: `ConsensusWait` lasts 60 s whatever the block period
   (`node/control.go:20`), and a signer that hibernated less than a window ago
   still shows enough blocks to count as up, although `docs/architecture.md:39`
   and `:45` promise that at most 49% of the signers hibernate and consensus does
   not break. At 15 s a block the third of five signers hibernates.
5. `peers_unheard`: a participant whose hibernator does not answer is left out of
   the verdict (`p2p/service.go:107`), although `docs/deployment.md:38` says it is
   considered hibernated and `:35` that the transaction is then refused.

Met on the way, without a run of their own: the exceptions of the properties in
section 3; the Raft rule counts learners as voters
(`consensus/quorum/raft.go:104`), although `docs/architecture.md:43` speaks of 49%
of the peers; an RPC error in answer to `admin_nodeInfo`, or a reply without an
eth part, panics in `IsConsensusValid` (`config/node.go:33`), which
`NothingMissing` names as "nodeInfo"; a proxy path that is empty or there twice
panics when the proxies are made (`proxy/server.go:94`).

## 7. Not modelled, and the plan

Done, in this order: `NodeControl`, `Network` with its abstract specification,
`ConsensusRules` and `Chain`, `Hibernator`, `PrivateTx` and `PeerManager`,
`Configuration` and `Program`, and the theorems above.

What could follow is a condition sharper than `Reach` for Istanbul, which
depends on how evenly the members take turns, and a bound on how long a cache
stays wrong once it is disturbed.

Left out for good: logging, header forwarding and the HTTP client (pure I/O; a
failed call is a nondeterministic outcome where it is used), the choice of
cipher suites, the texts of errors, the commands that start and stop processes
(`process/core.go`, an exit status), and websocket connections that outlive the
proxy server that accepted them.
