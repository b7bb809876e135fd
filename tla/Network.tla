------------------------------- MODULE Network -------------------------------
(***************************************************************************)
(* A network of nodes, each managed by a Node Hibernator, all taking part   *)
(* in consensus with strict mode disabled.  A node that wants to hibernate  *)
(* checks consensus, sleeps a random time, announces ShutdownInprogress and *)
(* only then asks every peer for its status (StopClient in node/control.go, *)
(* ValidatePeers in p2p/service.go).                                        *)
(*                                                                          *)
(* Time is counted in ticks.  The code bounds the time from the consensus   *)
(* check to the last answer of a peer (random sleep, RPC timeouts) by       *)
(* MaxWait, sleeps ConsWait before it takes the announcement back, and a    *)
(* node that went down is missing from the blocks the consensus check looks *)
(* at after Lag.                                                            *)
(***************************************************************************)
EXTENDS Naturals, FiniteSets

CONSTANTS
    Nodes,
    Peers,          \* Peers[n]: the other nodes in n's peers config
    Lossy,          \* the <<asker, peer>> pairs whose RPC may fail
    MaxDown,        \* nodes the consensus rule lets go down
    MaxWait, ConsWait, Lag,
    StopMayFail     \* a process may fail to stop

ASSUME NetworkAssumption ==
    /\ IsFiniteSet(Nodes)
    /\ Peers \in [Nodes -> SUBSET Nodes]
    /\ \A n \in Nodes : n \notin Peers[n]
    /\ Lossy \subseteq Nodes \X Nodes
    /\ MaxDown \in Nat
    /\ MaxWait \in Nat
    /\ ConsWait \in Nat
    /\ Lag \in Nat
    /\ StopMayFail \in BOOLEAN

VARIABLES
    phase,      \* how far each node's StopClient or StartClient is
    pending,    \* peers whose answer peerStatus still waits for
    clean,      \* no answer so far announces a shutdown
    age,        \* ticks since the consensus check of the attempt
    sleep,      \* ticks left of the sleep in ConsensusWait
    gone        \* ticks a node has been down for, up to Lag

vars == <<phase, pending, clean, age, sleep, gone>>

Phases == {"up", "checked", "asking", "stopping", "consWait", "down",
           "starting", "stuck", "reviving"}

\* The type invariant of the network.
TypeOK ==
    /\ phase \in [Nodes -> Phases]
    /\ pending \in [Nodes -> SUBSET Nodes]
    /\ clean \in [Nodes -> BOOLEAN]
    /\ age \in [Nodes -> 0 .. MaxWait]
    /\ sleep \in [Nodes -> 0 .. ConsWait]
    /\ gone \in [Nodes -> 0 .. Lag]

Init ==
    /\ phase = [n \in Nodes |-> "up"]
    /\ pending = [n \in Nodes |-> {}]
    /\ clean = [n \in Nodes |-> TRUE]
    /\ age = [n \in Nodes |-> 0]
    /\ sleep = [n \in Nodes |-> 0]
    /\ gone = [n \in Nodes |-> 0]

------------------------------------------------------------------------------
(* What a node shows to the others *)

\* Mutants of Announced: a node announces its shutdown only once its peers have
\* agreed to it, or takes the announcement back as soon as it is down.
AnnouncedAfterAsking(n) == phase[n] \in {"stopping", "consWait", "stuck"}

AnnouncedUntilDown(n) == phase[n] \in {"asking", "stopping", "stuck"}

\* The NodeStatus RPC answers ShutdownInprogress or ConsensusWait. A stop that
\* failed leaves ShutdownInprogress; StartupInprogress and OK do not count.
Announced(n) == phase[n] \in {"asking", "stopping", "consWait", "stuck"}

\* The nodes whose blocks the consensus check of another node misses.
SeenDown ==
    {n \in Nodes : phase[n] \in {"consWait", "down", "starting"}
                   /\ gone[n] = Lag}

------------------------------------------------------------------------------
(* StopClient, as far as other nodes are concerned *)

Move(n, p) == phase' = [phase EXCEPT ![n] = p]

\* checkAndValidateConsensus passes: the nodes it finds down leave room for
\* one more. (An error leaves the node as it was.)
CheckConsensus(n) ==
    /\ phase[n] = "up"
    /\ Cardinality(SeenDown) < MaxDown
    /\ Move(n, "checked")
    /\ age' = [age EXCEPT ![n] = 0]
    /\ UNCHANGED <<pending, clean, sleep, gone>>

\* After the random sleep: SetNodeStatus(ShutdownInprogress), and peerStatus
\* calls every configured peer.
Announce(n) ==
    /\ phase[n] = "checked"
    /\ Move(n, "asking")
    /\ pending' = [pending EXCEPT ![n] = Peers[n]]
    /\ clean' = [clean EXCEPT ![n] = TRUE]
    /\ UNCHANGED <<age, sleep, gone>>

\* Mutant of PeerStatus: the last answer decides, not all of them.
PeerStatusLastWins(n, m) ==
    /\ phase[n] = "asking"
    /\ m \in pending[n]
    /\ pending' = [pending EXCEPT ![n] = @ \ {m}]
    /\ clean' = [clean EXCEPT ![n] = ~Announced(m)]
    /\ UNCHANGED <<phase, age, sleep, gone>>

\* Peer m's answer. When the call fails, peerStatus keeps the zero value of
\* the result, which announces nothing.
PeerStatus(n, m) ==
    /\ phase[n] = "asking"
    /\ m \in pending[n]
    /\ pending' = [pending EXCEPT ![n] = @ \ {m}]
    /\ \/ clean' = [clean EXCEPT ![n] = @ /\ ~Announced(m)]
       \/ <<n, m>> \in Lossy /\ UNCHANGED clean
    /\ UNCHANGED <<phase, age, sleep, gone>>

\* ValidatePeers: a peer that announced a shutdown makes the attempt fail.
ValidatePeers(n) ==
    /\ phase[n] = "asking"
    /\ pending[n] = {}
    /\ Move(n, IF clean[n] THEN "stopping" ELSE "up")
    /\ UNCHANGED <<pending, clean, age, sleep, gone>>

\* Mutant of StopProcesses: one tick more than the configured sleep.
StopProcessesOversleeps(n) ==
    /\ phase[n] = "stopping"
    /\ Move(n, "consWait")
    /\ sleep' = [sleep EXCEPT ![n] = ConsWait + 1]
    /\ gone' = [gone EXCEPT ![n] = 0]
    /\ UNCHANGED <<pending, clean, age>>

\* stopProcesses: the node is down and the sleep starts, or it stays
\* announced for good.
StopProcesses(n) ==
    /\ phase[n] = "stopping"
    /\ \/ /\ Move(n, "consWait")
          /\ sleep' = [sleep EXCEPT ![n] = ConsWait]
          /\ gone' = [gone EXCEPT ![n] = 0]
       \/ StopMayFail /\ Move(n, "stuck") /\ UNCHANGED <<sleep, gone>>
    /\ UNCHANGED <<pending, clean, age>>

SleepOver(n) ==
    /\ phase[n] = "consWait"
    /\ sleep[n] = 0
    /\ Move(n, "down")
    /\ UNCHANGED <<pending, clean, age, sleep, gone>>

\* StartClient waits for StopClient's mutex, so it never interrupts the sleep.
\* It also revives a node whose stop failed.
StartClient(n) ==
    /\ \/ phase[n] = "down" /\ Move(n, "starting")
       \/ phase[n] = "stuck" /\ Move(n, "reviving")
    /\ UNCHANGED <<pending, clean, age, sleep, gone>>

StartProcesses(n) ==
    /\ phase[n] \in {"starting", "reviving"}
    /\ Move(n, "up")
    /\ UNCHANGED <<pending, clean, age, sleep, gone>>

------------------------------------------------------------------------------
\* External: time passes, never beyond the bound on a validation under way.
Tick ==
    /\ \A n \in Nodes : phase[n] \in {"checked", "asking"} => age[n] < MaxWait
    /\ age' = [n \in Nodes |->
                 IF phase[n] \in {"checked", "asking"} THEN age[n] + 1
                                                       ELSE age[n]]
    /\ sleep' = [n \in Nodes |-> IF sleep[n] > 0 THEN sleep[n] - 1 ELSE 0]
    /\ gone' = [n \in Nodes |->
                  IF phase[n] \in {"consWait", "down", "starting"}
                     /\ gone[n] < Lag
                  THEN gone[n] + 1 ELSE gone[n]]
    /\ UNCHANGED <<phase, pending, clean>>

Next ==
    \/ \E n \in Nodes :
         \/ CheckConsensus(n) \/ Announce(n) \/ ValidatePeers(n)
         \/ StopProcesses(n) \/ SleepOver(n)
         \/ StartClient(n) \/ StartProcesses(n)
         \/ \E m \in Nodes : PeerStatus(n, m)
    \/ Tick

Spec == Init /\ [][Next]_vars

------------------------------------------------------------------------------
(* Properties *)

\* n is taking its processes down, or waiting for consensus to notice.
Hibernating(n) == phase[n] \in {"stopping", "consWait"}

\* n hears from m whenever it asks.
Hears(n, m) == m \in Peers[n] /\ <<n, m>> \notin Lossy

\* Two hibernators that list each other and reach each other never take their
\* nodes down at the same time, whatever the timing: each announces before it
\* asks.
MutualExclusion ==
    \A n, m \in Nodes :
        n # m /\ Hears(n, m) /\ Hears(m, n)
            => ~(Hibernating(n) /\ Hibernating(m))

\* The inductive invariant behind it. n has passed m once it has heard that m
\* announces nothing, up to the end of its own announcement; of two nodes that
\* hear each other, at most one has passed the other.
Passed(n, m) ==
    \/ Hibernating(n)
    \/ phase[n] = "asking" /\ m \notin pending[n] /\ clean[n]

ExclusionInv ==
    /\ TypeOK
    /\ \A n, m \in Nodes :
         n # m /\ Hears(n, m) /\ Hears(m, n) => ~(Passed(n, m) /\ Passed(m, n))

\* No two nodes of the network hibernate at the same time.
OneAtATime == \A n, m \in Nodes : Hibernating(n) /\ Hibernating(m) => n = m

\* The nodes that each other's announcements can hold back.
Coordinated ==
    {p \in Nodes \X Nodes :
        p[1] # p[2] /\ Hears(p[1], p[2]) /\ Hears(p[2], p[1])}

Hibernated == {n \in Nodes : phase[n] \in {"stopping", "consWait", "down", "starting"}}

\* Of any set of nodes that all hear each other, no more are hibernated than
\* the consensus rule allows, although every consensus check is old by the time
\* the node stops, and whatever the other nodes do. It takes a sleep in
\* ConsensusWait of at least Lag + MaxWait: LongSleep. (A node whose stop failed
\* is not hibernated; the code cannot tell what is left of it.)
QuorumKept ==
    \A S \in SUBSET Nodes :
        (\A n, m \in S : n # m => <<n, m>> \in Coordinated)
            => Cardinality(S \cap Hibernated) <= MaxDown

LongSleep == Lag >= 1 /\ ConsWait >= Lag + MaxWait

Down(n) == phase[n] \in {"down", "starting"}

Circle(n) == {m \in Nodes : <<n, m>> \in Coordinated}

\* The inductive invariant behind QuorumKept. A node that sleeps in
\* ConsensusWait has been gone for as long as it has slept, up to Lag, and one
\* whose sleep is over is missing from the blocks.
SleepTellsGone ==
    \A n \in Nodes :
        /\ phase[n] = "consWait" =>
             /\ sleep[n] + gone[n] <= ConsWait
             /\ gone[n] < Lag => sleep[n] + gone[n] = ConsWait
        /\ Down(n) => gone[n] = Lag

\* The nodes that are gone, and already were missing from the blocks when n,
\* whose attempt is under way, checked consensus.
MissingAtCheck(n) ==
    {m \in Nodes : \/ Down(m)
                   \/ phase[m] = "consWait" /\ sleep[m] + Lag + age[n] <= ConsWait}

\* They left room for n; and of the nodes that n coordinates with, those that
\* are down still do when n goes down.
RoomLeft ==
    \A n \in Nodes :
        /\ phase[n] \in {"checked", "asking"}
             => Cardinality(MissingAtCheck(n)) < MaxDown
        /\ Hibernating(n)
             => Cardinality({m \in Circle(n) : Down(m)}) < MaxDown

QuorumInv == ExclusionInv /\ SleepTellsGone /\ RoomLeft /\ QuorumKept

\* The network implements orderly hibernation.
Orderly == INSTANCE OrderlyHibernation WITH
    going <- {n \in Nodes : Hibernating(n)},
    asleep <- {n \in Nodes : Down(n)}

OrderlySpec == Orderly!Spec

==============================================================================
