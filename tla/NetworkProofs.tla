---------------------------- MODULE NetworkProofs ----------------------------
(***************************************************************************)
(* Proofs about Network, for every set of nodes, every peers configuration, *)
(* every set of unreliable links and all timings.                           *)
(***************************************************************************)
EXTENDS Network, FiniteSetTheorems, TLAPS

USE NetworkAssumption DEF Phases, Move

\* The variables of the network keep their types.
LEMMA TypeStep == TypeOK /\ [Next]_vars => TypeOK'
<1>. SUFFICES ASSUME TypeOK, [Next]_vars PROVE TypeOK'
  OBVIOUS
<1>. USE DEF TypeOK
<1>1. CASE UNCHANGED vars
  BY <1>1 DEF vars
<1>2. ASSUME NEW n \in Nodes, CheckConsensus(n) PROVE TypeOK'
  BY <1>2 DEF CheckConsensus
<1>3. ASSUME NEW n \in Nodes, Announce(n) PROVE TypeOK'
  BY <1>3 DEF Announce
<1>4. ASSUME NEW n \in Nodes, NEW m \in Nodes, PeerStatus(n, m) PROVE TypeOK'
  BY <1>4 DEF PeerStatus
<1>5. ASSUME NEW n \in Nodes, ValidatePeers(n) PROVE TypeOK'
  BY <1>5 DEF ValidatePeers
<1>6. ASSUME NEW n \in Nodes, StopProcesses(n) PROVE TypeOK'
  BY <1>6 DEF StopProcesses
<1>7. ASSUME NEW n \in Nodes, SleepOver(n) PROVE TypeOK'
  BY <1>7 DEF SleepOver
<1>8. ASSUME NEW n \in Nodes, StartClient(n) \/ StartProcesses(n)
      PROVE TypeOK'
  BY <1>8 DEF StartClient, StartProcesses
<1>9. CASE Tick
  BY <1>9 DEF Tick
<1>. QED
  BY <1>1, <1>2, <1>3, <1>4, <1>5, <1>6, <1>7, <1>8, <1>9 DEF Next

\* A node that announces nothing has passed nobody: this is where announcing
\* before asking pays.
LEMMA UnannouncedPassedNobody ==
    ASSUME NEW n \in Nodes, NEW m \in Nodes, ~Announced(n)
    PROVE  ~Passed(n, m)
BY DEF Announced, Passed, Hibernating

\* Only hearing from m, without an announcement, makes n pass m.
LEMMA PassedStep ==
    ASSUME TypeOK, [Next]_vars, NEW n \in Nodes, NEW m \in Nodes,
           Hears(n, m), Passed(n, m)', ~Passed(n, m)
    PROVE  PeerStatus(n, m) /\ ~Announced(m)
<1>. USE DEF TypeOK, Hears, Passed, Hibernating
<1>1. CASE UNCHANGED vars
  BY <1>1 DEF vars
<1>2. ASSUME NEW k \in Nodes, CheckConsensus(k) PROVE FALSE
  BY <1>2 DEF CheckConsensus
<1>3. ASSUME NEW k \in Nodes, Announce(k) PROVE FALSE
  BY <1>3 DEF Announce
<1>4. ASSUME NEW k \in Nodes, NEW j \in Nodes, PeerStatus(k, j)
      PROVE  PeerStatus(n, m) /\ ~Announced(m)
  <2>1. k = n
    BY <1>4 DEF PeerStatus
  <2>2. phase' = phase /\ phase[n] = "asking"
    BY <1>4, <2>1 DEF PeerStatus
  <2>3. m \notin pending'[n] /\ clean'[n]
    BY <2>2
  <2>4. clean[n]
    BY <1>4, <2>1, <2>3 DEF PeerStatus
  <2>5. m \in pending[n]
    BY <2>2, <2>4
  <2>6. j = m
    BY <1>4, <2>1, <2>3, <2>5 DEF PeerStatus
  <2>7. ~Announced(m)
    BY <1>4, <2>1, <2>3, <2>6 DEF PeerStatus
  <2>. QED
    BY <1>4, <2>1, <2>6, <2>7
<1>5. ASSUME NEW k \in Nodes, ValidatePeers(k) PROVE FALSE
  BY <1>5 DEF ValidatePeers
<1>6. ASSUME NEW k \in Nodes, StopProcesses(k) PROVE FALSE
  BY <1>6 DEF StopProcesses
<1>7. ASSUME NEW k \in Nodes, SleepOver(k) PROVE FALSE
  BY <1>7 DEF SleepOver
<1>8. ASSUME NEW k \in Nodes, StartClient(k) \/ StartProcesses(k) PROVE FALSE
  BY <1>8 DEF StartClient, StartProcesses
<1>9. CASE Tick
  BY <1>9 DEF Tick
<1>. QED
  BY <1>1, <1>2, <1>3, <1>4, <1>5, <1>6, <1>7, <1>8, <1>9 DEF Next

\* A step keeps the types, and that of two nodes that hear each other at most
\* one has passed the other.
LEMMA ExclusionStep ==
    ASSUME ExclusionInv, [Next]_vars
    PROVE  ExclusionInv'
<1>1. TypeOK'
  BY TypeStep DEF ExclusionInv
<1>2. ASSUME NEW n \in Nodes, NEW m \in Nodes, n # m,
             Hears(n, m), Hears(m, n), Passed(n, m)', Passed(m, n)'
      PROVE  FALSE
  <2>1. ~Passed(n, m) \/ ~Passed(m, n)
    BY <1>2 DEF ExclusionInv
  <2>2. CASE ~Passed(n, m)
    <3>1. PeerStatus(n, m) /\ ~Announced(m)
      BY <1>2, <2>2, PassedStep DEF ExclusionInv
    <3>2. ~Passed(m, n)
      BY <3>1, UnannouncedPassedNobody
    <3>3. PeerStatus(m, n)
      BY <1>2, <3>2, PassedStep DEF ExclusionInv
    <3>. QED
      BY <3>1, <3>3 DEF PeerStatus, Announced
  <2>3. CASE ~Passed(m, n)
    <3>1. PeerStatus(m, n) /\ ~Announced(n)
      BY <1>2, <2>3, PassedStep DEF ExclusionInv
    <3>2. ~Passed(n, m)
      BY <3>1, UnannouncedPassedNobody
    <3>3. PeerStatus(n, m)
      BY <1>2, <3>2, PassedStep DEF ExclusionInv
    <3>. QED
      BY <3>1, <3>3 DEF PeerStatus, Announced
  <2>. QED
    BY <2>1, <2>2, <2>3
<1>. QED
  BY <1>1, <1>2 DEF ExclusionInv, Hears

\* The inductive invariant: the types, and that of two nodes that hear each
\* other at most one has passed the other.
THEOREM ExclusionInvariant == Spec => []ExclusionInv
<1>1. Init => ExclusionInv
  BY DEF Init, ExclusionInv, TypeOK, Passed, Hibernating
<1>2. ExclusionInv /\ [Next]_vars => ExclusionInv'
  BY ExclusionStep
<1>. QED
  BY <1>1, <1>2, PTL DEF Spec

\* The network's variables keep their types.
THEOREM NetworkTypeCorrect == Spec => []TypeOK
<1>1. ExclusionInv => TypeOK
  BY DEF ExclusionInv
<1>. QED
  BY <1>1, ExclusionInvariant, PTL

\* Announcing before asking keeps any two hibernators that hear each other
\* from taking their nodes down together: for every network, whatever the
\* sleeps, the timeouts and the failures of other links.
THEOREM MutuallyExclusive == Spec => []MutualExclusion
<1>1. ExclusionInv => MutualExclusion
  BY DEF ExclusionInv, MutualExclusion, Passed
<1>. QED
  BY <1>1, ExclusionInvariant, PTL

------------------------------------------------------------------------------
(* The quorum, given a sleep in ConsensusWait that is long enough *)

\* A subset of the nodes is finite, and no larger than a set it is part of.
LEMMA NodeSets ==
    ASSUME NEW S \in SUBSET Nodes, NEW T \in SUBSET Nodes, S \subseteq T
    PROVE  /\ Cardinality(S) \in Nat
           /\ Cardinality(T) \in Nat
           /\ Cardinality(S) <= Cardinality(T)
<1>1. IsFiniteSet(T)
  BY FS_Subset
<1>. QED
  BY <1>1, FS_Subset, FS_CardinalityType

\* A set with less than k elements has at most k with one more.
LEMMA OneMore ==
    ASSUME NEW T \in SUBSET Nodes, NEW n \in Nodes, NEW k \in Nat,
           Cardinality(T) < k
    PROVE  Cardinality(T \cup {n}) <= k
<1>1. IsFiniteSet(T)
  BY FS_Subset
<1>2. Cardinality(T) \in Nat
  BY <1>1, FS_CardinalityType
<1>3. CASE n \in T
  <2>1. T \cup {n} = T
    BY <1>3
  <2>2. Cardinality(T \cup {n}) = Cardinality(T)
    BY <2>1
  <2>. QED
    BY <1>2, <2>2
<1>4. CASE n \notin T
  <2>1. Cardinality(T \cup {n}) = Cardinality(T) + 1
    BY <1>1, <1>4, FS_AddElement
  <2>. QED
    BY <1>2, <2>1
<1>. QED
  BY <1>3, <1>4

\* Time and gone agree: what a step does to sleep, gone and the phases that
\* depend on them.
LEMMA SleepTellsGoneStep ==
    ASSUME TypeOK, SleepTellsGone, LongSleep, [Next]_vars
    PROVE  SleepTellsGone'
<1>. USE DEF TypeOK, SleepTellsGone, LongSleep, Down
<1>1. CASE UNCHANGED vars
  BY <1>1 DEF vars
<1>2. ASSUME NEW n \in Nodes, CheckConsensus(n) PROVE SleepTellsGone'
  BY <1>2 DEF CheckConsensus
<1>3. ASSUME NEW n \in Nodes, Announce(n) PROVE SleepTellsGone'
  BY <1>3 DEF Announce
<1>4. ASSUME NEW n \in Nodes, NEW m \in Nodes, PeerStatus(n, m)
      PROVE  SleepTellsGone'
  BY <1>4 DEF PeerStatus
<1>5. ASSUME NEW n \in Nodes, ValidatePeers(n) PROVE SleepTellsGone'
  BY <1>5 DEF ValidatePeers
<1>6. ASSUME NEW n \in Nodes, StopProcesses(n) PROVE SleepTellsGone'
  BY <1>6 DEF StopProcesses
<1>7. ASSUME NEW n \in Nodes, SleepOver(n) PROVE SleepTellsGone'
  BY <1>7 DEF SleepOver
<1>8. ASSUME NEW n \in Nodes, StartClient(n) \/ StartProcesses(n)
      PROVE  SleepTellsGone'
  BY <1>8 DEF StartClient, StartProcesses
<1>9. CASE Tick
  BY <1>9 DEF Tick
<1>. QED
  BY <1>1, <1>2, <1>3, <1>4, <1>5, <1>6, <1>7, <1>8, <1>9 DEF Next

\* While n's attempt is under way no node joins those that were missing when n
\* checked consensus: who stops meanwhile sleeps until n is done.
LEMMA MissingStep ==
    ASSUME TypeOK, LongSleep, [Next]_vars, NEW n \in Nodes,
           phase[n] \in {"checked", "asking"},
           phase'[n] \in {"checked", "asking"}
    PROVE  MissingAtCheck(n)' \subseteq MissingAtCheck(n)
<1>. USE DEF TypeOK, MissingAtCheck, LongSleep, Down
<1>1. CASE UNCHANGED vars
  BY <1>1 DEF vars
<1>2. ASSUME NEW k \in Nodes, CheckConsensus(k)
      PROVE  MissingAtCheck(n)' \subseteq MissingAtCheck(n)
  BY <1>2 DEF CheckConsensus
<1>3. ASSUME NEW k \in Nodes, Announce(k)
      PROVE  MissingAtCheck(n)' \subseteq MissingAtCheck(n)
  BY <1>3 DEF Announce
<1>4. ASSUME NEW k \in Nodes, NEW m \in Nodes, PeerStatus(k, m)
      PROVE  MissingAtCheck(n)' \subseteq MissingAtCheck(n)
  BY <1>4 DEF PeerStatus
<1>5. ASSUME NEW k \in Nodes, ValidatePeers(k)
      PROVE  MissingAtCheck(n)' \subseteq MissingAtCheck(n)
  BY <1>5 DEF ValidatePeers
<1>6. ASSUME NEW k \in Nodes, StopProcesses(k)
      PROVE  MissingAtCheck(n)' \subseteq MissingAtCheck(n)
  BY <1>6 DEF StopProcesses
<1>7. ASSUME NEW k \in Nodes, SleepOver(k)
      PROVE  MissingAtCheck(n)' \subseteq MissingAtCheck(n)
  BY <1>7 DEF SleepOver
<1>8. ASSUME NEW k \in Nodes, StartClient(k) \/ StartProcesses(k)
      PROVE  MissingAtCheck(n)' \subseteq MissingAtCheck(n)
  BY <1>8 DEF StartClient, StartProcesses
<1>9. CASE Tick
  BY <1>9 DEF Tick
<1>. QED
  BY <1>1, <1>2, <1>3, <1>4, <1>5, <1>6, <1>7, <1>8, <1>9 DEF Next

\* A consensus check finds all the nodes that are missing: what it counts is
\* what n's attempt starts from.
LEMMA CheckCounts ==
    ASSUME TypeOK, SleepTellsGone, NEW n \in Nodes, CheckConsensus(n)
    PROVE  MissingAtCheck(n)' \subseteq SeenDown
BY DEF TypeOK, SleepTellsGone, CheckConsensus, MissingAtCheck, SeenDown, Down

\* Only ValidatePeers, without an announcement of a peer, starts to take a
\* node down.
LEMMA HibernatingStep ==
    ASSUME TypeOK, [Next]_vars, NEW n \in Nodes, Hibernating(n)', ~Hibernating(n)
    PROVE  ValidatePeers(n) /\ clean[n]
<1>. USE DEF TypeOK, Hibernating
<1>1. CASE UNCHANGED vars
  BY <1>1 DEF vars
<1>2. ASSUME NEW k \in Nodes, CheckConsensus(k) PROVE FALSE
  BY <1>2 DEF CheckConsensus
<1>3. ASSUME NEW k \in Nodes, Announce(k) PROVE FALSE
  BY <1>3 DEF Announce
<1>4. ASSUME NEW k \in Nodes, NEW j \in Nodes, PeerStatus(k, j) PROVE FALSE
  BY <1>4 DEF PeerStatus
<1>5. ASSUME NEW k \in Nodes, ValidatePeers(k)
      PROVE  ValidatePeers(n) /\ clean[n]
  BY <1>5 DEF ValidatePeers
<1>6. ASSUME NEW k \in Nodes, StopProcesses(k) PROVE FALSE
  BY <1>6 DEF StopProcesses
<1>7. ASSUME NEW k \in Nodes, SleepOver(k) PROVE FALSE
  BY <1>7 DEF SleepOver
<1>8. ASSUME NEW k \in Nodes, StartClient(k) \/ StartProcesses(k) PROVE FALSE
  BY <1>8 DEF StartClient, StartProcesses
<1>9. CASE Tick
  BY <1>9 DEF Tick
<1>. QED
  BY <1>1, <1>2, <1>3, <1>4, <1>5, <1>6, <1>7, <1>8, <1>9 DEF Next

\* A node comes to be down only from the end of its sleep in ConsensusWait.
LEMMA DownStep ==
    ASSUME TypeOK, [Next]_vars, NEW n \in Nodes, Down(n)', ~Down(n)
    PROVE  Hibernating(n)
<1>. USE DEF TypeOK, Hibernating, Down
<1>1. CASE UNCHANGED vars
  BY <1>1 DEF vars
<1>2. ASSUME NEW k \in Nodes,
             \/ CheckConsensus(k) \/ Announce(k) \/ ValidatePeers(k)
             \/ StopProcesses(k) \/ StartClient(k) \/ StartProcesses(k)
             \/ \E m \in Nodes : PeerStatus(k, m)
      PROVE  FALSE
  BY <1>2 DEF CheckConsensus, Announce, ValidatePeers, StopProcesses,
              StartClient, StartProcesses, PeerStatus
<1>3. ASSUME NEW k \in Nodes, SleepOver(k) PROVE Hibernating(n)
  BY <1>3 DEF SleepOver
<1>4. CASE Tick
  BY <1>4 DEF Tick
<1>. QED
  BY <1>1, <1>2, <1>3, <1>4 DEF Next

\* An attempt under way was begun by the consensus check of this very step or
\* was under way before.
LEMMA AttemptStep ==
    ASSUME TypeOK, [Next]_vars, NEW n \in Nodes,
           phase'[n] \in {"checked", "asking"},
           phase[n] \notin {"checked", "asking"}
    PROVE  CheckConsensus(n)
<1>. USE DEF TypeOK
<1>1. CASE UNCHANGED vars
  BY <1>1 DEF vars
<1>2. ASSUME NEW k \in Nodes, CheckConsensus(k) PROVE CheckConsensus(n)
  <2>1. k = n
    BY <1>2 DEF CheckConsensus
  <2>. QED
    BY <1>2, <2>1
<1>3. ASSUME NEW k \in Nodes,
             \/ Announce(k) \/ ValidatePeers(k)
             \/ StopProcesses(k) \/ StartClient(k) \/ StartProcesses(k)
             \/ SleepOver(k) \/ \E m \in Nodes : PeerStatus(k, m)
      PROVE  FALSE
  BY <1>3 DEF Announce, ValidatePeers, StopProcesses, SleepOver,
              StartClient, StartProcesses, PeerStatus
<1>4. CASE Tick
  BY <1>4 DEF Tick
<1>. QED
  BY <1>1, <1>2, <1>3, <1>4 DEF Next

\* Whoever n coordinates with is not going down while n is.
LEMMA CircleStays ==
    ASSUME ExclusionInv, NEW n \in Nodes, NEW m \in Circle(n), Passed(n, m)
    PROVE  ~Hibernating(m)
<1>1. m \in Nodes /\ n # m /\ Hears(n, m) /\ Hears(m, n)
  BY DEF Circle, Coordinated
<1>2. ~Passed(m, n)
  BY <1>1 DEF ExclusionInv
<1>. QED
  BY <1>2 DEF Passed

\* When the last answer has come in and none announced a shutdown, the nodes
\* that n coordinates with and that are down leave room for n, and none of
\* them is going down.
LEMMA RoomToGo ==
    ASSUME ExclusionInv, RoomLeft, NEW n \in Nodes, ValidatePeers(n), clean[n]
    PROVE  /\ \A m \in Circle(n) : ~Hibernating(m)
           /\ Cardinality({m \in Circle(n) : Down(m)}) < MaxDown
<1>1. phase[n] = "asking" /\ pending[n] = {}
  BY DEF ValidatePeers
<1>2. ASSUME NEW m \in Circle(n) PROVE ~Hibernating(m)
  BY <1>1, CircleStays DEF Passed
<1>3. Cardinality(MissingAtCheck(n)) < MaxDown
  BY <1>1 DEF RoomLeft
<1>4. {m \in Circle(n) : Down(m)} \subseteq MissingAtCheck(n)
  BY DEF Circle, MissingAtCheck
<1>5. MissingAtCheck(n) \in SUBSET Nodes
  BY DEF MissingAtCheck
<1>6. /\ Cardinality({m \in Circle(n) : Down(m)}) \in Nat
      /\ Cardinality(MissingAtCheck(n)) \in Nat
      /\ Cardinality({m \in Circle(n) : Down(m)})
           <= Cardinality(MissingAtCheck(n))
  BY <1>4, <1>5, NodeSets
<1>. QED
  BY <1>2, <1>3, <1>6

\* Room is left at the consensus check, and what is found then stays true until
\* the node is taken down and after.
LEMMA RoomLeftStep ==
    ASSUME ExclusionInv, SleepTellsGone, RoomLeft, LongSleep, [Next]_vars
    PROVE  RoomLeft'
<1>0. TypeOK /\ ExclusionInv'
  BY ExclusionStep DEF ExclusionInv
<1>1. ASSUME NEW n \in Nodes, phase'[n] \in {"checked", "asking"}
      PROVE  Cardinality(MissingAtCheck(n)') < MaxDown
  <2>1. MissingAtCheck(n)' \in SUBSET Nodes /\ MissingAtCheck(n) \in SUBSET Nodes
        /\ SeenDown \in SUBSET Nodes
    BY DEF MissingAtCheck, SeenDown
  <2>2. CASE phase[n] \in {"checked", "asking"}
    <3>1. Cardinality(MissingAtCheck(n)) < MaxDown
      BY <2>2 DEF RoomLeft
    <3>2. MissingAtCheck(n)' \subseteq MissingAtCheck(n)
      BY <1>0, <1>1, <2>2, MissingStep
    <3>3. /\ Cardinality(MissingAtCheck(n)') \in Nat
          /\ Cardinality(MissingAtCheck(n)) \in Nat
          /\ Cardinality(MissingAtCheck(n)') <= Cardinality(MissingAtCheck(n))
      BY <2>1, <3>2, NodeSets
    <3>. QED
      BY <3>1, <3>3
  <2>3. CASE phase[n] \notin {"checked", "asking"}
    <3>1. CheckConsensus(n)
      BY <1>0, <1>1, <2>3, AttemptStep
    <3>2. Cardinality(SeenDown) < MaxDown
      BY <3>1 DEF CheckConsensus
    <3>3. MissingAtCheck(n)' \subseteq SeenDown
      BY <1>0, <3>1, CheckCounts
    <3>4. /\ Cardinality(MissingAtCheck(n)') \in Nat
          /\ Cardinality(SeenDown) \in Nat
          /\ Cardinality(MissingAtCheck(n)') <= Cardinality(SeenDown)
      BY <2>1, <3>3, NodeSets
    <3>. QED
      BY <3>2, <3>4
  <2>. QED
    BY <2>2, <2>3
<1>2. ASSUME NEW n \in Nodes, Hibernating(n)'
      PROVE  Cardinality({m \in Circle(n) : Down(m)}') < MaxDown
  <2>1. /\ \A m \in Circle(n) : ~Hibernating(m)
        /\ Cardinality({m \in Circle(n) : Down(m)}) < MaxDown
    <3>1. CASE Hibernating(n)
      BY <3>1, CircleStays DEF Passed, RoomLeft
    <3>2. CASE ~Hibernating(n)
      BY <1>0, <1>2, <3>2, HibernatingStep, RoomToGo
    <3>. QED
      BY <3>1, <3>2
  <2>2. \A m \in Circle(n) : m \in Nodes /\ (Down(m)' => Down(m))
    BY <1>0, <2>1, DownStep DEF Circle
  <2>3. {m \in Circle(n) : Down(m)'} \subseteq {m \in Circle(n) : Down(m)}
    BY <2>2
  <2>4. {m \in Circle(n) : Down(m)} \in SUBSET Nodes
        /\ {m \in Circle(n) : Down(m)'} \in SUBSET Nodes
    BY DEF Circle
  <2>5. /\ Cardinality({m \in Circle(n) : Down(m)'}) \in Nat
        /\ Cardinality({m \in Circle(n) : Down(m)}) \in Nat
        /\ Cardinality({m \in Circle(n) : Down(m)'})
             <= Cardinality({m \in Circle(n) : Down(m)})
    BY <2>3, <2>4, NodeSets
  <2>6. {m \in Circle(n) : Down(m)}' = {m \in Circle(n) : Down(m)'}
    BY DEF Circle, Coordinated, Hears
  <2>. QED
    BY <2>1, <2>5, <2>6
<1>. QED
  BY <1>1, <1>2 DEF RoomLeft

\* The quorum is kept in every clique of coordinated nodes in which a node is
\* going down.
BusyCliqueKept ==
    \A S \in SUBSET Nodes :
        /\ \A i, j \in S : i # j => <<i, j>> \in Coordinated
        /\ \E n \in S : Hibernating(n)
        => Cardinality(S \cap Hibernated) <= MaxDown

\* Of a clique of coordinated nodes one of which is going down, only that one
\* is, and the rest of it that is hibernated is down already.
LEMMA CliqueBound == ExclusionInv /\ RoomLeft => BusyCliqueKept
<1>. SUFFICES ASSUME ExclusionInv, RoomLeft, NEW S \in SUBSET Nodes,
                     \A i, j \in S : i # j => <<i, j>> \in Coordinated,
                     NEW n \in S, Hibernating(n)
              PROVE  Cardinality(S \cap Hibernated) <= MaxDown
  BY DEF BusyCliqueKept
<1>. DEFINE D == {m \in Circle(n) : Down(m)}
<1>1. D \in SUBSET Nodes /\ D \cup {n} \in SUBSET Nodes
      /\ S \cap Hibernated \in SUBSET Nodes
  BY DEF Circle
<1>2. Cardinality(D) < MaxDown
  BY DEF RoomLeft
<1>3. Cardinality(D \cup {n}) <= MaxDown
  BY <1>1, <1>2, OneMore
<1>4. ASSUME NEW m \in S \cap Hibernated, m # n PROVE m \in D
  <2>1. m \in Circle(n)
    BY <1>4 DEF Circle
  <2>2. ~Hibernating(m)
    BY <2>1, CircleStays DEF Passed
  <2>. QED
    BY <2>1, <2>2 DEF Hibernated, Hibernating, Down
<1>5. S \cap Hibernated \subseteq D \cup {n}
  BY <1>4
<1>6. /\ Cardinality(S \cap Hibernated) \in Nat
      /\ Cardinality(D \cup {n}) \in Nat
      /\ Cardinality(S \cap Hibernated) <= Cardinality(D \cup {n})
  BY <1>1, <1>5, NodeSets
<1>. QED
  BY <1>3, <1>6

\* In every clique of nodes that coordinate, the quorum is kept by every step:
\* a node that starts to go down finds room, and nobody else joins.
LEMMA QuorumStep ==
    ASSUME ExclusionInv, SleepTellsGone, RoomLeft, QuorumKept, LongSleep,
           [Next]_vars
    PROVE  QuorumKept'
<1>0. TypeOK /\ ExclusionInv' /\ RoomLeft'
  BY ExclusionStep, RoomLeftStep DEF ExclusionInv
<1>. SUFFICES ASSUME NEW S \in SUBSET Nodes,
                     \A i, j \in S : i # j => <<i, j>> \in Coordinated
              PROVE  Cardinality(S \cap Hibernated') <= MaxDown
  BY DEF QuorumKept, Coordinated, Hears
<1>1. CASE \E n \in S : Hibernating(n)'
  <2>1. BusyCliqueKept'
    BY <1>0, CliqueBound, PTL
  <2>. QED
    BY <1>1, <2>1 DEF BusyCliqueKept, Coordinated, Hears
<1>2. CASE \A n \in S : ~Hibernating(n)'
  <2>1. ASSUME NEW m \in S \cap Hibernated' PROVE m \in Hibernated
    <3>1. Down(m)'
      BY <1>2, <2>1 DEF Hibernated, Hibernating, Down
    <3>2. Down(m) \/ Hibernating(m)
      BY <1>0, <3>1, DownStep
    <3>. QED
      BY <3>2 DEF Hibernated, Hibernating, Down
  <2>2. S \cap Hibernated' \subseteq S \cap Hibernated
    BY <2>1
  <2>3. /\ Cardinality(S \cap Hibernated') \in Nat
        /\ Cardinality(S \cap Hibernated) \in Nat
        /\ Cardinality(S \cap Hibernated') <= Cardinality(S \cap Hibernated)
    BY <2>2, NodeSets
  <2>4. Cardinality(S \cap Hibernated) <= MaxDown
    BY DEF QuorumKept
  <2>. QED
    BY <2>3, <2>4
<1>. QED
  BY <1>1, <1>2

\* The inductive invariant of the quorum holds initially.
LEMMA QuorumInit == Init => QuorumInv
<1>. SUFFICES ASSUME Init PROVE QuorumInv
  OBVIOUS
<1>1. ExclusionInv
  BY DEF Init, ExclusionInv, TypeOK, Passed, Hibernating
<1>2. SleepTellsGone /\ RoomLeft
  BY DEF Init, SleepTellsGone, RoomLeft, Hibernating, Down
<1>3. ASSUME NEW S \in SUBSET Nodes PROVE Cardinality(S \cap Hibernated) = 0
  <2>1. S \cap Hibernated = {}
    BY DEF Init, Hibernated
  <2>. QED
    BY <2>1, FS_EmptySet
<1>. QED
  BY <1>1, <1>2, <1>3 DEF QuorumInv, QuorumKept

\* The inductive invariant of the quorum, for every network whose sleep in
\* ConsensusWait is long enough.
THEOREM QuorumInvariant ==
    ASSUME LongSleep
    PROVE  Spec => []QuorumInv
<1>1. QuorumInv /\ [Next]_vars => QuorumInv'
  BY ExclusionStep, SleepTellsGoneStep, RoomLeftStep, QuorumStep
     DEF QuorumInv, ExclusionInv
<1>. QED
  BY QuorumInit, <1>1, PTL DEF Spec

\* However old a consensus check is when its node goes down, and whatever the
\* other nodes and the links between them do, no more nodes of a group that
\* coordinates are hibernated than consensus can spare.
THEOREM QuorumAlwaysKept ==
    ASSUME LongSleep
    PROVE  Spec => []QuorumKept
<1>1. QuorumInv => QuorumKept
  BY DEF QuorumInv
<1>. QED
  BY <1>1, QuorumInvariant, PTL

------------------------------------------------------------------------------
(* The network implements orderly hibernation *)

\* Every step is one of orderly hibernation, or changes nothing in it.
LEMMA OrderlyStep ==
    ASSUME QuorumInv, [Next]_vars
    PROVE  [Orderly!Next]_(Orderly!vars)
<1>. DEFINE Going == {n \in Nodes : Hibernating(n)}
            Asleep == {n \in Nodes : Down(n)}
<1>. USE DEF Hibernating, Down
<1>0. TypeOK
  BY DEF QuorumInv, ExclusionInv
<1>1. CASE Going' = Going /\ Asleep' = Asleep
  BY <1>1 DEF Orderly!vars
<1>2. ASSUME NEW n \in Nodes, ValidatePeers(n), clean[n]
      PROVE  Orderly!Begin(n)
  <2>1. /\ \A m \in Circle(n) : ~Hibernating(m)
        /\ Cardinality({m \in Circle(n) : Down(m)}) < MaxDown
    BY <1>2, RoomToGo DEF QuorumInv
  <2>2. Orderly!Circle(n) = Circle(n)
    BY DEF Circle, Orderly!Circle
  <2>3. Asleep \cap Circle(n) = {m \in Circle(n) : Down(m)}
    BY DEF Circle
  <2>4. Going \cap Circle(n) = {}
    BY <2>1
  <2>5. n \notin Going \cup Asleep
    BY <1>2 DEF ValidatePeers
  <2>6. phase' = [phase EXCEPT ![n] = "stopping"]
    BY <1>2 DEF ValidatePeers
  <2>7. Going' = Going \cup {n} /\ Asleep' = Asleep
    BY <1>0, <1>2, <2>6 DEF TypeOK, ValidatePeers
  <2>8. \A T : Orderly!Cardinality(T) = Cardinality(T)
    BY DEF Cardinality, Orderly!Cardinality
  <2>. QED
    BY <2>1, <2>2, <2>3, <2>4, <2>5, <2>7, <2>8 DEF Orderly!Begin
<1>3. ASSUME NEW n \in Nodes, SleepOver(n) PROVE Orderly!Settle(n)
  <2>1. n \in Going
    BY <1>3 DEF SleepOver
  <2>2. Going' = Going \ {n} /\ Asleep' = Asleep \cup {n}
    BY <1>0, <1>3 DEF TypeOK, SleepOver
  <2>. QED
    BY <2>1, <2>2 DEF Orderly!Settle
<1>4. ASSUME NEW n \in Nodes, StopProcesses(n)
      PROVE  (Going' = Going /\ Asleep' = Asleep) \/ Orderly!GiveUp(n)
  <2>1. CASE Move(n, "consWait")
    BY <1>0, <1>4, <2>1 DEF TypeOK, StopProcesses
  <2>2. CASE Move(n, "stuck")
    <3>1. n \in Going
      BY <1>4 DEF StopProcesses
    <3>2. Going' = Going \ {n} /\ Asleep' = Asleep
      BY <1>0, <1>4, <2>2 DEF TypeOK, StopProcesses
    <3>. QED
      BY <3>1, <3>2 DEF Orderly!GiveUp
  <2>. QED
    BY <1>4, <2>1, <2>2 DEF StopProcesses
<1>5. ASSUME NEW n \in Nodes, StartProcesses(n)
      PROVE  (Going' = Going /\ Asleep' = Asleep) \/ Orderly!WakeUp(n)
  <2>1. CASE phase[n] = "starting"
    <3>1. n \in Asleep
      BY <2>1
    <3>2. Going' = Going /\ Asleep' = Asleep \ {n}
      BY <1>0, <1>5, <2>1 DEF TypeOK, StartProcesses
    <3>. QED
      BY <3>1, <3>2 DEF Orderly!WakeUp
  <2>2. CASE phase[n] = "reviving"
    BY <1>0, <1>5, <2>2 DEF TypeOK, StartProcesses
  <2>. QED
    BY <1>5, <2>1, <2>2 DEF StartProcesses
<1>6. ASSUME NEW n \in Nodes,
             \/ CheckConsensus(n) \/ Announce(n) \/ StartClient(n)
             \/ ValidatePeers(n) /\ ~clean[n]
             \/ \E m \in Nodes : PeerStatus(n, m)
      PROVE  Going' = Going /\ Asleep' = Asleep
  BY <1>0, <1>6 DEF TypeOK, CheckConsensus, Announce, StartClient,
                    ValidatePeers, PeerStatus
<1>7. ASSUME Tick \/ UNCHANGED vars
      PROVE  Going' = Going /\ Asleep' = Asleep
  BY <1>7 DEF Tick, vars
<1>. QED
  BY <1>1, <1>2, <1>3, <1>4, <1>5, <1>6, <1>7 DEF Next, Orderly!Next

\* The network of hibernators, with its announcements, questions, sleeps and
\* lost answers, implements orderly hibernation: nodes that coordinate go down
\* one at a time, and only while consensus can spare one more of them.
THEOREM NetworkIsOrderly ==
    ASSUME LongSleep
    PROVE  Spec => OrderlySpec
<1>1. Init => Orderly!Init
  BY DEF Init, Orderly!Init, Hibernating, Down
<1>2. QuorumInv /\ [Next]_vars => [Orderly!Next]_(Orderly!vars)
  BY OrderlyStep
<1>. QED
  BY <1>1, <1>2, QuorumInvariant, PTL DEF Spec, OrderlySpec, Orderly!Spec

==============================================================================
