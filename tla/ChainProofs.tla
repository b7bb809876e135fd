----------------------------- MODULE ChainProofs -----------------------------
(***************************************************************************)
(* Proofs about Chain, for every number of members and learners and every   *)
(* length of window and wait: a consensus rule lets at most as many members *)
(* too many go as it takes for up, and the quorum is kept as long as no     *)
(* hibernation comes too early for the rule to see the one before.          *)
(***************************************************************************)
EXTENDS Chain, FiniteSetTheorems, TLAPS

------------------------------------------------------------------------------
(* Numbers *)

\* What is counted can be counted.
LEMMA Counts ==
    /\ N \in Nat \ {0}
    /\ \A S \in SUBSET Members : /\ IsFiniteSet(S)
                                 /\ Cardinality(S) \in 0 .. N
                                 /\ Cardinality(Members \ S) = N - Cardinality(S)
<1>1. IsFiniteSet(Members) /\ Members # {}
  BY ChainAssumption
<1>2. N \in Nat \ {0}
  BY <1>1, FS_CardinalityType, FS_EmptySet DEF N
<1>3. ASSUME NEW S \in SUBSET Members
      PROVE  /\ IsFiniteSet(S)
             /\ Cardinality(S) \in 0 .. N
             /\ Cardinality(Members \ S) = N - Cardinality(S)
  <2>1. IsFiniteSet(S) /\ Cardinality(S) <= N
    BY <1>1, FS_Subset DEF N
  <2>2. Cardinality(S) \in Nat
    BY <2>1, FS_CardinalityType
  <2>3. Members \cap S = S
    OBVIOUS
  <2>4. Cardinality(Members \ S) = Cardinality(Members) - Cardinality(Members \cap S)
    BY <1>1, FS_Difference
  <2>. QED
    BY <1>2, <2>1, <2>2, <2>3, <2>4 DEF N
<1>. QED
  BY <1>2, <1>3

\* The shares of the members that may be down.
LEMMA Shares ==
    ASSUME NEW n \in Nat \ {0}
    PROVE  (n - 1) \div 2 \in Nat /\ (n - 1) \div 3 \in Nat
OBVIOUS

\* A majority of the Raft peers, of which l are learners, leaves no more peers
\* out than may be down of the voters and l more.
LEMMA RaftShares ==
    ASSUME NEW n \in Nat \ {0}, NEW l \in 0 .. n - 1
    PROVE  /\ n \div 2 \in Nat
           /\ n - (n \div 2 + 1) <= (n - l - 1) \div 2 + l
OBVIOUS

\* Two blocks per member.
LEMMA BlocksPerMember ==
    ASSUME NEW n \in Nat \ {0}, NEW w \in Nat, w >= 2 * n
    PROVE  w \div n \in Nat /\ w \div n >= 2
OBVIOUS

\* Where in an order of the members a block's turn is.
LEMMA Turn ==
    ASSUME NEW n \in Nat \ {0}, NEW i \in Nat
    PROVE  (i % n) + 1 \in 1 .. n
OBVIOUS

\* A set of numbers with a bound has a largest one.
LEMMA MaxExists ==
    ASSUME NEW S \in SUBSET Nat, S # {}, NEW b \in Nat, \A x \in S : x <= b
    PROVE  Max(S) \in S /\ \A x \in S : Max(S) >= x
<1>. DEFINE T == {b - x : x \in S}
            R == OpToRel(<, Nat)
<1>1. T \subseteq Nat /\ T # {}
  <2>1. \A x \in S : b - x \in Nat
    OBVIOUS
  <2>. QED
    BY <2>1
<1>2. IsWellFoundedOn(R, Nat)
  BY NatLessThanWellFounded
<1>3. \A x, y \in Nat : x < y => <<x, y>> \in R
  BY DEF OpToRel
<1>. HIDE DEF R
<1>4. PICK t \in T : \A y \in T : ~(<<y, t>> \in R)
  BY <1>1, <1>2, WFMin
<1>5. \A y \in T : t <= y
  <2>. HIDE DEF T
  <2>1. ASSUME NEW y \in T PROVE t <= y
    <3>1. y \in Nat /\ t \in Nat /\ ~(y < t)
      BY <1>1, <1>3, <1>4
    <3>. QED
      BY <3>1
  <2>. QED
    BY <2>1
<1>6. PICK x \in S : t = b - x
  BY <1>4
<1>7. \A y \in S : x >= y
  BY <1>5, <1>6
<1>. QED
  BY <1>6, <1>7 DEF Max

------------------------------------------------------------------------------
(* Types, and who sealed the blocks since the last hibernation *)

\* The types, the length of the window and its sealers when the chain starts.
LEMMA StartInv == Init => TypeOK /\ Len(recent) = Window /\ SealedByUp
<1>. SUFFICES ASSUME Init PROVE TypeOK /\ Len(recent) = Window /\ SealedByUp
  OBVIOUS
<1>1. Window \in Nat /\ WaitBlocks \in Nat
  BY ChainAssumption
<1>2. PICK order \in [1 .. N -> Members] :
        recent = [i \in 1 .. Window |-> order[(i % N) + 1]]
  BY DEF Init, SetToSeqs, N
<1>3. recent \in [1 .. Window -> Members]
  BY <1>1, <1>2, Counts, Turn
<1>4. recent \in Seq(Members) /\ Len(recent) = Window
  BY <1>1, <1>3
<1>5. Ago \in Nat
  BY <1>1 DEF Ago
<1>6. SealedByUp
  BY <1>3 DEF Init, SealedByUp
<1>7. TypeOK
  <2>1. since \in 0 .. Ago
    BY <1>5 DEF Init
  <2>2. recent \in Seq(Members) /\ Len(recent) <= Window
    BY <1>1, <1>4
  <2>3. /\ rule \in Rules /\ up \subseteq Members /\ minter \in Members \ Learners
        /\ early \in BOOLEAN
    BY DEF Init
  <2>. QED
    BY <2>1, <2>2, <2>3 DEF TypeOK
<1>. QED
  BY <1>4, <1>6, <1>7

\* A new block at the end of the window, the oldest one gone.
LEMMA WindowSlides ==
    ASSUME TypeOK, Len(recent) = Window, NEW s \in Members, Seal(s)
    PROVE  /\ recent' \in Seq(Members)
           /\ Len(recent') = Window
           /\ recent'[Window] = s
           /\ \A i \in 1 .. Window - 1 : recent'[i] = recent[i + 1]
<1>1. Window \in Nat \ {0} /\ recent \in Seq(Members)
  BY ChainAssumption DEF TypeOK
<1>2. recent' = Append(Tail(recent), s)
  BY <1>1 DEF Seal
<1>3. /\ Tail(recent) \in Seq(Members) /\ Len(Tail(recent)) = Window - 1
      /\ \A i \in 1 .. Window - 1 : Tail(recent)[i] = recent[i + 1]
  BY <1>1
<1>4. ASSUME NEW t \in Seq(Members), Len(t) = Window - 1
      PROVE  /\ Append(t, s) \in Seq(Members)
             /\ Len(Append(t, s)) = Window
             /\ Append(t, s)[Window] = s
             /\ \A i \in 1 .. Window - 1 : Append(t, s)[i] = t[i]
  BY <1>1, <1>4
<1>. QED
  BY <1>2, <1>3, <1>4

\* Every step keeps the types, the length of the window and its sealers.
LEMMA WindowStep ==
    ASSUME TypeOK, Len(recent) = Window, rule # "raft" => SealedByUp, [Next]_vars
    PROVE  TypeOK' /\ (Len(recent) = Window)' /\ (rule # "raft" => SealedByUp)'
<1>. USE DEF TypeOK, SealedByUp
<1>1. Window \in Nat \ {0} /\ WaitBlocks \in Nat /\ Ago \in Nat
  BY ChainAssumption DEF Ago
<1>2. CASE UNCHANGED vars
  BY <1>2 DEF vars
<1>3. ASSUME NEW s \in Members, Seal(s)
      PROVE  TypeOK' /\ (Len(recent) = Window)' /\ (rule # "raft" => SealedByUp)'
  <2>1. UNCHANGED <<rule, up, minter, early>> /\ rule # "raft" /\ s \in up
    BY <1>3 DEF Seal
  <2>2. since' \in 0 .. Ago /\ since' <= since + 1
    BY <1>1, <1>3 DEF Seal
  <2>3. ASSUME NEW i \in 1 .. Window, i > Window - since'
        PROVE  recent'[i] \in up
    <3>1. CASE i = Window
      BY <1>3, <2>1, <3>1, WindowSlides
    <3>2. CASE i # Window
      <4>1. since \in Int /\ since' \in Int /\ since' <= since + 1
        BY <2>2
      <4>2. i + 1 \in 1 .. Window /\ i \in 1 .. Window - 1
        BY <1>1, <3>2
      <4>3. i + 1 > Window - since
        <5>1. \A a, v, v1, k \in Int : v1 <= v + 1 /\ k > a - v1 => k + 1 > a - v
          OBVIOUS
        <5>2. i \in Int /\ Window \in Int
          BY <1>1
        <5>. QED
          BY <2>3, <4>1, <5>1, <5>2
      <4>4. recent[i + 1] \in up
        BY <2>1, <4>2, <4>3
      <4>. QED
        BY <1>3, <4>2, <4>4, WindowSlides
    <3>. QED
      BY <3>1, <3>2
  <2>4. recent' \in Seq(Members) /\ Len(recent') = Window
    BY <1>3, WindowSlides
  <2>. QED
    BY <1>1, <2>1, <2>2, <2>3, <2>4
<1>4. ASSUME NEW n \in Members, Elect(n)
      PROVE  TypeOK' /\ (Len(recent) = Window)' /\ (rule # "raft" => SealedByUp)'
  BY <1>4 DEF Elect
<1>5. ASSUME NEW n \in Members, Hibernate(n)
      PROVE  TypeOK' /\ (Len(recent) = Window)' /\ (rule # "raft" => SealedByUp)'
  <2>1. UNCHANGED <<rule, minter, recent>> /\ up' = up \ {n} /\ since' = 0
    BY <1>5 DEF Hibernate
  <2>2. early' \in BOOLEAN
    BY <1>5, Zenon DEF Hibernate, TooEarly
  <2>3. (rule # "raft" => SealedByUp)'
    BY <1>1, <2>1
  <2>. QED
    BY <1>1, <2>1, <2>2, <2>3
<1>6. ASSUME NEW n \in Members, WakeUp(n)
      PROVE  TypeOK' /\ (Len(recent) = Window)' /\ (rule # "raft" => SealedByUp)'
  BY <1>6 DEF WakeUp
<1>. QED
  BY <1>2, <1>3, <1>4, <1>5, <1>6 DEF Next

------------------------------------------------------------------------------
(* What the rules see *)

\* The last k sealers, while the window is that long.
LEMMA LastOfWindow ==
    ASSUME Len(recent) = Window, NEW k \in 1 .. Window
    PROVE  LastSealers(k) = {recent[i] : i \in (Window + 1 - k) .. Window}
<1>1. Window \in Nat
  BY ChainAssumption
<1>2. Min({k, Window}) = k
  <2>1. \E x \in {k, Window} : \A y \in {k, Window} : x <= y
    BY <1>1
  <2>2. /\ Min({k, Window}) \in {k, Window}
        /\ \A y \in {k, Window} : Min({k, Window}) <= y
    BY <2>1 DEF Min
  <2>. QED
    BY <1>1, <2>2
<1>. QED
  BY <1>1, <1>2 DEF LastSealers

\* A member that is not among the last Window sealers shows no activity.
LEMMA UnseenLooksDown ==
    ASSUME TypeOK, Len(recent) = Window, NEW m \in Members,
           m \notin LastSealers(Window)
    PROVE  Activity[m] = 0
<1>1. Window \in Nat \ {0} /\ DOMAIN recent = 1 .. Window
  BY ChainAssumption DEF TypeOK
<1>2. LastSealers(Window) = {recent[i] : i \in 1 .. Window}
  BY <1>1, LastOfWindow
<1>3. {i \in DOMAIN recent : recent[i] = m} = {}
  BY <1>1, <1>2
<1>. QED
  BY <1>3, FS_EmptySet DEF Activity

\* A member that is not among the last N + 1 sealers proposed long ago, however
\* long the window is.
LEMMA UnseenProposedLongAgo ==
    ASSUME TypeOK, Len(recent) = Window, Window > N, NEW m \in Members,
           m \notin LastSealers(N + 1)
    PROVE  LastProposed[m] \in Nat /\ Window - LastProposed[m] > N
<1>1. Window \in Nat /\ N \in Nat \ {0} /\ DOMAIN recent = 1 .. Window
  BY ChainAssumption, Counts DEF TypeOK
<1>. DEFINE B == {0} \cup {i \in DOMAIN recent : recent[i] = m}
<1>2. B \in SUBSET Nat /\ B # {} /\ \A x \in B : x <= Window
  BY <1>1
<1>3. LastSealers(N + 1) = {recent[i] : i \in (Window - N) .. Window}
  <2>1. N + 1 \in 1 .. Window /\ Window + 1 - (N + 1) = Window - N
    BY <1>1
  <2>. QED
    BY <2>1, LastOfWindow
<1>4. ASSUME NEW x \in B PROVE Window - x > N
  <2>1. CASE x = 0
    BY <1>1, <2>1
  <2>2. CASE x # 0
    <3>1. x \in 1 .. Window /\ recent[x] = m
      BY <1>1, <2>2
    <3>2. ~(x \in (Window - N) .. Window)
      BY <1>3, <3>1
    <3>. QED
      BY <1>1, <3>1, <3>2
  <2>. QED
    BY <2>1, <2>2
<1>5. LastProposed[m] = Max(B)
  BY DEF LastProposed
<1>. HIDE DEF B
<1>6. Max(B) \in B
  BY <1>1, <1>2, MaxExists
<1>. QED
  BY <1>2, <1>4, <1>5, <1>6

\* Blocks in the window are counted.
LEMMA ActivityType ==
    ASSUME TypeOK
    PROVE  /\ \A m \in Members : Activity[m] \in 0 .. Window
           /\ DOMAIN Activity = Members
<1>1. Window \in Nat /\ Len(recent) \in 0 .. Window /\ DOMAIN recent = 1 .. Len(recent)
  BY ChainAssumption DEF TypeOK
<1>2. IsFiniteSet(DOMAIN recent) /\ Cardinality(DOMAIN recent) = Len(recent)
  <2>1. \A n \in Nat : IsFiniteSet(1 .. n) /\ Cardinality(1 .. n) = n
    BY FS_Interval
  <2>. QED
    BY <1>1, <2>1
<1>3. ASSUME NEW m \in Members PROVE Activity[m] \in 0 .. Window
  <2>. DEFINE B == {i \in DOMAIN recent : recent[i] = m}
  <2>1. B \in SUBSET DOMAIN recent
    OBVIOUS
  <2>. HIDE DEF B
  <2>2. IsFiniteSet(B) /\ Cardinality(B) <= Len(recent)
    BY <1>2, <2>1, FS_Subset
  <2>3. Cardinality(B) \in Nat
    BY <2>2, FS_CardinalityType
  <2>4. Activity[m] = Cardinality(B)
    BY DEF Activity, B
  <2>. QED
    BY <1>1, <2>2, <2>3, <2>4
<1>. QED
  BY <1>3 DEF Activity

\* In a window that is longer than the members are many, somebody has sealed
\* twice.
LEMMA SomebodySealedTwice ==
    ASSUME TypeOK, Len(recent) = Window, Window > N
    PROVE  \E m \in Members : Activity[m] >= 2
<1>1. /\ Window \in Nat /\ Window > N
      /\ recent \in [1 .. Window -> Members]
  BY ChainAssumption, Counts DEF TypeOK
<1>2. IsFiniteSet(1 .. Window) /\ Cardinality(1 .. Window) = Window
  BY <1>1, FS_Interval
<1>3. IsFiniteSet(Members) /\ Cardinality(Members) < Cardinality(1 .. Window)
  BY <1>1, <1>2, ChainAssumption DEF N
<1>4. PICK x, y \in 1 .. Window : x # y /\ recent[x] = recent[y]
  BY <1>1, <1>2, <1>3, FS_PigeonHole
<1>. DEFINE m == recent[x]
            B == {i \in DOMAIN recent : recent[i] = m}
<1>5. m \in Members /\ Activity[m] = Cardinality(B)
  BY <1>1 DEF Activity
<1>6. B \in SUBSET (1 .. Window) /\ x \in B /\ y \in B
  BY <1>1, <1>4
<1>. HIDE DEF B, m
<1>7. IsFiniteSet(B) /\ Cardinality(B) \in Nat
  BY <1>2, <1>6, FS_Subset, FS_CardinalityType
<1>8. Cardinality(B) >= 2
  <2>1. IsFiniteSet(B \ {x}) /\ Cardinality(B \ {x}) = Cardinality(B) - 1
    BY <1>6, <1>7, FS_RemoveElement
  <2>2. B \ {x} # {}
    BY <1>4, <1>6
  <2>3. Cardinality(B \ {x}) # 0 /\ Cardinality(B \ {x}) \in Nat
    BY <2>1, <2>2, FS_EmptySet, FS_CardinalityType
  <2>. QED
    BY <1>7, <2>1, <2>3
<1>. QED
  BY <1>5, <1>8

------------------------------------------------------------------------------
(* What a rule does not see is all it can be wrong about *)

\* The rule is one of the four, and which part of the type invariant, of the
\* assumption and of the vocabulary it selects.
LEMMA RuleOf ==
    ASSUME TypeOK
    PROVE  /\ rule \in {"raft", "istanbul", "clique", "besu"}
           /\ rule = "besu" => Window > N
           /\ rule # "raft" => Down = Members \ up
           /\ rule \in {"clique", "besu"} => Tolerated = (N - 1) \div 2
           /\ rule = "istanbul" => Tolerated = (N - 1) \div 3
           /\ TakenForUp \in SUBSET Members
<1>1. rule \in Rules /\ Rules \subseteq {"raft", "istanbul", "clique", "besu"}
  BY ChainAssumption DEF TypeOK
<1>2. TakenForUp \in SUBSET Members
  <2>1. CASE rule = "raft"
    BY <2>1, ChainAssumption DEF TakenForUp
  <2>2. CASE rule # "raft"
    BY <2>2 DEF TakenForUp
  <2>. QED
    BY <2>1, <2>2
<1>3. rule \in {"clique", "besu"} => Tolerated = (N - 1) \div 2
  BY DEF Tolerated
<1>4. rule = "istanbul" => Tolerated = (N - 1) \div 3
  BY DEF Tolerated
<1>. QED
  BY <1>1, <1>2, <1>3, <1>4, ChainAssumption DEF Down, N

\* A member that is down and not taken for up has sealed none of the blocks the
\* rule looks at, and those are enough.
LEMMA NotTaken ==
    ASSUME rule # "raft", NEW m \in Members \ up, m \notin TakenForUp
    PROVE  ~TooShort /\ m \notin LastSealers(Reach)
BY DEF TakenForUp

\* A rule that counts everybody who is down but those in T, and perhaps others,
\* and lets a node go only below the limit, leaves room for one more and T.
LEMMA RoomForOne ==
    ASSUME TypeOK, NEW S \in SUBSET Members, NEW T \in SUBSET Members,
           (Members \ up) \ T \subseteq S,
           NEW limit \in Nat, ~(Cardinality(S) >= limit)
    PROVE  Cardinality(Members \ up) + 1 <= limit + Cardinality(T)
<1>. DEFINE D == Members \ up
<1>1. D \in SUBSET Members /\ D \ T \in SUBSET Members /\ D \cap T \in SUBSET Members
  OBVIOUS
<1>. HIDE DEF D
<1>2. /\ IsFiniteSet(S) /\ IsFiniteSet(D) /\ IsFiniteSet(T) /\ N \in Nat
      /\ Cardinality(S) \in 0 .. N /\ Cardinality(D) \in 0 .. N
      /\ Cardinality(T) \in 0 .. N /\ Cardinality(D \ T) \in 0 .. N
      /\ Cardinality(D \cap T) \in 0 .. N
  BY <1>1, Counts
<1>3. Cardinality(D \ T) = Cardinality(D) - Cardinality(D \cap T)
  BY <1>2, FS_Difference
<1>4. Cardinality(D \ T) <= Cardinality(S)
  BY <1>2, FS_Subset DEF D
<1>5. Cardinality(D \cap T) <= Cardinality(T)
  BY <1>2, FS_Subset
<1>6. Cardinality(D) + 1 <= limit + Cardinality(T)
  BY <1>2, <1>3, <1>4, <1>5
<1>. QED
  BY <1>6 DEF D

\* The Raft rule sees who is up, and takes the learners for voters.
LEMMA RaftRoom ==
    ASSUME TypeOK, NEW n \in up \ Learners, Hibernate(n), rule = "raft"
    PROVE  Cardinality(Down) + 1 <= Tolerated + Cardinality(TakenForUp)
<1>1. /\ up \in SUBSET Members /\ Learners \in SUBSET Members
      /\ minter \in Members \ Learners
  BY ChainAssumption DEF TypeOK
<1>. DEFINE cluster == [m \in Members |-> m \in up]
<1>2. ~RaftValidateShutdown(Role(n), cluster).err
  BY DEF Hibernate, ValidateShutdown
<1>3. Role(n) # "learner"
  BY <1>1 DEF Role
<1>4. {m \in DOMAIN cluster : cluster[m]} = up /\ DOMAIN cluster = Members
  BY <1>1
<1>. HIDE DEF cluster
<1>5. ~(Cardinality(up) <= N \div 2 + 1)
  BY <1>2, <1>3, <1>4 DEF RaftValidateShutdown, Verdict, N
<1>. DEFINE L == Cardinality(Learners)
            U == Cardinality(Learners \cap up)
            V == Cardinality(up \ Learners)
<1>6. /\ L \in 0 .. N - 1 /\ U \in 0 .. N /\ Cardinality(up) \in 0 .. N
      /\ N \in Nat \ {0} /\ V = Cardinality(up) - U
  <2>1. /\ Learners \cap up \in SUBSET Members /\ Learners \cap up = up \cap Learners
        /\ Members \ Learners \in SUBSET Members /\ Members \ Learners # {}
    BY <1>1
  <2>2. /\ N \in Nat \ {0} /\ L \in 0 .. N /\ U \in 0 .. N
        /\ Cardinality(up) \in 0 .. N /\ IsFiniteSet(up)
        /\ IsFiniteSet(Members \ Learners)
        /\ Cardinality(Members \ Learners) = N - L
    BY <1>1, <2>1, Counts
  <2>3. Cardinality(Members \ Learners) # 0
    BY <2>1, <2>2, FS_EmptySet
  <2>4. V = Cardinality(up) - U
    <3>1. Cardinality(up \ Learners) = Cardinality(up) - Cardinality(up \cap Learners)
      BY <2>2, FS_Difference
    <3>. QED
      BY <2>1, <3>1
  <2>. QED
    BY <2>2, <2>3, <2>4
<1>7. Cardinality(Down) = N - L - V
  <2>1. Down = (Members \ Learners) \ (up \ Learners)
    BY <1>1 DEF Down
  <2>2. (Members \ Learners) \cap (up \ Learners) = up \ Learners
    BY <1>1
  <2>3. IsFiniteSet(Members \ Learners) /\ Cardinality(Members \ Learners) = N - L
    BY <1>1, Counts
  <2>. QED
    BY <2>1, <2>2, <2>3, FS_Difference
<1>8. Tolerated = (N - L - 1) \div 2
  BY <1>1, Counts DEF Tolerated
<1>9. Cardinality(TakenForUp) = U
  BY DEF TakenForUp
<1>10. N \div 2 \in Nat /\ N - (N \div 2 + 1) <= (N - L - 1) \div 2 + L
  BY <1>6, RaftShares
<1>11. (N - L - 1) \div 2 \in Nat
  BY <1>6
<1>. HIDE DEF L, U, V
<1>12. N - L - V + 1 <= (N - L - 1) \div 2 + U
  BY <1>5, <1>6, <1>10, <1>11
<1>. QED
  BY <1>7, <1>8, <1>9, <1>12

\* The Istanbul rule finds everybody it does not take for up two blocks behind
\* somebody.
LEMMA IstanbulRoom ==
    ASSUME TypeOK, Len(recent) = Window, NEW n \in Members, Hibernate(n),
           rule = "istanbul"
    PROVE  Cardinality(Members \ up) + 1 <= Tolerated + Cardinality(TakenForUp)
<1>1. Window \in Nat /\ N \in Nat
  BY ChainAssumption, Counts
<1>2. ~IstanbulValidateShutdown(TRUE, Len(recent), Activity).err
  BY DEF Hibernate, ValidateShutdown
<1>. DEFINE sealed == {0} \cup {Activity[v] : v \in DOMAIN Activity}
            S == {v \in DOMAIN Activity : Max(sealed) - Activity[v] > 1}
<1>3. DOMAIN Activity = Members /\ \A m \in Members : Activity[m] \in 0 .. Window
  BY ActivityType
<1>4. ASSUME Window > N PROVE Max(sealed) \in Nat /\ Max(sealed) >= 2
  <2>1. sealed \in SUBSET Nat /\ sealed # {} /\ \A x \in sealed : x <= Window
    BY <1>1, <1>3
  <2>2. PICK m \in Members : Activity[m] >= 2
    BY <1>4, SomebodySealedTwice
  <2>3. Activity[m] \in sealed /\ Activity[m] \in Nat
    BY <1>3, <2>2
  <2>. HIDE DEF sealed
  <2>4. Max(sealed) \in sealed /\ \A x \in sealed : Max(sealed) >= x
    BY <1>1, <2>1, MaxExists
  <2>5. Max(sealed) \in Nat /\ Max(sealed) >= Activity[m]
    BY <2>1, <2>3, <2>4
  <2>. QED
    BY <2>2, <2>3, <2>5
<1>5. S \in SUBSET Members
  BY <1>3
<1>6. (Members \ up) \ TakenForUp \subseteq S
  <2>. HIDE DEF sealed
  <2>1. ASSUME NEW m \in Members \ up, m \notin TakenForUp PROVE m \in S
    <3>1. ~TooShort /\ m \notin LastSealers(Reach)
      BY <2>1, NotTaken
    <3>2. Reach = Window /\ Window > N
      BY <1>1, <3>1 DEF Reach, TooShort
    <3>3. Activity[m] = 0
      BY <3>1, <3>2, UnseenLooksDown
    <3>. QED
      BY <1>3, <1>4, <3>2, <3>3
  <2>. QED
    BY <2>1
<1>7. ~(Cardinality(S) >= (Cardinality(DOMAIN Activity) - 1) \div 3)
  BY <1>2 DEF IstanbulValidateShutdown, Verdict
<1>8. (N - 1) \div 3 \in Nat
  BY Counts, Shares
<1>9. Tolerated = (N - 1) \div 3 /\ TakenForUp \in SUBSET Members
  BY RuleOf
<1>. HIDE DEF S
<1>. QED
  BY <1>3, <1>5, <1>6, <1>7, <1>8, <1>9, RoomForOne DEF N

\* The Clique rule of GoQuorum finds everybody it does not take for up two
\* blocks behind its share.
LEMMA CliqueRoom ==
    ASSUME TypeOK, Len(recent) = Window, NEW n \in Members, Hibernate(n),
           rule = "clique"
    PROVE  Cardinality(Members \ up) + 1 <= Tolerated + Cardinality(TakenForUp)
<1>1. Window \in Nat /\ N \in Nat \ {0}
  BY ChainAssumption, Counts
<1>2. ~CliqueValidateShutdown(n, Window, Activity).err
  BY DEF Hibernate, ValidateShutdown
<1>3. DOMAIN Activity = Members
  BY ActivityType
<1>. DEFINE S == {v \in Members : Window \div N - Activity[v] >= 2}
<1>4. (Members \ up) \ TakenForUp \subseteq S
  <2>1. ASSUME NEW m \in Members \ up, m \notin TakenForUp PROVE m \in S
    <3>1. ~TooShort /\ m \notin LastSealers(Reach)
      BY <2>1, NotTaken
    <3>2. Reach = Window /\ Window >= 2 * N
      BY <1>1, <3>1 DEF Reach, TooShort
    <3>3. Activity[m] = 0
      BY <3>1, <3>2, UnseenLooksDown
    <3>4. Window \div N \in Nat /\ Window \div N >= 2
      BY <1>1, <3>2, BlocksPerMember
    <3>. QED
      BY <3>3, <3>4
  <2>. QED
    BY <2>1
<1>5. ~(Cardinality(S) >= (N - 1) \div 2)
  BY <1>2, <1>3 DEF CliqueValidateShutdown, Verdict, N, allowedSigningDiff
<1>6. (N - 1) \div 2 \in Nat
  BY Counts, Shares
<1>7. Tolerated = (N - 1) \div 2 /\ TakenForUp \in SUBSET Members
  BY RuleOf
<1>8. S \in SUBSET Members
  OBVIOUS
<1>. HIDE DEF S
<1>. QED
  BY <1>4, <1>5, <1>6, <1>7, <1>8, RoomForOne

\* The rule of Besu finds the last block of everybody it does not take for up
\* too old.
LEMMA BesuRoom ==
    ASSUME TypeOK, Len(recent) = Window, NEW n \in Members, Hibernate(n),
           rule = "besu"
    PROVE  Cardinality(Members \ up) + 1 <= Tolerated + Cardinality(TakenForUp)
<1>1. Window > N
  BY RuleOf
<1>2. ~BesuValidateShutdown(n, Members, Window, LastProposed).err
  BY DEF Hibernate, ValidateShutdown
<1>3. DOMAIN LastProposed = Members
  BY DEF LastProposed
<1>. DEFINE S == {v \in Members : Window - LastProposed[v] > N}
<1>4. (Members \ up) \ TakenForUp \subseteq S
  <2>1. ASSUME NEW m \in Members \ up, m \notin TakenForUp PROVE m \in S
    <3>1. m \notin LastSealers(N + 1)
      BY <2>1, NotTaken DEF Reach
    <3>. QED
      BY <1>1, <3>1, UnseenProposedLongAgo
  <2>. QED
    BY <2>1
<1>5. ~(Cardinality(S) >= (N - 1) \div 2)
  BY <1>2, <1>3 DEF BesuValidateShutdown, Verdict, N
<1>6. (N - 1) \div 2 \in Nat
  BY Counts, Shares
<1>7. Tolerated = (N - 1) \div 2 /\ TakenForUp \in SUBSET Members
  BY RuleOf
<1>8. S \in SUBSET Members
  OBVIOUS
<1>. HIDE DEF S
<1>. QED
  BY <1>4, <1>5, <1>6, <1>7, <1>8, RoomForOne

\* Types of the counts, and who is down after a hibernation.
LEMMA DownCounts ==
    ASSUME TypeOK
    PROVE  /\ Down \in SUBSET Members /\ IsFiniteSet(Down)
           /\ Cardinality(Down) \in Nat
           /\ Cardinality(TakenForUp) \in Nat
           /\ Tolerated \in Nat
<1>1. Down \in SUBSET Members /\ TakenForUp \in SUBSET Members
  BY RuleOf DEF Down
<1>2. /\ IsFiniteSet(Down) /\ Cardinality(Down) \in Nat
      /\ Cardinality(TakenForUp) \in Nat
  <2>1. \A S \in SUBSET Members : IsFiniteSet(S)
    BY Counts
  <2>. QED
    BY <1>1, <2>1, FS_CardinalityType
<1>3. Tolerated \in Nat
  <2>1. CASE rule = "raft"
    <3>1. Members \ Learners \in SUBSET Members /\ Members \ Learners # {}
      BY DEF TypeOK
    <3>2. IsFiniteSet(Members \ Learners) /\ Cardinality(Members \ Learners) \in Nat
      BY <3>1, Counts, FS_CardinalityType
    <3>3. Cardinality(Members \ Learners) # 0
      BY <3>1, <3>2, FS_EmptySet
    <3>4. Tolerated = (Cardinality(Members \ Learners) - 1) \div 2
      BY <2>1 DEF Tolerated
    <3>. QED
      BY <3>2, <3>3, <3>4, Shares
  <2>2. CASE rule # "raft"
    BY <2>2, RuleOf, Counts, Shares
  <2>. QED
    BY <2>1, <2>2
<1>. QED
  BY <1>1, <1>2, <1>3

\* A hibernation that takes somebody down.
LEMMA HibernateRoom ==
    ASSUME TypeOK, Len(recent) = Window, NEW n \in Members, Hibernate(n)
    PROVE  \/ Down' = Down
           \/ /\ Cardinality(Down') = Cardinality(Down) + 1
              /\ Cardinality(Down) + 1 <= Tolerated + Cardinality(TakenForUp)
<1>1. up' = up \ {n} /\ rule' = rule /\ n \in up
  BY DEF Hibernate
<1>2. CASE rule = "raft" /\ n \in Learners
  BY <1>1, <1>2 DEF Down
<1>3. CASE ~(rule = "raft" /\ n \in Learners)
  <2>1. Down' = Down \cup {n} /\ n \notin Down
    BY <1>1, <1>3 DEF Down
  <2>2. Cardinality(Down') = Cardinality(Down) + 1
    BY <2>1, DownCounts, FS_AddElement
  <2>3. Cardinality(Down) + 1 <= Tolerated + Cardinality(TakenForUp)
    <3>1. CASE rule = "raft"
      BY <1>1, <1>3, <3>1, RaftRoom
    <3>2. CASE rule # "raft"
      BY <3>2, RuleOf, IstanbulRoom, CliqueRoom, BesuRoom
    <3>. QED
      BY <3>1, <3>2
  <2>. QED
    BY <2>2, <2>3
<1>. QED
  BY <1>2, <1>3

\* Any other step takes nobody down.
LEMMA OtherSteps ==
    ASSUME TypeOK, Next \/ UNCHANGED vars, \A n \in Members : ~Hibernate(n)
    PROVE  /\ rule' = rule /\ early' = early
           /\ Down' \in SUBSET Down
           /\ Cardinality(Down') <= Cardinality(Down)
           /\ Cardinality(Down') \in Nat
<1>1. rule' = rule /\ early' = early /\ up \subseteq up'
  BY DEF Next, Seal, Elect, WakeUp, vars
<1>2. Down' \in SUBSET Down
  BY <1>1 DEF Down
<1>. QED
  BY <1>1, <1>2, DownCounts, FS_Subset, FS_CardinalityType

\* Nobody is taken for up by a rule that is asked late enough.
LEMMA LateSeesAll ==
    ASSUME ChainInv, ~TooEarly
    PROVE  TakenForUp = {}
<1>1. TypeOK /\ Len(recent) = Window /\ Window \in Nat \ {0} /\ N \in Nat
  BY ChainAssumption, Counts DEF ChainInv
<1>2. CASE rule = "raft"
  BY <1>2 DEF TooEarly, TakenForUp
<1>3. CASE rule # "raft"
  <2>1. SealedByUp /\ ~TooShort /\ ~(since < Reach) /\ since \in Int
    BY <1>1, <1>3, ChainAssumption DEF ChainInv, TooEarly, TypeOK, Ago
  <2>2. Reach \in 1 .. Window
    BY <1>1, <1>3, RuleOf DEF Reach
  <2>3. LastSealers(Reach) = {recent[i] : i \in (Window + 1 - Reach) .. Window}
    BY <1>1, <2>2, LastOfWindow
  <2>4. ASSUME NEW i \in (Window + 1 - Reach) .. Window PROVE recent[i] \in up
    <3>1. i \in 1 .. Window /\ i > Window - since
      BY <1>1, <2>1, <2>2
    <3>. QED
      BY <2>1, <3>1 DEF SealedByUp
  <2>5. LastSealers(Reach) \subseteq up
    BY <2>3, <2>4
  <2>6. TakenForUp = {m \in Members \ up : m \in LastSealers(Reach)}
    BY <1>3, <2>1 DEF TakenForUp
  <2>. QED
    BY <2>5, <2>6
<1>. QED
  BY <1>2, <1>3

\* No step takes away the quorum, unless it comes too early.
LEMMA QuorumStep ==
    ASSUME ChainInv, TypeOK', [Next]_vars
    PROVE  QuorumUnlessEarly'
<1>. SUFFICES ASSUME ~early' PROVE Cardinality(Down') <= Tolerated'
  BY DEF QuorumUnlessEarly
<1>1. TypeOK /\ Len(recent) = Window /\ (~early => Cardinality(Down) <= Tolerated)
  BY DEF ChainInv, QuorumUnlessEarly
<1>2. Cardinality(Down) \in Nat /\ Tolerated \in Nat
  BY <1>1, DownCounts
<1>3. rule' = rule
  BY DEF Next, Seal, Elect, Hibernate, WakeUp, vars
<1>4. Tolerated' = Tolerated
  BY <1>3 DEF Tolerated
<1>5. ASSUME NEW n \in Members, Hibernate(n) PROVE Cardinality(Down') <= Tolerated'
  <2>1. ~early /\ ~TooEarly
    BY <1>5 DEF Hibernate
  <2>2. Cardinality(TakenForUp) = 0
    BY <2>1, LateSeesAll, FS_EmptySet
  <2>. QED
    BY <1>1, <1>2, <1>4, <1>5, <2>1, <2>2, HibernateRoom
<1>6. CASE \A n \in Members : ~Hibernate(n)
  BY <1>1, <1>2, <1>4, <1>6, OtherSteps
<1>. QED
  BY <1>5, <1>6

------------------------------------------------------------------------------
(* The theorems *)

\* The chain's variables have their types, whatever the rules and the lengths
\* of window and wait.
THEOREM ChainAlwaysTyped == Spec => []TypeOK
<1>. DEFINE Inv == TypeOK /\ Len(recent) = Window /\ (rule # "raft" => SealedByUp)
<1>1. Init => Inv
  BY StartInv
<1>2. Inv /\ [Next]_vars => Inv'
  BY WindowStep
<1>. QED
  BY <1>1, <1>2, PTL DEF Spec

\* However many members and learners there are and however long window and wait
\* are, a hibernation that ValidateShutdown lets pass exceeds the share of
\* members that may be down at most by the number of those that the rule takes
\* for up: hibernated members with a block among those it looks at, and Raft's
\* learners.
THEOREM ChainSeesTheRest == Spec => RulesSeeTheRest
<1>. DEFINE Inv == TypeOK /\ Len(recent) = Window /\ (rule # "raft" => SealedByUp)
            Bound == Cardinality(Down') > Cardinality(Down)
                       => Cardinality(Down') <= Tolerated + Cardinality(TakenForUp)
<1>1. Init => Inv
  BY StartInv
<1>2. Inv /\ [Next]_vars => Inv'
  BY WindowStep
<1>3. Inv /\ Inv' /\ [Next]_vars => [Bound]_vars
  <2>. SUFFICES ASSUME Inv, Inv', [Next]_vars PROVE Bound
    OBVIOUS
  <2>1. Cardinality(Down) \in Nat
    BY DownCounts
  <2>2. ASSUME NEW n \in Members, Hibernate(n) PROVE Bound
    BY <2>1, <2>2, HibernateRoom
  <2>3. CASE \A n \in Members : ~Hibernate(n)
    BY <2>1, <2>3, OtherSteps
  <2>. QED
    BY <2>2, <2>3
<1>. QED
  BY <1>1, <1>2, <1>3, PTL DEF Spec, RulesSeeTheRest

\* For every number of members and learners and every length of window and
\* wait, the quorum is there until a hibernation comes too early: when a rule is
\* asked Reach blocks after the last hibernation, every block it looks at was
\* sealed by a member that is still up.
THEOREM ChainKeepsQuorum == Spec => []QuorumUnlessEarly
<1>1. Init => ChainInv
  <2>. SUFFICES ASSUME Init PROVE ChainInv
    OBVIOUS
  <2>1. TypeOK /\ Len(recent) = Window /\ SealedByUp
    BY StartInv
  <2>2. Down = {}
    BY DEF Init, Down
  <2>3. Cardinality(Down) = 0 /\ Tolerated \in Nat
    BY <2>1, <2>2, FS_EmptySet, DownCounts
  <2>. QED
    BY <2>1, <2>3 DEF ChainInv, QuorumUnlessEarly
<1>2. ChainInv /\ [Next]_vars => ChainInv'
  <2>. SUFFICES ASSUME ChainInv, [Next]_vars PROVE ChainInv'
    OBVIOUS
  <2>1. TypeOK' /\ (Len(recent) = Window)' /\ (rule # "raft" => SealedByUp)'
    BY WindowStep DEF ChainInv
  <2>2. QuorumUnlessEarly'
    BY <2>1, QuorumStep
  <2>. QED
    BY <2>1, <2>2 DEF ChainInv
<1>3. ChainInv => QuorumUnlessEarly
  BY DEF ChainInv
<1>. QED
  BY <1>1, <1>2, <1>3, PTL DEF Spec

==============================================================================
