-------------------------------- MODULE Chain --------------------------------
(***************************************************************************)
(* A chain whose members hibernate by the consensus rule of their client,   *)
(* with strict mode disabled.  The rules do not know who is down: they      *)
(* infer it from the blocks of a sliding window (Raft: from the cluster     *)
(* list).  Network shows that hibernators go one at a time and stay in      *)
(* ConsensusWait, a fixed time: here it lasts until WaitBlocks blocks are   *)
(* sealed, and in a chain that has stopped it ends without one.             *)
(***************************************************************************)
EXTENDS ConsensusRules, Sequences, SequencesExt

CONSTANTS
    Members,        \* the sealers, or the Raft peers
    Learners,       \* those of them that are Raft learners
    Rules,          \* the consensus mechanisms to look at
    Window,         \* the recent blocks that the RPCs report about
    WaitBlocks      \* blocks sealed during one ConsensusWait

ASSUME ChainAssumption ==
    /\ IsFiniteSet(Members) /\ Members # {}
    /\ Learners \subseteq Members
    /\ Rules \subseteq {"raft", "istanbul", "clique", "besu"}
    /\ Window \in Nat \ {0}
    /\ WaitBlocks \in Nat
    /\ "besu" \in Rules => Window > Cardinality(Members)

VARIABLES
    rule,       \* the consensus of this network
    up,         \* the members that are not hibernated
    minter,     \* external: the Raft leader
    recent,     \* external: who sealed the last blocks, oldest first
    since,      \* blocks since the last hibernation, as far as they matter
    early       \* history: a hibernation was decided too early to tell

vars == <<rule, up, minter, recent, since, early>>

N == Cardinality(Members)

\* The bound of `since`: more blocks change nothing.
Ago == IF Window > WaitBlocks THEN Window ELSE WaitBlocks

\* The type invariant of the chain.
TypeOK ==
    /\ rule \in Rules
    /\ up \subseteq Members
    /\ minter \in Members \ Learners
    /\ recent \in Seq(Members) /\ Len(recent) <= Window
    /\ since \in 0 .. Ago
    /\ early \in BOOLEAN

\* A chain that has been running with every member up: each sealed in turn.
Init ==
    /\ rule \in Rules
    /\ up = Members
    /\ minter \in Members \ Learners
    /\ \E order \in SetToSeqs(Members) :
         recent = [i \in 1 .. Window |-> order[(i % N) + 1]]
    /\ since = Ago
    /\ early = FALSE

------------------------------------------------------------------------------
(* External: the blockchain clients *)

\* How many members may be down before the chain stops: one less than half of
\* the Raft voters and Clique signers, a third of the Istanbul validators.
Tolerated ==
    CASE rule = "istanbul" -> (N - 1) \div 3
      [] rule = "raft" -> (Cardinality(Members \ Learners) - 1) \div 2
      [] OTHER -> (N - 1) \div 2

Down == IF rule = "raft" THEN Members \ (Learners \cup up) ELSE Members \ up

Running == Cardinality(Down) <= Tolerated

\* The last k sealers.
LastSealers(k) ==
    {recent[i] : i \in (Len(recent) + 1 - Min({k, Len(recent)})) .. Len(recent)}

\* Istanbul's proposer rotates over the members that are up; a Clique signer
\* waits for half of the signers to sign before it signs again.
Recent ==
    IF rule = "istanbul" THEN LastSealers(Cardinality(up) - 1)
                         ELSE LastSealers(N \div 2)

Seal(s) ==
    /\ rule # "raft"
    /\ Running
    /\ s \in up \ Recent
    /\ recent' = IF Len(recent) < Window THEN Append(recent, s)
                                         ELSE Append(Tail(recent), s)
    /\ since' = IF since < Ago THEN since + 1 ELSE since
    /\ UNCHANGED <<rule, up, minter, early>>

\* Any voter that is up can be elected while there is a quorum of them.
Elect(n) ==
    /\ rule = "raft"
    /\ Running
    /\ n \in up \ Learners
    /\ minter' = n
    /\ UNCHANGED <<rule, up, recent, since, early>>

------------------------------------------------------------------------------
(* The hibernators *)

Activity == [m \in Members |-> Cardinality({i \in DOMAIN recent : recent[i] = m})]

\* Block numbers counted from the start of the window; a member without a
\* block in it sealed its last one before.
LastProposed == [m \in Members |-> Max({0} \cup {i \in DOMAIN recent : recent[i] = m})]

Role(n) == CASE n \in Learners -> "learner"
             [] n = minter -> "minter"
             [] OTHER -> "verifier"

ValidateShutdown(n) ==
    CASE rule = "raft" -> RaftValidateShutdown(Role(n), [m \in Members |-> m \in up])
      [] rule = "istanbul" -> IstanbulValidateShutdown(TRUE, Len(recent), Activity)
      [] rule = "clique" -> CliqueValidateShutdown(n, Len(recent), Activity)
      [] rule = "besu" -> BesuValidateShutdown(n, Members, Len(recent), LastProposed)

\* ConsensusWait of the hibernation before is over.
WaitIsOver == rule = "raft" \/ since >= WaitBlocks \/ ~Running

\* The blocks among which the rule looks for a sign of life, and whether they
\* are too few to tell a member that is down from one that is slow.
Reach == IF rule = "besu" THEN N + 1 ELSE Window

TooShort == \/ rule = "istanbul" /\ Window <= N
            \/ rule = "clique" /\ Window < 2 * N

\* The last hibernation is too recent for the rule to see it, or (Raft) there
\* are learners that it takes for voters.
TooEarly == IF rule = "raft" THEN Learners \cap up # {}
                             ELSE since < Reach \/ TooShort

\* Mutant of Hibernate: the new wait is added to what is left of the old one.
HibernateAddsUp(n) ==
    /\ n \in up
    /\ WaitIsOver
    /\ ~ValidateShutdown(n).err
    /\ up' = up \ {n}
    /\ since' = since - WaitBlocks
    /\ early' = (early \/ TooEarly)
    /\ UNCHANGED <<rule, minter, recent>>

Hibernate(n) ==
    /\ n \in up
    /\ WaitIsOver
    /\ ~ValidateShutdown(n).err
    /\ up' = up \ {n}
    /\ since' = 0
    /\ early' = (early \/ TooEarly)
    /\ UNCHANGED <<rule, minter, recent>>

WakeUp(n) ==
    /\ n \notin up
    /\ up' = up \cup {n}
    /\ UNCHANGED <<rule, minter, recent, since, early>>

Next == \E n \in Members : Seal(n) \/ Elect(n) \/ Hibernate(n) \/ WakeUp(n)

Spec == Init /\ [][Next]_vars

------------------------------------------------------------------------------
(* Properties *)

\* The members that the rule cannot tell from members that keep the chain
\* going: those that are down and have sealed one of the blocks it looks at, and
\* Raft's learners, which are no voters.
TakenForUp ==
    CASE rule = "raft" -> Learners \cap up
      [] rule # "raft" /\ TooShort -> Members \ up
      [] OTHER -> {m \in Members \ up : m \in LastSealers(Reach)}

\* Whatever the lengths of window and wait, a hibernation that a rule lets pass
\* exceeds the documented share (f of 3f + 1 Istanbul validators, 49% of the
\* Clique signers and Raft peers) at most by the members it cannot see: the
\* inference from blocks has no other error.
RulesSeeTheRest ==
    [][Cardinality(Down') > Cardinality(Down)
         => Cardinality(Down') <= Tolerated + Cardinality(TakenForUp)]_vars

\* The quorum is kept as long as every hibernation came Reach blocks after the
\* one before it, also when ConsensusWait would have let it come earlier.
QuorumUnlessEarly == ~early => Cardinality(Down) <= Tolerated

\* What docs/architecture.md promises of the check: no sequence of hibernations
\* and wake-ups that the consensus rule lets pass takes away the quorum.
QuorumKept == Cardinality(Down) <= Tolerated

------------------------------------------------------------------------------
(* The inductive invariant behind QuorumUnlessEarly *)

\* The blocks sealed since the last hibernation are by members that are up.
SealedByUp ==
    \A i \in 1 .. Window : i > Window - since => recent[i] \in up

ChainInv ==
    /\ TypeOK
    /\ Len(recent) = Window
    /\ rule # "raft" => SealedByUp
    /\ QuorumUnlessEarly

==============================================================================
