------------------------------- MODULE MCChain -------------------------------
(* Instances of Chain for TLC. *)
EXTENDS Chain

AllRules == {"raft", "istanbul", "clique", "besu"}

\* Voters are interchangeable.
MemberSymmetry == Permutations(Members \ Learners)

==============================================================================
