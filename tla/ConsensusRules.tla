--------------------------- MODULE ConsensusRules ----------------------------
(***************************************************************************)
(* The ValidateShutdown of each consensus (consensus/quorum/raft.go,        *)
(* istanbul.go and clique.go, consensus/besu/clique.go): from what the      *)
(* client's RPCs answer, whether this node takes part in consensus and      *)
(* whether it may be shut down.  An RPC that fails is an error in all of    *)
(* them and is left to the caller.                                          *)
(***************************************************************************)
EXTENDS Integers, FiniteSets, FiniteSetsExt

Verdict(consensusNode, err) == [consensusNode |-> consensusNode, err |-> err]

\* Mutant of RaftValidateShutdown: half of the nodes taken for a majority.
RaftHalfIsEnough(role, cluster) ==
    LET activeNodes == Cardinality({n \in DOMAIN cluster : cluster[n]})
    IN  IF role = "learner"
        THEN Verdict(FALSE, FALSE)
        ELSE Verdict(TRUE, \/ role = "minter"
                           \/ activeNodes <= Cardinality(DOMAIN cluster) \div 2)

\* Raft: role answers raft_role and cluster maps every entry of raft_cluster,
\* whatever its role, to its NodeActive.
RaftValidateShutdown(role, cluster) ==
    LET activeNodes == Cardinality({n \in DOMAIN cluster : cluster[n]})
        totalNodes == Cardinality(DOMAIN cluster)
        minActiveNodes == totalNodes \div 2 + 1
    IN  IF role = "learner"
        THEN Verdict(FALSE, FALSE)
        ELSE Verdict(TRUE, role = "minter" \/ activeNodes <= minActiveNodes)

\* Istanbul: numBlocks and activity answer istanbul_status, the number of
\* recent blocks and how many of them each validator sealed.
IstanbulValidateShutdown(isValidator, numBlocks, activity) ==
    LET maxBlockSealed == Max({0} \cup {activity[v] : v \in DOMAIN activity})
        numNodesDown ==
            Cardinality({v \in DOMAIN activity :
                           maxBlockSealed - activity[v] > 1})
        numOfNodesThatCanBeDown == (Cardinality(DOMAIN activity) - 1) \div 3
    IN  IF ~isValidator
        THEN Verdict(FALSE, FALSE)
        ELSE Verdict(TRUE, numBlocks = 0
                           \/ numNodesDown >= numOfNodesThatCanBeDown)

allowedSigningDiff == 2

\* Mutant of CliqueValidateShutdown: `>` for `>=` at the limit.
CliqueOneTooMany(coinbase, numBlocks, activity) ==
    LET totalSealers == Cardinality(DOMAIN activity)
        potentialDownNodes ==
            Cardinality({v \in DOMAIN activity :
                           numBlocks \div totalSealers - activity[v]
                               >= allowedSigningDiff})
    IN  Verdict(TRUE, potentialDownNodes > (totalSealers - 1) \div 2)

\* GoQuorum Clique: the same from clique_status; the node takes part when its
\* coinbase account is one of the sealers.
CliqueValidateShutdown(coinbase, numBlocks, activity) ==
    LET totalSealers == Cardinality(DOMAIN activity)
        maxSealingPerNode == numBlocks \div totalSealers
        maxDownNodesAllowed == (totalSealers - 1) \div 2
        potentialDownNodes ==
            Cardinality({v \in DOMAIN activity :
                           maxSealingPerNode - activity[v]
                               >= allowedSigningDiff})
    IN  IF coinbase \notin DOMAIN activity
        THEN Verdict(FALSE, FALSE)
        ELSE Verdict(TRUE, potentialDownNodes >= maxDownNodesAllowed)

\* Besu Clique: from clique_getSigners, eth_blockNumber and the last block each
\* signer proposed according to clique_getSignerMetrics.
BesuValidateShutdown(coinbase, signers, curBlockNum, lastProposed) ==
    LET totalSigners == Cardinality(signers)
        nodesDown ==
            Cardinality({v \in DOMAIN lastProposed :
                           curBlockNum - lastProposed[v] > totalSigners})
        allowedDownNodes == (totalSigners - 1) \div 2
    IN  IF coinbase \notin signers
        THEN Verdict(FALSE, FALSE)
        ELSE Verdict(TRUE, nodesDown >= allowedDownNodes)

==============================================================================
