---------------------------- MODULE MCPeerManager ----------------------------
(* Instances of PeerManager for TLC. *)
EXTENDS PeerManager

CONSTANTS a, b, ka, kb, kc

\* c, this hibernator itself, may be on its own list; nobody on it manages kc.
MCPeerNames == {a, b, Self}
MCKeys == {ka, kb, kc}
MCPrivManKey == [p \in MCPeerNames |->
                   CASE p = a -> ka [] p = b -> kb [] OTHER -> kc]

\* The last list is not valid: it has a name twice.
MCLists == {<<a, b>>, <<Self, b>>, <<b, b>>}

Plain == [has |-> FALSE, typed |-> TRUE, keys |-> << >>]
For(keys) == [has |-> TRUE, typed |-> TRUE, keys |-> keys]
NoArray == [has |-> TRUE, typed |-> FALSE, keys |-> << >>]
Request(method, params) ==
    [batch |-> FALSE, method |-> method, params |-> params, mention |-> FALSE]

SendTx == "eth_sendTransaction"

MCRequests ==
    {Request(SendTx, <<For(<<ka, kb>>)>>),
     Request("eth_sendRawPrivateTransaction", <<Plain, For(<<kc, kb>>)>>),
     Request(SendTx, <<For(<< >>)>>),
     Request(SendTx, <<NoArray>>),
     Request("eth_estimateGas", <<For(<<ka>>), Plain>>),
     Request(NotAString, <<For(<<ka>>)>>),
     [Request("eth_blockNumber", << >>) EXCEPT !.mention = TRUE],
     [Request(SendTx, <<For(<<ka>>)>>) EXCEPT !.batch = TRUE]}

==============================================================================
