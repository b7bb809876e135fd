---------------------------- MODULE Configuration ----------------------------
(***************************************************************************)
(* The configuration file: what main reads, what the IsValid methods of the *)
(* config package let pass, and what NewNodeControl and NewProxyServer make *)
(* of it.                                                                   *)
(*                                                                          *)
(* A string whose case matters is a record of its lower-case form and of    *)
(* whether it is written that way.  Other strings and lists are their being *)
(* set.  A file name is "unset", or the name of a file that is "ok" or      *)
(* "bad".  An optional part is a set with at most one element.              *)
(***************************************************************************)
EXTENDS Integers, Sequences

\* Compared after strings.ToLower, and compared as written.
Is(s, word) == s.word = word
IsExactly(s, word) == s.word = word /\ s.lower

------------------------------------------------------------------------------
(* Files *)

\* A supported suffix, a file that opens, contents that decode.
Read(file) == file.suffix \in {"toml", "json"} /\ file.decodes

ServerTLSIsValid(tls) ==
    /\ tls.cert # "unset" /\ tls.key # "unset"
    /\ "bad" \notin {tls.cert, tls.key, tls.ca}

ClientTLSIsValid(tls) ==
    /\ tls.insecure \/ tls.ca # "unset"
    /\ (tls.cert = "unset") = (tls.key = "unset")
    /\ tls.insecure \/ "bad" \notin {tls.cert, tls.key, tls.ca}

------------------------------------------------------------------------------
(* IsValid *)

\* The receiver is a copy: what is checked is the lower-case form, what is kept
\* is what is written.
UpcheckIsValid(u) ==
    /\ u.url
    /\ Is(u.returnType, "rpcresult") \/ Is(u.returnType, "string")
    /\ u.method \in {"get", "post"}
    /\ Is(u.returnType, "string") => u.expected

ProcessIsValid(p) ==
    /\ p.controlType \in {"docker", "shell"}
    /\ p.name \in {"bcclnt", "privman"}
    /\ p.controlType = "docker" => p.containerId
    /\ p.controlType = "shell" => p.startCommand /\ p.stopCommand
    /\ p.upcheck # {}
    /\ \A u \in p.upcheck : UpcheckIsValid(u)

\* Mutant of BlockchainClientIsValid: Besu may name any consensus.
BesuAnyConsensus(c) ==
    /\ c.type = "goquorum" => \E w \in {"raft", "istanbul", "clique"} : Is(c.consensus, w)
    /\ c.type \in {"goquorum", "besu"}
    /\ c.rpcUrl
    /\ c.process # {}
    /\ \A p \in c.process : ProcessIsValid(p)
    /\ \A t \in c.tls : ClientTLSIsValid(t)

BlockchainClientIsValid(c) ==
    /\ c.type \in {"goquorum", "besu"}
    /\ c.type = "goquorum" => \E w \in {"raft", "istanbul", "clique"} : Is(c.consensus, w)
    /\ c.type = "besu" => Is(c.consensus, "clique")
    /\ c.rpcUrl
    /\ c.process # {}
    /\ \A p \in c.process : ProcessIsValid(p)
    /\ \A t \in c.tls : ClientTLSIsValid(t)

PrivacyManagerIsValid(c) ==
    /\ c.key
    /\ c.process # {}
    /\ \A p \in c.process : ProcessIsValid(p)
    /\ \A t \in c.tls : ClientTLSIsValid(t)

ProxyIsValid(c) ==
    /\ c.name
    /\ c.type \in {"http", "ws"}
    /\ c.addr
    /\ c.upstream = "ok"
    /\ c.paths # "unset"
    /\ c.readTimeout # 0 /\ c.writeTimeout # 0
    /\ \A t \in c.proxyTls : ServerTLSIsValid(t)
    /\ \A t \in c.clientTls : ClientTLSIsValid(t)

RPCServerIsValid(c) == c.addr /\ \A t \in c.tls : ServerTLSIsValid(t)

PeerIsValid(p) ==
    /\ p.name # "" /\ p.rpcUrl = "ok"
    /\ \A t \in p.tls : ClientTLSIsValid(t)

PeerArrIsValid(peers) ==
    /\ \A i, j \in DOMAIN peers : peers[i].name = peers[j].name => i = j
    /\ \A i \in DOMAIN peers : PeerIsValid(peers[i])

IsResyncTimerSet(c) == c.resyncTime # 0

BasicIsValid(c) ==
    /\ c.name
    /\ c.peersFile # {}
    /\ c.upchkPollingInterval > 0
    /\ c.inactivityTime >= 60
    /\ IsResyncTimerSet(c) => c.resyncTime >= c.inactivityTime
    /\ c.server # {} /\ \A s \in c.server : RPCServerIsValid(s)
    /\ c.client # {} /\ \A b \in c.client : BlockchainClientIsValid(b)
    /\ \A p \in c.privMan : PrivacyManagerIsValid(p)
    /\ c.proxies # << >>
    /\ \A i \in DOMAIN c.proxies : ProxyIsValid(c.proxies[i])

\* readNodeConfigFromFile: this file, then the peers file it names.
Loads(c) ==
    /\ Read(c.file) /\ BasicIsValid(c)
    /\ \A f \in c.peersFile : Read(f) /\ PeerArrIsValid(f.peers)

------------------------------------------------------------------------------
(* What a valid configuration is made into *)

The(part) == CHOOSE x \in part : TRUE

IsGoQuorumClient(c) == The(c.client).type = "goquorum"
IsBesuClient(c) == The(c.client).type = "besu"
WithPrivMan(c) == c.privMan # {}

\* populateConsensusHandler: the rule of ConsensusRules, if any.
ConsensusHandler(c) ==
    LET consensus == The(c.client).consensus IN
    CASE IsGoQuorumClient(c) /\ Is(consensus, "raft")     -> "raft"
      [] IsGoQuorumClient(c) /\ Is(consensus, "istanbul") -> "istanbul"
      [] IsGoQuorumClient(c) /\ Is(consensus, "clique")   -> "clique"
      [] IsBesuClient(c) /\ Is(consensus, "clique")       -> "besuClique"
      [] OTHER                                            -> "nil"

\* A Besu client has no transaction handler.
TxHandler(c) == IF IsGoQuorumClient(c) THEN "quorum" ELSE "nil"

\* The processes that NodeControl manages.
Managed(c) == IF WithPrivMan(c) THEN {"client", "privMan"} ELSE {"client"}
ProcessOf(c, who) == IF who = "client" THEN The(The(c.client).process)
                                       ELSE The(The(c.privMan).process)

ProcessControl(p) == IF p.controlType \in {"shell", "docker"} THEN p.controlType ELSE "nil"

\* NewProxyServer: parses the upstream address again, and serves the paths of the
\* proxy with one of two handlers. mux.Handle panics when a path is empty or
\* there twice ("bad").
ProxyHandler(p) ==
    CASE p.upstream = "bad"                           -> "error"
      [] p.upstream # "bad" /\ p.paths = "bad"       -> "panic"
      [] p.upstream # "bad" /\ p.paths # "bad"
           /\ p.type \in {"http", "ws"}              -> p.type
      [] OTHER                                        -> "nil"

\* NewHttpClient with the privacy manager's TLS, or the default client: admin_-
\* nodeInfo is asked through this one and not through the client's own.
PmClientTLS(c) == UNION {p.tls : p \in c.privMan}

\* Mutant of IsProcessUp: resp.Error is not looked at.
IsProcessUpAnyReply(u, reply) ==
    CASE IsExactly(u.returnType, "rpcresult") -> reply # "failed"
      [] IsExactly(u.returnType, "string")    -> reply = "expected"
      [] OTHER                                -> TRUE

\* IsProcessUp, for what the URL replies: nothing or not 200 OK ("failed"), an
\* RPC error, or a text or result that is the expected one or another.
IsProcessUp(u, reply) ==
    CASE IsExactly(u.returnType, "rpcresult") -> reply \notin {"failed", "rpcError"}
      [] IsExactly(u.returnType, "string")    -> reply = "expected"
      [] OTHER                                -> TRUE

\* What admin_nodeInfo shows of the consensus that the client runs. Only
\* Istanbul has a protocol of its own; the others are compared by exact text.
IsConsensusValid(c, actual) ==
    LET consensus == The(c.client).consensus IN
    IF actual = "istanbul" THEN Is(consensus, "istanbul")
                           ELSE IsExactly(consensus, actual)

==============================================================================
