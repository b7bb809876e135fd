------------------------------ MODULE MCProgram ------------------------------
(* Instances of Program for TLC. *)
EXTENDS Program

Text(w) == [word |-> w, lower |-> TRUE]
Capital(w) == [word |-> w, lower |-> FALSE]

GoodServerTLS == [cert |-> "ok", key |-> "ok", ca |-> "unset"]
GoodClientTLS == [insecure |-> FALSE, cert |-> "unset", key |-> "unset", ca |-> "ok"]

Upcheck(type) == [url |-> TRUE, returnType |-> type, method |-> "post",
                  expected |-> Is(type, "string")]
Shell(name, upcheck) ==
    [controlType |-> "shell", name |-> name, containerId |-> FALSE,
     startCommand |-> TRUE, stopCommand |-> TRUE, upcheck |-> {upcheck}]
RpcUpcheck == Upcheck(Text("rpcresult"))
StringUpcheck == Upcheck(Text("string"))

Client(type, consensus) ==
    [type |-> type, consensus |-> consensus, rpcUrl |-> TRUE, tls |-> {},
     process |-> {Shell("bcclnt", RpcUpcheck)}]
GoQuorum == Client("goquorum", Text("raft"))
PrivMan == [key |-> TRUE, tls |-> {}, process |-> {Shell("privman", StringUpcheck)}]
Proxy(type) ==
    [name |-> TRUE, type |-> type, addr |-> TRUE, upstream |-> "ok", paths |-> "ok",
     readTimeout |-> 1, writeTimeout |-> 1, proxyTls |-> {}, clientTls |-> {}]
Peer(name) == [name |-> name, rpcUrl |-> "ok", tls |-> {}]
PeersFile(peers) == [suffix |-> "json", decodes |-> TRUE, peers |-> peers]

Good ==
    [file |-> [suffix |-> "toml", decodes |-> TRUE],
     name |-> TRUE, peersFile |-> {PeersFile(<<Peer("a"), Peer("b")>>)},
     upchkPollingInterval |-> 1, inactivityTime |-> 60, resyncTime |-> 60,
     server |-> {[addr |-> TRUE, tls |-> {}]},
     client |-> {GoQuorum}, privMan |-> {},
     proxies |-> <<Proxy("http")>>]

WithClient(c) == [Good EXCEPT !.client = {c}]
WithUpcheck(u) == WithClient([GoQuorum EXCEPT !.process = {Shell("bcclnt", u)}])
WithProcess(p) == WithClient([GoQuorum EXCEPT !.process = {p}])
WithProxy(p) == [Good EXCEPT !.proxies = <<p>>]

\* Both kinds of proxy without a privacy manager, and one proxy with it.
Layouts ==
    {[WithClient(c) EXCEPT !.proxies = <<Proxy("http"), Proxy("ws")>>] :
        c \in {GoQuorum, Client("besu", Text("clique"))}}
    \cup
    {[WithClient(c) EXCEPT !.privMan = {PrivMan}] :
        c \in {GoQuorum, Client("besu", Text("clique"))}}

\* Each client type with each consensus.
Clients ==
    {WithClient(Client(type, consensus)) :
        type \in {"goquorum", "besu", "geth"},
        consensus \in {Text("raft"), Text("istanbul"), Text("clique"),
                       Capital("raft"), Text("ibft2")}}

\* One thing at a time that IsValid accepts, or has to refuse.
Others ==
    {[Good EXCEPT !.file.suffix = "yaml"],
     [Good EXCEPT !.name = FALSE],
     [Good EXCEPT !.peersFile = {}],
     [Good EXCEPT !.peersFile = {PeersFile(<<Peer("a"), Peer("a")>>)}],
     [Good EXCEPT !.upchkPollingInterval = 0],
     [Good EXCEPT !.inactivityTime = 59],
     [Good EXCEPT !.resyncTime = 0],
     [Good EXCEPT !.resyncTime = 59],
     [Good EXCEPT !.server = {}],
     [Good EXCEPT !.server = {[addr |-> TRUE, tls |-> {GoodServerTLS}]}],
     [Good EXCEPT !.server = {[addr |-> TRUE, tls |-> {[GoodServerTLS EXCEPT !.key = "bad"]}]}],
     [Good EXCEPT !.client = {}],
     [Good EXCEPT !.privMan = {[PrivMan EXCEPT !.tls = {GoodClientTLS}]}],
     [Good EXCEPT !.proxies = << >>],
     WithClient([GoQuorum EXCEPT !.process = {}]),
     WithClient([GoQuorum EXCEPT !.tls = {GoodClientTLS}]),
     WithClient([GoQuorum EXCEPT !.tls = {[GoodClientTLS EXCEPT !.cert = "ok"]}]),
     WithProcess([Shell("bcclnt", RpcUpcheck) EXCEPT !.controlType = "systemd"]),
     WithProcess([Shell("bcclnt", RpcUpcheck) EXCEPT !.controlType = "docker"]),
     WithUpcheck(StringUpcheck),
     WithUpcheck(Upcheck(Capital("rpcresult"))),
     WithUpcheck(Upcheck(Text("json"))),
     WithProxy(Proxy("tcp")),
     WithProxy([Proxy("ws") EXCEPT !.upstream = "bad"]),
     WithProxy([Proxy("ws") EXCEPT !.paths = "bad"]),
     WithProxy([Proxy("ws") EXCEPT !.writeTimeout = 0])}

MCConfigs == Layouts \cup Clients \cup Others

==============================================================================
