----------------------------- MODULE PeerManager -----------------------------
(***************************************************************************)
(* The peer manager (p2p/service.go) of one Node Hibernator, used by the    *)
(* handlers of proxied requests (HandlePrivateTx, PrepareNodeHibernatorFor- *)
(* PrivateTx) and by StopClient (ValidatePeers).  Each check fans out over  *)
(* one goroutine per peer and a collector, which talk over channels of      *)
(* capacity one, and reads the peers file, which may be edited at any time. *)
(* The list of peers last read is shared and not locked.                    *)
(***************************************************************************)
EXTENDS PrivateTx, FiniteSets

CONSTANTS
    Handlers,       \* goroutines that serve proxied requests
    Stopper,        \* the goroutine that runs StopClient
    Self,           \* the name of this hibernator
    PeerNames, Keys, PrivManKey,    \* PrivManKey[p]: p's privacy manager key
    Requests,       \* the requests that may arrive
    Lists,          \* what the peers file may hold
    Unreadable,     \* a peers file that cannot be read
    MaxEdits,       \* bound: edits of the peers file
    MaxCalls        \* bound: peers in a list, participants of a request

ASSUME PeerManagerAssumption ==
    /\ Stopper \notin Handlers
    /\ PrivManKey \in [PeerNames -> Keys]
    /\ Requests # {}
    /\ \A l \in Lists : l \in Seq(PeerNames) /\ Len(l) <= MaxCalls
    /\ Unreadable \notin Lists
    /\ {MaxEdits, MaxCalls} \subseteq Nat
    /\ \A m \in Requests : /\ DOMAIN m.params = 1 .. Len(m.params)
                           /\ IsPrivateTx(m).keys \in Seq(Keys)
                           /\ Len(IsPrivateTx(m).keys) <= MaxCalls

Goroutines == Handlers \cup {Stopper}
Slots == 1 .. MaxCalls

VARIABLES
    file,       \* external: the peers file
    edits,
    peers,      \* pm.cfg.Peers
    at,         \* where each goroutine is
    stage,      \* within readPeersConfig: to read, to store, to use the list
    got,        \* the list it has read
    msg,        \* the request a handler serves
    next,       \* index into the participants
    expected,   \* expResCnt
    call,       \* the goroutine that calls the i-th peer or participant
    answer,     \* what it has to report
    verdict,    \* the outcome of the check
    used        \* history: the lists that the check under way has looked at

vars == <<file, edits, peers, at, stage, got, msg, next, expected, call, answer,
          verdict, used>>

Places == {"idle", "count", "spawn", "list", "wait", "done"}
Answers == {"ready", "notReady", "quiet", "announced", "failed"}

\* The type invariant of the peer manager.
TypeOK ==
    /\ file \in Lists \cup {Unreadable}
    /\ edits \in 0 .. MaxEdits
    /\ peers \in Lists
    /\ at \in [Goroutines -> Places]
    /\ stage \in [Goroutines -> {"read", "store", "use"}]
    /\ got \in [Goroutines -> Lists \cup {<< >>}]
    /\ msg \in [Handlers -> Requests]
    /\ next \in [Goroutines -> 1 .. MaxCalls + 1]
    /\ expected \in [Goroutines -> 0 .. MaxCalls]
    /\ call \in [Goroutines -> [Slots -> {"none", "calling", "queued", "received"}]]
    /\ answer \in [Goroutines -> [Slots -> Answers]]
    /\ verdict \in [Goroutines -> BOOLEAN]
    /\ used \in [Goroutines -> SUBSET Lists]

\* PeerArr.IsValid: no name twice.
IsValid(list) == \A i, j \in DOMAIN list : list[i] = list[j] => i = j

Init ==
    /\ file \in Lists /\ IsValid(file)
    /\ edits = 0
    /\ peers = file
    /\ at = [g \in Goroutines |-> "idle"]
    /\ stage = [g \in Goroutines |-> "read"]
    /\ got = [g \in Goroutines |-> << >>]
    /\ msg = [h \in Handlers |-> CHOOSE m \in Requests : TRUE]
    /\ next = [g \in Goroutines |-> 1]
    /\ expected = [g \in Goroutines |-> 0]
    /\ call = [g \in Goroutines |-> [i \in Slots |-> "none"]]
    /\ answer = [g \in Goroutines |-> [i \in Slots |-> "failed"]]
    /\ verdict = [g \in Goroutines |-> TRUE]
    /\ used = [g \in Goroutines |-> {}]

------------------------------------------------------------------------------
(* readPeersConfig: read the file, store the list, return what is stored *)

Move(g, place) == at' = [at EXCEPT ![g] = place]
Stage(g, s) == stage' = [stage EXCEPT ![g] = s]

\* External: somebody saves the peers file, perhaps with a mistake in it.
Edit ==
    /\ edits < MaxEdits
    /\ edits' = edits + 1
    /\ file' \in (Lists \cup {Unreadable}) \ {file}
    /\ UNCHANGED <<peers, at, stage, got, msg, next, expected, call, answer,
                   verdict, used>>

\* Mutant of ReadPeersFile: the file is stored unchecked.
ReadPeersFileUnchecked(g) ==
    /\ at[g] \in {"count", "spawn", "list"}
    /\ stage[g] = "read"
    /\ got' = [got EXCEPT ![g] = file]
    /\ Stage(g, "store")
    /\ UNCHANGED <<file, edits, peers, at, msg, next, expected, call, answer,
                   verdict, used>>

\* A file that cannot be read, or is not valid, leaves the old list.
ReadPeersFile(g) ==
    /\ at[g] \in {"count", "spawn", "list"}
    /\ stage[g] = "read"
    /\ IF file # Unreadable /\ IsValid(file)
       THEN got' = [got EXCEPT ![g] = file] /\ Stage(g, "store")
       ELSE Stage(g, "use") /\ UNCHANGED got
    /\ UNCHANGED <<file, edits, peers, at, msg, next, expected, call, answer,
                   verdict, used>>

StorePeers(g) ==
    /\ stage[g] = "store"
    /\ peers' = got[g]
    /\ got' = [got EXCEPT ![g] = << >>]
    /\ Stage(g, "use")
    /\ UNCHANGED <<file, edits, at, msg, next, expected, call, answer, verdict,
                   used>>

\* The list is stored; the goroutine at a place looks at what is stored now.
Loaded(g, place) ==
    /\ at[g] = place
    /\ stage[g] = "use"
    /\ Stage(g, "read")
    /\ used' = [used EXCEPT ![g] = @ \cup {peers}]

\* getConfigByPrivManKey finds a peer.
Known(list, key) == \E i \in DOMAIN list : PrivManKey[list[i]] = key

------------------------------------------------------------------------------
(* HandlePrivateTx, up to peerPrivateTxStatus *)

Participants(h) == IsPrivateTx(msg[h]).keys

Return(g, ok) ==
    /\ Move(g, "done")
    /\ verdict' = [verdict EXCEPT ![g] = ok]

\* A body that does not parse is refused, one without participants goes ahead.
HandlePrivateTx(h, m) ==
    /\ at[h] = "idle"
    /\ msg' = [msg EXCEPT ![h] = m]
    /\ LET parsed == IsPrivateTx(m) IN
       IF parsed.err \/ parsed.keys = << >>
       THEN Return(h, ~parsed.err)
       ELSE Move(h, "count") /\ UNCHANGED verdict
    /\ UNCHANGED <<file, edits, peers, stage, got, next, expected, call, answer,
                   used>>

\* peersByParticipantKeyCount; nobody to ask means refused.
CountPeers(h) ==
    /\ Loaded(h, "count")
    /\ LET key == Participants(h)[next[h]]
           n == expected[h] + (IF Known(peers, key) THEN 1 ELSE 0)
           last == next[h] = Len(Participants(h))
       IN  /\ expected' = [expected EXCEPT ![h] = n]
           /\ next' = [next EXCEPT ![h] = IF last THEN 1 ELSE @ + 1]
           /\ CASE ~last         -> UNCHANGED <<at, verdict>>
                [] last /\ n = 0 -> Return(h, FALSE)
                [] last /\ n > 0 -> Move(h, "spawn") /\ UNCHANGED verdict
    /\ UNCHANGED <<file, edits, peers, got, msg, call, answer>>

\* The loop of peerPrivateTxStatus; a participant nobody manages is skipped.
SpawnCall(h) ==
    /\ Loaded(h, "spawn")
    /\ LET key == Participants(h)[next[h]] IN
       IF Known(peers, key)
       THEN call' = [call EXCEPT ![h][next[h]] = "calling"]
       ELSE UNCHANGED call
    /\ next' = [next EXCEPT ![h] = @ + 1]
    /\ Move(h, IF next[h] = Len(Participants(h)) THEN "wait" ELSE "spawn")
    /\ UNCHANGED <<file, edits, peers, got, msg, expected, answer, verdict>>

------------------------------------------------------------------------------
(* ValidatePeers, up to peerStatus *)

ValidatePeers ==
    /\ at[Stopper] = "idle"
    /\ Move(Stopper, "list")
    /\ UNCHANGED <<file, edits, peers, stage, got, msg, next, expected, call,
                   answer, verdict, used>>

\* isPeerSelf is false.
Others(list) == {i \in DOMAIN list : list[i] # Self}

\* Everybody on the list but the hibernator itself is called; nobody to call
\* means passed. The list is read once.
SpawnCalls ==
    /\ Loaded(Stopper, "list")
    /\ expected' = [expected EXCEPT ![Stopper] = Cardinality(Others(peers))]
    /\ call' = [call EXCEPT ![Stopper] =
                  [i \in Slots |-> IF i \in Others(peers) THEN "calling" ELSE "none"]]
    /\ IF Others(peers) = {} THEN Return(Stopper, TRUE)
                             ELSE Move(Stopper, "wait") /\ UNCHANGED verdict
    /\ UNCHANGED <<file, edits, peers, got, msg, next, answer>>

------------------------------------------------------------------------------
(* The fan-out that both share: callers, resCh, collector, WaitGroup *)

In(g, state) == {i \in Slots : call[g][i] = state}

\* External: what a peer's NodeStatus or PrepareForPrivateTx answers. The call
\* fails when the peer cannot be reached or answers with an error.
PeerAnswers(g) == IF g = Stopper THEN {"quiet", "announced", "failed"}
                                 ELSE {"ready", "notReady", "failed"}

\* A caller has its answer and sends it, once resCh is empty.
SendResult(g, i) ==
    /\ call[g][i] = "calling"
    /\ In(g, "queued") = {}
    /\ \E a \in PeerAnswers(g) : answer' = [answer EXCEPT ![g][i] = a]
    /\ call' = [call EXCEPT ![g][i] = "queued"]
    /\ UNCHANGED <<file, edits, peers, at, stage, got, msg, next, expected,
                   verdict, used>>

\* Mutant of Collect: failed calls are not counted.
CollectAnswersOnly(g) ==
    /\ at[g] \in {"spawn", "wait"}
    /\ Cardinality(In(g, "received")) < expected[g]
    /\ \E i \in In(g, "queued") :
         call' = [call EXCEPT ![g][i] = IF answer[g][i] = "failed" THEN "none"
                                                                  ELSE "received"]
    /\ UNCHANGED <<file, edits, peers, at, stage, got, msg, next, expected,
                   answer, verdict, used>>

\* The collector, started when somebody is expected, ends when it has counted
\* expResCnt results.
Collect(g) ==
    /\ at[g] \in {"spawn", "wait"}
    /\ Cardinality(In(g, "received")) < expected[g]
    /\ \E i \in In(g, "queued") : call' = [call EXCEPT ![g][i] = "received"]
    /\ UNCHANGED <<file, edits, peers, at, stage, got, msg, next, expected,
                   answer, verdict, used>>

\* statusArr of peerPrivateTxStatus: failed calls are left out.
TxStatus(h) == {answer[h][i] : i \in In(h, "received")} \ {"failed"}

ValidatePeerPrivateTxStatus(h) == TxStatus(h) # {} /\ "notReady" \notin TxStatus(h)

\* Mutant of NobodyAnnounced: the answers overwrite one another.
SomebodyQuiet == \E i \in In(Stopper, "received") : answer[Stopper][i] # "announced"

\* statusArr of peerStatus: a failed call leaves the zero value, which announces
\* nothing, so the array is as long as expResCnt.
NobodyAnnounced == \A i \in In(Stopper, "received") : answer[Stopper][i] # "announced"

\* Mutant of CheckDone: nobody waits for resDoneCh.
CheckDoneEarly(g) ==
    /\ at[g] = "wait"
    /\ In(g, "calling") = {}
    /\ Return(g, IF g = Stopper THEN NobodyAnnounced
                                ELSE ValidatePeerPrivateTxStatus(g))
    /\ UNCHANGED <<file, edits, peers, stage, got, msg, next, expected, call,
                   answer, used>>

\* wg.Wait() and <-resDoneCh.
CheckDone(g) ==
    /\ at[g] = "wait"
    /\ In(g, "calling") = {}
    /\ Cardinality(In(g, "received")) = expected[g]
    /\ Return(g, IF g = Stopper THEN NobodyAnnounced
                                ELSE ValidatePeerPrivateTxStatus(g))
    /\ UNCHANGED <<file, edits, peers, stage, got, msg, next, expected, call,
                   answer, used>>

\* The request is forwarded or refused, StopClient goes on or gives up.
Leave(g) ==
    /\ at[g] = "done"
    /\ Move(g, "idle")
    /\ next' = [next EXCEPT ![g] = 1]
    /\ expected' = [expected EXCEPT ![g] = 0]
    /\ call' = [call EXCEPT ![g] = [i \in Slots |-> "none"]]
    /\ answer' = [answer EXCEPT ![g] = [i \in Slots |-> "failed"]]
    /\ verdict' = [verdict EXCEPT ![g] = TRUE]
    /\ used' = [used EXCEPT ![g] = {}]
    /\ UNCHANGED <<file, edits, peers, stage, got, msg>>

------------------------------------------------------------------------------
Step(g) ==
    \/ ReadPeersFile(g) \/ StorePeers(g)
    \/ g \in Handlers /\ (CountPeers(g) \/ SpawnCall(g))
    \/ g = Stopper /\ SpawnCalls
    \/ CheckDone(g) \/ Leave(g)

Next ==
    \/ Edit \/ ValidatePeers
    \/ \E h \in Handlers, m \in Requests : HandlePrivateTx(h, m)
    \/ \E g \in Goroutines :
         Step(g) \/ Collect(g) \/ \E i \in Slots : SendResult(g, i)

Spec == Init /\ [][Next]_vars

\* Goroutines run, and calls end, by an answer or by the HTTP client's timeout.
Fairness ==
    \A g \in Goroutines :
        /\ WF_vars(Step(g)) /\ WF_vars(Collect(g))
        /\ \A i \in Slots : WF_vars(SendResult(g, i))

FairSpec == Spec /\ Fairness

------------------------------------------------------------------------------
(* Properties *)

\* The check under way has looked at one version of the peers only.
OneVersion(g) == Cardinality(used[g]) <= 1

\* peerPrivateTxStatus counts with one list and calls with another, and has
\* made fewer calls than it counted, which leaves the collector waiting, or at
\* least two more, of which one blocks on the full resCh when the collector has
\* gone.
Called(g) == Cardinality({i \in Slots : call[g][i] # "none"})

Miscounted(g) ==
    /\ at[g] = "wait" /\ ~OneVersion(g)
    /\ Called(g) < expected[g] \/ Called(g) > expected[g] + 1

\* Every check comes to an end, whatever calls fail, in whatever order the
\* answers come and however the file changes meanwhile, unless the change made it
\* miscount.
ChecksEnd ==
    \A g \in Goroutines : at[g] # "idle" ~> at[g] = "idle" \/ Miscounted(g)

\* When a check that saw one version is over nothing of it is left: every
\* caller has delivered and every result was looked at.
NothingLeft ==
    \A g \in Goroutines :
        at[g] = "done" /\ OneVersion(g)
            => In(g, "calling") = {} /\ In(g, "queued") = {}

\* The participants a request names in the foremost of its privateFor fields,
\* whichever parameter that is in.
Named(m) == {k \in Keys : \E i \in WithField(m) :
                 /\ \A j \in WithField(m) : i <= j
                 /\ \E j \in DOMAIN m.params[i].keys : m.params[i].keys[j] = k}

\* A request for a private transaction: it names participants to a method that
\* takes them, with as many parameters as the method has, or in a batch.
Private(m) ==
    /\ Named(m) # {}
    /\ m.method \in DOMAIN pvtReqParamMap
    /\ m.batch \/ Len(m.params) = pvtReqParamMap[m.method]

\* The verdict on a private transaction rests on answers: when it goes ahead,
\* somebody who manages a participant said it is ready, every participant that
\* somebody on the list manages was called and the call has ended, and none of
\* them said it is not ready. A batch never goes ahead. (A call that failed is
\* no answer: UnheardIsDown.)
GoesAheadChecked ==
    \A h \in Handlers :
        at[h] = "done" /\ verdict[h] /\ OneVersion(h) /\ Private(msg[h])
        => /\ \E i \in Slots : answer[h][i] = "ready" /\ call[h][i] # "none"
           /\ \A i \in DOMAIN Participants(h) : \A list \in used[h] :
                 Known(list, Participants(h)[i]) =>
                     answer[h][i] # "notReady" /\ call[h][i] = "received"

\* What docs/deployment.md says of private transactions: a peer that does not
\* answer is taken to be hibernated, and one that is hibernated stops the
\* transaction. So when it goes ahead every participant that somebody manages
\* has said that it is ready.
UnheardIsDown ==
    \A h \in Handlers :
        at[h] = "done" /\ verdict[h] /\ OneVersion(h) /\ Private(msg[h])
        => \A i \in DOMAIN Participants(h) : \A list \in used[h] :
              Known(list, Participants(h)[i]) => answer[h][i] = "ready"

\* StopClient goes on only when no other hibernator on the list announced a
\* shutdown; each of them was asked once.
StopsChecked ==
    at[Stopper] = "done" /\ verdict[Stopper] =>
        \A list \in used[Stopper] :
            /\ In(Stopper, "received") = Others(list)
            /\ \A i \in Slots : answer[Stopper][i] # "announced"

------------------------------------------------------------------------------
(* The inductive invariant behind the last three *)

\* All the lists that the check under way has looked at are the same.
SameList(g) == \A l1, l2 \in used[g] : l1 = l2

Asked(g) == Slots \ In(g, "none")

\* The participants among the first n that somebody on the list manages.
Managed(h, list, n) == {i \in 1 .. n : Known(list, Participants(h)[i])}

\* The callers that the count has promised to the collector are the ones that
\* were started.
Started(h, n) ==
    /\ used[h] # {}
    /\ SameList(h) => \A list \in used[h] :
         /\ Asked(h) = Managed(h, list, n)
         /\ expected[h] = Cardinality(Managed(h, list, Len(Participants(h))))

Finished(g) ==
    /\ In(g, "calling") = {}
    /\ Cardinality(In(g, "received")) = expected[g]

\* How far the check of a handler is.
HandlerInv(h) ==
    /\ at[h] # "list"
    /\ at[h] \in {"idle", "count"} => Asked(h) = {}
    /\ at[h] = "idle" => next[h] = 1 /\ expected[h] = 0 /\ used[h] = {}
    /\ at[h] = "count" =>
         /\ next[h] \in 1 .. Len(Participants(h))
         /\ expected[h] < next[h]
         /\ used[h] = {} => next[h] = 1
         /\ SameList(h) => \A list \in used[h] :
              expected[h] = Cardinality(Managed(h, list, next[h] - 1))
    /\ at[h] = "spawn" =>
         /\ next[h] \in 1 .. Len(Participants(h))
         /\ Asked(h) \subseteq 1 .. next[h] - 1
         /\ Started(h, next[h] - 1)
    /\ at[h] = "wait" => Started(h, Len(Participants(h)))
    /\ at[h] = "done" =>
         \/ /\ Asked(h) = {}
            /\ verdict[h] => ~IsPrivateTx(msg[h]).err /\ Participants(h) = << >>
         \/ /\ Started(h, Len(Participants(h)))
            /\ Finished(h)
            /\ verdict[h] <=> ValidatePeerPrivateTxStatus(h)

\* How far the check of StopClient is.
StopperInv ==
    /\ at[Stopper] \in {"idle", "list", "wait", "done"}
    /\ at[Stopper] \in {"idle", "list"} => Asked(Stopper) = {} /\ used[Stopper] = {}
    /\ at[Stopper] \in {"wait", "done"} =>
         \E list \in Lists : /\ used[Stopper] = {list}
                             /\ Asked(Stopper) = Others(list)
                             /\ expected[Stopper] = Cardinality(Others(list))
    /\ at[Stopper] = "done" =>
         Finished(Stopper) /\ (verdict[Stopper] <=> NobodyAnnounced)

\* What a caller has to report, and the list a goroutine is about to store.
ReportInv ==
    /\ \A g \in Goroutines :
         /\ stage[g] = "store" => got[g] \in Lists
         /\ IsFiniteSet(used[g])
         /\ \A i \in Slots :
              call[g][i] \in {"none", "calling"} => answer[g][i] = "failed"
    /\ \A h \in Handlers : \A i \in Slots : answer[h][i] \in PeerAnswers(h)

CheckInv ==
    TypeOK /\ ReportInv /\ StopperInv /\ \A h \in Handlers : HandlerInv(h)

==============================================================================
