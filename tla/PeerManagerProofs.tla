-------------------------- MODULE PeerManagerProofs --------------------------
(***************************************************************************)
(* Proofs about PeerManager, for every number of handlers, every list of    *)
(* peers, every edit of it and every request: what a check that is over     *)
(* has looked at.                                                           *)
(***************************************************************************)
EXTENDS PeerManager, FiniteSetTheorems, TLAPS

\* What the proofs need of the constants almost everywhere.
LEMMA Bounds == MaxEdits \in Nat /\ MaxCalls \in Nat /\ Stopper \notin Handlers
BY PeerManagerAssumption

USE Bounds DEF Goroutines, Slots, Places, Answers

------------------------------------------------------------------------------
(* Lists, participants and how many of them there are *)

\* The participants of a request that a handler may serve.
LEMMA ParticipantsType ==
    ASSUME TypeOK, NEW h \in Handlers
    PROVE  /\ Participants(h) \in Seq(Keys)
           /\ Len(Participants(h)) \in 0 .. MaxCalls
           /\ Participants(h) # << >> => Len(Participants(h)) >= 1
BY PeerManagerAssumption DEF TypeOK, Participants

\* There is a slot for everybody who is asked, and they can be counted.
LEMMA SlotSets ==
    ASSUME NEW S \in SUBSET Slots
    PROVE  /\ IsFiniteSet(S)
           /\ Cardinality(S) \in 0 .. MaxCalls
<1>1. IsFiniteSet(1 .. MaxCalls) /\ Cardinality(1 .. MaxCalls) = MaxCalls
  BY FS_Interval
<1>2. IsFiniteSet(S) /\ Cardinality(S) <= MaxCalls
  BY <1>1, FS_Subset
<1>3. Cardinality(S) \in Nat
  BY <1>2, FS_CardinalityType
<1>. QED
  BY <1>2, <1>3

\* A part of the slots that is as large as the whole is the whole.
LEMMA SameSize ==
    ASSUME NEW S \in SUBSET Slots, NEW T \in SUBSET S,
           Cardinality(T) = Cardinality(S)
    PROVE  T = S
BY SlotSets, FS_Subset

\* There is a slot for each of the other hibernators on a list.
LEMMA OthersType ==
    ASSUME NEW list \in Lists
    PROVE  Others(list) \subseteq Slots
BY PeerManagerAssumption DEF Others

\* There is a slot for each participant that somebody manages.
LEMMA ManagedType ==
    ASSUME TypeOK, NEW h \in Handlers, NEW list,
           NEW n \in 0 .. Len(Participants(h))
    PROVE  Managed(h, list, n) \subseteq Slots
BY ParticipantsType DEF Managed

\* One participant more is one managed participant more, or none.
LEMMA ManagedNext ==
    ASSUME TypeOK, NEW h \in Handlers, NEW list,
           NEW n \in 1 .. Len(Participants(h))
    PROVE  /\ Known(list, Participants(h)[n]) =>
                /\ Managed(h, list, n) = Managed(h, list, n - 1) \cup {n}
                /\ Cardinality(Managed(h, list, n))
                     = Cardinality(Managed(h, list, n - 1)) + 1
           /\ ~Known(list, Participants(h)[n]) =>
                Managed(h, list, n) = Managed(h, list, n - 1)
<1>1. n \in Nat /\ n - 1 \in 0 .. Len(Participants(h)) /\ n \notin Managed(h, list, n - 1)
  BY ParticipantsType DEF Managed
<1>2. Known(list, Participants(h)[n]) =>
        Managed(h, list, n) = Managed(h, list, n - 1) \cup {n}
  BY <1>1 DEF Managed
<1>3. ~Known(list, Participants(h)[n]) =>
        Managed(h, list, n) = Managed(h, list, n - 1)
  BY <1>1 DEF Managed
<1>4. IsFiniteSet(Managed(h, list, n - 1))
  BY <1>1, ManagedType, SlotSets
<1>5. Cardinality(Managed(h, list, n - 1) \cup {n})
        = Cardinality(Managed(h, list, n - 1)) + 1
  BY <1>1, <1>4, FS_AddElement
<1>. QED
  BY <1>2, <1>3, <1>5

\* Nobody is managed among no participants.
LEMMA ManagedNone ==
    ASSUME NEW h, NEW list
    PROVE  Managed(h, list, 0) = {} /\ Cardinality(Managed(h, list, 0)) = 0
BY FS_EmptySet DEF Managed

\* A check that has looked at one version has looked at one list.
LEMMA OneVersionSameList ==
    ASSUME NEW g \in Goroutines, IsFiniteSet(used[g]), OneVersion(g)
    PROVE  SameList(g)
<1>. SUFFICES ASSUME NEW l1 \in used[g], NEW l2 \in used[g], l1 # l2
              PROVE  FALSE
  BY DEF SameList
<1>1. PICK one : one = {l1}
  OBVIOUS
<1>2. PICK two : two = one \cup {l2}
  OBVIOUS
<1>3. IsFiniteSet(one) /\ Cardinality(one) = 1
  BY <1>1, FS_Singleton
<1>4. Cardinality(two) = Cardinality(one) + 1
  BY <1>1, <1>2, <1>3, FS_AddElement
<1>5. two \in SUBSET used[g]
  BY <1>1, <1>2
<1>6. Cardinality(two) <= Cardinality(used[g])
  BY <1>5, FS_Subset
<1>. QED
  BY <1>3, <1>4, <1>6, FS_CardinalityType DEF OneVersion

------------------------------------------------------------------------------
(* Types and reports *)

\* What CountPeers comes to.
LEMMA CountOutcome ==
    ASSUME CheckInv, NEW h \in Handlers, CountPeers(h)
    PROVE  LET n == expected'[h]
               last == next[h] = Len(Participants(h))
           IN  /\ n = expected[h]
                       + (IF Known(peers, Participants(h)[next[h]]) THEN 1 ELSE 0)
               /\ n \in Nat
               /\ \/ ~last /\ UNCHANGED <<at, verdict>>
                  \/ last /\ n = 0 /\ Return(h, FALSE)
                  \/ last /\ n > 0 /\ Move(h, "spawn") /\ UNCHANGED verdict
<1>. DEFINE n == expected[h]
                  + (IF Known(peers, Participants(h)[next[h]]) THEN 1 ELSE 0)
            last == next[h] = Len(Participants(h))
<1>1. expected' = [expected EXCEPT ![h] = n]
  BY DEF CountPeers
<1>2. n \in Nat /\ expected'[h] = n
  BY <1>1 DEF CheckInv, TypeOK
<1>3. (CASE ~last -> UNCHANGED <<at, verdict>>
         [] last /\ n = 0 -> Return(h, FALSE)
         [] last /\ n > 0 -> Move(h, "spawn") /\ UNCHANGED verdict)
  BY DEF CountPeers
<1>. HIDE DEF n
<1>4. \/ ~last /\ UNCHANGED <<at, verdict>>
      \/ last /\ n = 0 /\ Return(h, FALSE)
      \/ last /\ n > 0 /\ Move(h, "spawn") /\ UNCHANGED verdict
  <2>1. CASE ~last
    BY <1>3, <2>1
  <2>2. CASE last /\ n = 0
    BY <1>3, <2>2
  <2>3. CASE last /\ n > 0
    BY <1>3, <2>3
  <2>4. ~last \/ (last /\ n = 0) \/ (last /\ n > 0)
    BY <1>2
  <2>. QED
    BY <2>1, <2>2, <2>3, <2>4
<1>. QED
  BY <1>2, <1>4 DEF n

\* What SpawnCall comes to: a caller for the next participant, if somebody
\* manages it; its slot is free.
LEMMA SpawnOutcome ==
    ASSUME CheckInv, NEW h \in Handlers, SpawnCall(h)
    PROVE  /\ next[h] \in 1 .. Len(Participants(h))
           /\ next[h] \in Slots /\ call[h][next[h]] = "none"
           /\ \/ /\ Known(peers, Participants(h)[next[h]])
                 /\ call' = [call EXCEPT ![h][next[h]] = "calling"]
              \/ ~Known(peers, Participants(h)[next[h]]) /\ call' = call
<1>1. /\ next[h] \in 1 .. Len(Participants(h))
      /\ Len(Participants(h)) \in 0 .. MaxCalls
  BY ParticipantsType DEF CheckInv, HandlerInv, SpawnCall, Loaded
<1>2. next[h] \in Slots /\ call[h][next[h]] = "none"
  BY <1>1 DEF CheckInv, HandlerInv, SpawnCall, Loaded, Asked, In
<1>3. CASE Known(peers, Participants(h)[next[h]])
  BY <1>1, <1>2, <1>3 DEF SpawnCall
<1>4. CASE ~Known(peers, Participants(h)[next[h]])
  BY <1>1, <1>2, <1>4 DEF SpawnCall
<1>. QED
  BY <1>3, <1>4

\* The peer manager's variables keep their types.
LEMMA TypeStep ==
    ASSUME CheckInv, [Next]_vars PROVE TypeOK'
<1>0. TypeOK /\ ReportInv /\ \A h \in Handlers : HandlerInv(h)
  BY DEF CheckInv
<1>. USE <1>0 DEF TypeOK, Move, Stage, Return, Loaded
<1>1. CASE UNCHANGED vars
  BY <1>1 DEF vars
<1>2. ASSUME Edit PROVE TypeOK'
  BY <1>2 DEF Edit
<1>3. ASSUME ValidatePeers PROVE TypeOK'
  BY <1>3 DEF ValidatePeers
<1>4. ASSUME NEW h \in Handlers, NEW m \in Requests, HandlePrivateTx(h, m) PROVE TypeOK'
  BY <1>4 DEF HandlePrivateTx
<1>5. ASSUME NEW g \in Goroutines, ReadPeersFile(g) PROVE TypeOK'
  <2>1. CASE file # Unreadable /\ IsValid(file)
    <3>1. got' = [got EXCEPT ![g] = file] /\ stage' = [stage EXCEPT ![g] = "store"]
      BY <1>5, <2>1 DEF ReadPeersFile
    <3>2. file \in Lists
      BY <2>1
    <3>3. got' \in [Goroutines -> Lists \cup {<< >>}]
          /\ stage' \in [Goroutines -> {"read", "store", "use"}]
      BY <3>1, <3>2
    <3>. QED
      BY <1>5, <3>3 DEF ReadPeersFile
  <2>2. CASE ~(file # Unreadable /\ IsValid(file))
    BY <1>5, <2>2 DEF ReadPeersFile
  <2>. QED
    BY <2>1, <2>2
<1>6. ASSUME NEW g \in Goroutines, StorePeers(g) PROVE TypeOK'
  BY <1>6 DEF StorePeers, ReportInv
<1>7. ASSUME NEW h \in Handlers, CountPeers(h) PROVE TypeOK'
  <2>. DEFINE n == expected[h] + (IF Known(peers, Participants(h)[next[h]]) THEN 1 ELSE 0)
  <2>1. /\ next[h] \in 1 .. Len(Participants(h))
        /\ Len(Participants(h)) \in 0 .. MaxCalls
        /\ expected[h] < next[h]
    BY <1>7, ParticipantsType DEF CountPeers, HandlerInv
  <2>2. n \in 0 .. MaxCalls
    BY <2>1
  <2>3. expected' = [expected EXCEPT ![h] = n]
    BY <1>7 DEF CountPeers
  <2>4. next' \in [Goroutines -> 1 .. MaxCalls + 1]
    BY <1>7, <2>1 DEF CountPeers
  <2>5. at' \in [Goroutines -> Places] /\ verdict' \in [Goroutines -> BOOLEAN]
    BY <1>7, CountOutcome
  <2>6. stage' \in [Goroutines -> {"read", "store", "use"}]
        /\ used' \in [Goroutines -> SUBSET Lists]
    BY <1>7 DEF CountPeers
  <2>. HIDE DEF n
  <2>. QED
    BY <1>7, <2>2, <2>3, <2>4, <2>5, <2>6 DEF CountPeers
<1>8. ASSUME NEW h \in Handlers, SpawnCall(h) PROVE TypeOK'
  <2>1. /\ next[h] \in 1 .. Len(Participants(h))
        /\ Len(Participants(h)) \in 0 .. MaxCalls
    BY <1>8, ParticipantsType DEF SpawnCall, HandlerInv
  <2>2. call' \in [Goroutines -> [Slots -> {"none", "calling", "queued", "received"}]]
    <3>1. \/ call' = call
          \/ next[h] \in Slots /\ call' = [call EXCEPT ![h][next[h]] = "calling"]
      BY <1>8, SpawnOutcome
    <3>2. ASSUME NEW k \in Slots, call' = [call EXCEPT ![h][k] = "calling"]
          PROVE  call' \in [Goroutines ->
                              [Slots -> {"none", "calling", "queued", "received"}]]
      BY <3>2
    <3>. QED
      BY <3>1, <3>2
  <2>3. at' \in [Goroutines -> Places]
    BY <1>8 DEF SpawnCall
  <2>. QED
    BY <1>8, <2>1, <2>2, <2>3 DEF SpawnCall
<1>9. ASSUME SpawnCalls PROVE TypeOK'
  <2>1. Cardinality(Others(peers)) \in 0 .. MaxCalls
    BY OthersType, SlotSets
  <2>. QED
    BY <1>9, <2>1 DEF SpawnCalls
<1>10. ASSUME NEW g \in Goroutines, CheckDone(g) PROVE TypeOK'
  <2>1. verdict' \in [Goroutines -> BOOLEAN]
    BY <1>10 DEF CheckDone, NobodyAnnounced, ValidatePeerPrivateTxStatus
  <2>. QED
    BY <1>10, <2>1 DEF CheckDone
<1>11. ASSUME NEW g \in Goroutines, Leave(g) PROVE TypeOK'
  BY <1>11 DEF Leave
<1>12. ASSUME NEW g \in Goroutines, Collect(g) PROVE TypeOK'
  BY <1>12 DEF Collect, In
<1>13. ASSUME NEW g \in Goroutines, NEW i \in Slots, SendResult(g, i) PROVE TypeOK'
  BY <1>13 DEF SendResult, PeerAnswers
<1>. QED
  BY <1>1, <1>2, <1>3, <1>4, <1>5, <1>6, <1>7, <1>8,
     <1>9, <1>10, <1>11, <1>12, <1>13
     DEF Next, Step

\* One more list leaves the lists that the checks have used finite.
LEMMA UsedStaysFinite ==
    ASSUME NEW g \in Goroutines,
           used \in [Goroutines -> SUBSET Lists],
           \A k \in Goroutines : IsFiniteSet(used[k]),
           used' = [used EXCEPT ![g] = used[g] \cup {peers}]
    PROVE  \A k \in Goroutines : IsFiniteSet(used'[k])
<1>1. IsFiniteSet(used[g] \cup {peers})
  <2>1. IsFiniteSet(used[g])
    OBVIOUS
  <2>. QED
    BY <2>1, FS_AddElement
<1>. TAKE k \in Goroutines
<1>2. CASE k = g
  BY <1>1, <1>2
<1>3. CASE k # g
  BY <1>3
<1>. QED
  BY <1>2, <1>3

\* Nothing is reported before the answer is there, handlers get the answers to
\* PrepareForPrivateTx only, and what is stored is a list.
LEMMA ReportStep ==
    ASSUME CheckInv, TypeOK', [Next]_vars PROVE ReportInv'
<1>0. TypeOK /\ ReportInv /\ StopperInv
  BY DEF CheckInv
<1>. USE <1>0 DEF TypeOK, ReportInv, Move, Stage, Return, Loaded
<1>1. CASE UNCHANGED vars
  BY <1>1 DEF vars, PeerAnswers
<1>2. ASSUME Edit PROVE ReportInv'
  BY <1>2 DEF Edit, PeerAnswers
<1>3. ASSUME ValidatePeers PROVE ReportInv'
  BY <1>3 DEF ValidatePeers, PeerAnswers
<1>4. ASSUME NEW h \in Handlers, NEW m \in Requests, HandlePrivateTx(h, m) PROVE ReportInv'
  BY <1>4 DEF HandlePrivateTx, PeerAnswers
<1>5. ASSUME NEW g \in Goroutines, ReadPeersFile(g) PROVE ReportInv'
  <2>1. CASE file # Unreadable /\ IsValid(file)
    BY <1>5, <2>1 DEF ReadPeersFile, PeerAnswers
  <2>2. CASE ~(file # Unreadable /\ IsValid(file))
    BY <1>5, <2>2 DEF ReadPeersFile, PeerAnswers
  <2>. QED
    BY <2>1, <2>2
<1>6. ASSUME NEW g \in Goroutines, StorePeers(g) PROVE ReportInv'
  BY <1>6 DEF StorePeers, PeerAnswers
<1>7. ASSUME NEW h \in Handlers, CountPeers(h) PROVE ReportInv'
  <2>1. /\ answer' = answer /\ call' = call /\ got' = got
        /\ stage' = [stage EXCEPT ![h] = "read"]
    BY <1>7 DEF CountPeers
  <2>2. \A g \in Goroutines : IsFiniteSet(used'[g])
    <3>1. used' = [used EXCEPT ![h] = used[h] \cup {peers}]
      BY <1>7 DEF CountPeers
    <3>2. \A g \in Goroutines : IsFiniteSet(used[g])
      BY DEF ReportInv
    <3>3. h \in Goroutines
      BY DEF Goroutines
    <3>. QED
      BY <3>1, <3>2, <3>3, UsedStaysFinite
  <2>. QED
    BY <2>1, <2>2 DEF PeerAnswers
<1>8. ASSUME NEW h \in Handlers, SpawnCall(h) PROVE ReportInv'
  <2>1. answer' = answer /\ stage' = [stage EXCEPT ![h] = "read"] /\ got' = got
    BY <1>8 DEF SpawnCall
  <2>2. \A g \in Goroutines : IsFiniteSet(used'[g])
    <3>1. used' = [used EXCEPT ![h] = used[h] \cup {peers}]
      BY <1>8 DEF SpawnCall
    <3>2. \A g \in Goroutines : IsFiniteSet(used[g])
      BY DEF ReportInv
    <3>3. h \in Goroutines
      BY DEF Goroutines
    <3>. QED
      BY <3>1, <3>2, <3>3, UsedStaysFinite
  <2>3. \/ call' = call
        \/ /\ next[h] \in Slots /\ call[h][next[h]] = "none"
           /\ call' = [call EXCEPT ![h][next[h]] = "calling"]
    BY <1>8, SpawnOutcome
  <2>. QED
    BY <2>1, <2>2, <2>3 DEF PeerAnswers
<1>9. ASSUME SpawnCalls PROVE ReportInv'
  <2>1. answer' = answer /\ stage' = [stage EXCEPT ![Stopper] = "read"] /\ got' = got
    BY <1>9 DEF SpawnCalls
  <2>2. \A g \in Goroutines : IsFiniteSet(used'[g])
    <3>1. used' = [used EXCEPT ![Stopper] = used[Stopper] \cup {peers}]
      BY <1>9 DEF SpawnCalls
    <3>2. \A g \in Goroutines : IsFiniteSet(used[g])
      BY DEF ReportInv
    <3>3. Stopper \in Goroutines
      BY DEF Goroutines
    <3>. QED
      BY <3>1, <3>2, <3>3, UsedStaysFinite
  <2>3. \A i \in Slots : call[Stopper][i] = "none"
    BY <1>9 DEF SpawnCalls, StopperInv, Asked, In
  <2>4. \A i \in Slots : answer[Stopper][i] = "failed"
    BY <2>3
  <2>5. \A g \in Goroutines \ {Stopper} : call'[g] = call[g]
    BY <1>9 DEF SpawnCalls
  <2>. QED
    BY <2>1, <2>2, <2>4, <2>5 DEF PeerAnswers
<1>10. ASSUME NEW g \in Goroutines, CheckDone(g) PROVE ReportInv'
  BY <1>10 DEF CheckDone, PeerAnswers
<1>11. ASSUME NEW g \in Goroutines, Leave(g) PROVE ReportInv'
  BY <1>11, FS_EmptySet DEF Leave, PeerAnswers
<1>12. ASSUME NEW g \in Goroutines, Collect(g) PROVE ReportInv'
  BY <1>12 DEF Collect, In, PeerAnswers
<1>13. ASSUME NEW g \in Goroutines, NEW i \in Slots, SendResult(g, i) PROVE ReportInv'
  BY <1>13 DEF SendResult, PeerAnswers
<1>. QED
  BY <1>1, <1>2, <1>3, <1>4, <1>5, <1>6, <1>7, <1>8,
     <1>9, <1>10, <1>11, <1>12, <1>13
     DEF Next, Step

------------------------------------------------------------------------------
(* The check of a handler *)

\* What the invariant of a goroutine's check depends on.
Check(g) == <<at[g], next[g], expected[g], call[g], used[g], verdict[g], answer[g]>>

\* A check is a matter of the goroutine that makes it: reading the peers file
\* and the steps of other goroutines leave it alone.
LEMMA CheckFrame ==
    ASSUME CheckInv, [Next]_vars, NEW g \in Goroutines
    PROVE  \/ UNCHANGED Check(g)
           \/ g = Stopper /\ (ValidatePeers \/ SpawnCalls)
           \/ g \in Handlers /\ \/ \E m \in Requests : HandlePrivateTx(g, m)
                                \/ CountPeers(g) \/ SpawnCall(g)
           \/ CheckDone(g) \/ Leave(g) \/ Collect(g)
           \/ \E i \in Slots : SendResult(g, i)
<1>0. TypeOK
  BY DEF CheckInv
<1>. USE <1>0 DEF TypeOK, Move, Return, Loaded, Check
<1>1. CASE UNCHANGED vars
  BY <1>1 DEF vars
<1>2. CASE Edit
  BY <1>2 DEF Edit
<1>3. ASSUME NEW k \in Goroutines, ReadPeersFile(k) \/ StorePeers(k)
      PROVE  UNCHANGED Check(g)
  BY <1>3 DEF ReadPeersFile, StorePeers
<1>4. ASSUME ValidatePeers, g # Stopper PROVE UNCHANGED Check(g)
  BY <1>4 DEF ValidatePeers
<1>5. ASSUME SpawnCalls, g # Stopper PROVE UNCHANGED Check(g)
  BY <1>5 DEF SpawnCalls
<1>6. ASSUME NEW k \in Handlers, NEW m \in Requests, HandlePrivateTx(k, m), g # k
      PROVE  UNCHANGED Check(g)
  BY <1>6 DEF HandlePrivateTx
<1>7. ASSUME NEW k \in Handlers, CountPeers(k), g # k PROVE UNCHANGED Check(g)
  <2>1. UNCHANGED <<at[g], verdict[g]>>
    BY <1>7, CountOutcome
  <2>2. UNCHANGED <<next[g], expected[g], call[g], used[g], answer[g]>>
    BY <1>7 DEF CountPeers
  <2>. QED
    BY <2>1, <2>2
<1>8. ASSUME NEW k \in Handlers, SpawnCall(k), g # k PROVE UNCHANGED Check(g)
  BY <1>8 DEF SpawnCall
<1>9. ASSUME NEW k \in Goroutines, CheckDone(k) \/ Leave(k), g # k
      PROVE  UNCHANGED Check(g)
  BY <1>9 DEF CheckDone, Leave
<1>10. ASSUME NEW k \in Goroutines, Collect(k), g # k PROVE UNCHANGED Check(g)
  BY <1>10 DEF Collect
<1>11. ASSUME NEW k \in Goroutines, NEW i \in Slots, SendResult(k, i), g # k
       PROVE  UNCHANGED Check(g)
  BY <1>11 DEF SendResult
<1>. QED
  BY <1>1, <1>2, <1>3, <1>4, <1>5, <1>6, <1>7, <1>8, <1>9, <1>10, <1>11
     DEF Next, Step

\* The request a handler serves changes only when it takes the next one.
LEMMA RequestStays ==
    ASSUME TypeOK, [Next]_vars, NEW h \in Handlers,
           ~\E m \in Requests : HandlePrivateTx(h, m)
    PROVE  msg'[h] = msg[h]
<1>1. ASSUME NEW k \in Handlers, NEW m \in Requests, HandlePrivateTx(k, m)
      PROVE  msg'[h] = msg[h]
  BY <1>1 DEF HandlePrivateTx, TypeOK
<1>2. ASSUME NEW g \in Goroutines,
             Step(g) \/ Collect(g) \/ \E i \in Slots : SendResult(g, i)
      PROVE  msg' = msg
  BY <1>2 DEF Step, ReadPeersFile, StorePeers, CountPeers, SpawnCall, SpawnCalls,
              CheckDone, Leave, Collect, SendResult
<1>3. CASE Edit \/ ValidatePeers \/ UNCHANGED vars
  BY <1>3 DEF Edit, ValidatePeers, vars
<1>. QED
  BY <1>1, <1>2, <1>3 DEF Next

\* The invariant of a check is about that check only.
LEMMA HandlerFrame ==
    ASSUME NEW h \in Handlers, HandlerInv(h), UNCHANGED Check(h), msg'[h] = msg[h]
    PROVE  HandlerInv(h)'
<1>1. \A state : In(h, state)' = In(h, state)
  BY DEF Check, In
<1>2. Asked(h)' = Asked(h)
  BY <1>1 DEF Asked
<1>3. Participants(h)' = Participants(h)
  BY DEF Participants
<1>4. \A list, n : Managed(h, list, n)' = Managed(h, list, n)
  BY <1>3 DEF Managed, Known
<1>5. SameList(h)' <=> SameList(h)
  BY DEF Check, SameList
<1>6. \A n : Started(h, n)' <=> Started(h, n)
  BY <1>2, <1>3, <1>4, <1>5 DEF Check, Started
<1>7. Finished(h)' <=> Finished(h)
  BY <1>1 DEF Check, Finished
<1>8. ValidatePeerPrivateTxStatus(h)' <=> ValidatePeerPrivateTxStatus(h)
  BY <1>1 DEF Check, ValidatePeerPrivateTxStatus, TxStatus
<1>. QED
  BY <1>2, <1>3, <1>4, <1>5, <1>6, <1>7, <1>8 DEF Check, HandlerInv

\* Who has been started depends on neither the answers nor the place.
LEMMA StartedFrame ==
    ASSUME NEW h \in Handlers, Asked(h)' = Asked(h),
           UNCHANGED <<expected[h], used[h], msg[h]>>
    PROVE  /\ Participants(h)' = Participants(h)
           /\ SameList(h)' <=> SameList(h)
           /\ \A list, n : Managed(h, list, n)' = Managed(h, list, n)
           /\ \A n : Started(h, n)' <=> Started(h, n)
<1>1. Participants(h)' = Participants(h)
  BY DEF Participants
<1>2. \A list, n : Managed(h, list, n)' = Managed(h, list, n)
  BY <1>1 DEF Managed, Known
<1>3. SameList(h)' <=> SameList(h)
  BY DEF SameList
<1>. QED
  BY <1>1, <1>2, <1>3 DEF Started

\* A request arrives: the check starts from nothing.
LEMMA HandlerArrives ==
    ASSUME CheckInv, TypeOK', NEW h \in Handlers, NEW m \in Requests,
           HandlePrivateTx(h, m)
    PROVE  HandlerInv(h)'
<1>1. TypeOK /\ HandlerInv(h) /\ at[h] = "idle"
  BY DEF CheckInv, HandlePrivateTx
<1>2. /\ UNCHANGED <<next, expected, call, used>>
      /\ next[h] = 1 /\ expected[h] = 0 /\ used[h] = {} /\ Asked(h) = {}
  BY <1>1 DEF HandlerInv, HandlePrivateTx
<1>3. Asked(h)' = {}
  BY <1>2 DEF Asked, In
<1>4. Participants(h)' = IsPrivateTx(m).keys /\ IsPrivateTx(msg[h])' = IsPrivateTx(m)
  BY <1>1 DEF HandlePrivateTx, Participants, TypeOK
<1>5. CASE IsPrivateTx(m).err \/ IsPrivateTx(m).keys = << >>
  <2>1. at'[h] = "done" /\ verdict'[h] = ~IsPrivateTx(m).err
    BY <1>1, <1>5 DEF HandlePrivateTx, Return, Move, TypeOK
  <2>2. verdict'[h] => ~IsPrivateTx(m).err /\ IsPrivateTx(m).keys = << >>
    BY <1>5, <2>1
  <2>. QED
    BY <1>3, <1>4, <2>1, <2>2 DEF HandlerInv
<1>6. CASE ~(IsPrivateTx(m).err \/ IsPrivateTx(m).keys = << >>)
  <2>1. at'[h] = "count"
    BY <1>1, <1>6 DEF HandlePrivateTx, Move, TypeOK
  <2>2. Len(Participants(h)') \in Nat /\ Len(Participants(h)') >= 1
    BY <1>4, <1>6, PeerManagerAssumption
  <2>. QED
    BY <1>2, <1>3, <2>1, <2>2 DEF HandlerInv
<1>. QED
  BY <1>5, <1>6

\* A list that the check has looked at and the one it looks at now.
LEMMA SameListGrows ==
    ASSUME TypeOK, NEW h \in Goroutines, used' = [used EXCEPT ![h] = @ \cup {peers}],
           SameList(h)'
    PROVE  /\ SameList(h)
           /\ used'[h] = {peers}
           /\ used[h] = {} \/ used[h] = {peers}
<1>1. used'[h] = used[h] \cup {peers}
  BY DEF TypeOK
<1>2. \A l \in used'[h] : l = peers
  BY <1>1 DEF SameList
<1>3. used'[h] = {peers}
  BY <1>1, <1>2
<1>4. used[h] \subseteq {peers}
  BY <1>1, <1>3
<1>. QED
  BY <1>3, <1>4 DEF SameList

\* One participant more is counted.
LEMMA HandlerCounts ==
    ASSUME CheckInv, TypeOK', NEW h \in Handlers, CountPeers(h)
    PROVE  HandlerInv(h)'
<1>. DEFINE P == Participants(h)
            n == next[h]
            last == n = Len(P)
<1>1. TypeOK /\ HandlerInv(h) /\ at[h] = "count"
  BY DEF CheckInv, CountPeers, Loaded
<1>2. /\ n \in 1 .. Len(P) /\ expected[h] < n /\ Asked(h) = {} /\ P \in Seq(Keys)
      /\ expected[h] \in Nat /\ n \in Nat /\ Len(P) \in Nat
  BY <1>1, ParticipantsType DEF HandlerInv, TypeOK
<1>3. /\ used' = [used EXCEPT ![h] = @ \cup {peers}]
      /\ UNCHANGED <<call, msg>>
      /\ next'[h] = (IF last THEN 1 ELSE n + 1)
  BY <1>1 DEF CountPeers, Loaded, TypeOK
<1>4. Asked(h)' = {}
  BY <1>2, <1>3 DEF Asked, In
<1>5. P' = P /\ \A list, k : Managed(h, list, k)' = Managed(h, list, k)
  BY <1>3 DEF Participants, Managed, Known
<1>6. expected'[h] = expected[h] + (IF Known(peers, P[n]) THEN 1 ELSE 0)
  BY CountOutcome
<1>7. used'[h] # {}
  BY <1>1, <1>3 DEF TypeOK
<1>8. ASSUME SameList(h)'
      PROVE  used'[h] = {peers} /\ expected'[h] = Cardinality(Managed(h, peers, n))
  <2>1. SameList(h) /\ used'[h] = {peers} /\ (used[h] = {} \/ used[h] = {peers})
    BY <1>1, <1>3, <1>8, SameListGrows
  <2>2. expected[h] = Cardinality(Managed(h, peers, n - 1))
    <3>1. CASE used[h] = {}
      <4>1. n = 1 /\ expected[h] = 0
        BY <1>1, <1>2, <3>1 DEF HandlerInv
      <4>. QED
        BY <4>1, ManagedNone
    <3>2. CASE used[h] = {peers}
      BY <1>1, <2>1, <3>2 DEF HandlerInv
    <3>. QED
      BY <2>1, <3>1, <3>2
  <2>3. CASE Known(peers, P[n])
    BY <1>1, <1>2, <1>6, <2>1, <2>2, <2>3, ManagedNext
  <2>4. CASE ~Known(peers, P[n])
    BY <1>1, <1>2, <1>6, <2>1, <2>2, <2>4, ManagedNext
  <2>. QED
    BY <2>3, <2>4
<1>9. CASE ~last
  <2>1. at'[h] = "count"
    BY <1>1, <1>9, CountOutcome
  <2>2. next'[h] = n + 1 /\ n + 1 \in 1 .. Len(P) /\ next'[h] - 1 = n
    BY <1>2, <1>3, <1>9
  <2>3. expected'[h] < next'[h]
    BY <1>2, <1>6, <2>2
  <2>4. SameList(h)' => \A list \in used'[h] :
          expected'[h] = Cardinality(Managed(h, list, next[h] - 1)')
    BY <1>5, <1>8, <2>2
  <2>. QED
    BY <1>4, <1>5, <1>7, <2>1, <2>2, <2>3, <2>4 DEF HandlerInv
<1>10. CASE last /\ expected'[h] = 0
  <2>1. at'[h] = "done" /\ verdict'[h] = FALSE
    BY <1>1, <1>10, CountOutcome DEF Return, Move, TypeOK
  <2>. QED
    BY <1>4, <2>1 DEF HandlerInv
<1>11. CASE last /\ expected'[h] > 0
  <2>1. expected'[h] # 0
    BY <1>11
  <2>2. at' = [at EXCEPT ![h] = "spawn"]
    BY <1>11, <2>1, CountOutcome DEF Move
  <2>3. at'[h] = "spawn"
    BY <1>1, <2>2 DEF TypeOK
  <2>4. next'[h] = 1 /\ 1 \in 1 .. Len(P)
    BY <1>2, <1>3, <1>11
  <2>5. Started(h, 0)'
    BY <1>4, <1>5, <1>7, <1>8, <1>11, ManagedNone DEF Started
  <2>. QED
    BY <1>4, <1>5, <2>3, <2>4, <2>5 DEF HandlerInv
<1>. QED
  BY <1>2, <1>6, <1>9, <1>10, <1>11

\* The caller of one participant more is started.
LEMMA HandlerSpawns ==
    ASSUME CheckInv, TypeOK', NEW h \in Handlers, SpawnCall(h)
    PROVE  HandlerInv(h)'
<1>. DEFINE P == Participants(h)
            n == next[h]
<1>1. TypeOK /\ HandlerInv(h) /\ at[h] = "spawn"
  BY DEF CheckInv, SpawnCall, Loaded
<1>2. /\ n \in 1 .. Len(P) /\ n \in Slots /\ call[h][n] = "none"
      /\ n \in Nat /\ Len(P) \in Nat
  BY <1>1, SpawnOutcome, ParticipantsType
<1>3. Asked(h) \subseteq 1 .. n - 1 /\ Started(h, n - 1)
  BY <1>1 DEF HandlerInv
<1>4. /\ used' = [used EXCEPT ![h] = @ \cup {peers}]
      /\ UNCHANGED <<expected, msg>>
      /\ next'[h] = n + 1
      /\ at'[h] = (IF n = Len(P) THEN "wait" ELSE "spawn")
  BY <1>1 DEF SpawnCall, Loaded, Move, TypeOK
<1>5. P' = P /\ \A list, k : Managed(h, list, k)' = Managed(h, list, k)
  BY <1>4 DEF Participants, Managed, Known
<1>6. \/ Known(peers, P[n]) /\ Asked(h)' = Asked(h) \cup {n}
      \/ ~Known(peers, P[n]) /\ Asked(h)' = Asked(h)
  <2>1. CASE Known(peers, P[n])
    <3>1. call' = [call EXCEPT ![h][n] = "calling"]
      BY <2>1, SpawnOutcome
    <3>2. ASSUME NEW k \in Slots, call' = [call EXCEPT ![h][k] = "calling"]
          PROVE  Asked(h)' = Asked(h) \cup {k}
      BY <1>1, <3>2 DEF Asked, In, TypeOK
    <3>. QED
      BY <1>2, <2>1, <3>1, <3>2
  <2>2. CASE ~Known(peers, P[n])
    <3>1. call' = call
      BY <2>2, SpawnOutcome
    <3>. QED
      BY <2>2, <3>1 DEF Asked, In
  <2>. QED
    BY <2>1, <2>2
<1>7. Asked(h)' \subseteq 1 .. n
  BY <1>2, <1>3, <1>6
<1>8. /\ used'[h] # {}
      /\ SameList(h)' => \A list \in used'[h] :
           /\ Asked(h)' = Managed(h, list, n)
           /\ expected'[h] = Cardinality(Managed(h, list, Len(P)))
  <2>1. used'[h] # {}
    BY <1>1, <1>4 DEF TypeOK
  <2>2. ASSUME SameList(h)'
        PROVE  /\ used'[h] = {peers}
               /\ Asked(h)' = Managed(h, peers, n)
               /\ expected'[h] = Cardinality(Managed(h, peers, Len(P)))
    <3>1. SameList(h) /\ used'[h] = {peers} /\ (used[h] = {} \/ used[h] = {peers})
      BY <1>1, <1>4, <2>2, SameListGrows
    <3>2. /\ Asked(h) = Managed(h, peers, n - 1)
          /\ expected[h] = Cardinality(Managed(h, peers, Len(P)))
      BY <1>3, <3>1 DEF Started
    <3>3. Asked(h)' = Managed(h, peers, n)
      <4>1. CASE Known(peers, P[n])
        <5>1. Managed(h, peers, n) = Managed(h, peers, n - 1) \cup {n}
          BY <1>1, <1>2, <4>1, ManagedNext
        <5>. QED
          BY <1>6, <3>2, <4>1, <5>1
      <4>2. CASE ~Known(peers, P[n])
        <5>1. Managed(h, peers, n) = Managed(h, peers, n - 1)
          BY <1>1, <1>2, <4>2, ManagedNext
        <5>. QED
          BY <1>6, <3>2, <4>2, <5>1
      <4>. QED
        BY <4>1, <4>2
    <3>. QED
      BY <1>4, <3>1, <3>2, <3>3
  <2>. QED
    BY <2>1, <2>2
<1>9. CASE n = Len(P)
  <2>1. at'[h] = "wait"
    BY <1>4, <1>9
  <2>2. Started(h, Len(Participants(h)))'
    BY <1>5, <1>8, <1>9 DEF Started
  <2>. QED
    BY <2>1, <2>2 DEF HandlerInv
<1>10. CASE n # Len(P)
  <2>1. at'[h] = "spawn" /\ n + 1 \in 1 .. Len(P) /\ next'[h] - 1 = n
    BY <1>2, <1>4, <1>10
  <2>2. Started(h, next[h] - 1)'
    BY <1>5, <1>8, <2>1 DEF Started
  <2>. QED
    BY <1>4, <1>5, <1>7, <2>1, <2>2 DEF HandlerInv
<1>. QED
  BY <1>9, <1>10

\* Answers are sent and collected: who was asked stays the same.
LEMMA HandlerHears ==
    ASSUME CheckInv, TypeOK', NEW h \in Handlers,
           Collect(h) \/ \E i \in Slots : SendResult(h, i)
    PROVE  HandlerInv(h)'
<1>1. TypeOK /\ HandlerInv(h)
  BY DEF CheckInv
<1>2. UNCHANGED <<at, next, expected, used, msg, verdict>>
  BY DEF Collect, SendResult
<1>3. PICK i \in Slots, s \in {"queued", "received"} :
        call[h][i] # "none" /\ call' = [call EXCEPT ![h][i] = s]
  BY DEF Collect, SendResult, In
<1>4. Asked(h)' = Asked(h) /\ i \in Asked(h)
  BY <1>1, <1>3 DEF Asked, In, TypeOK
<1>5. at[h] \in {"spawn", "wait"}
  <2>1. at[h] # "done"
    <3>1. CASE Collect(h)
      BY <3>1 DEF Collect
    <3>2. ASSUME NEW k \in Slots, SendResult(h, k), at[h] = "done" PROVE FALSE
      <4>1. k \in Asked(h) /\ k \in In(h, "calling")
        BY <3>2 DEF SendResult, Asked, In
      <4>. QED
        BY <1>1, <3>2, <4>1 DEF HandlerInv, Finished
    <3>. QED
      BY <3>1, <3>2
  <2>. QED
    BY <1>1, <1>4, <2>1 DEF HandlerInv, TypeOK
<1>6. /\ Participants(h)' = Participants(h)
      /\ \A n : Started(h, n)' <=> Started(h, n)
  BY <1>2, <1>4, StartedFrame
<1>. QED
  BY <1>1, <1>2, <1>4, <1>5, <1>6 DEF HandlerInv

\* The check is over when everybody who was asked has been heard.
LEMMA HandlerDone ==
    ASSUME CheckInv, TypeOK', NEW h \in Handlers, CheckDone(h)
    PROVE  HandlerInv(h)'
<1>1. TypeOK /\ HandlerInv(h) /\ at[h] = "wait"
  BY DEF CheckInv, CheckDone
<1>2. UNCHANGED <<call, answer, expected, used, msg>>
  BY DEF CheckDone
<1>3. at'[h] = "done" /\ verdict'[h] = ValidatePeerPrivateTxStatus(h)
  BY <1>1 DEF CheckDone, Return, Move, TypeOK
<1>4. \A s : In(h, s)' = In(h, s)
  BY <1>2 DEF In
<1>5. Asked(h)' = Asked(h)
  BY <1>4 DEF Asked
<1>6. /\ Participants(h)' = Participants(h)
      /\ \A n : Started(h, n)' <=> Started(h, n)
  BY <1>2, <1>5, StartedFrame
<1>7. Started(h, Len(Participants(h)))'
  BY <1>1, <1>6 DEF HandlerInv
<1>8. Finished(h)'
  BY <1>2, <1>4 DEF Finished, CheckDone
<1>9. ValidatePeerPrivateTxStatus(h)' = ValidatePeerPrivateTxStatus(h)
  BY <1>2, <1>4 DEF ValidatePeerPrivateTxStatus, TxStatus
<1>. QED
  BY <1>3, <1>7, <1>8, <1>9 DEF HandlerInv

\* The handler is ready for the next request.
LEMMA HandlerLeaves ==
    ASSUME CheckInv, TypeOK', NEW h \in Handlers, Leave(h)
    PROVE  HandlerInv(h)'
<1>1. TypeOK
  BY DEF CheckInv
<1>2. /\ at'[h] = "idle" /\ next'[h] = 1 /\ expected'[h] = 0 /\ used'[h] = {}
      /\ \A i \in Slots : call'[h][i] = "none"
  BY <1>1 DEF Leave, Move, TypeOK
<1>3. Asked(h)' = {}
  BY <1>2 DEF Asked, In
<1>. QED
  BY <1>2, <1>3 DEF HandlerInv

\* Every step leaves the checks of the handlers in order.
LEMMA HandlerStep ==
    ASSUME CheckInv, TypeOK', [Next]_vars, NEW h \in Handlers
    PROVE  HandlerInv(h)'
<1>1. TypeOK /\ HandlerInv(h) /\ h \in Goroutines /\ h # Stopper
  BY DEF CheckInv
<1>2. CASE \E m \in Requests : HandlePrivateTx(h, m)
  BY <1>2, HandlerArrives
<1>3. CASE UNCHANGED Check(h) /\ ~\E m \in Requests : HandlePrivateTx(h, m)
  BY <1>1, <1>3, RequestStays, HandlerFrame
<1>4. CASE CountPeers(h) \/ SpawnCall(h)
  BY <1>4, HandlerCounts, HandlerSpawns
<1>5. CASE CheckDone(h) \/ Leave(h)
  BY <1>5, HandlerDone, HandlerLeaves
<1>6. CASE Collect(h) \/ \E i \in Slots : SendResult(h, i)
  BY <1>6, HandlerHears
<1>. QED
  BY <1>1, <1>2, <1>3, <1>4, <1>5, <1>6, CheckFrame

------------------------------------------------------------------------------
(* The check of StopClient *)

\* Every step leaves the check of StopClient in order.
LEMMA StopperStep ==
    ASSUME CheckInv, TypeOK', [Next]_vars
    PROVE  StopperInv'
<1>1. TypeOK /\ StopperInv /\ Stopper \in Goroutines
  BY DEF CheckInv
<1>. DEFINE c == Stopper
<1>2. CASE UNCHANGED Check(Stopper)
  <2>1. \A s : In(Stopper, s)' = In(Stopper, s)
    BY <1>2 DEF Check, In
  <2>2. Asked(Stopper)' = Asked(Stopper)
    BY <2>1 DEF Asked
  <2>3. (Finished(Stopper)' <=> Finished(Stopper)) /\ (NobodyAnnounced' <=> NobodyAnnounced)
    BY <1>2, <2>1 DEF Check, Finished, NobodyAnnounced
  <2>. QED
    BY <1>1, <1>2, <2>2, <2>3 DEF Check, StopperInv
<1>3. CASE ValidatePeers
  <2>1. at[Stopper] = "idle" /\ at'[Stopper] = "list" /\ UNCHANGED <<call, used>>
    BY <1>1, <1>3 DEF ValidatePeers, Move, TypeOK
  <2>2. Asked(Stopper)' = Asked(Stopper)
    BY <2>1 DEF Asked, In
  <2>. QED
    BY <1>1, <2>1, <2>2 DEF StopperInv
<1>4. CASE SpawnCalls
  <2>1. at[Stopper] = "list" /\ used[Stopper] = {} /\ peers \in Lists
    BY <1>1, <1>4 DEF SpawnCalls, Loaded, StopperInv, TypeOK
  <2>2. /\ used'[Stopper] = {peers}
        /\ expected'[Stopper] = Cardinality(Others(peers))
        /\ \A i \in Slots : call'[Stopper][i] =
                             (IF i \in Others(peers) THEN "calling" ELSE "none")
    BY <1>1, <1>4, <2>1 DEF SpawnCalls, Loaded, TypeOK
  <2>3. Asked(Stopper)' = Others(peers)
    BY <2>1, <2>2, OthersType DEF Asked, In
  <2>4. CASE Others(peers) # {}
    <3>1. at'[Stopper] = "wait"
      BY <1>1, <1>4, <2>4 DEF SpawnCalls, Move, TypeOK
    <3>. QED
      BY <2>1, <2>2, <2>3, <3>1 DEF StopperInv
  <2>5. CASE Others(peers) = {}
    <3>1. at'[Stopper] = "done" /\ verdict'[Stopper] = TRUE
      BY <1>1, <1>4, <2>5 DEF SpawnCalls, Return, Move, TypeOK
    <3>2. In(Stopper, "calling")' = {} /\ In(Stopper, "received")' = {}
      BY <2>2, <2>5 DEF In
    <3>3. Finished(Stopper)'
      BY <2>2, <2>5, <3>2 DEF Finished
    <3>4. NobodyAnnounced'
      BY <3>2 DEF NobodyAnnounced
    <3>. QED
      BY <2>1, <2>2, <2>3, <3>1, <3>3, <3>4 DEF StopperInv
  <2>. QED
    BY <2>4, <2>5
<1>5. CASE CheckDone(Stopper)
  <2>1. /\ at[Stopper] = "wait" /\ at'[Stopper] = "done"
        /\ verdict'[Stopper] = NobodyAnnounced
        /\ UNCHANGED <<call, answer, used, expected>>
    BY <1>1, <1>5 DEF CheckDone, Return, Move, TypeOK
  <2>2. \A s : In(Stopper, s)' = In(Stopper, s)
    BY <2>1 DEF In
  <2>3. Asked(Stopper)' = Asked(Stopper)
    BY <2>2 DEF Asked
  <2>4. Finished(Stopper)'
    BY <1>5, <2>1, <2>2 DEF CheckDone, Finished
  <2>5. NobodyAnnounced' = NobodyAnnounced
    BY <2>1, <2>2 DEF NobodyAnnounced
  <2>. QED
    BY <1>1, <2>1, <2>3, <2>4, <2>5 DEF StopperInv
<1>6. CASE Leave(Stopper)
  <2>1. /\ at'[Stopper] = "idle" /\ used'[Stopper] = {}
        /\ \A i \in Slots : call'[Stopper][i] = "none"
    BY <1>1, <1>6 DEF Leave, Move, TypeOK
  <2>2. Asked(Stopper)' = {}
    BY <2>1 DEF Asked, In
  <2>. QED
    BY <2>1, <2>2 DEF StopperInv
<1>7. CASE Collect(Stopper) \/ \E i \in Slots : SendResult(Stopper, i)
  <2>1. UNCHANGED <<at, expected, used, verdict>>
    BY <1>7 DEF Collect, SendResult
  <2>2. PICK i \in Slots, s \in {"queued", "received"} :
          call[Stopper][i] # "none" /\ call' = [call EXCEPT ![Stopper][i] = s]
    BY <1>7 DEF Collect, SendResult, In
  <2>3. Asked(Stopper)' = Asked(Stopper) /\ i \in Asked(Stopper)
    BY <1>1, <2>2 DEF Asked, In, TypeOK
  <2>4. at[Stopper] # "done"
    <3>1. CASE Collect(Stopper)
      BY <3>1 DEF Collect
    <3>2. ASSUME NEW k \in Slots, SendResult(Stopper, k), at[Stopper] = "done" PROVE FALSE
      <4>1. k \in In(Stopper, "calling")
        BY <3>2 DEF SendResult, In
      <4>. QED
        BY <1>1, <3>2, <4>1 DEF StopperInv, Finished
    <3>. QED
      BY <1>7, <3>1, <3>2
  <2>. QED
    BY <1>1, <2>1, <2>3, <2>4 DEF StopperInv
<1>. QED
  BY <1>1, <1>2, <1>3, <1>4, <1>5, <1>6, <1>7, CheckFrame

------------------------------------------------------------------------------
(* The theorems *)

\* The invariant holds when the hibernator starts.
LEMMA CheckInit == Init => CheckInv
<1>. SUFFICES ASSUME Init PROVE CheckInv
  OBVIOUS
<1>1. (CHOOSE m \in Requests : TRUE) \in Requests
  BY PeerManagerAssumption
<1>2. TypeOK
  BY <1>1 DEF Init, TypeOK
<1>3. \A g \in Goroutines : Asked(g) = {} /\ used[g] = {}
  BY DEF Init, Asked, In
<1>4. ReportInv
  BY FS_EmptySet DEF Init, ReportInv, PeerAnswers
<1>5. StopperInv
  BY <1>3 DEF Init, StopperInv
<1>6. \A h \in Handlers : HandlerInv(h)
  BY <1>3 DEF Init, HandlerInv
<1>. QED
  BY <1>2, <1>4, <1>5, <1>6 DEF CheckInv

\* What a check has counted, asked and heard at each of its steps, whichever
\* goroutines run and however often the peers file is edited in between.
THEOREM CheckInvariant == Spec => []CheckInv
<1>1. CheckInv /\ [Next]_vars => CheckInv'
  <2>. SUFFICES ASSUME CheckInv, [Next]_vars PROVE CheckInv'
    OBVIOUS
  <2>1. TypeOK'
    BY TypeStep
  <2>2. ReportInv' /\ StopperInv' /\ \A h \in Handlers : HandlerInv(h)'
    BY <2>1, ReportStep, StopperStep, HandlerStep
  <2>. QED
    BY <2>1, <2>2 DEF CheckInv
<1>. QED
  BY CheckInit, <1>1, PTL DEF Spec

\* The peer manager's variables have their types.
THEOREM PeersAlwaysTyped == Spec => []TypeOK
<1>1. CheckInv => TypeOK
  BY DEF CheckInv
<1>. QED
  BY <1>1, CheckInvariant, PTL

\* When a check is over that has looked at one version of the peers, every
\* caller it started has delivered and every result was counted, so no
\* goroutine is left behind.
THEOREM NothingEverLeft == Spec => []NothingLeft
<1>1. CheckInv => NothingLeft
  <2>. SUFFICES ASSUME CheckInv, NEW g \in Goroutines, at[g] = "done", OneVersion(g)
                PROVE  In(g, "calling") = {} /\ In(g, "queued") = {}
    BY DEF NothingLeft
  <2>1. TypeOK /\ ReportInv
    BY DEF CheckInv
  <2>2. /\ In(g, "received") \in SUBSET Asked(g)
        /\ In(g, "queued") \in SUBSET Asked(g)
        /\ In(g, "calling") \in SUBSET Asked(g)
        /\ Asked(g) \in SUBSET Slots
        /\ In(g, "queued") \cap In(g, "received") = {}
    BY DEF In, Asked
  <2>3. Asked(g) = {} \/ (Finished(g) /\ Cardinality(Asked(g)) = expected[g])
    <3>1. CASE g = Stopper
      BY <3>1 DEF CheckInv, StopperInv
    <3>2. CASE g \in Handlers
      <4>1. SameList(g)
        BY <2>1, OneVersionSameList DEF ReportInv
      <4>2. \/ Asked(g) = {}
            \/ Finished(g) /\ Started(g, Len(Participants(g)))
        BY <3>2 DEF CheckInv, HandlerInv
      <4>. QED
        BY <4>1, <4>2 DEF Started
    <3>. QED
      BY <3>1, <3>2
  <2>4. CASE Asked(g) = {}
    BY <2>2, <2>4
  <2>5. CASE Finished(g) /\ Cardinality(Asked(g)) = expected[g]
    <3>1. In(g, "received") = Asked(g)
      BY <2>2, <2>5, SameSize DEF Finished
    <3>. QED
      BY <2>2, <2>5, <3>1 DEF Finished
  <2>. QED
    BY <2>3, <2>4, <2>5
<1>. QED
  BY <1>1, CheckInvariant, PTL

\* StopClient goes on only when every other hibernator on the list it has read
\* was asked, was heard or could not be reached, and none announced a shutdown.
THEOREM StopsAlwaysChecked == Spec => []StopsChecked
<1>1. CheckInv => StopsChecked
  <2>. SUFFICES ASSUME CheckInv, at[Stopper] = "done", verdict[Stopper],
                       NEW list \in used[Stopper]
                PROVE  /\ In(Stopper, "received") = Others(list)
                       /\ \A i \in Slots : answer[Stopper][i] # "announced"
    BY DEF StopsChecked
  <2>1. TypeOK /\ ReportInv /\ StopperInv
    BY DEF CheckInv
  <2>2. /\ Asked(Stopper) = Others(list)
        /\ expected[Stopper] = Cardinality(Others(list))
        /\ Finished(Stopper) /\ NobodyAnnounced
    BY <2>1 DEF StopperInv
  <2>3. In(Stopper, "received") = Asked(Stopper)
    BY <2>2, SameSize DEF Asked, In, Finished
  <2>4. ASSUME NEW i \in Slots PROVE answer[Stopper][i] # "announced"
    <3>1. CASE i \in In(Stopper, "received")
      BY <2>2, <3>1 DEF NobodyAnnounced
    <3>2. CASE i \notin In(Stopper, "received")
      <4>1. call[Stopper][i] = "none"
        BY <2>3, <3>2 DEF Asked, In
      <4>. QED
        BY <2>1, <4>1 DEF ReportInv
    <3>. QED
      BY <3>1, <3>2
  <2>. QED
    BY <2>2, <2>3, <2>4
<1>. QED
  BY <1>1, CheckInvariant, PTL

\* A request for a private transaction does not get through the parser, or its
\* participants are found.
LEMMA ParticipantsFound ==
    ASSUME NEW m \in Requests, Private(m)
    PROVE  IsPrivateTx(m).err \/ IsPrivateTx(m).keys # << >>
<1>1. PICK k \in Keys, i \in WithField(m) :
        /\ \A j \in WithField(m) : i <= j
        /\ \E j \in DOMAIN m.params[i].keys : m.params[i].keys[j] = k
  BY DEF Private, Named
<1>2. WithField(m) # {} /\ containsPrivateTxKeyWords(m)
  BY <1>1 DEF containsPrivateTxKeyWords
<1>3. m.params[i].keys # << >>
  BY <1>1
<1>4. First(m) = i
  <2>1. First(m) \in WithField(m) /\ \A j \in WithField(m) : First(m) <= j
    BY <1>1 DEF First
  <2>2. \A j \in WithField(m) : j \in Int
    BY PeerManagerAssumption DEF WithField
  <2>. QED
    BY <1>1, <2>1, <2>2
<1>5. CASE m.batch \/ Panics(m)
  BY <1>2, <1>5 DEF IsPrivateTx, decodePvtTx
<1>6. CASE ~(m.batch \/ Panics(m))
  <2>1. Expected(m)
    BY <1>6 DEF Private, Expected
  <2>2. validatePrivateReq(m) = m.params[i].keys
    BY <1>2, <1>4, <2>1 DEF validatePrivateReq
  <2>. QED
    BY <1>2, <1>3, <1>6, <2>2 DEF IsPrivateTx, decodePvtTx
<1>. QED
  BY <1>5, <1>6

\* Whatever requests arrive, the verdict to let a private transaction go ahead
\* rests on the answers: a participant was ready, every one that is managed was
\* called and heard or failed to answer, and none said that it is not ready.
THEOREM GoesAheadAlwaysChecked == Spec => []GoesAheadChecked
<1>1. CheckInv => GoesAheadChecked
  <2>. SUFFICES ASSUME CheckInv, NEW h \in Handlers, at[h] = "done", verdict[h],
                       OneVersion(h), Private(msg[h])
                PROVE  /\ \E i \in Slots : answer[h][i] = "ready" /\ call[h][i] # "none"
                       /\ \A i \in DOMAIN Participants(h) : \A list \in used[h] :
                            Known(list, Participants(h)[i]) =>
                              answer[h][i] # "notReady" /\ call[h][i] = "received"
    BY DEF GoesAheadChecked
  <2>1. TypeOK /\ ReportInv /\ HandlerInv(h)
    BY DEF CheckInv
  <2>2. IsPrivateTx(msg[h]).err \/ Participants(h) # << >>
    BY <2>1, ParticipantsFound DEF TypeOK, Participants
  <2>3. /\ Started(h, Len(Participants(h))) /\ Finished(h)
        /\ ValidatePeerPrivateTxStatus(h)
    BY <2>1, <2>2 DEF HandlerInv
  <2>4. SameList(h)
    BY <2>1, OneVersionSameList DEF ReportInv
  <2>5. PICK a \in TxStatus(h) : "notReady" \notin TxStatus(h)
    BY <2>3 DEF ValidatePeerPrivateTxStatus
  <2>6. PICK i \in In(h, "received") : answer[h][i] = a /\ a # "failed"
    BY <2>5 DEF TxStatus
  <2>7. \A k \in In(h, "received") : answer[h][k] # "notReady"
    BY <2>5 DEF TxStatus
  <2>8. i \in Slots /\ call[h][i] = "received" /\ answer[h][i] \in PeerAnswers(h)
    BY <2>1, <2>6 DEF In, ReportInv
  <2>9. answer[h][i] = "ready"
    BY <2>6, <2>7, <2>8 DEF PeerAnswers
  <2>10. ASSUME NEW k \in DOMAIN Participants(h), NEW list \in used[h],
                Known(list, Participants(h)[k])
         PROVE  answer[h][k] # "notReady" /\ call[h][k] = "received"
    <3>1. k \in 1 .. Len(Participants(h))
      BY <2>1, ParticipantsType
    <3>2. k \in Managed(h, list, Len(Participants(h)))
      BY <2>10, <3>1 DEF Managed
    <3>3. /\ Asked(h) = Managed(h, list, Len(Participants(h)))
          /\ Cardinality(In(h, "received")) = Cardinality(Asked(h))
      BY <2>3, <2>4 DEF Started, Finished
    <3>4. In(h, "received") \in SUBSET Asked(h) /\ Asked(h) \in SUBSET Slots
      BY DEF Asked, In
    <3>5. In(h, "received") = Asked(h)
      BY <3>3, <3>4, SameSize
    <3>. QED
      BY <2>7, <3>2, <3>3, <3>5 DEF In
  <2>. QED
    BY <2>8, <2>9, <2>10
<1>. QED
  BY <1>1, CheckInvariant, PTL

==============================================================================
