--------------------------- MODULE HibernatorProofs ---------------------------
(***************************************************************************)
(* Proofs about Hibernator: it only touches NodeControl's state through     *)
(* NodeControl's operations, so that what NodeControlProofs shows for every *)
(* caller holds for the hibernator at work; and its inactivity count.       *)
(***************************************************************************)
EXTENDS Hibernator, NodeControlProofs

\* A step of the hibernator is a step of NodeControl or leaves it alone.
LEMMA HStepRefines ==
    ASSUME HNext PROVE [Next]_vars
<1>. USE HibernatorAssumption
<1>1. CASE InsideNodeControl
  BY <1>1 DEF InsideNodeControl, Next
<1>2. CASE Monitor
  <2>1. NodeMonitor \in Goroutines
    OBVIOUS
  <2>2. CASE MonitorStop
    BY <2>1, <2>2 DEF MonitorStop, Next, Call
  <2>3. CASE MonitorStart
    BY <2>1, <2>3 DEF MonitorStart, Next, Call
  <2>4. CASE MonitorDone
    BY <2>4 DEF MonitorDone
  <2>. QED
    BY <1>2, <2>2, <2>3, <2>4 DEF Monitor
<1>3. CASE StatusTick
  <2>1. StatusMonitor \in Goroutines \cap Checkers
    OBVIOUS
  <2>2. (at[StatusMonitor] = "first") \in BOOLEAN
    OBVIOUS
  <2>. QED
    BY <1>3, <2>1, <2>2 DEF StatusTick, Next, Call
<1>4. CASE Track
  <2>1. Tracker \in Goroutines \cap Checkers
    OBVIOUS
  <2>2. CASE ProcessInactivity
    BY <2>1, <2>2 DEF ProcessInactivity, Next, Call
  <2>3. CASE TrackTick \/ TrackIncrement \/ RequestStop \/ StopCompleted
    BY <2>3 DEF TrackTick, TrackIncrement, RequestStop, StopCompleted
  <2>. QED
    BY <1>4, <2>2, <2>3 DEF Track
<1>5. CASE TrackReset \/ TimerFires \/ Resync \/ ResyncReset
  BY <1>5 DEF TrackReset, TimerFires, Resync, ResyncTick, ResyncStarted,
              ResyncReset
<1>6. ASSUME NEW h \in Handlers, Handle(h) PROVE [Next]_vars
  <2>1. h \in Goroutines
    OBVIOUS
  <2>2. AfterReset(h) => [Next]_vars
    BY <2>1 DEF AfterReset, Next, Call
  <2>3. CASE ResetInactivity(h) \/ ResetSync(h)
    BY <2>2, <2>3 DEF ResetInactivity, ResetSync
  <2>4. CASE Decide(h)
    BY <2>1, <2>4 DEF Decide, Next, Call
  <2>5. CASE Prepared(h) \/ Forward(h) \/ Connected(h) \/ Answer(h)
    BY <2>5 DEF Prepared, Forward, Connected, Answer
  <2>. QED
    BY <1>6, <2>3, <2>4, <2>5 DEF Handle
<1>7. ASSUME NEW h \in Handlers, Message(h) PROVE [Next]_vars
  BY <1>7 DEF Message
<1>8. ASSUME NEW h \in Handlers, NEW k \in Kinds, Arrive(h, k)
      PROVE  [Next]_vars
  <2>1. h \in Goroutines \cap Checkers
    OBVIOUS
  <2>. QED
    BY <1>8, <2>1 DEF Arrive, Next, Call
<1>. QED
  BY <1>1, <1>2, <1>3, <1>4, <1>5, <1>6, <1>7, <1>8 DEF HNext

\* The hibernator is one of the environments NodeControl is specified for.
THEOREM HibernatorUsesNodeControl == HSpec => UsesNodeControl
<1>1. HInit => Init
  BY DEF HInit
<1>2. [HNext]_allVars => [Next]_vars
  <2>1. CASE HNext
    BY <2>1, HStepRefines
  <2>2. CASE UNCHANGED allVars
    BY <2>2 DEF allVars
  <2>. QED
    BY <2>1, <2>2
<1>. QED
  BY <1>1, <1>2, PTL DEF HSpec, UsesNodeControl, Spec

\* In the hibernator at work the status that peers and proxies read tells the
\* operation in progress.
THEOREM HibernatorTellsPhase == HSpec => []StatusTellsPhase
BY HibernatorUsesNodeControl, StatusAlwaysTellsPhase, PTL DEF UsesNodeControl

\* The inactivity count never runs past the limit it is compared with.
THEOREM CountAlwaysInRange == HSpec => []CountInRange
<1>. DEFINE CInv == /\ count \in 0 .. InactivityTime
                    /\ at \in [Goroutines -> Places]
                    /\ at[Tracker] = "inc" => seen \in 0 .. InactivityTime - 1
<1>. USE HibernatorAssumption
<1>1. HInit => CInv
  BY DEF HInit, Places
<1>2. CInv /\ [HNext]_allVars => CInv'
  <2>. SUFFICES ASSUME CInv, [HNext]_allVars PROVE CInv'
    OBVIOUS
  <2>. USE DEF At, Here, Places
  <2>1. CASE UNCHANGED allVars
    BY <2>1 DEF allVars, hvars
  <2>2. CASE InsideNodeControl
    BY <2>2 DEF InsideNodeControl, hvars
  <2>3. CASE Monitor
    BY <2>3 DEF Monitor, MonitorStop, MonitorStart, MonitorDone
  <2>4. CASE StatusTick
    BY <2>4 DEF StatusTick
  <2>5. CASE Track
    <3>1. CASE TrackTick
      BY <3>1 DEF TrackTick
    <3>2. CASE TrackIncrement
      BY <3>2 DEF TrackIncrement
    <3>3. CASE ProcessInactivity
      <4>1. count' = 0 \/ count' = count
        BY <3>3 DEF ProcessInactivity
      <4>2. At(Tracker, "loop") \/ At(Tracker, "check")
        BY <3>3 DEF ProcessInactivity
      <4>. QED
        BY <4>1, <4>2
    <3>4. CASE RequestStop
      BY <3>4 DEF RequestStop
    <3>5. CASE StopCompleted
      BY <3>5 DEF StopCompleted
    <3>. QED
      BY <2>5, <3>1, <3>2, <3>3, <3>4, <3>5 DEF Track
  <2>6. CASE TrackReset \/ TimerFires \/ ResyncReset
    BY <2>6 DEF TrackReset, TimerFires, ResyncReset
  <2>7. CASE Resync
    BY <2>7 DEF Resync, ResyncTick, ResyncStarted
  <2>8. ASSUME NEW h \in Handlers, Handle(h) PROVE CInv'
    <3>1. CASE ResetInactivity(h) \/ ResetSync(h)
      BY <3>1 DEF ResetInactivity, ResetSync, AfterReset
    <3>2. CASE Decide(h) \/ Prepared(h)
      BY <3>2 DEF Decide, Prepared
    <3>3. CASE Forward(h) \/ Connected(h) \/ Answer(h)
      BY <3>3 DEF Forward, Connected, Answer
    <3>. QED
      BY <2>8, <3>1, <3>2, <3>3 DEF Handle
  <2>9. ASSUME NEW h \in Handlers, Message(h) PROVE CInv'
    BY <2>9 DEF Message
  <2>10. ASSUME NEW h \in Handlers, NEW k \in Kinds, Arrive(h, k) PROVE CInv'
    BY <2>10 DEF Arrive
  <2>. QED
    BY <2>1, <2>2, <2>3, <2>4, <2>5, <2>6, <2>7, <2>8, <2>9, <2>10 DEF HNext
<1>3. CInv => CountInRange
  BY DEF CountInRange
<1>. QED
  BY <1>1, <1>2, <1>3, PTL DEF HSpec

\* What a step may do to the channels, the counts and the timer.
LEMMA HStepEffects ==
    ASSUME HNext
    PROVE  /\ \/ UNCHANGED full
              \/ \E c \in Channels : full' = full \cup {c} \/ full' = full \ {c}
           /\ UNCHANGED seen \/ seen' = count \/ seen' = 0
           /\ UNCHANGED count \/ count' = 0 \/ count' = seen + 1
           /\ \/ UNCHANGED timer
              \/ timer' = [armed |-> FALSE, tick |-> TRUE]
              \/ timer' = [timer EXCEPT !.tick = FALSE]
              \/ timer' = [timer EXCEPT !.armed = TRUE]
           /\ \/ UNCHANGED kind
              \/ \E h \in Handlers, k \in Kinds : kind' = [kind EXCEPT ![h] = k]
<1>. USE DEF Send, Receive, Channels
<1>1. CASE InsideNodeControl
  BY <1>1 DEF InsideNodeControl, hvars
<1>2. CASE Monitor \/ StatusTick
  BY <1>2 DEF Monitor, MonitorStop, MonitorStart, MonitorDone, StatusTick
<1>3. CASE Track \/ TrackReset
  BY <1>3 DEF Track, TrackTick, TrackIncrement, ProcessInactivity, RequestStop,
              StopCompleted, TrackReset
<1>4. CASE TimerFires \/ Resync \/ ResyncReset
  BY <1>4 DEF TimerFires, Resync, ResyncTick, ResyncStarted, ResyncReset
<1>5. ASSUME NEW h \in Handlers, Handle(h) \/ Message(h)
      PROVE  /\ UNCHANGED <<seen, count, timer, kind>>
             /\ UNCHANGED full \/ \E c \in Channels : full' = full \cup {c}
  BY <1>5 DEF Handle, ResetInactivity, ResetSync, Decide, Prepared, Forward,
              Connected, Answer, Message
<1>6. ASSUME NEW h \in Handlers, NEW k \in Kinds, Arrive(h, k)
      PROVE  UNCHANGED <<seen, count, timer, full>> /\ kind' = [kind EXCEPT ![h] = k]
  BY <1>6 DEF Arrive
<1>. QED
  BY <1>1, <1>2, <1>3, <1>4, <1>5, <1>6 DEF HNext

\* A step takes one goroutine, at most, from one place to another.
LEMMA HStepMoves ==
    ASSUME HNext
    PROVE  UNCHANGED at \/ \E g \in Goroutines, place \in Places : At(g, place)
<1>. USE HibernatorAssumption DEF Places
<1>1. CASE InsideNodeControl
  BY <1>1 DEF InsideNodeControl, hvars
<1>2. CASE Monitor \/ StatusTick
  BY <1>2 DEF Monitor, MonitorStop, MonitorStart, MonitorDone, StatusTick
<1>3. CASE Track \/ TrackReset
  BY <1>3 DEF Track, TrackTick, TrackIncrement, ProcessInactivity, RequestStop,
              StopCompleted, TrackReset
<1>4. CASE TimerFires \/ Resync \/ ResyncReset
  BY <1>4 DEF TimerFires, Resync, ResyncTick, ResyncStarted, ResyncReset
<1>5. ASSUME NEW h \in Handlers, Handle(h) \/ Message(h)
      PROVE  \E place \in Places : At(h, place)
  BY <1>5 DEF Handle, ResetInactivity, ResetSync, AfterReset, Decide, Prepared,
              Forward, Connected, Answer, Message
<1>6. ASSUME NEW h \in Handlers, NEW k \in Kinds, Arrive(h, k)
      PROVE  \E place \in Places : At(h, place)
  BY <1>6 DEF Arrive
<1>. QED
  BY <1>1, <1>2, <1>3, <1>4, <1>5, <1>6 DEF HNext

\* The hibernator's own variables have their types.
THEOREM HibernatorAlwaysTyped == HSpec => []HTypeOK
<1>1. HInit => HTypeOK
  BY HibernatorAssumption DEF HInit, HTypeOK, Places
<1>2. HTypeOK /\ [HNext]_allVars => HTypeOK'
  <2>. SUFFICES ASSUME HTypeOK, [HNext]_allVars PROVE HTypeOK'
    OBVIOUS
  <2>1. CASE UNCHANGED allVars
    BY <2>1 DEF allVars, hvars, HTypeOK
  <2>2. CASE HNext
    <3>1. at' \in [Goroutines -> Places]
      BY <2>2, HStepMoves DEF HTypeOK, At
    <3>2. kind' \in [Handlers -> {"http", "ws", "rpc", "isUp"}]
      BY <2>2, HStepEffects, HibernatorAssumption DEF HTypeOK
    <3>3. full' \subseteq Channels
      BY <2>2, HStepEffects DEF HTypeOK
    <3>4. count' \in Nat /\ seen' \in Nat
      BY <2>2, HStepEffects DEF HTypeOK
    <3>5. timer' \in [armed : BOOLEAN, tick : BOOLEAN]
      <4>1. timer \in [armed : BOOLEAN, tick : BOOLEAN]
        BY DEF HTypeOK
      <4>2. \/ timer' = timer
            \/ timer' = [armed |-> FALSE, tick |-> TRUE]
            \/ timer' = [timer EXCEPT !.tick = FALSE]
            \/ timer' = [timer EXCEPT !.armed = TRUE]
        BY <2>2, HStepEffects
      <4>3. CASE timer' = [armed |-> FALSE, tick |-> TRUE]
        BY <4>3
      <4>4. CASE timer' = [timer EXCEPT !.tick = FALSE]
        BY <4>1, <4>4
      <4>5. CASE timer' = [timer EXCEPT !.armed = TRUE]
        BY <4>1, <4>5
      <4>. QED
        BY <4>1, <4>2, <4>3, <4>4, <4>5
    <3>. QED
      BY <3>1, <3>2, <3>3, <3>4, <3>5 DEF HTypeOK
  <2>. QED
    BY <2>1, <2>2
<1>. QED
  BY <1>1, <1>2, PTL DEF HSpec

\* Requests to start and stop the client, and their answers, are never lost or
\* doubled between the trackers and the start/stop monitor.
THEOREM AnswersAlwaysMatch == HSpec => []AnswersMatchRequests
<1>. DEFINE AInv == /\ at \in [Goroutines -> Places]
                    /\ full \subseteq Channels
                    /\ AnswersMatchRequests
<1>. USE HibernatorAssumption
     DEF AnswersMatchRequests, RequestState, ExactlyOne, Places, Channels
<1>1. HInit => AInv
  BY DEF HInit
<1>2. AInv /\ [HNext]_allVars => AInv'
  <2>. SUFFICES ASSUME AInv, [HNext]_allVars PROVE AInv'
    OBVIOUS
  <2>. USE DEF At, Here, Send, Receive
  <2>1. CASE UNCHANGED allVars
    BY <2>1 DEF allVars, hvars
  <2>2. CASE InsideNodeControl
    BY <2>2 DEF InsideNodeControl, hvars
  <2>3. CASE MonitorStop
    BY <2>3 DEF MonitorStop
  <2>4. CASE MonitorStart
    BY <2>4 DEF MonitorStart
  <2>5. CASE MonitorDone
    <3>1. CASE at[NodeMonitor] = "stop" /\ Send("stopClntComplete")
      BY <2>5, <3>1 DEF MonitorDone
    <3>2. CASE at[NodeMonitor] = "start" /\ Send("startClntComplete")
      BY <2>5, <3>2 DEF MonitorDone
    <3>. QED
      BY <2>5, <3>1, <3>2 DEF MonitorDone
  <2>6. CASE StatusTick
    BY <2>6 DEF StatusTick
  <2>7. CASE TrackTick \/ TrackIncrement \/ ProcessInactivity
    BY <2>7 DEF TrackTick, TrackIncrement, ProcessInactivity
  <2>8. CASE RequestStop
    <3>1. CASE Send("stopClnt") /\ At(Tracker, "wait")
      BY <2>8, <3>1 DEF RequestStop
    <3>2. CASE At(Tracker, "loop") /\ UNCHANGED full
      BY <2>8, <3>2 DEF RequestStop
    <3>. QED
      BY <2>8, <3>1, <3>2 DEF RequestStop
  <2>9. CASE StopCompleted
    BY <2>9 DEF StopCompleted
  <2>10. CASE TrackReset \/ TimerFires \/ ResyncReset
    BY <2>10 DEF TrackReset, TimerFires, ResyncReset
  <2>11. CASE ResyncTick
    BY <2>11 DEF ResyncTick
  <2>12. CASE ResyncStarted
    BY <2>12 DEF ResyncStarted
  <2>16. ASSUME NEW h \in Handlers, NEW place \in Places, At(h, place),
                \/ full' = full
                \/ \E c \in {"inactivityReset", "syncReset"} : full' = full \cup {c}
         PROVE  AInv'
    <3>1. /\ at' \in [Goroutines -> Places]
          /\ \A g \in {NodeMonitor, Tracker, ResyncTracker} : at'[g] = at[g]
      BY <2>16
    <3>2. /\ full' \subseteq Channels
          /\ \A c \in {"stopClnt", "stopClntComplete", "startClnt", "startClntComplete"} :
               c \in full' <=> c \in full
      BY <2>16
    <3>. QED
      BY <3>1, <3>2
  <2>13. ASSUME NEW h \in Handlers, Handle(h) PROVE AInv'
    <3>1. CASE ResetInactivity(h) \/ ResetSync(h)
      <4>1. \E c \in {"inactivityReset", "syncReset"} : full' = full \cup {c}
        BY <3>1 DEF ResetInactivity, ResetSync
      <4>2. \E place \in Places : At(h, place)
        BY <3>1 DEF ResetInactivity, ResetSync, AfterReset
      <4>. QED
        BY <2>16, <4>1, <4>2
    <3>2. CASE Decide(h) \/ Prepared(h) \/ Forward(h) \/ Connected(h) \/ Answer(h)
      <4>1. full' = full /\ \E place \in Places : At(h, place)
        BY <3>2 DEF Decide, Prepared, Forward, Connected, Answer
      <4>. QED
        BY <2>16, <4>1
    <3>. QED
      BY <2>13, <3>1, <3>2 DEF Handle
  <2>14. ASSUME NEW h \in Handlers, Message(h) PROVE AInv'
    <3>1. full' = full /\ \E place \in Places : At(h, place)
      BY <2>14 DEF Message
    <3>. QED
      BY <2>16, <3>1
  <2>15. ASSUME NEW h \in Handlers, NEW k \in Kinds, Arrive(h, k) PROVE AInv'
    <3>1. full' = full /\ \E place \in Places : At(h, place)
      BY <2>15 DEF Arrive
    <3>. QED
      BY <2>16, <3>1
  <2>. QED
    BY <2>1, <2>2, <2>3, <2>4, <2>5, <2>6, <2>7, <2>8, <2>9, <2>10, <2>11,
       <2>12, <2>13, <2>14, <2>15 DEF HNext, Monitor, Track, Resync
<1>3. AInv => AnswersMatchRequests
  OBVIOUS
<1>. QED
  BY <1>1, <1>2, <1>3, PTL DEF HSpec

==============================================================================
