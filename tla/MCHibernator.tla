----------------------------- MODULE MCHibernator -----------------------------
(* Instances of Hibernator for TLC. *)
EXTENDS Hibernator

CONSTANTS nm, sm, tr, rt, h1

MCGoroutines == Handlers \cup {nm, sm, tr, rt}
MCCheckers == Handlers \cup {sm, tr}

AllKinds == {"http", "ws", "rpc", "isUp"}
Http == {"http"}
NoRequests == {}
NoDocker == {}

\* What a call returned is read by the tracker and the handlers alone, right
\* after it; the results of Process.Start and Stop are read while StartClient and
\* StopClient work on the processes. States that differ elsewhere behave alike.
ReadResults ==
    <<nodeStatus, clientStatus, mux, pc, look, running, status, hvars,
      [g \in Handlers \cup {Tracker} |->
         ret[g] /\ pc[g] = "idle" /\ at[g] \in {"check", "prepare", "connect"}],
      IF \E g \in Goroutines : pc[g] \in {"startPm", "startBc", "startDone",
                                          "stopProcs", "stopDone"}
      THEN work ELSE Todo>>

==============================================================================
