-------------------------- MODULE NodeControlHistory --------------------------
(***************************************************************************)
(* NodeControl with a history variable that tells when its cached statuses  *)
(* can be relied on.  Process.Start and Process.Stop act on Process.status, *)
(* which status checks write without a lock: the variable `clean` records   *)
(* that since the last coherent state no upcheck gave a wrong answer, no     *)
(* process was started or died on its own, and no status check ran while    *)
(* processes were being started or stopped.  It constrains nothing: every   *)
(* behaviour of NodeControl is one of this module.                          *)
(***************************************************************************)
EXTENDS NodeControl

VARIABLE clean

historyVars == <<vars, clean>>

\* Nothing is in progress, and the cached statuses are those of the processes.
Coherent ==
    /\ mux = NoOne
    /\ \A g \in Goroutines : pc[g] # "fetch"
    /\ \A p \in Procs : status[p] = running[p]
    /\ IsClientUp => \A p \in Procs : running[p]

\* An upcheck of a running process fails, of CheckClientUpStatus or of a wait.
WrongAnswer ==
    \/ \E g \in Goroutines, p \in Procs :
         look[g][p] = "todo" /\ look'[g][p] = "down" /\ running[p]
    \/ \E p \in Procs :
         work[p] = "wait" /\ work'[p] = "read" /\ status'[p] # running[p]

\* running changes without a command of Process.Start or Process.Stop.
OutsideChange == running' # running /\ work' = work

\* A status check reads and writes the cached statuses while the holder of the
\* mutex is starting or stopping the processes.
Overlap ==
    \E g, h \in Goroutines :
        pc[g] = "fetch" /\ pc[h] \in {"startPm", "startBc", "stopProcs"}

Disturbed == WrongAnswer \/ OutsideChange \/ Overlap'

HistoryInit == Init /\ clean = Coherent

HistoryNext == Next /\ clean' = ((clean /\ ~Disturbed) \/ Coherent')

HistorySpec == HistoryInit /\ [][HistoryNext]_historyVars

------------------------------------------------------------------------------
(* Properties *)

\* A StopClient that reports success has left no process running, unless the
\* cached statuses it acted on were disturbed since they were last coherent: no
\* other history lets Process.Stop return early on a running process, whatever
\* commands failed before and whatever checks ran between the operations.
HibernatedMeansStopped ==
    clean =>
        \A g \in Goroutines :
            pc[g] \in {"stopCW", "stopSleep"} => \A p \in Procs : ~running[p]

\* A client reported Up by a node that is not busy answers, unless disturbed.
UpMeansRunning ==
    clean => (IsClientUp /\ ~IsNodeBusy => \A p \in Procs : running[p])

------------------------------------------------------------------------------
(* Their inductive strengthening: what holds while clean *)

Agrees(p) == status[p] = running[p]

\* Outside CheckClientUpStatus no answer of an upcheck is kept.
IdleInv ==
    \A g \in Goroutines, p \in Procs : pc[g] # "fetch" => look[g][p] = "todo"

\* Status checks in progress hold what is true.
LookInv ==
    \A g \in Goroutines, p \in Procs :
        /\ look[g][p] \in {"up", "isUp"} => running[p]
        /\ look[g][p] \in {"down", "isDown"} => ~running[p]
        /\ look[g][p] \in {"stored", "isUp", "isDown"} => Agrees(p)

\* A failed stop of a container clears the cache while the process runs on:
\* that is the one way for a cache to be wrong outside a stop, and the node
\* stays busy until a start has put it right.
CacheInv ==
    /\ ~IsNodeBusy => \A p \in Procs : Agrees(p)
    /\ \A p \in Procs :
         \/ status[p] => running[p]
         \/ \E g \in Goroutines : pc[g] = "stopProcs" /\ work[p] = "wait"

\* What the results of Process.Start and Process.Stop say of the process ...
Started(p) ==
    /\ work[p] \in {"read", "isUp", "isDown", "ok"} => Agrees(p)
    /\ work[p] \in {"isUp", "ok"} => running[p]
    /\ work[p] = "isDown" => ~running[p]

Stopped(p) ==
    /\ work[p] \in {"todo", "read", "isUp", "isDown", "ok"} => Agrees(p)
    /\ work[p] \in {"isDown", "ok"} => ~running[p]
    /\ work[p] = "isUp" => running[p]

\* ... in the phases of StartClient and StopClient.
ResultInv ==
    \A g \in Goroutines, p \in Procs :
        /\ pc[g] \in {"stopPeers", "startOk"} => Agrees(p)
        /\ pc[g] \in {"startPm", "startBc", "startDone"} => Started(p)
        /\ pc[g] \in {"stopProcs", "stopDone"} => Stopped(p)
        /\ pc[g] \in {"stopCW", "stopSleep"} => Agrees(p) /\ ~running[p]

\* The client is reported Up and is not only while it is being stopped, or
\* after a stop that failed.
ClientInv ==
    IsClientUp =>
        \/ \A p \in Procs : running[p]
        \/ /\ nodeStatus = "ShutdownInprogress"
           /\ \/ mux = NoOne
              \/ \E g \in Goroutines : pc[g] \in {"stopProcs", "stopDone"}

CleanInv == ~Overlap /\ LookInv /\ CacheInv /\ ResultInv /\ ClientInv

HistoryInv ==
    /\ clean \in BOOLEAN
    /\ StatusInv
    /\ IdleInv
    /\ clean => CleanInv

==============================================================================
