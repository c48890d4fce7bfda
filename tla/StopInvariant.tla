---------------------------- MODULE StopInvariant -----------------------------
(***************************************************************************)
(* The inductive invariant behind what GatewayWorkers promises about       *)
(* collected measurements and about a clean stop: the order in which       *)
(* measurements are collected, where each of them is until it is stored,   *)
(* where each confirmed publish is until it is recorded, which threads     *)
(* have ended at which step of the stop sequence, and what has to be true  *)
(* for the storage worker to leave its loop.  It is inductive relative to  *)
(* DeliveryInv.                                                            *)
(***************************************************************************)
EXTENDS DeliveryInvariant

Stored(m) == \E id \in Ids : rows[id].measurement = m

Queued(m) == \E i \in DOMAIN measurement_queue : measurement_queue[i] = m

\* The source worker has a measurement that it has not queued yet.
InHand == pc["source"] \in {"push", "retry"}

QueueInOrder ==
    \A i, j \in DOMAIN measurement_queue :
        i < j => measurement_queue[i] < measurement_queue[j]

RowsBeforeQueue ==
    \A id \in Ids : \A i \in DOMAIN measurement_queue :
        rows[id].measurement < measurement_queue[i]

AllCollected ==
    /\ \A id \in Ids : rows[id].measurement <= produced
    /\ \A i \in DOMAIN measurement_queue : measurement_queue[i] <= produced

InHandIsLast ==
    InHand =>
        /\ sample = produced
        /\ \A id \in Ids : rows[id].measurement < sample
        /\ \A i \in DOMAIN measurement_queue : measurement_queue[i] < sample

\* rows, then measurement_queue, then the measurement in hand: the order in
\* which they were collected.
CollectedInOrder ==
    StoredInOrder /\ QueueInOrder /\ RowsBeforeQueue /\ AllCollected /\ InHandIsLast

\* Until a worker fails, a measurement of this process is stored, queued or
\* the one the source worker has, or had when it saw the stop.
NothingDropped ==
    ~fatal_error /\ pc["coordinator"] # "down" =>
        \A m \in boot_base + 1 .. produced :
            \/ Stored(m) \/ Queued(m)
            \/ m = produced /\ (InHand \/ pc["source"] = "done")

\* Until a worker fails, a publish that returned OK is recorded or its report
\* is on its way to the storage worker.
NoReportLost ==
    ~fatal_error =>
        \A id \in confirmed :
            \/ IsSent(rows, id)
            \/ \E i \in DOMAIN result_queue :
                  result_queue[i].id = id /\ result_queue[i].ok
            \/ pc["mqtt"] = "report" /\ report.id = id /\ report.ok

\* The coordinator has gone past step n of the stop sequence.
Past(n) == pc["coordinator"] = "exited" \/ (pc["coordinator"] = "shutdown" /\ step > n)

Ended(t) == pc[t] \in {"unborn", "done"}

\* pthread_join returns only when its thread has: which threads have ended.
Joined ==
    /\ Past(3) => Ended("local")
    /\ Past(7) => Ended("remote")
    /\ Past(8) => Ended("source")
    /\ Past(9) => Ended("mqtt")
    /\ Past(11) => Ended("storage")

\* What the storage worker has seen closed is closed and stays empty; without
\* a failure it leaves its loop only when it has seen both queues closed.
StorageDrains ==
    /\ sto.measurement_closed => measurement_queue = <<>> /\ "measurement" \in closed
    /\ sto.result_closed => result_queue = <<>> /\ "result" \in closed
    /\ pc["storage"] = "done" =>
          fatal_error \/ (sto.measurement_closed /\ sto.result_closed)

\* The source worker is created once; result is 0 only after a start-up that
\* created the storage worker, and is 0 at the end only if no worker failed.
ResultEarned ==
    /\ \/ pc["coordinator"] = "down"
       \/ pc["coordinator"] = "start" /\ step <= 5
       => pc["source"] = "unborn"
    /\ pc["coordinator"] \in {"down", "start", "run"} => result = -1
    /\ pc["coordinator"] = "start" /\ step > 4 => pc["storage"] # "unborn"
    /\ pc["coordinator"] = "run" \/ result = 0 => pc["storage"] # "unborn"
    /\ Exited(0) => ~fatal_error

\* A pause lets a measurement through only if the source worker took its
\* snapshot before it.
PauseSeen ==
    collection_paused => late + (IF pc["source"] = "next" THEN 1 ELSE 0) <= 1

\* The inductive invariant, relative to DeliveryInv.
StopInv ==
    /\ CollectedInOrder
    /\ NothingDropped
    /\ NoReportLost
    /\ Joined
    /\ StorageDrains
    /\ ResultEarned
    /\ PauseSeen
=============================================================================
