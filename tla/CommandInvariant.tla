--------------------------- MODULE CommandInvariant ---------------------------
(***************************************************************************)
(* The inductive invariant behind what GatewayWorkers promises about       *)
(* commands: who holds command_mutex, where the one request to the storage *)
(* worker is while no stop is requested, which interval the database holds *)
(* meanwhile, and which executions the dedup ring remembers.  It is        *)
(* inductive relative to DeliveryInv.                                      *)
(***************************************************************************)
EXTENDS DeliveryInvariant

\* A handler holds command_mutex exactly while it executes or awaits.
MutexHeld ==
    \A t \in Handlers : command_mutex = t <=> pc[t] \in {"execute", "await"}

\* A queue is closed only after a stop was requested.
ClosedByStop == closed # {} => stop_requested

Serving == pc["storage"] = "serve"

\* Nothing is on its way to the storage worker or back.
NoRequest ==
    control_request_queue = <<>> /\ control_result_queue = <<>> /\ ~Serving

\* The three places where the request of handler t can be.
RequestQueued(t) ==
    /\ control_request_queue = <<command[t]>>
    /\ control_result_queue = <<>> /\ ~Serving

RequestServed(t) ==
    /\ control_request_queue = <<>> /\ control_result_queue = <<>>
    /\ Serving /\ sto.request = command[t]

ResultQueued(t) ==
    /\ control_request_queue = <<>> /\ ~Serving
    /\ \E ok \in BOOLEAN :
          control_result_queue = <<[kind |-> command[t].kind, ok |-> ok,
                                    interval_ms |-> command[t].interval_ms]>>

\* Until a stop is requested, the only request or result on its way is that of
\* the handler that awaits it, wherever it is.
RequestIsOwn ==
    ~ShouldStop =>
        /\ Awaiting = {} => NoRequest
        /\ \A t \in Awaiting : RequestQueued(t) \/ RequestServed(t) \/ ResultQueued(t)

\* The results that say an interval was saved.
SavingResults ==
    {i \in DOMAIN control_result_queue :
        control_result_queue[i].kind = "set_interval" /\ control_result_queue[i].ok}

\* Until a stop is requested, the database holds the interval in use or the one
\* of a saved set_interval whose result is still in the queue.
SavedIsKnown ==
    /\ Running /\ ~ShouldStop =>
          /\ \A i \in SavingResults :
                saved_interval = control_result_queue[i].interval_ms
          /\ interval_ms = Reloaded \/ SavingResults # {}
    /\ pc["coordinator"] = "down" => control_result_queue = <<>>

\* The remote worker has counted a request as executed and not cached it yet.
Executing == pc["remote"] \in {"lock", "execute", "await", "answer"}

Cached == Len(executed) - (IF Executing THEN 1 ELSE 0)

\* How many requests were cached after the one in slot s, if the ring has been
\* filled that far.
Age(s) == dedup_next - 1 - s + (IF s < dedup_next THEN 0 ELSE DedupCap)

\* The slots hold the latest executions, the youngest just behind dedup_next.
RingRemembers ==
    /\ Executing => Len(executed) > 0 /\ request_id = executed[Len(executed)]
    /\ pc["remote"] # "done" =>
          \A s \in Slots :
              Age(s) < Cached =>
                  /\ dedup_entries[s].occupied
                  /\ dedup_entries[s].request_id = executed[Cached - Age(s)]

\* The threads that the coordinator has not created yet.
NotCreated ==
    \A n \in DOMAIN StartOrder :
        \/ pc["coordinator"] = "down"
        \/ pc["coordinator"] = "start" /\ step <= n
        => pc[StartOrder[n]] = "unborn"

\* The inductive invariant, relative to DeliveryInv.
CommandInv ==
    /\ MutexHeld
    /\ ClosedByStop
    /\ RequestIsOwn
    /\ AnswerIsOwn
    /\ SavedIsKnown
    /\ NotCreated
    /\ RingRemembers
    /\ DedupWindow
=============================================================================
