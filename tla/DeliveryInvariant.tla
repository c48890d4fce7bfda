-------------------------- MODULE DeliveryInvariant ---------------------------
(***************************************************************************)
(* The inductive invariant behind the delivery properties of               *)
(* GatewayWorkers: TypeOK and AtMostOneInFlight, where every record on its *)
(* way is, what starts and stops the mqtt worker, and what the local       *)
(* variables hold at each position.                                        *)
(***************************************************************************)
EXTENDS GatewayWorkers

\* Every row before id is sent.
AllEarlierSent(id) == \A earlier \in 1 .. id - 1 : IsSent(rows, earlier)

\* id is the row outbox_store_read_earliest_pending would return.
IsNext(id) == IsPending(rows, id) /\ AllEarlierSent(id)

\* Rows are marked sent in the order of their ids.
SentFirst ==
    \E n \in 0 .. Len(rows) : \A id \in DOMAIN rows : IsSent(rows, id) <=> id <= n

\* Whatever travels between the storage worker and the mqtt worker is the
\* earliest pending row; what libmosquitto holds or the broker has is that row
\* or an earlier one; a success is reported only for what the broker has.
RecordsOnTheWay ==
    /\ \A i \in DOMAIN delivery_queue : IsNext(delivery_queue[i])
    /\ \A i \in DOMAIN result_queue :
          /\ IsNext(result_queue[i].id)
          /\ result_queue[i].ok => result_queue[i].id \in received
    /\ MqttBusy => IsNext(job)
    /\ pc["mqtt"] = "wait" /\ puback => job \in received
    /\ pc["mqtt"] = "report" => report.id = job /\ (report.ok => job \in received)
    /\ \A id \in net \cup received : AllEarlierSent(id)

\* The mqtt worker starts before the storage worker and, once it has left its
\* loop, no record is queued for it any more and a stop is requested.
MqttLifeCycle ==
    /\ "delivery" \in closed \/ pc["coordinator"] = "shutdown" => stop_requested
    /\ pc["mqtt"] \in {"close", "done"} =>
          /\ stop_requested
          /\ delivery_queue = <<>>
          /\ pc["storage"] = "enqueue" => "delivery" \in closed
    /\ "result" \in closed =>
          \/ pc["mqtt"] = "done"
          \/ pc["mqtt"] = "unborn" /\ pc["coordinator"] \in {"shutdown", "exited"}
    /\ pc["coordinator"] = "shutdown" /\ step > 9 => pc["mqtt"] \in {"unborn", "done"}
    /\ pc["mqtt"] = "unborn" =>
          /\ pc["storage"] = "unborn"
          /\ delivery_queue = <<>>
    /\ pc["coordinator"] = "start" => (pc["mqtt"] = "unborn" <=> step <= 3)
    /\ pc["coordinator"] = "down" => pc["mqtt"] = "unborn"

\* Local variables at the positions that use them.
LocalsAtPositions ==
    /\ pc["storage"] = "serve" => sto.request \in Request
    /\ \A i \in DOMAIN control_result_queue :
          control_result_queue[i].kind = "set_interval" =>
              control_result_queue[i].interval_ms \in Intervals
    /\ pc["storage"] = "enqueue" => HasPending(rows)
    /\ \A t \in Handlers :
          pc[t] \in {"lock", "execute", "await", "answer"} => command[t] \in Command
    /\ pc["remote"] \in {"lock", "execute", "await", "answer"} =>
          request_id \in RequestIds
    /\ pc["coordinator"] = "start" => step <= Len(StartOrder)
    /\ pc["coordinator"] \in {"down", "run", "stop"} => step = 1

\* Stronger than AtMostOneInFlight: the flag is right at every position.
InFlightKnown ==
    /\ Travelling <= 1
    /\ Travelling = 1 => sto.inflight
    /\ pc["storage"] = "enqueue" => ~sto.inflight

\* The inductive invariant: types, the single record on its way and what is
\* known about it and about the rows, the life of the mqtt worker and the positions' locals.
DeliveryInv ==
    /\ TypeOK
    /\ InFlightKnown
    /\ RecordsOnTheWay
    /\ SentFirst
    /\ SentWasReceived
    /\ MqttLifeCycle
    /\ LocalsAtPositions
=============================================================================
