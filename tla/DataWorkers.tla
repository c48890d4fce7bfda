----------------------------- MODULE DataWorkers ------------------------------
(***************************************************************************)
(* The three data workers of gateway_workers.c and the broker they talk to:*)
(*                                                                         *)
(*   source --measurement_queue--> storage --delivery_queue--> mqtt        *)
(*                                    ^------result_queue-------'          *)
(*                                                                         *)
(* One action per step of a worker's loop.  A step ends where the worker   *)
(* gives others a chance to act between two accesses of shared state.      *)
(***************************************************************************)
EXTENDS WorkerState

(***************************************************************************)
(* gateway_source_worker.  Sleeping is not a step: a worker that sleeps    *)
(* and comes back to the same place has changed nothing.                   *)
(***************************************************************************)
sourceOthers == <<store, socket_file, broker, status, delivery_queue,
                  result_queue, ctlQ, mqtt_command_queue, closed, dedup, sto,
                  mqttL, handL, coordL, bounds, confirmed, executed>>

\* Mutant of SourceLoop: collection_paused is not looked at.
SourceLoopUnpaused ==
    /\ pc["source"] = "top"
    /\ Goto("source", IF ShouldStop THEN "done" ELSE "next")
    /\ UNCHANGED <<sourceOthers, flags, measurement_queue, sample, produced,
                   late, faulted>>

\* The head of the loop: stop, or take a snapshot that says not paused.
SourceLoop ==
    /\ pc["source"] = "top"
    /\ \/ ShouldStop /\ Goto("source", "done")
       \/ ~ShouldStop /\ ~collection_paused /\ Goto("source", "next")
    /\ UNCHANGED <<sourceOthers, flags, measurement_queue, sample, produced,
                   late, faulted>>

\* measurement_source_next and collected_count.
SourceNext ==
    /\ pc["source"] = "next"
    /\ \/ /\ produced < MaxProduced
          /\ produced' = produced + 1
          /\ sample' = produced + 1
          /\ late' = IF collection_paused THEN late + 1 ELSE late
          /\ Goto("source", "push")
          /\ UNCHANGED <<flags, faulted>>
       \/ /\ Goto("source", "top")          \* MEASUREMENT_SOURCE_NO_DATA
          /\ UNCHANGED <<flags, produced, sample, late, faulted>>
       \/ /\ Fault("source")
          /\ WorkerFail("source", "done")
          /\ UNCHANGED <<produced, sample, late>>
    /\ UNCHANGED <<sourceOthers, measurement_queue>>

\* Mutant of SourcePush: the retry loop is not left on BQ_OK.
SourcePushAgain ==
    /\ pc["source"] = "push"
    /\ IF "measurement" \in closed
       THEN Goto("source", "done") ELSE Goto("source", "retry")
    /\ measurement_queue' =
           IF "measurement" \in closed \/ IsFull(measurement_queue, MeasurementCap)
           THEN measurement_queue ELSE Append(measurement_queue, sample)
    /\ UNCHANGED <<sourceOthers, flags, sample, produced, late, faulted>>

\* bq_push on measurement_queue; BQ_TIMEOUT leads to the stop check.
SourcePush ==
    /\ pc["source"] = "push"
    /\ \/ /\ "measurement" \in closed
          /\ Goto("source", "done")
          /\ UNCHANGED measurement_queue
       \/ /\ "measurement" \notin closed
          /\ ~IsFull(measurement_queue, MeasurementCap)
          /\ measurement_queue' = Append(measurement_queue, sample)
          /\ Goto("source", "top")
       \/ /\ "measurement" \notin closed
          /\ IsFull(measurement_queue, MeasurementCap)
          /\ Goto("source", "retry")
          /\ UNCHANGED measurement_queue
    /\ sample' = IF pc'["source"] = "retry" THEN sample ELSE 0
    /\ UNCHANGED <<sourceOthers, flags, produced, late, faulted>>

SourceRetry ==
    /\ pc["source"] = "retry"
    /\ Goto("source", IF ShouldStop THEN "done" ELSE "push")
    /\ UNCHANGED <<sourceOthers, flags, measurement_queue, sample, produced,
                   late, faulted>>

Source == SourceLoop \/ SourceNext \/ SourcePush \/ SourceRetry

(***************************************************************************)
(* gateway_storage_worker: the only thread that uses the store.  "backoff" *)
(* is now < retry_not_before_ms.                                           *)
(***************************************************************************)
storageOthers == <<socket_file, broker, signal, status, mqtt_command_queue,
                   closed, dedup, sample, mqttL, handL, coordL, bounds,
                   produced, confirmed, executed, late>>

StorageUp == pc["storage"] \notin {"unborn", "done"}

\* Mutants of LoopAgain: the loop ends on a stop, or as soon as the
\* measurements are drained, or never.
LoopUntilStop(s) == Goto("storage", IF ShouldStop THEN "done" ELSE "control")

LoopUntilDrained(s) ==
    Goto("storage", IF s.measurement_closed THEN "done" ELSE "control")

LoopForever(s) == Goto("storage", "control")

\* The end of an iteration: while (!measurement_closed || !result_closed).
LoopAgain(s) ==
    Goto("storage",
         IF s.measurement_closed /\ s.result_closed THEN "done" ELSE "control")

\* The worker gives up on an error of the store (or of the clock).
StorageFail(kind) ==
    /\ Fault(kind)
    /\ WorkerFail("storage", "done")

\* bq_pop on storage_control_request_queue, timeout 0.
StorageControl ==
    /\ pc["storage"] = "control"
    /\ \/ /\ ~IsEmpty(control_request_queue)
          /\ sto' = [sto EXCEPT !.request = Head(control_request_queue)]
          /\ control_request_queue' = Tail(control_request_queue)
          /\ Goto("storage", "serve")
       \/ /\ IsEmpty(control_request_queue)
          /\ Goto("storage", "result")
          /\ UNCHANGED <<sto, control_request_queue>>
    /\ UNCHANGED <<storageOthers, stop_requested, fatal_error, store, dataQ,
                   control_result_queue, faulted>>

\* Serve the request, then bq_push its result with timeout 0: a full queue
\* is fatal.  A failing store is reported to the requester.
StorageServe ==
    /\ pc["storage"] = "serve"
    /\ \E ok \in BOOLEAN :
          /\ IF ok THEN UNCHANGED faulted ELSE Fault("store")
          /\ saved_interval' = IF ok /\ sto.request.kind = "set_interval"
                               THEN sto.request.interval_ms
                               ELSE saved_interval
          /\ \/ /\ ~IsFull(control_result_queue, 1)
                /\ control_result_queue' =
                       Append(control_result_queue,
                              [kind |-> sto.request.kind, ok |-> ok,
                               interval_ms |-> sto.request.interval_ms])
                /\ Goto("storage", "result")
                /\ UNCHANGED <<stop_requested, fatal_error>>
             \/ /\ IsFull(control_result_queue, 1)
                /\ WorkerFail("storage", "done")
                /\ UNCHANGED control_result_queue
    /\ sto' = [sto EXCEPT !.request = NoCommand]
    /\ UNCHANGED <<storageOthers, rows, dataQ, control_request_queue>>

\* bq_pop on result_queue, timeout 0, and gateway_storage_apply_report.
StorageResult ==
    /\ pc["storage"] = "result"
    /\ \/ /\ ~IsEmpty(result_queue)
          /\ LET r == Head(result_queue)
             IN  /\ rows' = IF r.ok THEN MarkSent(rows, r.id) ELSE rows
                 /\ sto' = [sto EXCEPT !.inflight = FALSE, !.backoff = ~r.ok]
          /\ result_queue' = Tail(result_queue)
          /\ Goto("storage", "measure")
          /\ UNCHANGED <<stop_requested, fatal_error, faulted>>
       \/ /\ ~IsEmpty(result_queue)
          /\ StorageFail("store") \/ StorageFail("clock")
          /\ result_queue' = Tail(result_queue)
          /\ UNCHANGED <<rows, sto>>
       \/ /\ IsEmpty(result_queue)
          /\ "result" \in closed
          /\ sto' = [sto EXCEPT !.result_closed = TRUE, !.inflight = FALSE]
          /\ Goto("storage", "measure")
          /\ UNCHANGED <<rows, result_queue, stop_requested, fatal_error, faulted>>
       \/ /\ IsEmpty(result_queue)
          /\ "result" \notin closed
          /\ Goto("storage", "measure")
          /\ UNCHANGED <<rows, sto, result_queue, stop_requested, fatal_error,
                         faulted>>
    /\ UNCHANGED <<storageOthers, saved_interval, measurement_queue,
                   delivery_queue, ctlQ>>

\* bq_pop on measurement_queue and gateway_storage_save.
StorageMeasure ==
    /\ pc["storage"] = "measure"
    /\ \/ /\ ~sto.measurement_closed
          /\ ~IsEmpty(measurement_queue)
          /\ rows' = SaveMeasurement(rows, Head(measurement_queue))
          /\ measurement_queue' = Tail(measurement_queue)
          /\ Goto("storage", "schedule")
          /\ UNCHANGED <<sto, stop_requested, fatal_error, faulted>>
       \/ /\ ~sto.measurement_closed
          /\ ~IsEmpty(measurement_queue)
          /\ StorageFail("store")
          /\ measurement_queue' = Tail(measurement_queue)
          /\ UNCHANGED <<rows, sto>>
       \/ /\ sto.measurement_closed \/ IsEmpty(measurement_queue)
          /\ sto' = [sto EXCEPT !.measurement_closed =
                                    @ \/ "measurement" \in closed]
          /\ Goto("storage", "schedule")
          /\ UNCHANGED <<rows, measurement_queue, stop_requested, fatal_error,
                         faulted>>
    /\ UNCHANGED <<storageOthers, saved_interval, delivery_queue, result_queue,
                   ctlQ>>

\* The check before gateway_storage_schedule_delivery.
StorageSchedule ==
    /\ pc["storage"] = "schedule"
    /\ LET free == ~sto.inflight /\ ~ShouldStop
           due == free /\ ~sto.backoff
       IN  \/ /\ due /\ HasPending(rows)
              /\ Goto("storage", "enqueue")
              /\ UNCHANGED <<stop_requested, fatal_error, faulted>>
           \/ /\ ~(due /\ HasPending(rows))
              /\ LoopAgain(sto)
              /\ UNCHANGED <<stop_requested, fatal_error, faulted>>
           \/ free /\ StorageFail("clock")
           \/ due /\ StorageFail("store")
    /\ UNCHANGED <<storageOthers, store, dataQ, ctlQ, sto>>

\* Mutant of StorageEnqueue: delivery_inflight is not set.
StorageEnqueueForgets ==
    /\ pc["storage"] = "enqueue"
    /\ delivery_queue' = IF "delivery" \in closed THEN delivery_queue
                         ELSE Append(delivery_queue, EarliestPending(rows))
    /\ LoopAgain(sto)
    /\ UNCHANGED <<storageOthers, stop_requested, fatal_error, store, sto,
                   measurement_queue, result_queue, ctlQ, faulted>>

\* bq_push on delivery_queue with timeout 0.  The queue cannot be full here,
\* see AtMostOneInFlight; it can have been closed since the check.
StorageEnqueue ==
    /\ pc["storage"] = "enqueue"
    /\ \/ /\ "delivery" \notin closed
          /\ ~IsFull(delivery_queue, 1)
          /\ delivery_queue' = Append(delivery_queue, EarliestPending(rows))
          /\ sto' = [sto EXCEPT !.inflight = TRUE]
       \/ /\ "delivery" \in closed
          /\ UNCHANGED <<delivery_queue, sto>>
    /\ LoopAgain(sto)
    /\ UNCHANGED <<storageOthers, stop_requested, fatal_error, store,
                   measurement_queue, result_queue, ctlQ, faulted>>

\* Mutant of BackoffExpires: retry_not_before_ms is never reached.
BackoffStays == FALSE

\* GATEWAY_DELIVERY_RETRY_MS have passed on the monotonic clock.
BackoffExpires ==
    /\ StorageUp
    /\ sto.backoff
    /\ sto' = [sto EXCEPT !.backoff = FALSE]
    /\ UNCHANGED <<storageOthers, stop_requested, fatal_error, store, dataQ,
                   ctlQ, pc, faulted>>

Storage ==
    \/ StorageControl \/ StorageServe \/ StorageResult
    \/ StorageMeasure \/ StorageSchedule \/ StorageEnqueue

(***************************************************************************)
(* gateway_mqtt_worker and mqtt_publisher_publish_json.                    *)
(***************************************************************************)
mqttOthers == <<store, socket_file, status, measurement_queue, ctlQ,
                mqtt_command_queue, dedup, sample, sto, handL, coordL, bounds,
                produced, executed, late>>

\* Mutant of MqttPop: a closed queue counts as a failure.
MqttPopFails ==
    /\ pc["mqtt"] = "pop"
    /\ IF IsEmpty(delivery_queue)
       THEN /\ "delivery" \in closed
            /\ WorkerFail("mqtt", "close")
            /\ UNCHANGED <<job, delivery_queue>>
       ELSE /\ job' = Head(delivery_queue)
            /\ delivery_queue' = Tail(delivery_queue)
            /\ Goto("mqtt", "publish")
            /\ UNCHANGED flags
    /\ UNCHANGED <<mqttOthers, broker, result_queue, closed, puback, report,
                   confirmed, faulted>>

\* bq_pop on delivery_queue, no timeout.  A closed queue is drained first.
MqttPop ==
    /\ pc["mqtt"] = "pop"
    /\ \/ /\ ~IsEmpty(delivery_queue)
          /\ job' = Head(delivery_queue)
          /\ delivery_queue' = Tail(delivery_queue)
          /\ Goto("mqtt", "publish")
          /\ UNCHANGED <<flags, faulted>>
       \/ /\ ~IsEmpty(delivery_queue)       \* no payload can be built
          /\ Fault("payload")
          /\ WorkerFail("mqtt", "close")
          /\ delivery_queue' = Tail(delivery_queue)
          /\ UNCHANGED job
       \/ /\ IsEmpty(delivery_queue)
          /\ "delivery" \in closed
          /\ Goto("mqtt", "close")
          /\ UNCHANGED <<job, delivery_queue, flags, faulted>>
    /\ UNCHANGED <<mqttOthers, broker, result_queue, closed, puback, report,
                   confirmed>>

\* Not connected, or the message is handed to libmosquitto.
MqttPublish ==
    /\ pc["mqtt"] = "publish"
    /\ \/ /\ report' = [id |-> job, ok |-> FALSE]
          /\ Goto("mqtt", "report")
          /\ UNCHANGED <<net, puback>>
       \/ /\ net' = net \cup {job}
          /\ puback' = FALSE
          /\ Goto("mqtt", "wait")
          /\ UNCHANGED report
    /\ UNCHANGED <<mqttOthers, received, flags, delivery_queue, result_queue,
                   closed, job, confirmed, faulted>>

\* The PUBACK of this publish arrived; then the wall clock is read.
MqttAcknowledged ==
    /\ pc["mqtt"] = "wait"
    /\ puback
    /\ \/ /\ report' = [id |-> job, ok |-> TRUE]
          /\ confirmed' = confirmed \cup {job}
          /\ UNCHANGED faulted
       \/ /\ Fault("clock")
          /\ report' = [id |-> job, ok |-> FALSE]
          /\ UNCHANGED confirmed
    /\ Goto("mqtt", "report")
    /\ UNCHANGED <<mqttOthers, broker, flags, delivery_queue, result_queue,
                   closed, job, puback>>

\* Mutant of MqttGaveUp: the result of the publish is not looked at.
MqttGaveUpUnseen ==
    /\ pc["mqtt"] = "wait"
    /\ report' = [id |-> job, ok |-> TRUE]
    /\ Goto("mqtt", "report")
    /\ UNCHANGED <<mqttOthers, broker, flags, delivery_queue, result_queue,
                   closed, job, puback, confirmed, faulted>>

\* The wait ended by its deadline or by a disconnect.  A PUBACK that arrives
\* with the deadline does not count: ETIMEDOUT is looked at first.
MqttGaveUp ==
    /\ pc["mqtt"] = "wait"
    /\ report' = [id |-> job, ok |-> FALSE]
    /\ Goto("mqtt", "report")
    /\ UNCHANGED <<mqttOthers, broker, flags, delivery_queue, result_queue,
                   closed, job, puback, confirmed, faulted>>

\* bq_push on result_queue.  It never has to wait and the queue is not closed
\* before this worker closes it, see AtMostOneInFlight.
MqttReport ==
    /\ pc["mqtt"] = "report"
    /\ "result" \notin closed
    /\ ~IsFull(result_queue, 1)
    /\ result_queue' = Append(result_queue, report)
    /\ job' = 0 /\ puback' = FALSE /\ report' = NoReport
    /\ Goto("mqtt", "pop")
    /\ UNCHANGED <<mqttOthers, broker, flags, delivery_queue, closed,
                   confirmed, faulted>>

MqttClose ==
    /\ pc["mqtt"] = "close"
    /\ closed' = closed \cup {"result"}
    /\ Goto("mqtt", "done")
    /\ UNCHANGED <<mqttOthers, broker, flags, delivery_queue, result_queue,
                   mqttL, confirmed, faulted>>

Mqtt == MqttPop \/ MqttPublish \/ MqttAcknowledged \/ MqttGaveUp
        \/ MqttReport \/ MqttClose

\* The broker receives a message libmosquitto holds or the network still
\* carries, possibly once more.  If it is the message the worker waits for, the
\* PUBACK may reach on_publish; the PUBACK of an earlier try never does.
BrokerReceive(id) ==
    /\ id \in net
    /\ received' = received \cup {id}
    /\ net' \in {net, net \ {id}}
    /\ \/ UNCHANGED puback
       \/ pc["mqtt"] = "wait" /\ job = id /\ puback' = TRUE
    /\ UNCHANGED <<mqttOthers, flags, delivery_queue, result_queue, closed,
                   pc, job, report, confirmed, faulted>>
=============================================================================
