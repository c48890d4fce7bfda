-------------------------- MODULE GatewayTypeProofs --------------------------
(***************************************************************************)
(* Facts about the queues and the rows, the frame of each component (what  *)
(* it leaves alone), and the proof that every step of GatewayWorkers       *)
(* preserves TypeOK, given DeliveryInv: the database, the flags and the    *)
(* data queues first, then the threads' positions, the counters, the       *)
(* control and command queues, the dedup ring and the handlers' locals.    *)
(* The second part proves the same of LocalsAtPositions (which thread a    *)
(* step moves, and what its locals hold where it arrives), of the life     *)
(* cycle of the mqtt worker and of the single record in flight.            *)
(***************************************************************************)
EXTENDS DeliveryInvariant, TLAPS

\* What bq_pop takes and leaves: the first element, and the others in order.
LEMMA PopFacts ==
    ASSUME NEW S, NEW q \in Seq(S), ~IsEmpty(q)
    PROVE  /\ Head(q) \in S /\ Head(q) = q[1] /\ 1 \in DOMAIN q
           /\ Tail(q) \in Seq(S)
           /\ Len(Tail(q)) = Len(q) - 1
           /\ \A i \in DOMAIN Tail(q) : i + 1 \in DOMAIN q /\ Tail(q)[i] = q[i + 1]
  BY DEF IsEmpty

\* What bq_push leaves: one element more, every element old or the new one.
LEMMA PushFacts ==
    ASSUME NEW S, NEW q \in Seq(S), NEW e \in S
    PROVE  /\ Append(q, e) \in Seq(S)
           /\ Len(Append(q, e)) = Len(q) + 1
           /\ \A i \in DOMAIN Append(q, e) :
                 Append(q, e)[i] = e \/ (i \in DOMAIN q /\ Append(q, e)[i] = q[i])
  OBVIOUS

\* bq_push adds one to the size.
LEMMA PushLength ==
    ASSUME NEW S, NEW q \in Seq(S), NEW e \in S
    PROVE  Append(q, e) \in Seq(S) /\ Len(Append(q, e)) = Len(q) + 1
  OBVIOUS

\* A queue is empty exactly when its size field is 0.
LEMMA EmptyByLength ==
    ASSUME NEW S, NEW q \in Seq(S)
    PROVE  Len(q) \in Nat /\ (Len(q) = 0 <=> q = <<>>)
  OBVIOUS

\* The elements of a queue belong to its element type.
LEMMA SeqElements ==
    ASSUME NEW S, NEW q \in Seq(S)
    PROVE  \A i \in DOMAIN q : q[i] \in S
  OBVIOUS

\* A queue of row ids stays one when rows are added.
LEMMA SeqMonotone ==
    ASSUME NEW S, NEW T, S \subseteq T, NEW q \in Seq(S)
    PROVE  q \in Seq(T)
  OBVIOUS

\* outbox_store_read_earliest_pending returns a pending row with no pending
\* row before it: the first one after those that are sent.
LEMMA EarliestPendingIsFirst ==
    ASSUME rows \in Seq(Row), HasPending(rows), SentFirst
    PROVE  /\ IsPending(rows, EarliestPending(rows))
           /\ \A other \in DOMAIN rows : IsPending(rows, other) => EarliestPending(rows) <= other
<1>1. PICK n \in 0 .. Len(rows) : \A id \in DOMAIN rows : IsSent(rows, id) <=> id <= n
  BY DEF SentFirst
<1>2. \A id \in DOMAIN rows : id \in Nat /\ (IsPending(rows, id) <=> ~(id <= n))
  <2>1. ASSUME NEW id \in DOMAIN rows
        PROVE  IsPending(rows, id) <=> ~IsSent(rows, id)
    <3>1. rows[id] \in Row
      OBVIOUS
    <3> QED
      BY <3>1 DEF IsPending, IsSent, Row
  <2> QED
    BY <1>1, <2>1
<1>3. \E id \in DOMAIN rows : IsPending(rows, id)
                           /\ \A other \in DOMAIN rows : IsPending(rows, other) => id <= other
  <2>1. n + 1 \in DOMAIN rows
    BY <1>2 DEF HasPending
  <2> QED
    BY <1>2, <2>1
<1> QED
  BY <1>3 DEF EarliestPending

\* outbox_store_mark_sent changes the state of one row and nothing else.
LEMMA MarkSentRows ==
    ASSUME NEW s \in Seq(Row), NEW id \in DOMAIN s
    PROVE  /\ MarkSent(s, id) \in Seq(Row)
           /\ DOMAIN MarkSent(s, id) = DOMAIN s
           /\ \A k \in DOMAIN s : MarkSent(s, id)[k] =
                 IF k = id THEN [measurement |-> s[k].measurement, state |-> "sent"] ELSE s[k]
<1> DEFINE row == [s[id] EXCEPT !.state = "sent"]
<1>1. s[id] \in Row
  OBVIOUS
<1>2. row = [measurement |-> s[id].measurement, state |-> "sent"] /\ row \in Row
  BY <1>1 DEF Row
<1>3. MarkSent(s, id) = [s EXCEPT ![id] = row]
  BY DEF MarkSent
<1> HIDE DEF row
<1> QED
  BY <1>2, <1>3

\* outbox_store_save_measurement adds one pending row and keeps the others.
LEMMA SaveMeasurementRows ==
    ASSUME NEW s \in Seq(Row), NEW m \in Nat
    PROVE  /\ SaveMeasurement(s, m) \in Seq(Row)
           /\ DOMAIN SaveMeasurement(s, m) = DOMAIN s \cup {Len(s) + 1}
           /\ Len(s) + 1 \notin DOMAIN s
           /\ \A k \in DOMAIN s : SaveMeasurement(s, m)[k] = s[k]
           /\ SaveMeasurement(s, m)[Len(s) + 1] = [measurement |-> m, state |-> "pending"]
  BY DEF SaveMeasurement, Row

\* The order of closes and joins in gateway_workers_run: result_queue is closed
\* only after the mqtt worker was joined.
LEMMA StopOrderFacts ==
    /\ Len(StopOrder) = 12
    /\ \A i \in 1 .. 12 :
          /\ StopOrder[i].act = "close" => StopOrder[i].on \in Queues
          /\ StopOrder[i].act = "close" /\ StopOrder[i].on = "result" => i = 10
          /\ StopOrder[i].act = "destroy" => StopOrder[i].on = "receiver"
          /\ StopOrder[i].act \in {"close", "join", "destroy"}
    /\ StopOrder[9].act = "join" /\ StopOrder[9].on = "mqtt"
<1>1. Len(StopOrder) = 12
  BY Zenon DEF StopOrder
<1>2. ASSUME NEW i \in 1 .. 12
      PROVE  /\ StopOrder[i].act = "close" => StopOrder[i].on \in Queues
             /\ StopOrder[i].act = "close" /\ StopOrder[i].on = "result" => i = 10
             /\ StopOrder[i].act = "destroy" => StopOrder[i].on = "receiver"
             /\ StopOrder[i].act \in {"close", "join", "destroy"}
  <2>1. i \in {1, 2, 3, 4, 5, 6, 7, 8, 9, 10, 11, 12}
    OBVIOUS
  <2> QED
    BY <2>1 DEF StopOrder, Queues
<1>3. StopOrder[9].act = "join" /\ StopOrder[9].on = "mqtt"
  BY DEF StopOrder
<1> QED
  BY <1>1, <1>2, <1>3, Zenon

\* The order in which gateway_workers_run creates the threads, and their entries.
LEMMA StartOrderFacts ==
    /\ Len(StartOrder) = 6
    /\ StartOrder[1] = "remote" /\ StartOrder[2] = "receiver" /\ StartOrder[3] = "mqtt"
    /\ StartOrder[4] = "storage" /\ StartOrder[5] = "source" /\ StartOrder[6] = "local"
    /\ Entry["remote"] = "pop" /\ Entry["receiver"] = "up" /\ Entry["mqtt"] = "pop"
    /\ Entry["storage"] = "control" /\ Entry["source"] = "top" /\ Entry["local"] = "bind"
  BY DEF StartOrder, Entry

\* The source worker leaves the variables of every other component alone.
LEMMA SourceFrame == Source => UNCHANGED sourceOthers
  BY Zenon DEF Source, SourceLoop, SourceNext, SourcePush, SourceRetry

\* The storage worker leaves the variables of every other component alone.
LEMMA StorageFrame == Storage \/ BackoffExpires => UNCHANGED storageOthers
  BY Zenon DEF Storage, BackoffExpires, StorageControl, StorageServe, StorageResult,
         StorageMeasure, StorageSchedule, StorageEnqueue

\* The mqtt worker and the broker leave the database and the other workers alone.
LEMMA MqttFrame == Mqtt \/ (\E id \in net : BrokerReceive(id)) => UNCHANGED mqttOthers
  BY DEF Mqtt, BrokerReceive, MqttPop, MqttPublish, MqttAcknowledged, MqttGaveUp,
         MqttReport, MqttClose

\* The command workers and the receiver callback leave the data path alone: the
\* only way a command reaches the database is through the storage worker.
LEMMA CommandFrame ==
    ASSUME \/ \E t \in Handlers : Handler(t)
           \/ Local \/ Remote
           \/ \E m \in RemoteMessages : MqttCommandReceived(m)
    PROVE  UNCHANGED commandOthers
<1>1. CASE \E t \in Handlers : Handler(t)
  BY <1>1, Zenon DEF Handler, LockCommandMutex, ExecuteHere, AskStorage, TakeStorageAnswer,
         AbandonRequest
<1>2. CASE Local
  BY <1>2, Zenon DEF Local, LocalBind, LocalReceive, LocalLeave, LocalAnswer, localOthers
<1>3. CASE Remote \/ \E m \in RemoteMessages : MqttCommandReceived(m)
  BY <1>3, Zenon DEF Remote, RemotePop, RemoteAnswer, RemotePublish, MqttCommandReceived,
         remoteOthers
<1> QED
  BY <1>1, <1>2, <1>3, Zenon

\* Starting, stopping and joining the workers leaves the queued records, the
\* database and the broker alone.
LEMMA CoordinatorFrame ==
    StartProcess \/ Coordinator \/ SignalArrives => UNCHANGED coordOthers
  BY DEF StartProcess, Coordinator, SignalArrives, StartWorker, StopWaiting,
         RequestStop, ShutdownStep, ReturnResult

\* Every step keeps the types of the database, the socket file and the broker.
LEMMA StoreTypeStep ==
    ASSUME DeliveryInv, Next
    PROVE  StoreTypeOK'
<1> USE DEF Ids
<1>1. StoreTypeOK /\ DataTypeOK /\ LocalsAtPositions /\ CommandTypeOK /\ RecordsOnTheWay
  BY DEF DeliveryInv, TypeOK
<1>2. CASE StartProcess \/ Coordinator \/ SignalArrives
  <2>1. UNCHANGED <<rows, saved_interval, net, received>>
    BY <1>2, CoordinatorFrame DEF coordOthers, store, broker
  <2>2. socket_file' \in BOOLEAN
    BY <1>1, <1>2, Zenon DEF StoreTypeOK, StartProcess, Coordinator, SignalArrives, StartWorker,
         StopWaiting, RequestStop, ShutdownStep, ReturnResult
  <2> QED
    BY <1>1, <2>1, <2>2, Zenon DEF StoreTypeOK
<1>3. CASE Source
  BY <1>1, <1>3, SourceFrame, Zenon DEF sourceOthers, store, broker, StoreTypeOK
<1>4. CASE Storage \/ BackoffExpires
  <2>1. UNCHANGED <<socket_file, net, received>>
    BY <1>4, StorageFrame, Zenon DEF storageOthers, broker
  <2>2. CASE UNCHANGED rows
    <3>1. saved_interval' \in Intervals \cup {NoInterval}
      BY <1>1, <1>4, Zenon DEF StoreTypeOK, Storage, BackoffExpires, StorageControl, StorageServe,
           StorageResult, StorageMeasure, StorageSchedule, StorageEnqueue, store,
           LocalsAtPositions, Request, Command
    <3> QED
      BY <1>1, <2>1, <2>2, <3>1, Zenon DEF StoreTypeOK
  <2>3. CASE StorageResult /\ ~UNCHANGED rows
    <3> DEFINE r == Head(result_queue)
    <3>1. ~IsEmpty(result_queue) /\ rows' = MarkSent(rows, r.id) /\ UNCHANGED saved_interval
      BY <2>3 DEF StorageResult
    <3>2. r \in [id : Ids, ok : BOOLEAN]
      BY <1>1, <3>1, PopFacts, Zenon DEF DataTypeOK
    <3> HIDE DEF r
    <3> QED
      BY <1>1, <2>1, <3>1, <3>2, MarkSentRows, Zenon DEF StoreTypeOK
  <2>4. CASE StorageMeasure /\ ~UNCHANGED rows
    <3>1. /\ ~IsEmpty(measurement_queue)
          /\ rows' = SaveMeasurement(rows, Head(measurement_queue))
          /\ UNCHANGED saved_interval
      BY <2>4, Zenon DEF StorageMeasure
    <3>2. Head(measurement_queue) \in Nat
      BY <1>1, <3>1, PopFacts, Zenon DEF DataTypeOK
    <3> QED
      BY <1>1, <2>1, <3>1, <3>2, SaveMeasurementRows, Zenon DEF StoreTypeOK
  <2> QED
    BY <1>4, <2>2, <2>3, <2>4, Zenon DEF Storage, BackoffExpires, StorageControl, StorageServe,
         StorageSchedule, StorageEnqueue, store
<1>5. CASE Mqtt \/ \E id \in net : BrokerReceive(id)
  <2>1. UNCHANGED <<rows, saved_interval, socket_file>>
    BY <1>5, MqttFrame, Zenon DEF mqttOthers, store
  <2>2. net' \subseteq Ids /\ received' \subseteq Ids
    <3>1. \/ UNCHANGED broker
          \/ UNCHANGED received /\ pc["mqtt"] = "publish" /\ net' = net \cup {job}
          \/ \E id \in net : received' = received \cup {id} /\ net' \subseteq net
      BY <1>5, Zenon DEF Mqtt, BrokerReceive, MqttPop, MqttPublish, MqttAcknowledged, MqttGaveUp,
           MqttReport, MqttClose, broker
    <3>2. pc["mqtt"] = "publish" => job \in Ids
      BY <1>1, Zenon DEF RecordsOnTheWay, MqttBusy, IsNext, IsPending
    <3>3. net \subseteq Ids /\ received \subseteq Ids
      BY <1>1, Zenon DEF StoreTypeOK
    <3> QED
      BY <3>1, <3>2, <3>3, Zenon DEF broker
  <2> QED
    BY <1>1, <2>1, <2>2, Zenon DEF StoreTypeOK
<1>6. CASE \/ \E t \in Handlers : Handler(t)
           \/ Local \/ Remote
           \/ \E m \in RemoteMessages : MqttCommandReceived(m)
  <2>1. UNCHANGED <<rows, saved_interval, net, received>>
    BY <1>6, CommandFrame, Zenon DEF commandOthers, store, broker
  <2>2. socket_file' \in BOOLEAN
    BY <1>1, <1>6, Zenon DEF StoreTypeOK, Handler, LockCommandMutex, ExecuteHere, AskStorage,
         TakeStorageAnswer, AbandonRequest, Local, LocalBind, LocalReceive, LocalLeave,
         LocalAnswer, Remote, RemotePop, RemoteAnswer, RemotePublish, MqttCommandReceived,
         remoteOthers
  <2> QED
    BY <1>1, <2>1, <2>2 DEF StoreTypeOK
<1>7. CASE Crash \/ Reap \/ Finished
  BY <1>1, <1>7, Zenon DEF StoreTypeOK, Crash, Reap, Finished, ProcessEnds, vars, store, broker
<1> QED
  BY <1>2, <1>3, <1>4, <1>5, <1>6, <1>7, Zenon DEF Next

\* Every step keeps the types of the flags, the closed queues and the mutex.
LEMMA FlagsTypeStep ==
    ASSUME DeliveryInv, Next
    PROVE  FlagsTypeOK'
<1> USE DEF Handlers
<1>1. FlagsTypeOK /\ StoreTypeOK /\ CommandTypeOK /\ CountersOK
  BY Zenon DEF DeliveryInv, TypeOK
<1>2. CASE StartProcess
  BY <1>1, <1>2, ConstantsAssumption, Zenon DEF StartProcess, FlagsTypeOK, StoreTypeOK, coordOthers,
       flags, handL
<1>3. CASE Coordinator
  <2>1. UNCHANGED <<collection_paused, command_mutex>>
    BY <1>3, CoordinatorFrame, Zenon DEF coordOthers, handL
  <2>2. UNCHANGED <<signal, interval_ms>>
    BY <1>3, Zenon DEF Coordinator, StartWorker, StopWaiting, RequestStop, ShutdownStep,
         ReturnResult, flags
  <2>3. stop_requested' \in BOOLEAN /\ fatal_error' \in BOOLEAN
    BY <1>1, <1>3, Zenon DEF Coordinator, StartWorker, StopWaiting, RequestStop, ShutdownStep,
         ReturnResult, flags, FlagsTypeOK
  <2>4. closed' \subseteq Queues
    <3>1. CASE ShutdownStep
      BY <1>1, <3>1, StopOrderFacts DEF ShutdownStep, FlagsTypeOK, CountersOK
    <3> QED
      BY <1>1, <1>3, <3>1, Zenon DEF Coordinator, StartWorker, StopWaiting, RequestStop,
           ReturnResult, FlagsTypeOK
  <2> QED
    BY <1>1, <2>1, <2>2, <2>3, <2>4, Zenon DEF FlagsTypeOK
<1>4. CASE SignalArrives
  BY <1>1, <1>4, Zenon DEF SignalArrives, FlagsTypeOK, coordOthers, handL
<1>5. CASE Source
  BY <1>1, <1>5, SourceFrame, Zenon DEF sourceOthers, FlagsTypeOK, status, handL, Source, SourceLoop,
       SourceNext, SourcePush, SourceRetry, flags, WorkerFail
<1>6. CASE Storage \/ BackoffExpires
  <2>1. UNCHANGED <<signal, interval_ms, collection_paused, closed, command_mutex>>
    BY <1>6, StorageFrame, Zenon DEF storageOthers, status, handL
  <2>2. stop_requested' \in BOOLEAN /\ fatal_error' \in BOOLEAN
    BY <1>1, <1>6, Zenon DEF Storage, BackoffExpires, StorageControl, StorageServe, StorageResult,
         StorageMeasure, StorageSchedule, StorageEnqueue, StorageFail, WorkerFail, FlagsTypeOK
  <2> QED
    BY <1>1, <2>1, <2>2 DEF FlagsTypeOK
<1>7. CASE Mqtt \/ \E id \in net : BrokerReceive(id)
  <2>1. UNCHANGED <<interval_ms, collection_paused, command_mutex>>
    BY <1>7, MqttFrame, Zenon DEF mqttOthers, status, handL
  <2>2. /\ signal' \in BOOLEAN /\ stop_requested' \in BOOLEAN /\ fatal_error' \in BOOLEAN
        /\ closed' \subseteq Queues
    BY <1>1, <1>7, Zenon DEF Mqtt, BrokerReceive, MqttPop, MqttPublish, MqttAcknowledged, MqttGaveUp,
         MqttReport, MqttClose, WorkerFail, flags, FlagsTypeOK, Queues
  <2> QED
    BY <1>1, <2>1, <2>2, Zenon DEF FlagsTypeOK
<1>8. CASE \E t \in Handlers : Handler(t)
  <2> PICK t \in Handlers : Handler(t)
    BY <1>8, Zenon
  <2>1. UNCHANGED <<signal, closed>>
    BY <1>8, CommandFrame, Zenon DEF commandOthers, Handler, LockCommandMutex, ExecuteHere,
         AskStorage, TakeStorageAnswer, AbandonRequest
  <2>2. interval_ms' \in Intervals
    <3>1. CASE TakeStorageAnswer(t) /\ ~UNCHANGED interval_ms
      <4> DEFINE r == Head(control_result_queue)
      <4>1. /\ ~IsEmpty(control_result_queue)
            /\ r.kind = command[t].kind /\ r.kind = "set_interval"
            /\ interval_ms' = r.interval_ms
        BY <3>1, Zenon DEF TakeStorageAnswer
      <4>2. 1 \in DOMAIN control_result_queue /\ r = control_result_queue[1]
        BY <1>1, <4>1, PopFacts, Zenon DEF CommandTypeOK
      <4> QED
        BY <4>1, <4>2, Zenon DEF DeliveryInv, LocalsAtPositions
    <3> QED
      BY <1>1, <3>1, Zenon DEF Handler, LockCommandMutex, ExecuteHere, AskStorage,
           AbandonRequest, FlagsTypeOK, status
  <2>3. collection_paused' \in BOOLEAN
    BY <1>1, Zenon DEF Handler, LockCommandMutex, ExecuteHere, AskStorage,
         TakeStorageAnswer, AbandonRequest, FlagsTypeOK, status
  <2>4. stop_requested' \in BOOLEAN /\ fatal_error' \in BOOLEAN
    BY <1>1, Zenon DEF Handler, LockCommandMutex, ExecuteHere, AskStorage,
         TakeStorageAnswer, AbandonRequest, FlagsTypeOK, HandlerFail, WorkerFail, Answer
  <2>5. command_mutex' \in Handlers \cup {"free"}
    <3>1. UNCHANGED command_mutex \/ command_mutex' \in {t, "free"}
      BY Zenon DEF Handler, LockCommandMutex, ExecuteHere, AskStorage, TakeStorageAnswer,
           AbandonRequest, HandlerFail, Answer
    <3>2. command_mutex \in Handlers \cup {"free"} /\ t \in Handlers
      BY <1>1, Zenon DEF FlagsTypeOK
    <3> QED
      BY <3>1, <3>2, Zenon
  <2> QED
    BY <1>1, <2>1, <2>2, <2>3, <2>4, <2>5, Zenon DEF FlagsTypeOK
<1>9. CASE Local
  BY <1>1, <1>9, Zenon DEF Local, LocalBind, LocalReceive, LocalLeave, LocalAnswer, WorkerFail,
       localOthers, commandOthers, status, FlagsTypeOK
<1>10. CASE Remote \/ \E m \in RemoteMessages : MqttCommandReceived(m)
  BY <1>1, <1>10, Zenon DEF Remote, RemotePop, RemoteAnswer, RemotePublish, MqttCommandReceived,
       WorkerFail, remoteOthers, commandOthers, status, FlagsTypeOK
<1>11. CASE Crash \/ Reap
  BY <1>11, ConstantsAssumption, Zenon DEF FlagsTypeOK, Crash, Reap, ProcessEnds
<1>12. CASE Finished
  BY <1>1, <1>12, Zenon DEF FlagsTypeOK, Finished, vars, flags, status, handL
<1> QED
  BY <1>2, <1>3, <1>4, <1>5, <1>6, <1>7, <1>8, <1>9, <1>10, <1>11, <1>12, Zenon DEF Next

\* The outbox table is written in two places only: gateway_storage_apply_report
\* marks the reported row and gateway_storage_save appends a measurement.
LEMMA RowsChange ==
    ASSUME DeliveryInv, Next
    PROVE  \/ UNCHANGED rows
           \/ /\ StorageResult
              /\ ~IsEmpty(result_queue)
              /\ Head(result_queue) \in [id : Ids, ok : BOOLEAN]
              /\ Head(result_queue).ok
              /\ rows' = MarkSent(rows, Head(result_queue).id)
           \/ /\ StorageMeasure
              /\ Head(measurement_queue) \in Nat
              /\ rows' = SaveMeasurement(rows, Head(measurement_queue))
<1>1. DataTypeOK
  BY DEF DeliveryInv, TypeOK
<1>2. CASE StorageResult
  <2>1. CASE UNCHANGED rows
    BY <2>1
  <2>2. CASE ~UNCHANGED rows
    <3>1. /\ ~IsEmpty(result_queue) /\ Head(result_queue).ok
          /\ rows' = MarkSent(rows, Head(result_queue).id)
      BY <1>2, <2>2, Zenon DEF StorageResult
    <3> QED
      BY <1>1, <1>2, <3>1, PopFacts, Zenon DEF DataTypeOK
  <2> QED
    BY <2>1, <2>2, Zenon
<1>3. CASE StorageMeasure
  BY <1>1, <1>3, PopFacts, Zenon DEF StorageMeasure, DataTypeOK
<1>4. CASE StorageControl \/ StorageServe \/ StorageSchedule \/ StorageEnqueue
           \/ BackoffExpires
  BY <1>4, Zenon DEF StorageControl, StorageServe, StorageSchedule, StorageEnqueue, BackoffExpires,
       store
<1>5. CASE Source
  BY <1>5, SourceFrame, Zenon DEF sourceOthers, store
<1>6. CASE Mqtt \/ \E id \in net : BrokerReceive(id)
  BY <1>6, MqttFrame, Zenon DEF mqttOthers, store
<1>7. CASE \/ \E t \in Handlers : Handler(t)
           \/ Local \/ Remote
           \/ \E m \in RemoteMessages : MqttCommandReceived(m)
  BY <1>7, CommandFrame, Zenon DEF commandOthers, store
<1>8. CASE StartProcess \/ Coordinator \/ SignalArrives
  BY <1>8, CoordinatorFrame, Zenon DEF coordOthers, store
<1>9. CASE Crash \/ Reap \/ Finished
  BY <1>9, Zenon DEF Crash, Reap, Finished, ProcessEnds, vars, store
<1> QED
  BY <1>2, <1>3, <1>4, <1>5, <1>6, <1>7, <1>8, <1>9, Zenon DEF Next, Storage

\* No step deletes a row, changes its measurement or makes a sent row pending.
LEMMA RowsGrow ==
    ASSUME DeliveryInv, Next
    PROVE  /\ Ids \subseteq Ids'
           /\ \A id \in Ids : /\ rows'[id].measurement = rows[id].measurement
                              /\ IsSent(rows, id) => IsSent(rows', id)
<1>1. rows \in Seq(Row)
  BY DEF DeliveryInv, TypeOK, StoreTypeOK
<1>2. CASE UNCHANGED rows
  BY <1>2, Zenon DEF Ids
<1>3. CASE \E r \in [id : Ids, ok : BOOLEAN] : rows' = MarkSent(rows, r.id)
  <2>1. PICK id \in DOMAIN rows : rows' = MarkSent(rows, id)
    BY <1>3 DEF Ids
  <2>2. DOMAIN rows' = DOMAIN rows
    BY <1>1, <2>1, MarkSentRows, Zenon
  <2>3. \A k \in DOMAIN rows : rows'[k] =
           IF k = id THEN [measurement |-> rows[k].measurement, state |-> "sent"] ELSE rows[k]
    BY <1>1, <2>1, MarkSentRows, Zenon
  <2> QED
    BY <2>2, <2>3 DEF Ids, IsSent
<1>4. CASE \E m \in Nat : rows' = SaveMeasurement(rows, m)
  <2>0. PICK m \in Nat : rows' = SaveMeasurement(rows, m)
    BY <1>4
  <2>1. /\ DOMAIN rows \subseteq DOMAIN rows'
        /\ \A k \in DOMAIN rows : rows'[k] = rows[k]
    BY <1>1, <2>0, SaveMeasurementRows, Zenon
  <2> QED
    BY <2>1, Zenon DEF Ids, IsSent
<1> QED
  BY <1>2, <1>3, <1>4, RowsChange, Zenon

\* The report the mqtt worker is about to push is of a row.
LEMMA ReportTyped ==
    ASSUME DataTypeOK, RecordsOnTheWay, pc["mqtt"] = "report"
    PROVE  report \in [id : Ids, ok : BOOLEAN]
<1>1. report \in [id : Ids \cup {0}, ok : BOOLEAN]
  BY DEF DataTypeOK
<1>2. report.id \in Ids
  BY DEF RecordsOnTheWay, MqttBusy, IsNext, IsPending, Ids
<1> QED
  BY <1>1, <1>2

\* Every step keeps the types of the data queues, within their capacity, and of
\* the source and mqtt locals.
LEMMA DataTypeStep ==
    ASSUME DeliveryInv, Next
    PROVE  DataTypeOK'
<1>1. DataTypeOK /\ StoreTypeOK /\ LocalsAtPositions /\ RecordsOnTheWay /\ CountersOK /\ SentFirst
  BY Zenon DEF DeliveryInv, TypeOK
<1>2. Ids \subseteq Ids'
  BY RowsGrow
<1>3. /\ delivery_queue \in Seq(Ids')
      /\ result_queue \in Seq([id : Ids', ok : BOOLEAN])
      /\ job \in Ids' \cup {0}
      /\ report \in [id : Ids' \cup {0}, ok : BOOLEAN]
      /\ confirmed \subseteq Ids'
  <2>1. [id : Ids, ok : BOOLEAN] \subseteq [id : Ids', ok : BOOLEAN]
    BY <1>2
  <2> QED
    BY <1>1, <1>2, <2>1, SeqMonotone, Zenon DEF DataTypeOK
<1>4. ASSUME UNCHANGED <<dataQ, sample, mqttL, confirmed>> PROVE DataTypeOK'
  BY <1>1, <1>3, <1>4, Zenon DEF DataTypeOK, dataQ, mqttL
<1>5. CASE StartProcess \/ Coordinator \/ SignalArrives
  BY <1>4, <1>5, CoordinatorFrame, Zenon DEF coordOthers
<1>6. CASE Source
  <2>1. UNCHANGED <<delivery_queue, result_queue, mqttL, confirmed>>
    BY <1>6, SourceFrame, Zenon DEF sourceOthers
  <2>2. sample' \in Nat
    <3>1. UNCHANGED sample \/ sample' \in {0, produced + 1}
      BY <1>6, Zenon DEF Source, SourceLoop, SourceNext, SourcePush, SourceRetry
    <3>2. sample \in Nat /\ produced \in Nat
      BY <1>1 DEF DataTypeOK, CountersOK
    <3> QED
      BY <3>1, <3>2
  <2>3. measurement_queue' \in Seq(Nat) /\ Len(measurement_queue') <= MeasurementCap
    <3>1. CASE UNCHANGED measurement_queue
      BY <1>1, <3>1, Zenon DEF DataTypeOK
    <3>2. CASE /\ ~IsFull(measurement_queue, MeasurementCap)
               /\ measurement_queue' = Append(measurement_queue, sample)
      BY <1>1, <3>2, PushFacts, ConstantsAssumption DEF DataTypeOK, IsFull
    <3> QED
      BY <1>6, <3>1, <3>2, Zenon DEF Source, SourceLoop, SourceNext, SourcePush, SourceRetry
  <2> QED
    BY <1>1, <1>3, <2>1, <2>2, <2>3, Zenon DEF DataTypeOK, mqttL
<1>7. CASE Storage \/ BackoffExpires
  <2>1. UNCHANGED <<sample, mqttL, confirmed>>
    BY <1>7, StorageFrame, Zenon DEF storageOthers
  <2>2. CASE StorageControl \/ StorageServe \/ StorageSchedule \/ BackoffExpires
    BY <1>4, <2>1, <2>2, Zenon DEF StorageControl, StorageServe, StorageSchedule, BackoffExpires
  <2>3. CASE StorageResult
    <3>1. UNCHANGED <<measurement_queue, delivery_queue>>
      BY <2>3 DEF StorageResult
    <3>2. CASE UNCHANGED result_queue
      BY <1>4, <2>1, <3>1, <3>2, Zenon DEF dataQ
    <3>3. CASE ~IsEmpty(result_queue) /\ result_queue' = Tail(result_queue)
      <4>1. result_queue' \in Seq([id : Ids', ok : BOOLEAN]) /\ Len(result_queue') <= 1
        BY <1>1, <1>3, <3>3, PopFacts DEF DataTypeOK
      <4> QED
        BY <1>1, <1>3, <2>1, <3>1, <4>1, Zenon DEF DataTypeOK, mqttL
    <3> QED
      BY <2>3, <3>2, <3>3, Zenon DEF StorageResult
  <2>4. CASE StorageMeasure
    <3>1. UNCHANGED <<result_queue, delivery_queue>>
      BY <2>4, Zenon DEF StorageMeasure
    <3>2. measurement_queue' \in Seq(Nat) /\ Len(measurement_queue') <= MeasurementCap
      <4>1. CASE UNCHANGED measurement_queue
        BY <1>1, <4>1, Zenon DEF DataTypeOK
      <4>2. CASE ~IsEmpty(measurement_queue) /\ measurement_queue' = Tail(measurement_queue)
        BY <1>1, <4>2, PopFacts, ConstantsAssumption DEF DataTypeOK
      <4> QED
        BY <2>4, <4>1, <4>2, Zenon DEF StorageMeasure
    <3> QED
      BY <1>1, <1>3, <2>1, <3>1, <3>2, Zenon DEF DataTypeOK, mqttL
  <2>5. CASE StorageEnqueue
    <3>1. UNCHANGED <<measurement_queue, result_queue, rows>>
      BY <2>5, Zenon DEF StorageEnqueue, store
    <3>2. EarliestPending(rows) \in Ids
      BY <1>1, <2>5, EarliestPendingIsFirst, Zenon DEF StorageEnqueue, LocalsAtPositions, IsPending,
           StoreTypeOK, Ids
    <3>3. delivery_queue' \in Seq(Ids) /\ Len(delivery_queue') <= 1
      BY <1>1, <2>5, <3>2, PushFacts DEF StorageEnqueue, DataTypeOK, IsFull
    <3> QED
      BY <1>1, <1>2, <1>3, <2>1, <3>1, <3>3, SeqMonotone, Zenon DEF DataTypeOK, mqttL
  <2> QED
    BY <1>7, <2>2, <2>3, <2>4, <2>5, Zenon DEF Storage
<1>8. CASE Mqtt \/ \E id \in net : BrokerReceive(id)
  <2>1. UNCHANGED <<rows, measurement_queue, sample>>
    BY <1>8, MqttFrame, Zenon DEF mqttOthers, store
  <2>2. UNCHANGED Ids
    BY <2>1, Zenon DEF Ids
  <2>3. delivery_queue' \in Seq(Ids) /\ Len(delivery_queue') <= 1
    <3>1. \/ UNCHANGED delivery_queue
          \/ ~IsEmpty(delivery_queue) /\ delivery_queue' = Tail(delivery_queue)
      BY <1>8, Zenon DEF Mqtt, BrokerReceive, MqttPop, MqttPublish, MqttAcknowledged, MqttGaveUp,
           MqttReport, MqttClose
    <3>2. delivery_queue \in Seq(Ids) /\ Len(delivery_queue) <= 1
      BY <1>1, Zenon DEF DataTypeOK
    <3> QED
      BY <3>1, <3>2, PopFacts
  <2>4. job' \in Ids \cup {0}
    <3>1. \/ UNCHANGED job
          \/ job' = 0
          \/ ~IsEmpty(delivery_queue) /\ job' = Head(delivery_queue)
      BY <1>8, Zenon DEF Mqtt, BrokerReceive, MqttPop, MqttPublish, MqttAcknowledged, MqttGaveUp,
           MqttReport, MqttClose, mqttL
    <3>2. delivery_queue \in Seq(Ids) /\ job \in Ids \cup {0}
      BY <1>1 DEF DataTypeOK
    <3>3. ~IsEmpty(delivery_queue) => Head(delivery_queue) \in Ids
      BY <3>2, PopFacts, Zenon
    <3> QED
      BY <3>1, <3>2, <3>3, Zenon
  <2>5. puback' \in BOOLEAN
    BY <1>1, <1>8, Zenon DEF DataTypeOK, Mqtt, BrokerReceive, MqttPop, MqttPublish,
         MqttAcknowledged, MqttGaveUp, MqttReport, MqttClose, mqttL
  <2>6. report' \in [id : Ids \cup {0}, ok : BOOLEAN]
    <3>1. \/ UNCHANGED report
          \/ report' = NoReport
          \/ \E ok \in BOOLEAN : report' = [id |-> job, ok |-> ok]
      BY <1>8, Zenon DEF Mqtt, BrokerReceive, MqttPop, MqttPublish, MqttAcknowledged, MqttGaveUp,
           MqttReport, MqttClose, mqttL
    <3>2. NoReport \in [id : Ids \cup {0}, ok : BOOLEAN]
      BY Zenon DEF NoReport
    <3>3. \A ok \in BOOLEAN : [id |-> job, ok |-> ok] \in [id : Ids \cup {0}, ok : BOOLEAN]
      BY <1>1, Zenon DEF DataTypeOK
    <3> QED
      BY <1>1, <3>1, <3>2, <3>3, Zenon DEF DataTypeOK
  <2>7. confirmed' \subseteq Ids
    BY <1>1, <1>8, Zenon DEF DataTypeOK, Mqtt, BrokerReceive, MqttPop, MqttPublish,
         MqttAcknowledged, MqttGaveUp, MqttReport, MqttClose, RecordsOnTheWay, MqttBusy,
         IsNext, IsPending, Ids
  <2>8. result_queue' \in Seq([id : Ids, ok : BOOLEAN]) /\ Len(result_queue') <= 1
    <3>1. CASE MqttReport
      <4>1. report \in [id : Ids, ok : BOOLEAN]
        BY <1>1, <3>1, ReportTyped, Zenon DEF MqttReport
      <4>2. ~IsFull(result_queue, 1) /\ result_queue' = Append(result_queue, report)
        BY <3>1, Zenon DEF MqttReport
      <4>3. result_queue \in Seq([id : Ids, ok : BOOLEAN]) /\ Len(result_queue) \in Nat
        BY <1>1, EmptyByLength, Zenon DEF DataTypeOK
      <4>4. /\ result_queue' \in Seq([id : Ids, ok : BOOLEAN])
            /\ Len(result_queue') = Len(result_queue) + 1
        BY <4>1, <4>2, <4>3, PushLength, Zenon
      <4> QED
        BY <4>2, <4>3, <4>4 DEF IsFull
    <3>2. CASE UNCHANGED result_queue
      BY <1>1, <3>2, Zenon DEF DataTypeOK
    <3> QED
      BY <1>8, <3>1, <3>2, Zenon DEF Mqtt, BrokerReceive, MqttPop, MqttPublish, MqttAcknowledged,
           MqttGaveUp, MqttClose
  <2> QED
    BY <1>1, <2>1, <2>2, <2>3, <2>4, <2>5, <2>6, <2>7, <2>8, Zenon DEF DataTypeOK
<1>9. CASE \/ \E t \in Handlers : Handler(t)
           \/ Local \/ Remote
           \/ \E m \in RemoteMessages : MqttCommandReceived(m)
  BY <1>4, <1>9, CommandFrame, Zenon DEF commandOthers
<1>10. CASE Crash \/ Reap
  <2>1. /\ measurement_queue' = <<>> /\ delivery_queue' = <<>> /\ result_queue' = <<>>
        /\ sample' = 0 /\ job' = 0 /\ puback' = FALSE /\ report' = NoReport
        /\ confirmed' = {}
    BY <1>10, Zenon DEF Crash, Reap, ProcessEnds
  <2>2. NoReport \in [id : Ids' \cup {0}, ok : BOOLEAN]
    BY DEF NoReport
  <2>3. /\ sample' \in Nat /\ job' \in Ids' \cup {0} /\ puback' \in BOOLEAN
        /\ confirmed' \subseteq Ids'
    BY <2>1, Zenon
  <2>5. \A S : <<>> \in Seq(S)
    OBVIOUS
  <2>4. /\ Len(measurement_queue') <= MeasurementCap
        /\ Len(delivery_queue') <= 1 /\ Len(result_queue') <= 1
    BY <2>1, ConstantsAssumption
  <2> QED
    BY <2>1, <2>2, <2>3, <2>4, <2>5, Zenon DEF DataTypeOK
<1>11. CASE Finished
  BY <1>4, <1>11, Zenon DEF Finished, vars
<1> QED
  BY <1>5, <1>6, <1>7, <1>8, <1>9, <1>10, <1>11, Zenon DEF Next
-----------------------------------------------------------------------------
\* Every step leaves each thread at one of the positions of its own function.
LEMMA PositionsStep ==
    ASSUME DeliveryInv, Next
    PROVE  PositionsOK'
<1> USE DEF Threads, Handlers, Positions
<1>1. PositionsOK /\ CountersOK /\ LocalsAtPositions
  BY Zenon DEF DeliveryInv, TypeOK
<1>2. CASE UNCHANGED pc
  BY <1>1, <1>2 DEF PositionsOK
<1>3. CASE \E w \in {"start", "stop", "shutdown", "exited"} : Goto("coordinator", w)
  BY <1>1, <1>3 DEF PositionsOK, Goto
<1>4. CASE StartProcess \/ StopWaiting \/ RequestStop \/ ReturnResult \/ SignalArrives
  BY <1>2, <1>3, <1>4, Zenon DEF StartProcess, StopWaiting, RequestStop, ReturnResult, SignalArrives
<1>5. CASE StartWorker
  <2>1. CASE Goto("coordinator", "stop")
    BY <1>3, <2>1, Zenon
  <2>2. CASE pc' = [pc EXCEPT ![StartOrder[step]] = Entry[StartOrder[step]],
                              !["coordinator"] = IF step = Len(StartOrder)
                                                 THEN "run" ELSE "start"]
    <3>1. step \in {1, 2, 3, 4, 5, 6}
      <4>1. step \in 1 .. Len(StopOrder) + 1 /\ step <= Len(StartOrder)
        BY <1>1, <1>5, Zenon DEF StartWorker, LocalsAtPositions, CountersOK
      <4> QED
        BY <4>1, StartOrderFacts, StopOrderFacts
    <3> QED
      BY <1>1, <2>2, <3>1, StartOrderFacts DEF PositionsOK
  <2> QED
    BY <1>5, <2>1, <2>2, Zenon DEF StartWorker
<1>6. CASE ShutdownStep
  <2>1. UNCHANGED pc \/ Goto("receiver", "done")
    <3>1. step \in 1 .. Len(StopOrder) + 1 /\ step <= Len(StopOrder)
      BY <1>1, <1>6, Zenon DEF ShutdownStep, CountersOK
    <3>2. step \in 1 .. 12
      BY <3>1, StopOrderFacts
    <3> QED
      BY <1>6, <3>2, StopOrderFacts, Zenon DEF ShutdownStep
  <2> QED
    BY <1>1, <2>1, Zenon DEF PositionsOK, Goto
<1>7. CASE Source
  <2>1. \E w \in {"top", "next", "push", "retry", "done"} : Goto("source", w)
    BY <1>7, Zenon DEF Source, SourceLoop, SourceNext, SourcePush, SourceRetry, WorkerFail
  <2> QED
    BY <1>1, <2>1 DEF PositionsOK, Goto
<1>8. CASE Storage
  <2>1. \E w \in {"control", "serve", "result", "measure", "schedule", "enqueue", "done"} :
           Goto("storage", w)
    BY <1>8, Zenon DEF Storage, StorageControl, StorageServe, StorageResult, StorageMeasure,
         StorageSchedule, StorageEnqueue, StorageFail, WorkerFail, LoopAgain
  <2> QED
    BY <1>1, <2>1 DEF PositionsOK, Goto
<1>9. CASE Mqtt
  <2>1. \E w \in {"pop", "publish", "wait", "report", "close", "done"} : Goto("mqtt", w)
    BY <1>9, Zenon DEF Mqtt, MqttPop, MqttPublish, MqttAcknowledged, MqttGaveUp, MqttReport,
         MqttClose, WorkerFail
  <2> QED
    BY <1>1, <2>1 DEF PositionsOK, Goto
<1>10. CASE \E t \in Handlers : Handler(t)
  <2>1. PICK t \in Handlers : Handler(t)
    BY <1>10
  <2>2. \E w \in {"execute", "await", "answer", IF t = "remote" THEN "done" ELSE "listen"} :
           Goto(t, w)
    BY <2>1, Zenon DEF Handler, LockCommandMutex, ExecuteHere, AskStorage, TakeStorageAnswer,
         AbandonRequest, HandlerFail, Answer, WorkerFail
  <2> QED
    BY <1>1, <2>2 DEF PositionsOK, Goto
<1>11. CASE Local
  <2>1. \E w \in {"listen", "lock", "done"} : Goto("local", w)
    BY <1>11, Zenon DEF Local, LocalBind, LocalReceive, LocalLeave, LocalAnswer, WorkerFail
  <2> QED
    BY <1>1, <2>1 DEF PositionsOK, Goto
<1>12. CASE Remote
  <2>1. \E w \in {"pop", "publish", "lock", "done"} : Goto("remote", w)
    BY <1>12, Zenon DEF Remote, RemotePop, RemoteAnswer, RemotePublish, WorkerFail
  <2> QED
    BY <1>1, <2>1 DEF PositionsOK, Goto
<1>13. CASE Crash \/ Reap
  BY <1>13, Zenon DEF Crash, Reap, ProcessEnds, AllUnborn, PositionsOK
<1>14. CASE \/ BackoffExpires \/ Finished
            \/ \E id \in net : BrokerReceive(id)
            \/ \E m \in RemoteMessages : MqttCommandReceived(m)
  BY <1>2, <1>14, Zenon DEF BackoffExpires, Finished, BrokerReceive, MqttCommandReceived, vars
<1> QED
  BY <1>4, <1>5, <1>6, <1>7, <1>8, <1>9, <1>10, <1>11, <1>12, <1>13, <1>14, Zenon
     DEF Next, Coordinator

\* Every step keeps the counters and the coordinator's step within their bounds.
LEMMA CountersStep ==
    ASSUME DeliveryInv, Next
    PROVE  CountersOK'
<1>1. CountersOK /\ LocalsAtPositions
  BY Zenon DEF DeliveryInv, TypeOK
<1>2. /\ produced \in 0 .. MaxProduced /\ boot_base \in 0 .. produced /\ late \in Nat
      /\ boots \in 0 .. MaxBoots /\ locals \in 0 .. MaxLocal /\ remotes \in 0 .. MaxRemote
      /\ MaxProduced \in Nat /\ MaxBoots \in Nat /\ MaxLocal \in Nat /\ MaxRemote \in Nat
  BY <1>1, ConstantsAssumption, Zenon DEF CountersOK
<1>3. step \in 1 .. 13 /\ (pc["coordinator"] = "start" => step <= 6)
  <2>1. /\ step \in 1 .. Len(StopOrder) + 1
        /\ pc["coordinator"] = "start" => step <= Len(StartOrder)
    BY <1>1, Zenon DEF CountersOK, LocalsAtPositions
  <2> QED
    BY <2>1, StopOrderFacts, StartOrderFacts
<1>4. CASE StartProcess \/ SignalArrives
  <2>1. /\ UNCHANGED <<step, result, locals, remotes, produced, late, faulted>>
        /\ UNCHANGED boots \/ (boots < MaxBoots /\ boots' = boots + 1)
        /\ UNCHANGED boot_base \/ boot_base' = produced
    BY <1>4, Zenon DEF StartProcess, SignalArrives, coordOthers, coordL
  <2>2. boots' \in 0 .. MaxBoots /\ boot_base' \in 0 .. produced'
    BY <1>2, <2>1
  <2> QED
    BY <1>1, <2>1, <2>2, Zenon DEF CountersOK
<1>5. CASE Coordinator
  <2>1. UNCHANGED <<boots, locals, remotes, produced, boot_base, late>>
    BY <1>5, Zenon DEF Coordinator, StartWorker, StopWaiting, RequestStop, ShutdownStep,
         ReturnResult, coordOthers
  <2>2. step' \in 1 .. Len(StopOrder) + 1
    <3>1. \/ step' = step \/ step' = 1
          \/ step' = step + 1 /\ (step <= Len(StopOrder) \/ pc["coordinator"] = "start")
      BY <1>5, Zenon DEF Coordinator, StartWorker, StopWaiting, RequestStop, ShutdownStep,
           ReturnResult, coordL
    <3> QED
      BY <1>3, <3>1, StopOrderFacts
  <2>3. result' \in {-1, 0}
    <3>1. result' = result \/ result' = 0 \/ result' = -1
      BY <1>5, Zenon DEF Coordinator, StartWorker, StopWaiting, RequestStop, ShutdownStep,
           ReturnResult, coordL
    <3> QED
      BY <1>1, <3>1, Zenon DEF CountersOK
  <2>4. faulted' \in BOOLEAN
    BY <1>1, <1>5, Zenon DEF Coordinator, StartWorker, StopWaiting, RequestStop, ShutdownStep,
         ReturnResult, Fault, CountersOK
  <2> QED
    BY <1>1, <2>1, <2>2, <2>3, <2>4, Zenon DEF CountersOK
<1>6. CASE Source
  <2>1. UNCHANGED <<step, result, boots, locals, remotes, boot_base>>
    BY <1>6, SourceFrame, Zenon DEF sourceOthers, coordL, bounds
  <2>2. \/ UNCHANGED <<produced, late>>
        \/ /\ produced < MaxProduced /\ produced' = produced + 1
           /\ late' \in {late, late + 1}
    BY <1>6, Zenon DEF Source, SourceLoop, SourceNext, SourcePush, SourceRetry
  <2>3. faulted' \in BOOLEAN
    BY <1>1, <1>6, Zenon DEF Source, SourceLoop, SourceNext, SourcePush, SourceRetry, Fault,
         CountersOK
  <2>4. produced' \in 0 .. MaxProduced /\ boot_base \in 0 .. produced' /\ late' \in Nat
    BY <1>2, <2>2
  <2> QED
    BY <1>1, <2>1, <2>3, <2>4, Zenon DEF CountersOK
<1>7. CASE Storage \/ BackoffExpires
  <2>1. UNCHANGED <<step, result, boots, locals, remotes, boot_base, produced, late>>
    BY <1>7, StorageFrame, Zenon DEF storageOthers, coordL, bounds
  <2>2. faulted' \in BOOLEAN
    BY <1>1, <1>7, Zenon DEF Storage, BackoffExpires, StorageControl, StorageServe, StorageResult,
         StorageMeasure, StorageSchedule, StorageEnqueue, StorageFail, Fault, CountersOK
  <2> QED
    BY <1>1, <2>1, <2>2, Zenon DEF CountersOK
<1>8. CASE Mqtt \/ \E id \in net : BrokerReceive(id)
  <2>1. UNCHANGED <<step, result, boots, locals, remotes, boot_base, produced, late>>
    BY <1>8, MqttFrame, Zenon DEF mqttOthers, coordL, bounds
  <2>2. faulted' \in BOOLEAN
    BY <1>1, <1>8, Zenon DEF Mqtt, BrokerReceive, MqttPop, MqttPublish, MqttAcknowledged, MqttGaveUp,
         MqttReport, MqttClose, Fault, CountersOK
  <2> QED
    BY <1>1, <2>1, <2>2, Zenon DEF CountersOK
<1>9. CASE \/ \E t \in Handlers : Handler(t)
           \/ Local \/ Remote
           \/ \E m \in RemoteMessages : MqttCommandReceived(m)
  <2>1. UNCHANGED <<step, result, boots, boot_base, produced>>
    BY <1>9, CommandFrame, Zenon DEF commandOthers, coordL
  <2>2. /\ UNCHANGED locals \/ (locals < MaxLocal /\ locals' = locals + 1)
        /\ UNCHANGED remotes \/ (remotes < MaxRemote /\ remotes' = remotes + 1)
        /\ UNCHANGED late \/ late' = 0
    BY <1>9, Zenon DEF Handler, LockCommandMutex, ExecuteHere, AskStorage, TakeStorageAnswer,
         AbandonRequest, Local, LocalBind, LocalReceive, LocalLeave, LocalAnswer, localOthers,
         Remote, RemotePop, RemoteAnswer, RemotePublish, MqttCommandReceived, remoteOthers
  <2>3. faulted' \in BOOLEAN
    BY <1>1, <1>9, Zenon DEF Handler, LockCommandMutex, ExecuteHere, AskStorage, TakeStorageAnswer,
         AbandonRequest, Local, LocalBind, LocalReceive, LocalLeave, LocalAnswer,
         Remote, RemotePop, RemoteAnswer, RemotePublish, MqttCommandReceived, Fault,
         CountersOK
  <2>4. locals' \in 0 .. MaxLocal /\ remotes' \in 0 .. MaxRemote /\ late' \in Nat
    BY <1>2, <2>2
  <2> QED
    BY <1>1, <2>1, <2>3, <2>4, Zenon DEF CountersOK
<1>10. CASE Crash \/ Reap
  <2>1. /\ step' = 1 /\ result' = -1 /\ late' = 0 /\ faulted' = FALSE
        /\ UNCHANGED <<boots, locals, remotes, produced, boot_base>>
    BY <1>10, Zenon DEF Crash, Reap, ProcessEnds
  <2>2. step' \in 1 .. Len(StopOrder) + 1 /\ late' \in Nat
    BY <2>1, StopOrderFacts
  <2>3. result' \in {-1, 0} /\ faulted' \in BOOLEAN
    BY <2>1, Zenon
  <2> QED
    BY <1>1, <2>1, <2>2, <2>3, Zenon DEF CountersOK
<1>11. CASE Finished
  BY <1>1, <1>11, Zenon DEF Finished, vars, coordL, bounds, CountersOK
<1> QED
  BY <1>4, <1>5, <1>6, <1>7, <1>8, <1>9, <1>10, <1>11, Zenon DEF Next

\* Every step keeps the types of the control and command queues, the dedup ring
\* and the handlers' locals.
LEMMA CommandTypeStep ==
    ASSUME DeliveryInv, Next
    PROVE  CommandTypeOK'
<1> USE DEF Handlers
<1> DEFINE Result == [kind : Kinds, ok : BOOLEAN, interval_ms : Intervals \cup {NoInterval}]
           Locals == [measurement_closed : BOOLEAN, result_closed : BOOLEAN,
                      inflight : BOOLEAN, backoff : BOOLEAN,
                      request : Request \cup {NoCommand}]
<1>1. CommandTypeOK /\ LocalsAtPositions /\ FlagsTypeOK
  BY Zenon DEF DeliveryInv, TypeOK
<1>2. CASE StartProcess \/ Coordinator \/ SignalArrives
  BY <1>1, <1>2, CoordinatorFrame, Zenon DEF coordOthers, ctlQ, dedup, handL, CommandTypeOK
<1>3. CASE Source
  BY <1>1, <1>3, SourceFrame, Zenon DEF sourceOthers, ctlQ, dedup, handL, CommandTypeOK
<1>4. CASE Mqtt \/ \E id \in net : BrokerReceive(id)
  BY <1>1, <1>4, MqttFrame, Zenon DEF mqttOthers, ctlQ, dedup, handL, CommandTypeOK
<1>5. CASE Storage \/ BackoffExpires
  <2>1. UNCHANGED <<mqtt_command_queue, dedup_entries, dedup_next, command, reply, request_id,
                    executed>>
    BY <1>5, StorageFrame, Zenon DEF storageOthers, dedup, handL
  <2>2. sto' \in Locals
    <3>1. sto \in Locals
      BY <1>1, Zenon DEF CommandTypeOK
    <3>2. CASE StorageControl
      <4>1. UNCHANGED sto \/ (/\ ~IsEmpty(control_request_queue)
                              /\ sto' = [sto EXCEPT !.request = Head(control_request_queue)])
        BY <3>2, Zenon DEF StorageControl
      <4>2. ~IsEmpty(control_request_queue) => Head(control_request_queue) \in Request
        BY <1>1, PopFacts, Zenon DEF CommandTypeOK
      <4> QED
        BY <3>1, <4>1, <4>2, Zenon
    <3>3. CASE StorageServe \/ StorageEnqueue \/ BackoffExpires \/ StorageSchedule
      BY <3>1, <3>3, Zenon DEF StorageServe, StorageEnqueue, BackoffExpires, StorageSchedule
    <3>4. CASE StorageResult
      <4>1. \/ UNCHANGED sto
            \/ sto' = [sto EXCEPT !.inflight = FALSE,
                                  !.backoff = ~Head(result_queue).ok]
            \/ sto' = [sto EXCEPT !.result_closed = TRUE, !.inflight = FALSE]
        BY <3>4, Zenon DEF StorageResult
      <4> QED
        BY <3>1, <4>1, Zenon
    <3>5. CASE StorageMeasure
      <4>1. \/ UNCHANGED sto
            \/ sto' = [sto EXCEPT !.measurement_closed = @ \/ "measurement" \in closed]
        BY <3>5, Zenon DEF StorageMeasure
      <4> QED
        BY <3>1, <4>1, Zenon
    <3> QED
      BY <1>5, <3>2, <3>3, <3>4, <3>5, Zenon DEF Storage
  <2>3. control_request_queue' \in Seq(Request) /\ Len(control_request_queue') <= 1
    <3>1. \/ UNCHANGED control_request_queue
          \/ /\ ~IsEmpty(control_request_queue)
             /\ control_request_queue' = Tail(control_request_queue)
      BY <1>5, Zenon DEF Storage, BackoffExpires, StorageControl, StorageServe, StorageResult,
           StorageMeasure, StorageSchedule, StorageEnqueue, ctlQ
    <3>2. control_request_queue \in Seq(Request) /\ Len(control_request_queue) <= 1
      BY <1>1, Zenon DEF CommandTypeOK
    <3> QED
      BY <3>1, <3>2, PopFacts
  <2>4. control_result_queue' \in Seq(Result) /\ Len(control_result_queue') <= 1
    <3>1. CASE UNCHANGED control_result_queue
      BY <1>1, <3>1, Zenon DEF CommandTypeOK
    <3>2. CASE StorageServe /\ ~UNCHANGED control_result_queue
      <4>1. PICK ok \in BOOLEAN :
                /\ ~IsFull(control_result_queue, 1)
                /\ control_result_queue' =
                       Append(control_result_queue,
                              [kind |-> sto.request.kind, ok |-> ok,
                               interval_ms |-> sto.request.interval_ms])
        BY <3>2 DEF StorageServe
      <4>2. sto.request \in Request
        BY <1>1, <3>2, Zenon DEF LocalsAtPositions, StorageServe
      <4>3. sto.request.kind \in Kinds /\ sto.request.interval_ms \in Intervals \cup {NoInterval}
        BY <4>2, Zenon DEF Request, Command
      <4> DEFINE e == [kind |-> sto.request.kind, ok |-> ok,
                       interval_ms |-> sto.request.interval_ms]
      <4>4. e \in Result
        BY <4>3
      <4> HIDE DEF e, Result
      <4>5. control_result_queue \in Seq(Result) /\ Len(control_result_queue) <= 1
        BY <1>1, Zenon DEF CommandTypeOK, Result
      <4>6. control_result_queue' = Append(control_result_queue, e)
        BY <4>1, Zenon DEF e
      <4> QED
        BY <4>1, <4>4, <4>5, <4>6, PushFacts DEF IsFull
    <3> QED
      BY <1>5, <3>1, <3>2, Zenon DEF Storage, BackoffExpires, StorageControl, StorageResult,
           StorageMeasure, StorageSchedule, StorageEnqueue, ctlQ
  <2> QED
    BY <1>1, <2>1, <2>2, <2>3, <2>4, Zenon DEF CommandTypeOK
<1>6. CASE \E t \in Handlers : Handler(t)
  <2> PICK t \in Handlers : Handler(t)
    BY <1>6
  <2>1. UNCHANGED <<sto, mqtt_command_queue, dedup_entries, dedup_next, command, request_id,
                    executed>>
    BY <1>6, CommandFrame, Zenon DEF commandOthers, Handler, LockCommandMutex, ExecuteHere, AskStorage,
         TakeStorageAnswer, AbandonRequest, dedup
  <2>2. control_request_queue' \in Seq(Request) /\ Len(control_request_queue') <= 1
    <3>1. CASE UNCHANGED control_request_queue
      BY <1>1, <3>1, Zenon DEF CommandTypeOK
    <3>2. CASE AskStorage(t) /\ ~UNCHANGED control_request_queue
      <4>1. /\ ~IsFull(control_request_queue, 1)
            /\ control_request_queue' = Append(control_request_queue, command[t])
            /\ pc[t] = "execute" /\ command[t].kind \in Kinds
        BY <3>2, Zenon DEF AskStorage
      <4>2. command[t] \in Request
        BY <1>1, <4>1, Zenon DEF LocalsAtPositions, Request
      <4>3. control_request_queue \in Seq(Request) /\ Len(control_request_queue) \in Nat
        BY <1>1, EmptyByLength, Zenon DEF CommandTypeOK
      <4> QED
        BY <4>1, <4>2, <4>3, PushLength DEF IsFull
    <3> QED
      BY <3>1, <3>2, Zenon DEF Handler, LockCommandMutex, ExecuteHere, TakeStorageAnswer,
           AbandonRequest, ctlQ
  <2>3. control_result_queue' \in Seq(Result) /\ Len(control_result_queue') <= 1
    <3>1. \/ UNCHANGED control_result_queue
          \/ /\ ~IsEmpty(control_result_queue)
             /\ control_result_queue' = Tail(control_result_queue)
      BY Zenon DEF Handler, LockCommandMutex, ExecuteHere, AskStorage, TakeStorageAnswer,
         AbandonRequest, ctlQ
    <3>2. control_result_queue \in Seq(Result) /\ Len(control_result_queue) <= 1
      BY <1>1, Zenon DEF CommandTypeOK
    <3> HIDE DEF Result
    <3> QED
      BY <3>1, <3>2, PopFacts
  <2>4. reply' \in [Handlers -> Reply]
    <3>1. reply \in [Handlers -> Reply]
      BY <1>1, Zenon DEF CommandTypeOK
    <3>2. UNCHANGED reply \/ \E r \in {Error, Ok(interval_ms), Ok(interval_ms')} : Answer(t, r)
      BY Zenon DEF Handler, LockCommandMutex, ExecuteHere, AskStorage, TakeStorageAnswer,
         AbandonRequest, HandlerFail
    <3>3. {Error, Ok(interval_ms), Ok(interval_ms')} \subseteq Reply
      BY <1>1, FlagsTypeStep DEF Error, Ok, Reply, FlagsTypeOK
    <3> QED
      BY <3>1, <3>2, <3>3, Zenon DEF Answer
  <2> QED
    BY <1>1, <2>1, <2>2, <2>3, <2>4, Zenon DEF CommandTypeOK
<1>7. CASE Local
  <2>1. UNCHANGED <<sto, ctlQ, mqtt_command_queue, dedup, reply, request_id, executed>>
    BY <1>7, Zenon DEF Local, LocalBind, LocalReceive, LocalLeave, LocalAnswer, localOthers,
         commandOthers
  <2>2. UNCHANGED command \/ \E c \in LocalCommands : command' = [command EXCEPT !["local"] = c]
    BY <1>7, Zenon DEF Local, LocalBind, LocalReceive, LocalLeave, LocalAnswer
  <2>3. command' \in [Handlers -> Command \cup {NoCommand}]
    BY <1>1, <2>2, ConstantsAssumption, Zenon DEF CommandTypeOK
  <2> QED
    BY <1>1, <2>1, <2>3, Zenon DEF CommandTypeOK, ctlQ, dedup
<1>8. CASE \E m \in RemoteMessages : MqttCommandReceived(m)
  <2>1. PICK m \in RemoteMessages : MqttCommandReceived(m)
    BY <1>8, Zenon
  <2>2. UNCHANGED <<sto, ctlQ, dedup, command, reply, request_id, executed>>
    BY <2>1, Zenon DEF MqttCommandReceived, remoteOthers, commandOthers
  <2>3. mqtt_command_queue' \in Seq(RemoteMessage) /\ Len(mqtt_command_queue') <= CommandCap
    <3>1. \/ UNCHANGED mqtt_command_queue
          \/ /\ ~IsFull(mqtt_command_queue, CommandCap)
             /\ mqtt_command_queue' = Append(mqtt_command_queue, m)
      BY <2>1, Zenon DEF MqttCommandReceived
    <3>2. m \in RemoteMessage /\ CommandCap \in Nat
      BY ConstantsAssumption, Zenon
    <3>3. mqtt_command_queue \in Seq(RemoteMessage) /\ Len(mqtt_command_queue) <= CommandCap
      BY <1>1, Zenon DEF CommandTypeOK
    <3> QED
      BY <3>1, <3>2, <3>3, PushFacts DEF IsFull
  <2> QED
    BY <1>1, <2>2, <2>3, Zenon DEF CommandTypeOK, ctlQ, dedup
<1>9. CASE RemotePop
  <2>1. UNCHANGED <<sto, ctlQ, dedup, reply>>
    BY <1>9, Zenon DEF RemotePop, remoteOthers, commandOthers
  <2>2. \/ UNCHANGED mqtt_command_queue
        \/ ~IsEmpty(mqtt_command_queue) /\ mqtt_command_queue' = Tail(mqtt_command_queue)
    BY <1>9, Zenon DEF RemotePop
  <2>3. mqtt_command_queue' \in Seq(RemoteMessage) /\ Len(mqtt_command_queue') <= CommandCap
    <3>1. mqtt_command_queue \in Seq(RemoteMessage) /\ Len(mqtt_command_queue) <= CommandCap
      BY <1>1, Zenon DEF CommandTypeOK
    <3>2. CommandCap \in Nat
      BY ConstantsAssumption, Zenon
    <3> QED
      BY <2>2, <3>1, <3>2, PopFacts
  <2>4. CASE UNCHANGED <<command, request_id, executed>>
    BY <1>1, <2>1, <2>3, <2>4, Zenon DEF CommandTypeOK, ctlQ, dedup
  <2>5. CASE ~UNCHANGED <<command, request_id, executed>>
    <3> DEFINE m == Head(mqtt_command_queue)
    <3>1. /\ ~IsEmpty(mqtt_command_queue)
          /\ m.request_id # BadId /\ m.command # Unsupported
          /\ command' = [command EXCEPT !["remote"] = m.command]
          /\ request_id' = m.request_id
          /\ executed' = Append(executed, m.request_id)
      BY <1>9, <2>5, Zenon DEF RemotePop
    <3>2. m \in RemoteMessage
      BY <1>1, <3>1, PopFacts, Zenon DEF CommandTypeOK
    <3>3. m.request_id \in RequestIds /\ m.command \in Command
      BY <3>1, <3>2, Zenon DEF RemoteMessage
    <3> HIDE DEF m
    <3>4. command' \in [Handlers -> Command \cup {NoCommand}]
      BY <1>1, <3>1, <3>3, Zenon DEF CommandTypeOK
    <3>5. executed' \in Seq(RequestIds)
      BY <1>1, <3>1, <3>3, PushFacts, Zenon DEF CommandTypeOK
    <3>6. request_id' \in RequestIds \cup {BadId}
      BY <3>1, <3>3, Zenon
    <3>7. UNCHANGED <<sto, control_request_queue, control_result_queue, dedup_entries,
                      dedup_next, reply>>
      BY <2>1 DEF ctlQ, dedup
    <3> QED
      BY <1>1, <2>3, <3>4, <3>5, <3>6, <3>7, Zenon DEF CommandTypeOK
  <2> QED
    BY <2>4, <2>5
<1>10. CASE RemoteAnswer \/ RemotePublish
  <2>1. UNCHANGED <<sto, ctlQ, mqtt_command_queue, command, reply, request_id, executed>>
    BY <1>10, Zenon DEF RemoteAnswer, RemotePublish, remoteOthers, commandOthers
  <2>2. CASE UNCHANGED dedup
    BY <1>1, <2>1, <2>2, Zenon DEF CommandTypeOK, ctlQ, dedup
  <2>3. CASE RemoteAnswer /\ ~UNCHANGED dedup
    <3> DEFINE e == [occupied |-> TRUE, request_id |-> request_id,
                     command |-> command["remote"], response |-> reply["remote"]]
    <3>1. /\ pc["remote"] = "answer"
          /\ dedup_entries' = [dedup_entries EXCEPT ![dedup_next] = e]
          /\ dedup_next' = (dedup_next + 1) % DedupCap
      BY <2>3, Zenon DEF RemoteAnswer, CacheResponse, NextSlot
    <3>2. e \in DedupEntry
      BY <1>1, <3>1, Zenon DEF DedupEntry, LocalsAtPositions, CommandTypeOK
    <3>3. dedup_next' \in Slots
      BY <1>1, <3>1, DedupCapAssumption DEF Slots, CommandTypeOK
    <3> HIDE DEF e
    <3>4. dedup_entries' \in [Slots -> DedupEntry]
      BY <1>1, <3>1, <3>2, Zenon DEF CommandTypeOK
    <3> QED
      BY <1>1, <2>1, <3>3, <3>4, Zenon DEF CommandTypeOK, ctlQ
  <2> QED
    BY <1>10, <2>2, <2>3, Zenon DEF RemotePublish
<1>11. CASE Crash \/ Reap
  <2>1. /\ control_request_queue' = <<>> /\ control_result_queue' = <<>>
        /\ mqtt_command_queue' = <<>> /\ executed' = <<>>
        /\ dedup_entries' = EmptyDedup /\ dedup_next' = 0 /\ sto' = StorageLocals
        /\ command' = [t \in Handlers |-> NoCommand]
        /\ reply' = [t \in Handlers |-> NoReply]
        /\ request_id' = BadId
    BY <1>11, Zenon DEF Crash, Reap, ProcessEnds
  <2>2. dedup_entries' \in [Slots -> DedupEntry] /\ dedup_next' \in Slots
    BY <2>1, DedupCapAssumption DEF EmptyDedup, DedupEntry, Slots
  <2>3. sto' \in Locals
    BY <2>1, Zenon DEF StorageLocals
  <2>4. /\ command' \in [Handlers -> Command \cup {NoCommand}]
        /\ request_id' \in RequestIds \cup {BadId}
    BY <2>1, Zenon
  <2>5. reply' \in [Handlers -> Reply]
    BY <2>1, Zenon DEF Reply, NoReply
  <2>6. \A S : <<>> \in Seq(S)
    OBVIOUS
  <2>7. /\ Len(control_request_queue') <= 1 /\ Len(control_result_queue') <= 1
        /\ Len(mqtt_command_queue') <= CommandCap
    BY <2>1, ConstantsAssumption
  <2> QED
    BY <2>1, <2>2, <2>3, <2>4, <2>5, <2>6, <2>7, Zenon DEF CommandTypeOK
<1>12. CASE Finished
  BY <1>1, <1>12, Zenon DEF Finished, vars, ctlQ, dedup, handL, CommandTypeOK
<1> QED
  BY <1>2, <1>3, <1>4, <1>5, <1>6, <1>7, <1>8, <1>9, <1>10, <1>11, <1>12, Zenon DEF Next, Remote
-----------------------------------------------------------------------------
(* Positions, locals and the record in flight. *)

\* A worker moves only its own thread.
LEMMA OnlyOwnPosition ==
    ASSUME PositionsOK
    PROVE  /\ Source => \A t \in Threads \ {"source"} : pc'[t] = pc[t]
           /\ Storage => \A t \in Threads \ {"storage"} : pc'[t] = pc[t]
           /\ Mqtt => \A t \in Threads \ {"mqtt"} : pc'[t] = pc[t]
           /\ \A h \in Handlers : Handler(h) => \A t \in Threads \ {h} : pc'[t] = pc[t]
           /\ Local => \A t \in Threads \ {"local"} : pc'[t] = pc[t]
           /\ Remote => \A t \in Threads \ {"remote"} : pc'[t] = pc[t]
           /\ (\E id \in net : BrokerReceive(id)) => UNCHANGED pc
           /\ (\E m \in RemoteMessages : MqttCommandReceived(m)) => UNCHANGED pc
           /\ BackoffExpires \/ SignalArrives => UNCHANGED pc
<1>1. ASSUME NEW t \in Threads, \E w \in Positions : Goto(t, w)
      PROVE  \A u \in Threads \ {t} : pc'[u] = pc[u]
  BY <1>1, Zenon DEF PositionsOK, Goto
<1>2. Source => \E w \in Positions : Goto("source", w)
  BY DEF Source, SourceLoop, SourceNext, SourcePush, SourceRetry, WorkerFail, Positions
<1>3. Storage => \E w \in Positions : Goto("storage", w)
  BY Zenon DEF Storage, StorageControl, StorageServe, StorageResult, StorageMeasure,
       StorageSchedule, StorageEnqueue, StorageFail, WorkerFail, LoopAgain, Positions
<1>4. Mqtt => \E w \in Positions : Goto("mqtt", w)
  BY DEF Mqtt, MqttPop, MqttPublish, MqttAcknowledged, MqttGaveUp, MqttReport, MqttClose,
       WorkerFail, Positions
<1>5. \A h \in Handlers : Handler(h) => \E w \in Positions : Goto(h, w)
  BY Zenon DEF Handler, LockCommandMutex, ExecuteHere, AskStorage, TakeStorageAnswer,
       AbandonRequest, HandlerFail, Answer, WorkerFail, Positions
<1>6. Local => \E w \in Positions : Goto("local", w)
  BY DEF Local, LocalBind, LocalReceive, LocalLeave, LocalAnswer, WorkerFail, Positions
<1>7. Remote => \E w \in Positions : Goto("remote", w)
  BY Zenon DEF Remote, RemotePop, RemoteAnswer, RemotePublish, WorkerFail, Positions
<1>8. /\ (\E id \in net : BrokerReceive(id)) => UNCHANGED pc
      /\ (\E m \in RemoteMessages : MqttCommandReceived(m)) => UNCHANGED pc
      /\ BackoffExpires \/ SignalArrives => UNCHANGED pc
  BY DEF BrokerReceive, MqttCommandReceived, BackoffExpires, SignalArrives
<1>9. {"source", "storage", "mqtt", "local", "remote"} \subseteq Threads /\ Handlers \subseteq Threads
  BY Zenon DEF Threads, Handlers
<1> QED
  BY <1>1, <1>2, <1>3, <1>4, <1>5, <1>6, <1>7, <1>8, <1>9, Zenon

\* gateway_workers_run creates one of the six threads.
LEMMA StartAt ==
    ASSUME DeliveryInv, StartWorker
    PROVE  step \in 1 .. 6 /\ step \in {1, 2, 3, 4, 5, 6} /\ Len(StartOrder) = 6
<1>1. step \in 1 .. Len(StopOrder) + 1 /\ step <= Len(StartOrder)
  BY Zenon DEF DeliveryInv, TypeOK, CountersOK, LocalsAtPositions, StartWorker
<1>2. Len(StopOrder) = 12 /\ Len(StartOrder) = 6
  BY StopOrderFacts, StartOrderFacts, Zenon
<1> QED
  BY <1>1, <1>2

\* gateway_workers_run makes one of its twelve closes and joins, and moves no
\* thread, but the receiver when it destroys it.
LEMMA ShutdownAt ==
    ASSUME DeliveryInv, ShutdownStep
    PROVE  /\ pc["coordinator"] = "shutdown" /\ step \in 1 .. 12 /\ step' = step + 1
           /\ UNCHANGED pc \/ Goto("receiver", "done")
<1>1. /\ step \in 1 .. Len(StopOrder) + 1 /\ step <= Len(StopOrder)
      /\ pc["coordinator"] = "shutdown" /\ step' = step + 1
  BY Zenon DEF DeliveryInv, TypeOK, CountersOK, ShutdownStep
<1>2. Len(StopOrder) = 12
  BY StopOrderFacts, Zenon
<1>3. step \in 1 .. 12
  BY <1>1, <1>2
<1>4. UNCHANGED pc \/ Goto("receiver", "done")
  BY <1>3, StopOrderFacts, Zenon DEF ShutdownStep
<1> QED
  BY <1>1, <1>3, <1>4, Zenon

\* Where a step of the coordinator may take the threads.
LEMMA CoordinatorPositions ==
    ASSUME DeliveryInv, StartProcess \/ Coordinator
    PROVE  /\ \A t \in Threads \ {"coordinator"} :
                \/ pc'[t] = pc[t]
                \/ /\ pc["coordinator"] = "start" /\ step \in 1 .. 6
                   /\ t = StartOrder[step] /\ pc'[t] = Entry[t]
                \/ t = "receiver" /\ pc'[t] = "done"
           /\ \/ pc'["coordinator"] = pc["coordinator"]
              \/ pc'["coordinator"] \in {"start", "run", "stop", "shutdown", "exited"}
<1>1. PositionsOK /\ CountersOK /\ LocalsAtPositions
  BY Zenon DEF DeliveryInv, TypeOK
<1>2. CASE StartProcess \/ StopWaiting \/ RequestStop \/ ReturnResult
  BY <1>1, <1>2, Zenon DEF StartProcess, StopWaiting, RequestStop, ReturnResult, Goto, PositionsOK,
       Threads
<1>3. CASE StartWorker
  <2>1. pc["coordinator"] = "start" /\ step \in 1 .. 6
    BY <1>3, StartAt, Zenon DEF StartWorker
  <2>2. CASE Goto("coordinator", "stop")
    BY <1>1, <2>2, Zenon DEF Goto, PositionsOK, Threads
  <2>3. CASE pc' = [pc EXCEPT ![StartOrder[step]] = Entry[StartOrder[step]],
                              !["coordinator"] = IF step = Len(StartOrder)
                                                 THEN "run" ELSE "start"]
    BY <1>1, <2>1, <2>3, Zenon DEF PositionsOK, Threads
  <2> QED
    BY <1>3, <2>2, <2>3, Zenon DEF StartWorker
<1>4. CASE ShutdownStep
  <2>1. UNCHANGED pc \/ Goto("receiver", "done")
    BY <1>4, ShutdownAt, Zenon
  <2> QED
    BY <1>1, <2>1, Zenon DEF Goto, PositionsOK, Threads
<1> QED
  BY <1>2, <1>3, <1>4, Zenon DEF Coordinator

\* The storage worker has a request when it serves one, and a pending row when it
\* is about to queue one: nothing marks a row sent in between.
LEMMA StorageLocalsStep ==
    ASSUME DeliveryInv, Next
    PROVE  /\ (pc["storage"] = "serve" => sto.request \in Request)'
           /\ (pc["storage"] = "enqueue" => HasPending(rows))'
<1>1. PositionsOK /\ LocalsAtPositions /\ CommandTypeOK
  BY Zenon DEF DeliveryInv, TypeOK
<1>2. ASSUME UNCHANGED rows, UNCHANGED sto, pc'["storage"] \in {pc["storage"], "control"}
      PROVE  /\ (pc["storage"] = "serve" => sto.request \in Request)'
             /\ (pc["storage"] = "enqueue" => HasPending(rows))'
  BY <1>1, <1>2, Zenon DEF LocalsAtPositions
<1>3. CASE StartProcess \/ Coordinator
  BY <1>2, <1>3, CoordinatorFrame, CoordinatorPositions, StartOrderFacts, Zenon
     DEF coordOthers, store, Threads
<1>4. CASE SignalArrives
  BY <1>2, <1>4, Zenon DEF SignalArrives, coordOthers, store
<1>5. CASE Source
  BY <1>1, <1>2, <1>5, SourceFrame, OnlyOwnPosition, Zenon DEF sourceOthers, store, Threads
<1>6. CASE Mqtt \/ \E id \in net : BrokerReceive(id)
  BY <1>1, <1>2, <1>6, MqttFrame, OnlyOwnPosition, Zenon DEF mqttOthers, store, Threads
<1>7. CASE \/ \E t \in Handlers : Handler(t)
           \/ Local \/ Remote
           \/ \E m \in RemoteMessages : MqttCommandReceived(m)
  BY <1>1, <1>2, <1>7, CommandFrame, OnlyOwnPosition, Zenon DEF commandOthers, store, Threads, Handlers
<1>8. CASE Storage
  <2>1. CASE StorageControl
    <3>1. CASE Goto("storage", "result")
      BY <1>1, <3>1, Zenon DEF Goto, PositionsOK, Threads
    <3>2. CASE /\ ~IsEmpty(control_request_queue)
               /\ sto' = [sto EXCEPT !.request = Head(control_request_queue)]
               /\ Goto("storage", "serve")
      BY <1>1, <3>2, PopFacts, Zenon DEF Goto, PositionsOK, Threads, CommandTypeOK
    <3> QED
      BY <2>1, <3>1, <3>2, Zenon DEF StorageControl
  <2>2. CASE StorageSchedule
    <3>1. HasPending(rows') \/ LoopAgain(sto) \/ Goto("storage", "done")
      BY <2>2, Zenon DEF StorageSchedule, StorageFail, WorkerFail, store
    <3>2. pc'["storage"] # "serve"
      BY <1>1, <2>2, Zenon DEF StorageSchedule, StorageFail, WorkerFail, Goto, LoopAgain, PositionsOK,
           Threads
    <3> QED
      BY <1>1, <3>1, <3>2, Zenon DEF Goto, LoopAgain, PositionsOK, Threads
  <2>3. CASE StorageServe \/ StorageResult \/ StorageMeasure \/ StorageEnqueue
    <3>1. \E w \in {"control", "result", "measure", "schedule", "done"} : Goto("storage", w)
      BY <2>3, Zenon DEF StorageServe, StorageResult, StorageMeasure, StorageEnqueue, StorageFail,
           WorkerFail, LoopAgain
    <3> QED
      BY <1>1, <3>1, Zenon DEF Goto, PositionsOK, Threads
  <2> QED
    BY <1>8, <2>1, <2>2, <2>3, Zenon DEF Storage
<1>9. CASE BackoffExpires
  <2>1. UNCHANGED <<rows, pc>> /\ sto' = [sto EXCEPT !.backoff = FALSE]
    BY <1>9 DEF BackoffExpires, store
  <2>2. sto'.request = sto.request
    BY <1>1, <2>1, Zenon DEF CommandTypeOK
  <2> QED
    BY <1>1, <2>1, <2>2, Zenon DEF LocalsAtPositions
<1>10. CASE Crash \/ Reap
  BY <1>10, Zenon DEF Crash, Reap, ProcessEnds, AllUnborn, Threads
<1>11. CASE Finished
  BY <1>2, <1>11, Zenon DEF Finished, vars, store
<1> QED
  BY <1>3, <1>4, <1>5, <1>6, <1>7, <1>8, <1>9, <1>10, <1>11, Zenon DEF Next

\* A set_interval result carries an interval that the command validated.
LEMMA ResultIntervalsStep ==
    ASSUME DeliveryInv, Next
    PROVE  \A i \in DOMAIN control_result_queue' :
               control_result_queue'[i].kind = "set_interval" =>
                   control_result_queue'[i].interval_ms \in Intervals
<1> DEFINE Good(q) == \A i \in DOMAIN q : q[i].kind = "set_interval" => q[i].interval_ms \in Intervals
           Result == [kind : Kinds, ok : BOOLEAN, interval_ms : Intervals \cup {NoInterval}]
<1>1. LocalsAtPositions /\ control_result_queue \in Seq(Result)
  BY Zenon DEF DeliveryInv, TypeOK, CommandTypeOK
<1>2. Good(control_result_queue)
  BY <1>1, Zenon DEF LocalsAtPositions
<1> HIDE DEF Result
<1>3. CASE UNCHANGED control_result_queue
  BY <1>2, <1>3, Zenon
<1>4. CASE ~IsEmpty(control_result_queue) /\ control_result_queue' = Tail(control_result_queue)
  BY <1>1, <1>2, <1>4, PopFacts, SMTT(60)
<1>5. CASE StorageServe /\ ~UNCHANGED control_result_queue
  <2>1. PICK ok \in BOOLEAN :
            control_result_queue' = Append(control_result_queue,
                                           [kind |-> sto.request.kind, ok |-> ok,
                                            interval_ms |-> sto.request.interval_ms])
    BY <1>5 DEF StorageServe
  <2>2. sto.request \in Request
    BY <1>1, <1>5, Zenon DEF LocalsAtPositions, StorageServe
  <2> DEFINE e == [kind |-> sto.request.kind, ok |-> ok,
                   interval_ms |-> sto.request.interval_ms]
  <2>3. e \in Result /\ (e.kind = "set_interval" => e.interval_ms \in Intervals)
    BY <2>2, Zenon DEF Request, Command, Result
  <2>4. control_result_queue' = Append(control_result_queue, e)
    BY <2>1, Zenon
  <2> HIDE DEF e
  <2> QED
    BY <1>1, <1>2, <2>3, <2>4, PushFacts
<1>6. CASE Source
  BY <1>3, <1>6, SourceFrame, Zenon DEF sourceOthers, ctlQ
<1>7. CASE Mqtt \/ \E id \in net : BrokerReceive(id)
  BY <1>3, <1>7, MqttFrame, Zenon DEF mqttOthers, ctlQ
<1>8. CASE StartProcess \/ Coordinator \/ SignalArrives
  BY <1>3, <1>8, CoordinatorFrame, Zenon DEF coordOthers, ctlQ
<1>9. CASE \E t \in Handlers : Handler(t)
  BY <1>3, <1>4, <1>9, Zenon DEF Handler, LockCommandMutex, ExecuteHere, AskStorage,
       TakeStorageAnswer, AbandonRequest, ctlQ
<1>10. CASE Local \/ Remote \/ \E m \in RemoteMessages : MqttCommandReceived(m)
  BY <1>3, <1>10, Zenon DEF Local, LocalBind, LocalReceive, LocalLeave, LocalAnswer, localOthers,
       Remote, RemotePop, RemoteAnswer, RemotePublish, MqttCommandReceived, remoteOthers, ctlQ
<1>11. CASE Storage \/ BackoffExpires
  BY <1>3, <1>5, <1>11, Zenon DEF Storage, BackoffExpires, StorageControl, StorageResult,
       StorageMeasure, StorageSchedule, StorageEnqueue, ctlQ
<1>12. CASE Crash \/ Reap
  <2>1. control_result_queue' = <<>>
    BY <1>12, Zenon DEF Crash, Reap, ProcessEnds
  <2> QED
    BY <2>1
<1>13. CASE Finished
  BY <1>3, <1>13, Zenon DEF Finished, vars, ctlQ
<1> QED
  BY <1>6, <1>7, <1>8, <1>9, <1>10, <1>11, <1>12, <1>13, Zenon DEF Next

\* A handler that executes a command has a valid one, and the remote worker has
\* a valid request id for it.
LEMMA HandlerLocalsStep ==
    ASSUME DeliveryInv, Next
    PROVE  /\ \A t \in Handlers :
                 pc'[t] \in {"lock", "execute", "await", "answer"} => command'[t] \in Command
           /\ pc'["remote"] \in {"lock", "execute", "await", "answer"} =>
                 request_id' \in RequestIds
<1> DEFINE Busy == {"lock", "execute", "await", "answer"}
<1> USE DEF Handlers
<1>1. PositionsOK /\ LocalsAtPositions /\ CommandTypeOK
  BY DEF DeliveryInv, TypeOK
<1>2. ASSUME UNCHANGED <<command, request_id>>,
             \A t \in Handlers : pc'[t] \in Busy => pc[t] \in Busy
      PROVE  /\ \A t \in Handlers : pc'[t] \in Busy => command'[t] \in Command
             /\ pc'["remote"] \in Busy => request_id' \in RequestIds
  BY <1>1, <1>2, Zenon DEF LocalsAtPositions
<1>3. CASE StartProcess \/ Coordinator
  BY <1>2, <1>3, CoordinatorFrame, CoordinatorPositions, StartOrderFacts
     DEF coordOthers, handL, Threads
<1>4. CASE SignalArrives
  BY <1>2, <1>4, Zenon DEF SignalArrives, coordOthers, handL
<1>5. CASE Source
  BY <1>1, <1>2, <1>5, SourceFrame, OnlyOwnPosition, Zenon DEF sourceOthers, handL, Threads
<1>6. CASE Mqtt \/ \E id \in net : BrokerReceive(id)
  BY <1>1, <1>2, <1>6, MqttFrame, OnlyOwnPosition, Zenon DEF mqttOthers, handL, Threads
<1>7. CASE Storage \/ BackoffExpires
  BY <1>1, <1>2, <1>7, StorageFrame, OnlyOwnPosition, Zenon DEF storageOthers, handL, Threads
<1>8. CASE \E t \in Handlers : Handler(t)
  <2>1. PICK t \in Handlers : Handler(t)
    BY <1>8
  <2>2. UNCHANGED <<command, request_id>> /\ pc[t] \in Busy
    BY <2>1, Zenon DEF Handler, LockCommandMutex, ExecuteHere, AskStorage, TakeStorageAnswer,
         AbandonRequest
  <2>3. \A u \in Handlers \ {t} : pc'[u] = pc[u]
    BY <1>1, <2>1, OnlyOwnPosition, Zenon DEF Threads
  <2> QED
    BY <1>2, <2>2, <2>3, Zenon
<1>9. CASE Local
  <2>1. pc'["remote"] = pc["remote"] /\ UNCHANGED request_id
    BY <1>1, <1>9, OnlyOwnPosition, Zenon DEF Threads, Local, LocalBind, LocalReceive, LocalLeave,
         LocalAnswer, localOthers
  <2>2. CASE LocalReceive
    <3>1. PICK c \in LocalCommands : command' = [command EXCEPT !["local"] = c]
      BY <2>2, Zenon DEF LocalReceive
    <3>2. c \in Command
      BY ConstantsAssumption
    <3>3. command'["local"] = c /\ command'["remote"] = command["remote"]
      BY <1>1, <3>1, Zenon DEF CommandTypeOK
    <3> QED
      BY <1>1, <2>1, <3>2, <3>3, Zenon DEF LocalsAtPositions
  <2>3. CASE LocalBind \/ LocalLeave \/ LocalAnswer
    <3>1. UNCHANGED command /\ \E w \in {"listen", "done"} : Goto("local", w)
      BY <2>3, Zenon DEF LocalBind, LocalLeave, LocalAnswer, WorkerFail
    <3> QED
      BY <1>1, <1>2, <2>1, <3>1, Zenon DEF Goto, PositionsOK, Threads
  <2> QED
    BY <1>9, <2>2, <2>3, Zenon DEF Local
<1>10. CASE \E m \in RemoteMessages : MqttCommandReceived(m)
  BY <1>2, <1>10, Zenon DEF MqttCommandReceived
<1>11. CASE RemoteAnswer \/ RemotePublish
  <2>1. UNCHANGED <<command, request_id>> /\ \E w \in {"publish", "pop", "done"} : Goto("remote", w)
    BY <1>11, Zenon DEF RemoteAnswer, RemotePublish, WorkerFail
  <2> QED
    BY <1>1, <1>2, <2>1, Zenon DEF Goto, PositionsOK, Threads
<1>12. CASE RemotePop
  <2>1. CASE /\ UNCHANGED <<command, request_id>>
             /\ \E w \in {"pop", "publish", "done"} : Goto("remote", w)
    BY <1>1, <1>2, <2>1, Zenon DEF Goto, PositionsOK, Threads
  <2>2. CASE ~(/\ UNCHANGED <<command, request_id>>
               /\ \E w \in {"pop", "publish", "done"} : Goto("remote", w))
    <3> DEFINE m == Head(mqtt_command_queue)
    <3>1. /\ ~IsEmpty(mqtt_command_queue)
          /\ m.request_id # BadId /\ m.command # Unsupported
          /\ command' = [command EXCEPT !["remote"] = m.command]
          /\ request_id' = m.request_id
          /\ Goto("remote", "lock")
      BY <1>12, <2>2, Zenon DEF RemotePop, WorkerFail
    <3>2. m \in RemoteMessage
      BY <1>1, <3>1, PopFacts, Zenon DEF CommandTypeOK
    <3>3. m.request_id \in RequestIds /\ m.command \in Command
      BY <3>1, <3>2, Zenon DEF RemoteMessage
    <3> HIDE DEF m
    <3>4. command'["remote"] = m.command /\ command'["local"] = command["local"]
      BY <1>1, <3>1, Zenon DEF CommandTypeOK
    <3>5. pc'["local"] = pc["local"]
      BY <1>1, <3>1, Zenon DEF Goto, PositionsOK, Threads
    <3> QED
      BY <1>1, <3>1, <3>3, <3>4, <3>5, Zenon DEF LocalsAtPositions
  <2> QED
    BY <2>1, <2>2, Zenon
<1>13. CASE Crash \/ Reap
  BY <1>13, Zenon DEF Crash, Reap, ProcessEnds, AllUnborn, Threads
<1>14. CASE Finished
  BY <1>2, <1>14, Zenon DEF Finished, vars, handL
<1> QED
  BY <1>3, <1>4, <1>5, <1>6, <1>7, <1>8, <1>9, <1>10, <1>11, <1>12, <1>13, <1>14, Zenon
     DEF Next, Remote

\* The coordinator counts through its start list and its stop list from the top.
LEMMA StepLocalsStep ==
    ASSUME DeliveryInv, Next
    PROVE  /\ pc'["coordinator"] = "start" => step' <= Len(StartOrder)
           /\ pc'["coordinator"] \in {"down", "run", "stop"} => step' = 1
<1>1. PositionsOK /\ LocalsAtPositions /\ CountersOK
  BY Zenon DEF DeliveryInv, TypeOK
<1>2. CASE UNCHANGED step /\ pc'["coordinator"] = pc["coordinator"]
  BY <1>1, <1>2, Zenon DEF LocalsAtPositions
<1>3. CASE StartProcess \/ StopWaiting \/ RequestStop \/ ReturnResult
  <2>1. \/ /\ pc["coordinator"] \in {"down", "run"} /\ UNCHANGED step
           /\ pc'["coordinator"] \in {"start", "stop"}
        \/ pc'["coordinator"] \in {"shutdown", "exited"}
    BY <1>1, <1>3, Zenon DEF StartProcess, StopWaiting, RequestStop, ReturnResult, coordL, Goto,
         PositionsOK, Threads
  <2>2. pc["coordinator"] \in {"down", "run"} => step = 1
    BY <1>1, Zenon DEF LocalsAtPositions
  <2>3. 1 <= Len(StartOrder)
    BY StartOrderFacts
  <2> QED
    BY <2>1, <2>2, <2>3, Zenon
<1>4. CASE StartWorker
  <2>1. step \in 1 .. 6 /\ Len(StartOrder) = 6
    BY <1>4, StartAt, Zenon
  <2>2. CASE Goto("coordinator", "stop") /\ step' = 1
    BY <1>1, <2>2, Zenon DEF Goto, PositionsOK, Threads
  <2>3. CASE /\ pc' = [pc EXCEPT ![StartOrder[step]] = Entry[StartOrder[step]],
                                 !["coordinator"] = IF step = Len(StartOrder)
                                                    THEN "run" ELSE "start"]
             /\ step' = IF step = Len(StartOrder) THEN 1 ELSE step + 1
    <3>1. pc'["coordinator"] = IF step = 6 THEN "run" ELSE "start"
      BY <1>1, <2>1, <2>3, Zenon DEF PositionsOK, Threads
    <3> QED
      BY <2>1, <2>3, <3>1
  <2> QED
    BY <1>4, <2>2, <2>3, Zenon DEF StartWorker
<1>5. CASE ShutdownStep
  <2>1. pc["coordinator"] = "shutdown" /\ pc'["coordinator"] = "shutdown"
    <3>1. UNCHANGED pc \/ Goto("receiver", "done")
      BY <1>5, ShutdownAt, Zenon
    <3> QED
      BY <1>1, <1>5, <3>1, Zenon DEF ShutdownStep, Goto, PositionsOK, Threads
  <2> QED
    BY <2>1
<1>6. CASE SignalArrives \/ Finished
  BY <1>2, <1>6, Zenon DEF SignalArrives, Finished, coordL, vars
<1>7. CASE Source
  BY <1>1, <1>2, <1>7, SourceFrame, OnlyOwnPosition, Zenon DEF sourceOthers, coordL, Threads
<1>8. CASE Mqtt \/ \E id \in net : BrokerReceive(id)
  BY <1>1, <1>2, <1>8, MqttFrame, OnlyOwnPosition, Zenon DEF mqttOthers, coordL, Threads
<1>9. CASE Storage \/ BackoffExpires
  BY <1>1, <1>2, <1>9, StorageFrame, OnlyOwnPosition, Zenon DEF storageOthers, coordL, Threads
<1>10. CASE \/ \E t \in Handlers : Handler(t)
            \/ Local \/ Remote
            \/ \E m \in RemoteMessages : MqttCommandReceived(m)
  BY <1>1, <1>2, <1>10, CommandFrame, OnlyOwnPosition, Zenon DEF commandOthers, coordL, Threads,
       Handlers
<1>11. CASE Crash \/ Reap
  BY <1>11, Zenon DEF Crash, Reap, ProcessEnds, AllUnborn, Threads
<1> QED
  BY <1>3, <1>4, <1>5, <1>6, <1>7, <1>8, <1>9, <1>10, <1>11, Zenon DEF Next, Coordinator

\* The part of the invariant that keeps the types and the locals.
LEMMA TypeStep ==
    ASSUME DeliveryInv, Next
    PROVE  TypeOK' /\ LocalsAtPositions'
<1>1. TypeOK'
  BY StoreTypeStep, FlagsTypeStep, DataTypeStep, CommandTypeStep, PositionsStep, CountersStep, Zenon
     DEF TypeOK
<1>2. LocalsAtPositions'
  BY StorageLocalsStep, ResultIntervalsStep, HandlerLocalsStep, StepLocalsStep, Zenon
     DEF LocalsAtPositions
<1> QED
  BY <1>1, <1>2, Zenon
-----------------------------------------------------------------------------
\* Every step preserves what starts and stops the mqtt worker: it outlives every
\* record the storage worker may still hand to it.
LEMMA LifeCycleStep ==
    ASSUME DeliveryInv, Next
    PROVE  MqttLifeCycle'
<1> USE DEF Threads, Handlers
<1>1. /\ MqttLifeCycle /\ PositionsOK /\ CountersOK /\ LocalsAtPositions /\ InFlightKnown
      /\ DataTypeOK /\ FlagsTypeOK
  BY Zenon DEF DeliveryInv, TypeOK
<1>2. ASSUME UNCHANGED <<closed, delivery_queue, step>>,
             \A t \in {"mqtt", "storage", "coordinator"} : pc'[t] = pc[t],
             stop_requested => stop_requested'
      PROVE  MqttLifeCycle'
  BY <1>1, <1>2, Zenon DEF MqttLifeCycle
<1>3. CASE StartProcess
  <2>1. /\ UNCHANGED <<closed, delivery_queue, stop_requested, step>>
        /\ pc["coordinator"] = "down" /\ Goto("coordinator", "start")
    BY <1>3, Zenon DEF StartProcess, coordOthers, dataQ, flags, coordL
  <2>2. /\ pc'["coordinator"] = "start"
        /\ pc'["mqtt"] = pc["mqtt"] /\ pc'["storage"] = pc["storage"]
    BY <1>1, <2>1, Zenon DEF Goto, PositionsOK
  <2>3. pc["mqtt"] = "unborn" /\ step = 1
    BY <1>1, <2>1, Zenon DEF MqttLifeCycle, LocalsAtPositions
  <2>4. step' <= 3
    BY <2>1, <2>3
  <2> QED
    BY <1>1, <2>1, <2>2, <2>3, <2>4, Zenon DEF MqttLifeCycle
<1>4. CASE StartWorker
  <2>1. /\ UNCHANGED <<closed, delivery_queue, stop_requested>>
        /\ pc["coordinator"] = "start" /\ step \in {1, 2, 3, 4, 5, 6}
    BY <1>4, StartAt, Zenon DEF StartWorker, coordOthers, dataQ, flags
  <2>2. CASE Goto("coordinator", "stop")
    BY <1>1, <2>1, <2>2 DEF Goto, PositionsOK, MqttLifeCycle
  <2>3. CASE /\ pc' = [pc EXCEPT ![StartOrder[step]] = Entry[StartOrder[step]],
                                 !["coordinator"] = IF step = Len(StartOrder)
                                                    THEN "run" ELSE "start"]
             /\ step' = IF step = Len(StartOrder) THEN 1 ELSE step + 1
    <3>1. CASE step = 3
      <4>1. /\ pc'["mqtt"] = "pop" /\ pc'["coordinator"] = "start" /\ step' = 4
            /\ pc'["storage"] = pc["storage"]
        BY <1>1, <2>3, <3>1, StartOrderFacts DEF PositionsOK
      <4> QED
        BY <1>1, <2>1, <3>1, <4>1 DEF MqttLifeCycle
    <3>2. CASE step = 4
      <4>1. /\ pc'["mqtt"] = pc["mqtt"] /\ pc'["coordinator"] = "start" /\ step' = 5
            /\ pc'["storage"] = "control"
        BY <1>1, <2>3, <3>2, StartOrderFacts DEF PositionsOK
      <4> QED
        BY <1>1, <2>1, <3>2, <4>1 DEF MqttLifeCycle
    <3>3. CASE step \in {1, 2, 5, 6}
      <4>1. /\ pc'["mqtt"] = pc["mqtt"] /\ pc'["storage"] = pc["storage"]
            /\ IF step = 6 THEN pc'["coordinator"] = "run"
                           ELSE pc'["coordinator"] = "start" /\ step' = step + 1
        <5>1. StartOrder[step] \in {"remote", "receiver", "source", "local"} /\ Len(StartOrder) = 6
          BY <3>3, StartOrderFacts, Zenon
        <5> QED
          BY <1>1, <2>3, <5>1, Zenon DEF PositionsOK
      <4>2. step # 6 => (step' <= 3 <=> step <= 3)
        BY <3>3, <4>1
      <4> QED
        BY <1>1, <2>1, <4>1, <4>2, Zenon DEF MqttLifeCycle
    <3> QED
      BY <2>1, <3>1, <3>2, <3>3, Zenon
  <2> QED
    BY <1>4, <2>2, <2>3, Zenon DEF StartWorker
<1>5. CASE StopWaiting \/ ReturnResult
  <2>1. /\ UNCHANGED <<closed, delivery_queue, stop_requested>>
        /\ \/ pc["coordinator"] = "run" /\ Goto("coordinator", "stop")
           \/ pc["coordinator"] = "shutdown" /\ Goto("coordinator", "exited")
    BY <1>5, Zenon DEF StopWaiting, ReturnResult, coordOthers, dataQ, flags
  <2>2. /\ \/ pc["coordinator"] = "run" /\ pc'["coordinator"] = "stop"
           \/ pc["coordinator"] = "shutdown" /\ pc'["coordinator"] = "exited"
        /\ pc'["mqtt"] = pc["mqtt"] /\ pc'["storage"] = pc["storage"]
    BY <1>1, <2>1, Zenon DEF Goto, PositionsOK
  <2> QED
    BY <1>1, <2>1, <2>2, Zenon DEF MqttLifeCycle
<1>6. CASE RequestStop
  <2>1. /\ UNCHANGED <<closed, delivery_queue, step>> /\ stop_requested' = TRUE
        /\ pc["coordinator"] = "stop" /\ Goto("coordinator", "shutdown")
    BY <1>6, Zenon DEF RequestStop, coordOthers, dataQ, coordL
  <2>2. /\ pc'["coordinator"] = "shutdown" /\ ~(step' > 9)
        /\ pc'["mqtt"] = pc["mqtt"] /\ pc'["storage"] = pc["storage"]
    <3>1. step = 1
      BY <1>1, <2>1, Zenon DEF LocalsAtPositions
    <3>2. ~(step' > 9)
      BY <2>1, <3>1
    <3> QED
      BY <1>1, <2>1, <3>2, Zenon DEF Goto, PositionsOK
  <2> QED
    BY <1>1, <2>1, <2>2, Zenon DEF MqttLifeCycle
<1>7. CASE ShutdownStep
  <2>1. /\ pc["coordinator"] = "shutdown" /\ step \in 1 .. 12 /\ step' = step + 1
        /\ UNCHANGED <<delivery_queue, stop_requested>>
    BY <1>7, ShutdownAt, Zenon DEF ShutdownStep, coordOthers, dataQ, flags
  <2>2. \A t \in {"mqtt", "storage", "coordinator"} : pc'[t] = pc[t]
    <3>1. UNCHANGED pc \/ Goto("receiver", "done")
      BY <1>7, ShutdownAt, Zenon
    <3> QED
      BY <1>1, <3>1 DEF Goto, PositionsOK
  <2>3. closed \subseteq closed' /\ ("result" \in closed' => "result" \in closed \/ step = 10)
    BY <1>7, <2>1, StopOrderFacts, Zenon DEF ShutdownStep
  <2>4. step = 9 => pc["mqtt"] \in {"unborn", "done"}
    BY <1>7, <2>1, StopOrderFacts, Zenon DEF ShutdownStep
  <2>5. (step' > 9 => step > 9 \/ step = 9) /\ (step = 10 => step > 9)
    BY <2>1
  <2> QED
    BY <1>1, <2>1, <2>2, <2>3, <2>4, <2>5, Zenon DEF MqttLifeCycle
<1>8. CASE SignalArrives
  BY <1>2, <1>8, Zenon DEF SignalArrives, coordOthers, dataQ, coordL
<1>9. CASE Source
  <2>1. UNCHANGED <<closed, delivery_queue, step>>
    BY <1>9, SourceFrame, Zenon DEF sourceOthers, coordL
  <2>2. stop_requested => stop_requested'
    BY <1>9, Zenon DEF Source, SourceLoop, SourceNext, SourcePush, SourceRetry, flags, WorkerFail
  <2> QED
    BY <1>1, <1>2, <1>9, <2>1, <2>2, OnlyOwnPosition, Zenon
<1>10. CASE Storage
  <2>1. UNCHANGED <<closed, step>> /\ \A t \in {"mqtt", "coordinator"} : pc'[t] = pc[t]
    BY <1>1, <1>10, StorageFrame, OnlyOwnPosition, Zenon DEF storageOthers, coordL
  <2>2. stop_requested => stop_requested'
    BY <1>10, Zenon DEF Storage, StorageControl, StorageServe, StorageResult, StorageMeasure,
         StorageSchedule, StorageEnqueue, StorageFail, WorkerFail
  <2>3. pc["storage"] # "unborn" /\ pc["mqtt"] # "unborn"
    BY <1>1, <1>10, Zenon DEF Storage, StorageControl, StorageServe, StorageResult, StorageMeasure,
         StorageSchedule, StorageEnqueue, MqttLifeCycle
  <2>4. UNCHANGED delivery_queue \/ (pc["storage"] = "enqueue" /\ "delivery" \notin closed)
    BY <1>10, Zenon DEF Storage, StorageControl, StorageServe, StorageResult, StorageMeasure,
         StorageSchedule, StorageEnqueue, dataQ
  <2>5. pc'["storage"] = "enqueue" => ~stop_requested
    <3>1. CASE StorageSchedule
      <4>1. ~stop_requested \/ LoopAgain(sto) \/ Goto("storage", "done")
        BY <3>1, Zenon DEF StorageSchedule, ShouldStop, StorageFail, WorkerFail
      <4> QED
        BY <1>1, <4>1, Zenon DEF Goto, LoopAgain, PositionsOK
    <3>2. CASE ~StorageSchedule
      <4>1. \E w \in {"control", "serve", "result", "measure", "schedule", "done"} :
               Goto("storage", w)
        BY <1>10, <3>2, Zenon DEF Storage, StorageControl, StorageServe, StorageResult, StorageMeasure,
             StorageEnqueue, StorageFail, WorkerFail, LoopAgain
      <4> QED
        BY <1>1, <4>1, Zenon DEF Goto, PositionsOK
    <3> QED
      BY <3>1, <3>2, Zenon
  <2> QED
    BY <1>1, <2>1, <2>2, <2>3, <2>4, <2>5, Zenon DEF MqttLifeCycle
<1>11. CASE BackoffExpires
  BY <1>2, <1>11, Zenon DEF BackoffExpires, storageOthers, dataQ, coordL
<1>12. CASE MqttPop
  <2>1. UNCHANGED <<closed, step>> /\ \A t \in {"storage", "coordinator"} : pc'[t] = pc[t]
    BY <1>1, <1>12, OnlyOwnPosition, Zenon DEF MqttPop, Mqtt, mqttOthers, coordL
  <2>2. CASE ~IsEmpty(delivery_queue)
    <3>1. /\ delivery_queue' = Tail(delivery_queue) /\ pc'["mqtt"] \in {"publish", "close"}
          /\ stop_requested => stop_requested'
          /\ pc'["mqtt"] = "close" => stop_requested'
      BY <1>1, <1>12, <2>2 DEF MqttPop, WorkerFail, Goto, PositionsOK, flags
    <3>2. Len(delivery_queue) = 1 /\ delivery_queue' = <<>>
      <4>1. delivery_queue \in Seq(Ids) /\ Len(delivery_queue) <= 1
        BY <1>1, Zenon DEF DataTypeOK
      <4>2. /\ Tail(delivery_queue) \in Seq(Ids)
            /\ Len(Tail(delivery_queue)) = Len(delivery_queue) - 1
        BY <2>2, <4>1, PopFacts, Zenon
      <4>3. Len(delivery_queue) = 1
        <5>1. Len(delivery_queue) # 0 /\ Len(delivery_queue) \in Nat
          BY <2>2, <4>1, EmptyByLength, Zenon DEF IsEmpty
        <5> QED
          BY <4>1, <5>1
      <4>4. Tail(delivery_queue) = <<>>
        <5>1. Len(Tail(delivery_queue)) = 0
          BY <4>2, <4>3
        <5> QED
          BY <4>2, <5>1, EmptyByLength, Zenon
      <4> QED
        BY <3>1, <4>3, <4>4, Zenon
    <3>3. pc["storage"] # "enqueue"
      <4>1. result_queue \in Seq([id : Ids, ok : BOOLEAN])
        BY <1>1, Zenon DEF DataTypeOK
      <4>2. Len(result_queue) \in Nat
        BY <4>1
      <4>3. Travelling \in Nat /\ ~(Travelling = 0)
        BY <3>2, <4>2 DEF Travelling
      <4>4. Travelling <= 1
        BY <1>1, Zenon DEF InFlightKnown
      <4>5. Travelling = 1
        BY <4>3, <4>4
      <4> QED
        BY <1>1, <4>5, Zenon DEF InFlightKnown
    <3> QED
      BY <1>1, <1>12, <2>1, <3>1, <3>2, <3>3, Zenon DEF MqttLifeCycle, MqttPop
  <2>3. CASE IsEmpty(delivery_queue)
    <3>1. /\ delivery_queue' = <<>> /\ pc'["mqtt"] = "close" /\ "delivery" \in closed
          /\ UNCHANGED stop_requested
      BY <1>1, <1>12, <2>3, Zenon DEF MqttPop, Goto, PositionsOK, flags, IsEmpty
    <3> QED
      BY <1>1, <1>12, <2>1, <3>1, Zenon DEF MqttLifeCycle, MqttPop
  <2> QED
    BY <2>2, <2>3, Zenon
<1>13. CASE MqttPublish \/ MqttAcknowledged \/ MqttGaveUp \/ MqttReport
  <2>1. /\ UNCHANGED <<closed, step, delivery_queue, stop_requested>>
        /\ \A t \in {"storage", "coordinator"} : pc'[t] = pc[t]
    BY <1>1, <1>13, OnlyOwnPosition, Zenon DEF MqttPublish, MqttAcknowledged, MqttGaveUp, MqttReport,
         Mqtt, mqttOthers, coordL, flags
  <2>2. pc["mqtt"] \in {"publish", "wait", "report"} /\ pc'["mqtt"] \in {"wait", "report", "pop"}
    BY <1>1, <1>13, Zenon DEF MqttPublish, MqttAcknowledged, MqttGaveUp, MqttReport, Goto, PositionsOK
  <2> QED
    BY <1>1, <2>1, <2>2, Zenon DEF MqttLifeCycle
<1>14. CASE MqttClose
  <2>1. /\ UNCHANGED <<step, delivery_queue, stop_requested>> /\ closed' = closed \cup {"result"}
        /\ \A t \in {"storage", "coordinator"} : pc'[t] = pc[t]
        /\ pc["mqtt"] = "close" /\ pc'["mqtt"] = "done"
    BY <1>1, <1>14, OnlyOwnPosition, Zenon DEF MqttClose, Mqtt, mqttOthers, coordL, flags, Goto,
         PositionsOK
  <2> QED
    BY <1>1, <2>1, Zenon DEF MqttLifeCycle
<1>15. CASE \E id \in net : BrokerReceive(id)
  BY <1>2, <1>15 DEF BrokerReceive, mqttOthers, coordL, flags
<1>16. CASE \/ \E t \in Handlers : Handler(t)
            \/ Local \/ Remote
            \/ \E m \in RemoteMessages : MqttCommandReceived(m)
  <2>1. UNCHANGED <<delivery_queue, step>>
    BY <1>16, CommandFrame, Zenon DEF commandOthers, dataQ, coordL
  <2>2. UNCHANGED closed
    BY <1>16, Zenon DEF Handler, LockCommandMutex, ExecuteHere, AskStorage, TakeStorageAnswer,
         AbandonRequest, Local, LocalBind, LocalReceive, LocalLeave, LocalAnswer, localOthers,
         Remote, RemotePop, RemoteAnswer, RemotePublish, MqttCommandReceived, remoteOthers
  <2>3. stop_requested => stop_requested'
    BY <1>16, Zenon DEF Handler, LockCommandMutex, ExecuteHere, AskStorage, TakeStorageAnswer,
         AbandonRequest, HandlerFail, Answer, Local, LocalBind, LocalReceive, LocalLeave,
         LocalAnswer, Remote, RemotePop, RemoteAnswer, RemotePublish, MqttCommandReceived,
         WorkerFail
  <2>4. \A t \in {"mqtt", "storage", "coordinator"} : pc'[t] = pc[t]
    BY <1>1, <1>16, OnlyOwnPosition, Zenon
  <2> QED
    BY <1>2, <2>1, <2>2, <2>3, <2>4, Zenon
<1>17. CASE Crash \/ Reap
  BY <1>17, Zenon DEF Crash, Reap, ProcessEnds, AllUnborn, MqttLifeCycle
<1>18. CASE Finished
  BY <1>2, <1>18, Zenon DEF Finished, vars, dataQ, coordL, flags
<1> QED
  BY <1>3, <1>4, <1>5, <1>6, <1>7, <1>8, <1>9, <1>10, <1>11, <1>12, <1>13, <1>14, <1>15,
     <1>16, <1>17, <1>18, Zenon DEF Next, Coordinator, Mqtt

\* delivery_queue and result_queue, created with capacity 1, hold one record or none.
LEMMA OneSlotQueues ==
    ASSUME DeliveryInv
    PROVE  /\ delivery_queue \in Seq(Ids) /\ Len(delivery_queue) \in {0, 1}
           /\ result_queue \in Seq([id : Ids, ok : BOOLEAN]) /\ Len(result_queue) \in {0, 1}
<1>1. /\ delivery_queue \in Seq(Ids) /\ Len(delivery_queue) <= 1
      /\ result_queue \in Seq([id : Ids, ok : BOOLEAN]) /\ Len(result_queue) <= 1
  BY DEF DeliveryInv, TypeOK, DataTypeOK
<1>2. Len(delivery_queue) \in Nat /\ Len(result_queue) \in Nat
  BY <1>1, EmptyByLength, Zenon
<1>3. \A n \in Nat : n <= 1 => n \in {0, 1}
  OBVIOUS
<1> QED
  BY <1>1, <1>2, <1>3, Zenon

\* Every step preserves the single record in flight: delivery_inflight is set when
\* a record is queued and cleared only when its report is read, or when
\* result_queue is closed and nothing travels any more.
LEMMA InFlightStep ==
    ASSUME DeliveryInv, Next
    PROVE  InFlightKnown'
<1> USE DEF Threads, Handlers
<1>1. /\ InFlightKnown /\ MqttLifeCycle /\ PositionsOK /\ LocalsAtPositions /\ CommandTypeOK
  BY DEF DeliveryInv, TypeOK
<1>2. /\ delivery_queue \in Seq(Ids) /\ Len(delivery_queue) \in {0, 1}
      /\ result_queue \in Seq([id : Ids, ok : BOOLEAN]) /\ Len(result_queue) \in {0, 1}
  BY OneSlotQueues, Zenon
<1>3. ASSUME UNCHANGED <<delivery_queue, result_queue, sto>>,
             MqttBusy' = MqttBusy,
             pc'["storage"] = "enqueue" => pc["storage"] = "enqueue"
      PROVE  InFlightKnown'
  BY <1>1, <1>3, Zenon DEF InFlightKnown, Travelling
<1>4. CASE StartProcess \/ Coordinator
  <2>1. UNCHANGED <<delivery_queue, result_queue, sto>>
    BY <1>4, CoordinatorFrame, Zenon DEF coordOthers, dataQ
  <2>2. pc'["storage"] = "enqueue" => pc["storage"] = "enqueue"
    BY <1>4, CoordinatorPositions, StartOrderFacts, Zenon
  <2>3. pc'["mqtt"] = pc["mqtt"] \/ (pc["mqtt"] = "unborn" /\ pc'["mqtt"] = "pop")
    BY <1>1, <1>4, CoordinatorPositions, StartOrderFacts DEF MqttLifeCycle
  <2> QED
    BY <1>3, <2>1, <2>2, <2>3 DEF MqttBusy
<1>5. CASE SignalArrives
  BY <1>3, <1>5, Zenon DEF SignalArrives, coordOthers, dataQ, MqttBusy
<1>6. CASE Source
  BY <1>1, <1>3, <1>6, SourceFrame, OnlyOwnPosition, Zenon DEF sourceOthers, MqttBusy
<1>7. CASE \/ \E t \in Handlers : Handler(t)
           \/ Local \/ Remote
           \/ \E m \in RemoteMessages : MqttCommandReceived(m)
  BY <1>1, <1>3, <1>7, CommandFrame, OnlyOwnPosition, Zenon DEF commandOthers, dataQ, MqttBusy
<1>8. ASSUME Storage PROVE UNCHANGED MqttBusy
  BY <1>1, <1>8, OnlyOwnPosition, Zenon DEF MqttBusy
<1>9. CASE StorageControl \/ StorageServe \/ StorageMeasure \/ StorageSchedule
  <2>1. UNCHANGED <<delivery_queue, result_queue>> /\ sto'.inflight = sto.inflight
    BY <1>1, <1>9, Zenon DEF StorageControl, StorageServe, StorageMeasure, StorageSchedule, dataQ,
         CommandTypeOK
  <2>2. pc'["storage"] = "enqueue" => ~sto.inflight
    BY <1>1, <1>9, Zenon DEF StorageControl, StorageServe, StorageMeasure, StorageSchedule,
         StorageFail, WorkerFail, Goto, LoopAgain, PositionsOK
  <2>3. UNCHANGED MqttBusy
    BY <1>8, <1>9, Zenon DEF Storage
  <2> QED
    BY <1>1, <2>1, <2>2, <2>3, Zenon DEF InFlightKnown, Travelling
<1>10. CASE StorageResult
  <2>1. UNCHANGED <<delivery_queue, MqttBusy>> /\ pc'["storage"] \in {"measure", "done"}
    BY <1>1, <1>8, <1>10, Zenon DEF Storage, StorageResult, StorageFail, WorkerFail, Goto, PositionsOK
  <2>2. CASE ~IsEmpty(result_queue)
    <3>1. result_queue' = Tail(result_queue)
      BY <1>10, <2>2, Zenon DEF StorageResult
    <3>2. Len(result_queue') = Len(result_queue) - 1
      BY <1>2, <2>2, <3>1, PopFacts, Zenon
    <3> QED
      BY <1>1, <1>2, <2>1, <3>2 DEF InFlightKnown, Travelling
  <2>3. CASE IsEmpty(result_queue) /\ "result" \notin closed
    BY <1>1, <1>3, <1>10, <2>1, <2>3, Zenon DEF StorageResult
  <2>4. CASE IsEmpty(result_queue) /\ "result" \in closed
    <3>1. UNCHANGED result_queue /\ result_queue = <<>>
      BY <1>10, <2>4, Zenon DEF StorageResult, IsEmpty
    <3>2. delivery_queue = <<>> /\ ~MqttBusy
      BY <1>1, <2>4, Zenon DEF MqttLifeCycle, MqttBusy
    <3>3. Len(delivery_queue') + Len(result_queue') = 0
      BY <1>2, <2>1, <3>1, <3>2
    <3> QED
      BY <2>1, <3>2, <3>3 DEF InFlightKnown, Travelling
  <2> QED
    BY <2>2, <2>3, <2>4, Zenon
<1>11. CASE StorageEnqueue
  <2>1. UNCHANGED <<result_queue, MqttBusy>> /\ pc'["storage"] # "enqueue"
    BY <1>1, <1>8, <1>11, Zenon DEF Storage, StorageEnqueue, LoopAgain, Goto, PositionsOK
  <2>2. CASE "delivery" \in closed
    BY <1>1, <1>3, <1>11, <2>1, <2>2, Zenon DEF StorageEnqueue
  <2>3. CASE "delivery" \notin closed
    <3>1. /\ pc["storage"] = "enqueue" /\ sto'.inflight
          /\ delivery_queue' = Append(delivery_queue, EarliestPending(rows))
      BY <1>1, <1>11, <2>3, Zenon DEF StorageEnqueue, CommandTypeOK
    <3>2. Travelling = 0
      BY <1>1, <1>2, <3>1 DEF InFlightKnown, Travelling
    <3>3. EarliestPending(rows) \in Ids
      <4>1. HasPending(rows) /\ rows \in Seq(Row) /\ SentFirst
        BY <1>1, <3>1, Zenon DEF LocalsAtPositions, DeliveryInv, TypeOK, StoreTypeOK
      <4> QED
        BY <4>1, EarliestPendingIsFirst, Zenon DEF IsPending, Ids
    <3>4. Len(delivery_queue') = Len(delivery_queue) + 1
      BY <1>2, <3>1, <3>3, PushLength, Zenon
    <3> QED
      BY <1>2, <2>1, <3>1, <3>2, <3>4 DEF InFlightKnown, Travelling
  <2> QED
    BY <2>2, <2>3, Zenon
<1>12. CASE BackoffExpires
  <2>1. UNCHANGED <<pc, delivery_queue, result_queue>> /\ sto'.inflight = sto.inflight
    BY <1>1, <1>12, Zenon DEF BackoffExpires, dataQ, CommandTypeOK
  <2> QED
    BY <1>1, <2>1, Zenon DEF InFlightKnown, Travelling, MqttBusy
<1>13. CASE Mqtt
  <2>1. UNCHANGED sto /\ pc'["storage"] = pc["storage"]
    BY <1>1, <1>13, MqttFrame, OnlyOwnPosition, Zenon DEF mqttOthers
  <2>2. CASE MqttPop /\ ~IsEmpty(delivery_queue)
    <3>1. /\ delivery_queue' = Tail(delivery_queue) /\ UNCHANGED result_queue
          /\ pc["mqtt"] = "pop"
      BY <2>2, Zenon DEF MqttPop
    <3>2. Len(delivery_queue) # 0
      BY <1>2, <2>2, EmptyByLength, Zenon DEF IsEmpty
    <3>3. Len(delivery_queue) = 1 /\ Len(delivery_queue') = 0
      BY <1>2, <2>2, <3>1, <3>2, PopFacts
    <3>4. Travelling = 1 + Len(result_queue)
      BY <1>2, <3>1, <3>3 DEF Travelling, MqttBusy
    <3>5. Len(result_queue) = 0 /\ sto.inflight
      BY <1>1, <1>2, <3>4 DEF InFlightKnown
    <3>6. Travelling' \in {0, 1}
      <4>1. Len(result_queue') = 0
        BY <3>1, <3>5, Zenon
      <4>2. Travelling' = IF MqttBusy' THEN 1 ELSE 0
        BY <3>3, <4>1 DEF Travelling
      <4> QED
        BY <4>2, Zenon
    <3> QED
      BY <1>1, <2>1, <3>5, <3>6 DEF InFlightKnown
  <2>3. CASE \/ MqttPop /\ IsEmpty(delivery_queue)
             \/ MqttPublish \/ MqttAcknowledged \/ MqttGaveUp \/ MqttClose
    <3>1. UNCHANGED <<delivery_queue, result_queue, MqttBusy>>
      <4>1. UNCHANGED <<delivery_queue, result_queue>>
        BY <2>3, Zenon DEF MqttPop, MqttPublish, MqttAcknowledged, MqttGaveUp, MqttClose
      <4>2. \/ pc["mqtt"] = "pop" /\ pc'["mqtt"] = "close"
            \/ pc["mqtt"] \in {"publish", "wait"} /\ pc'["mqtt"] \in {"wait", "report"}
            \/ pc["mqtt"] = "close" /\ pc'["mqtt"] = "done"
        BY <1>1, <2>3, Zenon DEF MqttPop, MqttPublish, MqttAcknowledged, MqttGaveUp, MqttClose,
             Goto, PositionsOK
      <4> QED
        BY <4>1, <4>2 DEF MqttBusy
    <3> QED
      BY <1>3, <2>1, <3>1, Zenon
  <2>4. CASE MqttReport
    <3>1. /\ result_queue' = Append(result_queue, report) /\ UNCHANGED delivery_queue
          /\ pc["mqtt"] = "report" /\ pc'["mqtt"] = "pop"
      BY <1>1, <2>4, Zenon DEF MqttReport, Goto, PositionsOK
    <3>2. report \in [id : Ids, ok : BOOLEAN]
      BY <3>1, ReportTyped, Zenon DEF DeliveryInv, TypeOK
    <3>3. Len(result_queue') = Len(result_queue) + 1
      <4> DEFINE Report == [id : Ids, ok : BOOLEAN]
      <4>1. result_queue \in Seq(Report) /\ report \in Report
        BY <1>2, <3>2, Zenon
      <4> HIDE DEF Report
      <4> QED
        BY <3>1, <4>1, PushLength, Zenon
    <3> QED
      BY <1>1, <1>2, <2>1, <3>1, <3>3 DEF InFlightKnown, Travelling, MqttBusy
  <2> QED
    BY <1>13, <2>2, <2>3, <2>4, Zenon DEF Mqtt
<1>14. CASE \E id \in net : BrokerReceive(id)
  BY <1>3, <1>14, Zenon DEF BrokerReceive, mqttOthers, MqttBusy
<1>15. CASE Crash \/ Reap
  <2>1. /\ delivery_queue' = <<>> /\ result_queue' = <<>>
        /\ pc'["mqtt"] = "unborn" /\ pc'["storage"] = "unborn"
    BY <1>15, Zenon DEF Crash, Reap, ProcessEnds, AllUnborn
  <2>2. Len(delivery_queue') = 0 /\ Len(result_queue') = 0
    BY <2>1, Zenon
  <2>3. Travelling' = 0
    BY <2>1, <2>2 DEF Travelling, MqttBusy
  <2> QED
    BY <2>1, <2>3 DEF InFlightKnown
<1>16. CASE Finished
  BY <1>3, <1>16, Zenon DEF Finished, vars, dataQ, MqttBusy
<1> QED
  BY <1>4, <1>5, <1>6, <1>7, <1>9, <1>10, <1>11, <1>12, <1>13, <1>14, <1>15, <1>16, Zenon
     DEF Next, Storage
=============================================================================
