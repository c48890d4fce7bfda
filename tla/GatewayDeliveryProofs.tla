------------------------ MODULE GatewayDeliveryProofs ------------------------
(***************************************************************************)
(* DeliveryInv is an invariant of GatewayWorkers: what is known of the     *)
(* record on its way, and that only received rows are marked sent.  What   *)
(* follows from it: types, one record in flight, nothing marked sent that  *)
(* the broker has not received, delivery in order, durable rows, and that  *)
(* the gateway implements AtLeastOnceOutbox.                               *)
(* The second part proves that StopInv is an invariant as well, and what   *)
(* follows: measurements are stored in the order of their collection, a    *)
(* clean stop leaves every queued measurement in the database and every    *)
(* confirmed publish recorded, and a pause lets at most one measurement    *)
(* through.                                                                *)
(***************************************************************************)
EXTENDS GatewayTypeProofs, StopInvariant

\* Rows that are all sent stay sent.
LEMMA EarlierSentStays ==
    ASSUME DeliveryInv, Next
    PROVE  \A id \in Nat : AllEarlierSent(id) => AllEarlierSent(id)'
  BY RowsGrow, Zenon DEF AllEarlierSent, IsSent, Ids

\* Saving a measurement does not change which row is the next to deliver: new rows
\* come last.
LEMMA NextStays ==
    ASSUME DeliveryInv, Next,
           UNCHANGED rows \/ (\E m \in Nat : rows' = SaveMeasurement(rows, m))
    PROVE  \A id \in Nat : IsNext(id) => IsNext(id)'
<1>1. rows \in Seq(Row)
  BY DEF DeliveryInv, TypeOK, StoreTypeOK
<1>2. CASE UNCHANGED rows
  BY <1>2, Zenon DEF IsNext, AllEarlierSent
<1>3. CASE \E m \in Nat : rows' = SaveMeasurement(rows, m)
  <2>1. PICK m \in Nat : rows' = SaveMeasurement(rows, m)
    BY <1>3
  <2>2. /\ DOMAIN rows \subseteq DOMAIN rows'
        /\ \A k \in DOMAIN rows : rows'[k] = rows[k]
    BY <1>1, <2>1, SaveMeasurementRows, Zenon
  <2> QED
    BY <2>2, EarlierSentStays, Zenon DEF IsNext, IsPending
<1> QED
  BY <1>2, <1>3, Zenon

\* Every step preserves where the record on its way is: it is the earliest pending
\* row while it is queued, published, waited for and reported.
LEMMA OnTheWayStep ==
    ASSUME DeliveryInv, Next
    PROVE  RecordsOnTheWay'
<1> USE DEF Threads, Handlers
<1>1. /\ RecordsOnTheWay /\ InFlightKnown /\ PositionsOK /\ LocalsAtPositions /\ StoreTypeOK
      /\ MqttLifeCycle
  BY Zenon DEF DeliveryInv, TypeOK
<1>2. /\ delivery_queue \in Seq(Ids) /\ result_queue \in Seq([id : Ids, ok : BOOLEAN])
      /\ job \in Ids \cup {0} /\ report \in [id : Ids \cup {0}, ok : BOOLEAN]
      /\ Ids \subseteq Nat /\ net \subseteq Nat /\ received \subseteq Nat
  BY <1>1 DEF DeliveryInv, TypeOK, DataTypeOK, StoreTypeOK, Ids
<1>22. \A i \in DOMAIN delivery_queue : delivery_queue[i] \in Nat
  <2>1. \A i \in DOMAIN delivery_queue : delivery_queue[i] \in Ids
    BY <1>2, SeqElements, Zenon
  <2> QED
    BY <1>2, <2>1, Zenon
<1>23. \A i \in DOMAIN result_queue : result_queue[i].id \in Nat
  <2>1. \A i \in DOMAIN result_queue : result_queue[i] \in [id : Ids, ok : BOOLEAN]
    BY <1>2, SeqElements, Zenon
  <2> QED
    BY <1>2, <2>1, Zenon
<1>3. ASSUME UNCHANGED <<rows, delivery_queue, result_queue, job, puback, report, net, received>>,
             \/ pc'["mqtt"] = pc["mqtt"]
             \/ pc'["mqtt"] = "pop"
      PROVE  RecordsOnTheWay'
  BY <1>1, <1>3, Zenon DEF RecordsOnTheWay, MqttBusy, IsNext, AllEarlierSent
<1>4. CASE StartProcess \/ Coordinator
  <2>1. UNCHANGED <<rows, delivery_queue, result_queue, job, puback, report, net, received>>
    BY <1>4, CoordinatorFrame, Zenon DEF coordOthers, store, dataQ, mqttL, broker
  <2>2. pc'["mqtt"] \in {pc["mqtt"], "pop"}
    BY <1>4, CoordinatorPositions, StartOrderFacts
  <2> QED
    BY <1>3, <2>1, <2>2, Zenon
<1>5. CASE SignalArrives
  BY <1>3, <1>5, Zenon DEF SignalArrives, coordOthers, store, dataQ, mqttL, broker
<1>6. CASE Source
  BY <1>1, <1>3, <1>6, SourceFrame, OnlyOwnPosition, Zenon DEF sourceOthers, store, mqttL, broker
<1>7. CASE \/ \E t \in Handlers : Handler(t)
           \/ Local \/ Remote
           \/ \E m \in RemoteMessages : MqttCommandReceived(m)
  BY <1>1, <1>3, <1>7, CommandFrame, OnlyOwnPosition, Zenon DEF commandOthers, store, dataQ, mqttL,
       broker
<1>8. ASSUME Storage \/ BackoffExpires
      PROVE  UNCHANGED <<job, puback, report, net, received>> /\ pc'["mqtt"] = pc["mqtt"]
  BY <1>1, <1>8, StorageFrame, OnlyOwnPosition, Zenon DEF storageOthers, mqttL, broker
<1>9. CASE StorageControl \/ StorageServe \/ StorageSchedule \/ BackoffExpires
  BY <1>3, <1>8, <1>9, Zenon DEF Storage, StorageControl, StorageServe, StorageSchedule,
       BackoffExpires, dataQ, store
<1>10. CASE StorageMeasure
  <2>1. UNCHANGED <<delivery_queue, result_queue>>
    BY <1>10, Zenon DEF StorageMeasure
  <2>2. UNCHANGED rows \/ (\E m \in Nat : rows' = SaveMeasurement(rows, m))
    BY <1>10, RowsChange, Zenon DEF StorageMeasure, StorageResult
  <2>3. \A id \in Nat : IsNext(id) => IsNext(id)'
    BY <2>2, NextStays, Zenon
  <2>4. UNCHANGED <<job, puback, report, net, received>> /\ pc'["mqtt"] = pc["mqtt"]
    BY <1>8, <1>10, Zenon DEF Storage
  <2>5. \A i \in DOMAIN delivery_queue : IsNext(delivery_queue[i])'
    BY <1>1, <1>22, <2>1, <2>3, Zenon DEF RecordsOnTheWay
  <2>6. \A i \in DOMAIN result_queue : IsNext(result_queue[i].id)'
    BY <1>1, <1>23, <2>1, <2>3, Zenon DEF RecordsOnTheWay
  <2>7. MqttBusy' => IsNext(job)'
    BY <1>1, <1>2, <2>3, <2>4, Zenon DEF RecordsOnTheWay, MqttBusy
  <2>8. \A id \in net' \cup received' : AllEarlierSent(id)'
    BY <1>1, <1>2, <2>4, EarlierSentStays, Zenon DEF RecordsOnTheWay
  <2> QED
    BY <1>1, <2>1, <2>4, <2>5, <2>6, <2>7, <2>8, Zenon DEF RecordsOnTheWay
<1>11. CASE StorageResult
  <2>1. UNCHANGED <<delivery_queue, job, puback, report, net, received>> /\ pc'["mqtt"] = pc["mqtt"]
    BY <1>8, <1>11, Zenon DEF Storage, StorageResult
  <2>2. CASE IsEmpty(result_queue)
    BY <1>3, <1>11, <2>1, <2>2, Zenon DEF StorageResult
  <2>3. CASE ~IsEmpty(result_queue)
    <3>1. result_queue' = Tail(result_queue) /\ pc'["storage"] # "enqueue"
      BY <1>1, <1>11, <2>3, Zenon DEF StorageResult, StorageFail, WorkerFail, Goto, PositionsOK
    <3>2. Len(result_queue) = 1
      BY <2>3, OneSlotQueues, EmptyByLength, Zenon DEF IsEmpty
    <3>3. Len(delivery_queue) = 0 /\ ~MqttBusy
      BY <1>1, <3>2, OneSlotQueues DEF InFlightKnown, Travelling
    <3>4. delivery_queue = <<>>
      BY <1>2, <3>3, EmptyByLength, Zenon
    <3>5. /\ Tail(result_queue) \in Seq([id : Ids, ok : BOOLEAN])
          /\ Len(Tail(result_queue)) = Len(result_queue) - 1
      BY <1>2, <2>3, PopFacts, Zenon
    <3>6. Len(Tail(result_queue)) = 0
      BY <3>2, <3>5
    <3>7. Tail(result_queue) = <<>>
      BY <3>5, <3>6, EmptyByLength, Zenon
    <3>8. delivery_queue' = <<>> /\ result_queue' = <<>> /\ ~MqttBusy'
      BY <2>1, <3>1, <3>3, <3>4, <3>7, Zenon DEF MqttBusy
    <3>9. \A id \in net' \cup received' : AllEarlierSent(id)'
      BY <1>1, <1>2, <2>1, EarlierSentStays, Zenon DEF RecordsOnTheWay
    <3> QED
      BY <3>8, <3>9 DEF RecordsOnTheWay, MqttBusy
  <2> QED
    BY <2>2, <2>3, Zenon
<1>12. CASE StorageEnqueue
  <2>1. UNCHANGED <<rows, result_queue, job, puback, report, net, received>> /\ pc'["mqtt"] = pc["mqtt"]
    BY <1>8, <1>12, Zenon DEF Storage, StorageEnqueue, store
  <2>2. CASE UNCHANGED delivery_queue
    BY <1>3, <2>1, <2>2, Zenon
  <2>3. CASE delivery_queue' = Append(delivery_queue, EarliestPending(rows))
    <3>1. HasPending(rows) /\ rows \in Seq(Row) /\ SentFirst
      BY <1>1, <1>12, Zenon DEF StorageEnqueue, LocalsAtPositions, StoreTypeOK, DeliveryInv
    <3>2. PICK e : /\ e = EarliestPending(rows)
                   /\ IsPending(rows, e)
                   /\ \A other \in DOMAIN rows : IsPending(rows, other) => e <= other
      BY <3>1, EarliestPendingIsFirst, Zenon
    <3>3. e \in Ids
      BY <3>2 DEF IsPending, Ids
    <3>4. AllEarlierSent(e)
      <4>1. ASSUME NEW k \in 1 .. e - 1 PROVE IsSent(rows, k)
        <5>1. k \in DOMAIN rows /\ ~(e <= k)
          BY <3>1, <3>3 DEF Ids
        <5>2. rows[k] \in Row
          BY <3>1, <5>1
        <5> QED
          BY <3>2, <5>1, <5>2, Zenon DEF IsPending, IsSent, Row
      <4> QED
        BY <4>1 DEF AllEarlierSent
    <3>5. \A i \in DOMAIN delivery_queue' :
             /\ IsPending(rows', delivery_queue'[i])
             /\ \A k \in 1 .. delivery_queue'[i] - 1 : IsSent(rows', k)
      <4>1. delivery_queue' = Append(delivery_queue, e)
        BY <2>3, <3>2, Zenon
      <4>2. \A i \in DOMAIN delivery_queue' :
               \/ i \in DOMAIN delivery_queue /\ delivery_queue'[i] = delivery_queue[i]
               \/ delivery_queue'[i] = e
        BY <1>2, <3>3, <4>1
      <4>3. \A i \in DOMAIN delivery_queue' : IsNext(delivery_queue'[i])
        BY <1>1, <3>2, <3>4, <4>2, Zenon DEF RecordsOnTheWay, IsNext
      <4> QED
        BY <2>1, <4>3, Zenon DEF IsNext, AllEarlierSent
    <3> QED
      BY <1>1, <2>1, <3>5, Zenon DEF RecordsOnTheWay, MqttBusy, IsNext, AllEarlierSent
  <2> QED
    BY <1>12, <2>2, <2>3, Zenon DEF StorageEnqueue
<1>13. ASSUME Mqtt \/ (\E id \in net : BrokerReceive(id))
       PROVE  UNCHANGED rows /\ \A id : IsNext(id)' = IsNext(id) /\ AllEarlierSent(id)' = AllEarlierSent(id)
  <2>1. UNCHANGED rows
    BY <1>13, MqttFrame, Zenon DEF mqttOthers, store
  <2> QED
    BY <2>1 DEF IsNext, AllEarlierSent
<1>14. CASE MqttPop
  <2>1. /\ UNCHANGED <<result_queue, puback, report, net, received>>
        /\ pc'["mqtt"] \in {"publish", "close"}
    BY <1>1, <1>14, Zenon DEF MqttPop, broker, Goto, WorkerFail, PositionsOK
  <2>2. CASE IsEmpty(delivery_queue)
    <3>1. UNCHANGED delivery_queue /\ pc'["mqtt"] = "close"
      BY <1>1, <1>14, <2>2, Zenon DEF MqttPop, Goto, PositionsOK
    <3> QED
      BY <1>1, <1>13, <1>14, <2>1, <3>1, Zenon DEF RecordsOnTheWay, MqttBusy, Mqtt
  <2>3. CASE ~IsEmpty(delivery_queue)
    <3>1. /\ delivery_queue' = Tail(delivery_queue)
          /\ pc'["mqtt"] = "publish" => job' = Head(delivery_queue)
      BY <1>1, <1>14, <2>3, Zenon DEF MqttPop, Goto, WorkerFail, PositionsOK
    <3>2. \A i \in DOMAIN delivery_queue' : IsNext(delivery_queue'[i])
      BY <1>1, <1>2, <2>3, <3>1, PopFacts, Zenon DEF RecordsOnTheWay
    <3>3. pc'["mqtt"] = "publish" => IsNext(job')
      BY <1>1, <1>2, <2>3, <3>1, PopFacts DEF RecordsOnTheWay
    <3> QED
      BY <1>1, <1>13, <1>14, <2>1, <3>2, <3>3, Zenon DEF RecordsOnTheWay, MqttBusy, Mqtt
  <2> QED
    BY <2>2, <2>3
<1>15. CASE MqttPublish
  <2>1. /\ UNCHANGED <<delivery_queue, result_queue, job, received>>
        /\ pc["mqtt"] = "publish"
        /\ \/ /\ report' = [id |-> job, ok |-> FALSE] /\ pc'["mqtt"] = "report"
              /\ UNCHANGED <<net, puback>>
           \/ /\ net' = net \cup {job} /\ puback' = FALSE /\ pc'["mqtt"] = "wait"
              /\ UNCHANGED report
    BY <1>1, <1>15, Zenon DEF MqttPublish, Goto, PositionsOK
  <2>2. IsNext(job) /\ AllEarlierSent(job)
    BY <1>1, <2>1, Zenon DEF RecordsOnTheWay, MqttBusy, IsNext
  <2> QED
    BY <1>1, <1>13, <1>15, <2>1, <2>2, SMTT(60) DEF RecordsOnTheWay, MqttBusy, Mqtt
<1>16. CASE MqttAcknowledged \/ MqttGaveUp
  <2>1. /\ UNCHANGED <<delivery_queue, result_queue, job, net, received>>
        /\ pc["mqtt"] = "wait" /\ pc'["mqtt"] = "report"
        /\ \E ok \in BOOLEAN : report' = [id |-> job, ok |-> ok] /\ (ok => puback)
    BY <1>1, <1>16, Zenon DEF MqttAcknowledged, MqttGaveUp, Goto, PositionsOK, broker
  <2> QED
    BY <1>1, <1>13, <1>16, <2>1, SMTT(60) DEF RecordsOnTheWay, MqttBusy, Mqtt
<1>17. CASE MqttReport
  <2>1. /\ UNCHANGED <<delivery_queue, net, received>>
        /\ result_queue' = Append(result_queue, report)
        /\ pc["mqtt"] = "report" /\ pc'["mqtt"] = "pop"
    BY <1>1, <1>17, Zenon DEF MqttReport, Goto, PositionsOK, broker
  <2>2. IsNext(report.id) /\ (report.ok => report.id \in received)
    BY <1>1, <2>1, Zenon DEF RecordsOnTheWay, MqttBusy
  <2>3. report \in [id : Ids, ok : BOOLEAN]
    BY <1>2, <2>2, Zenon DEF IsNext, IsPending, Ids
  <2>4. \A i \in DOMAIN result_queue' :
           /\ IsNext(result_queue'[i].id)
           /\ result_queue'[i].ok => result_queue'[i].id \in received
    BY <1>1, <1>2, <2>1, <2>2, <2>3, PushFacts, SMTT(30) DEF RecordsOnTheWay
  <2> QED
    BY <1>1, <1>13, <1>17, <2>1, <2>4, Zenon DEF RecordsOnTheWay, MqttBusy, Mqtt
<1>18. CASE MqttClose
  <2>1. /\ UNCHANGED <<delivery_queue, result_queue, net, received>>
        /\ pc'["mqtt"] = "done"
    BY <1>1, <1>18, Zenon DEF MqttClose, Goto, PositionsOK, broker
  <2> QED
    BY <1>1, <1>13, <1>18, <2>1, Zenon DEF RecordsOnTheWay, MqttBusy, Mqtt
<1>19. CASE \E id \in net : BrokerReceive(id)
  <2>1. PICK id \in net : BrokerReceive(id)
    BY <1>19, Zenon
  <2>2. /\ UNCHANGED <<delivery_queue, result_queue, pc, job, report>>
        /\ received' = received \cup {id} /\ net' \subseteq net
        /\ UNCHANGED puback \/ job = id
    BY <2>1, Zenon DEF BrokerReceive
  <2> QED
    BY <1>1, <1>13, <1>19, <2>2, SMTT(60) DEF RecordsOnTheWay, MqttBusy
<1>20. CASE Crash \/ Reap
  <2>1. /\ UNCHANGED <<rows, received>> /\ net' \subseteq net
        /\ delivery_queue' = <<>> /\ result_queue' = <<>> /\ pc'["mqtt"] = "unborn"
    BY <1>20, Zenon DEF Crash, Reap, ProcessEnds, AllUnborn, store
  <2>2. \A id \in net' \cup received' : AllEarlierSent(id)'
    BY <1>1, <2>1, Zenon DEF RecordsOnTheWay, AllEarlierSent
  <2> QED
    BY <2>1, <2>2 DEF RecordsOnTheWay, MqttBusy
<1>21. CASE Finished
  BY <1>3, <1>21, Zenon DEF Finished, vars, store, dataQ, mqttL, broker
<1> QED
  BY <1>4, <1>5, <1>6, <1>7, <1>9, <1>10, <1>11, <1>12, <1>14, <1>15, <1>16, <1>17, <1>18,
     <1>19, <1>20, <1>21, Zenon DEF Next, Storage, Mqtt

\* A saved row is pending and the last one, and the row that is marked sent is
\* the earliest pending one.
LEMMA SentFirstStep ==
    ASSUME DeliveryInv, Next
    PROVE  SentFirst'
<1>1. /\ SentFirst /\ RecordsOnTheWay /\ rows \in Seq(Row)
      /\ result_queue \in Seq([id : Ids, ok : BOOLEAN])
  BY Zenon DEF DeliveryInv, TypeOK, StoreTypeOK, DataTypeOK
<1>2. PICK n \in 0 .. Len(rows) : \A id \in DOMAIN rows : IsSent(rows, id) <=> id <= n
  BY <1>1, Zenon DEF SentFirst
<1>3. CASE UNCHANGED rows
  BY <1>1, <1>3, Zenon DEF SentFirst
<1>4. CASE /\ ~IsEmpty(result_queue)
           /\ Head(result_queue) \in [id : Ids, ok : BOOLEAN]
           /\ rows' = MarkSent(rows, Head(result_queue).id)
  <2>1. Head(result_queue) = result_queue[1] /\ 1 \in DOMAIN result_queue
    BY <1>1, <1>4, PopFacts, Zenon
  <2>2. PICK r \in Ids : rows' = MarkSent(rows, r) /\ IsNext(r)
    BY <1>1, <1>4, <2>1, Zenon DEF RecordsOnTheWay
  <2>3. r \in DOMAIN rows /\ DOMAIN rows = 1 .. Len(rows)
    BY <1>1, <2>2 DEF Ids
  <2>4. r = n + 1
    <3>1. ~IsSent(rows, r)
      BY <2>2, Zenon DEF IsNext, IsPending, IsSent
    <3>2. \A earlier \in 1 .. r - 1 : earlier <= n
      BY <1>2, <2>2, <2>3 DEF IsNext, AllEarlierSent
    <3> QED
      BY <1>2, <2>3, <3>1, <3>2
  <2>5. /\ MarkSent(rows, r) \in Seq(Row) /\ DOMAIN MarkSent(rows, r) = DOMAIN rows
        /\ \A k \in DOMAIN rows : MarkSent(rows, r)[k] =
              IF k = r THEN [measurement |-> rows[k].measurement, state |-> "sent"] ELSE rows[k]
    BY <1>1, <2>3, MarkSentRows, Zenon
  <2>6. Len(rows') = Len(rows) /\ DOMAIN rows' = DOMAIN rows
    BY <1>1, <2>2, <2>5
  <2>7. \A id \in DOMAIN rows : IsSent(rows', id) <=> id = r \/ IsSent(rows, id)
    BY <2>2, <2>5 DEF IsSent
  <2>8. \A id \in DOMAIN rows' : IsSent(rows', id) <=> id <= n + 1
    BY <1>2, <2>3, <2>4, <2>6, <2>7
  <2> QED
    BY <1>2, <2>3, <2>4, <2>6, <2>8 DEF SentFirst
<1>5. CASE /\ Head(measurement_queue) \in Nat
           /\ rows' = SaveMeasurement(rows, Head(measurement_queue))
  <2>1. PICK m \in Nat : rows' = SaveMeasurement(rows, m)
    BY <1>5
  <2>2. /\ rows' \in Seq(Row) /\ DOMAIN rows' = DOMAIN rows \cup {Len(rows) + 1}
        /\ \A k \in DOMAIN rows : rows'[k] = rows[k]
        /\ rows'[Len(rows) + 1] = [measurement |-> m, state |-> "pending"]
    BY <1>1, <2>1, SaveMeasurementRows, Zenon
  <2>3. ~IsSent(rows', Len(rows) + 1) /\ \A k \in DOMAIN rows : IsSent(rows', k) <=> IsSent(rows, k)
    BY <2>2 DEF IsSent
  <2>4. Len(rows) \in Nat /\ n \in 0 .. Len(rows')
    BY <1>1, <1>2, <2>2
  <2>5. \A id \in DOMAIN rows' : IsSent(rows', id) <=> id <= n
    BY <1>2, <2>2, <2>3, <2>4
  <2> QED
    BY <2>4, <2>5, Zenon DEF SentFirst
<1> QED
  BY <1>3, <1>4, <1>5, RowsChange, Zenon

\* The broker receives only what libmosquitto was given, and forgets nothing.
LEMMA ReceivedChange ==
    ASSUME DeliveryInv, Next
    PROVE  \/ UNCHANGED received
           \/ \E id \in net : BrokerReceive(id)
<1> USE DEF broker
<1>1. CASE StartProcess \/ Coordinator \/ SignalArrives
  BY <1>1, CoordinatorFrame, Zenon DEF SignalArrives, coordOthers
<1>2. CASE Source
  BY <1>2, SourceFrame, Zenon DEF sourceOthers
<1>3. CASE \/ \E t \in Handlers : Handler(t)
           \/ Local \/ Remote
           \/ \E m \in RemoteMessages : MqttCommandReceived(m)
  BY <1>3, CommandFrame, Zenon DEF commandOthers
<1>4. CASE Storage \/ BackoffExpires
  BY <1>4, StorageFrame, Zenon DEF storageOthers
<1>5. CASE Mqtt
  BY <1>5, Zenon DEF Mqtt, MqttPop, MqttPublish, MqttAcknowledged, MqttGaveUp, MqttReport, MqttClose
<1>6. CASE Crash \/ Reap \/ Finished
  BY <1>6, Zenon DEF Crash, Reap, Finished, ProcessEnds, vars
<1> QED
  BY <1>1, <1>2, <1>3, <1>4, <1>5, <1>6, Zenon DEF Next

\* outbox_store_mark_sent runs only for a report of success, and the mqtt
\* worker makes one only after the PUBACK.
LEMMA SentStep ==
    ASSUME DeliveryInv, Next
    PROVE  SentWasReceived'
<1>1. /\ SentWasReceived /\ RecordsOnTheWay /\ rows \in Seq(Row)
      /\ result_queue \in Seq([id : Ids, ok : BOOLEAN])
  BY DEF DeliveryInv, TypeOK, StoreTypeOK, DataTypeOK
<1>2. received \subseteq received'
  BY ReceivedChange, Zenon DEF BrokerReceive
<1>3. CASE UNCHANGED rows
  BY <1>1, <1>2, <1>3, Zenon DEF SentWasReceived, Ids
<1>4. CASE /\ ~IsEmpty(result_queue)
           /\ Head(result_queue) \in [id : Ids, ok : BOOLEAN]
           /\ Head(result_queue).ok
           /\ rows' = MarkSent(rows, Head(result_queue).id)
  <2>1. Head(result_queue) = result_queue[1] /\ 1 \in DOMAIN result_queue
    BY <1>1, <1>4, PopFacts, Zenon
  <2>2. PICK r \in Ids : r = Head(result_queue).id /\ r \in received
    BY <1>1, <1>4, <2>1, Zenon DEF RecordsOnTheWay
  <2>3. rows' = MarkSent(rows, r) /\ r \in DOMAIN rows
    BY <1>4, <2>2, Zenon DEF Ids
  <2>4. /\ DOMAIN rows' = DOMAIN rows
        /\ \A k \in DOMAIN rows : k # r => rows'[k] = rows[k]
    BY <1>1, <2>3, MarkSentRows, Zenon
  <2> QED
    BY <1>1, <1>2, <2>2, <2>4, Zenon DEF SentWasReceived, Ids, IsSent
<1>5. CASE /\ Head(measurement_queue) \in Nat
           /\ rows' = SaveMeasurement(rows, Head(measurement_queue))
  <2>1. PICK m \in Nat : rows' = SaveMeasurement(rows, m)
    BY <1>5, Zenon
  <2>2. /\ DOMAIN rows' = DOMAIN rows \cup {Len(rows) + 1}
        /\ \A k \in DOMAIN rows : rows'[k] = rows[k]
        /\ rows'[Len(rows) + 1] = [measurement |-> m, state |-> "pending"]
    BY <1>1, <2>1, SaveMeasurementRows, Zenon
  <2>3. rows'[Len(rows) + 1].state = "pending"
    BY <2>2, SMTT(30)
  <2> QED
    BY <1>1, <1>2, <2>2, <2>3, Zenon DEF SentWasReceived, Ids, IsSent
<1> QED
  BY <1>3, <1>4, <1>5, RowsChange, Zenon
-----------------------------------------------------------------------------
\* The invariant holds before the first start, on an empty database.
LEMMA InvariantInit == Init => DeliveryInv
<1> SUFFICES ASSUME Init PROVE DeliveryInv
  OBVIOUS
<1> USE DEF Init, Threads, Handlers
<1>1. rows = <<>> /\ Ids = {}
  BY DEF Ids
<1>2. \A S : <<>> \in Seq(S)
  OBVIOUS
<1>3. Len(<<>>) = 0
  OBVIOUS
<1>4. StoreTypeOK
  <2>1. rows \in Seq(Row)
    BY <1>1, <1>2, Zenon
  <2> QED
    BY <2>1, Zenon DEF StoreTypeOK
<1>5. FlagsTypeOK
  BY ConstantsAssumption, Zenon DEF FlagsTypeOK
<1>6. DataTypeOK
  <2>1. /\ measurement_queue = <<>> /\ delivery_queue = <<>> /\ result_queue = <<>>
        /\ measurement_queue \in Seq(Nat) /\ delivery_queue \in Seq(Ids)
        /\ result_queue \in Seq([id : Ids, ok : BOOLEAN])
    BY <1>2, Zenon
  <2>2. /\ Len(measurement_queue) <= MeasurementCap
        /\ Len(delivery_queue) <= 1 /\ Len(result_queue) <= 1
    BY <1>3, <2>1, ConstantsAssumption
  <2>3. /\ sample \in Nat /\ job \in Ids \cup {0} /\ puback \in BOOLEAN
        /\ report \in [id : Ids \cup {0}, ok : BOOLEAN] /\ confirmed \subseteq Ids
    BY Zenon DEF NoReport
  <2> QED
    BY <2>1, <2>2, <2>3, Zenon DEF DataTypeOK
<1>7. CommandTypeOK
  <2>1. /\ control_request_queue \in Seq(Request)
        /\ control_result_queue \in Seq([kind : Kinds, ok : BOOLEAN,
                                         interval_ms : Intervals \cup {NoInterval}])
        /\ mqtt_command_queue \in Seq(RemoteMessage) /\ executed \in Seq(RequestIds)
    BY <1>2, Zenon
  <2>2. /\ Len(control_request_queue) <= 1 /\ Len(control_result_queue) <= 1
        /\ Len(mqtt_command_queue) <= CommandCap
    BY <1>3, ConstantsAssumption
  <2>3. dedup_entries \in [Slots -> DedupEntry] /\ dedup_next \in Slots
    BY DedupCapAssumption DEF EmptyDedup, DedupEntry, Slots
  <2>4. sto \in [measurement_closed : BOOLEAN, result_closed : BOOLEAN,
                inflight : BOOLEAN, backoff : BOOLEAN, request : Request \cup {NoCommand}]
    BY Zenon DEF StorageLocals
  <2>5. NoReply \in Reply
    BY Zenon DEF Reply, NoReply
  <2>6. /\ command \in [Handlers -> Command \cup {NoCommand}]
        /\ reply \in [Handlers -> Reply]
        /\ request_id \in RequestIds \cup {BadId}
    BY <2>5, Zenon
  <2> QED
    BY <2>1, <2>2, <2>3, <2>4, <2>6, Zenon DEF CommandTypeOK
<1>8. PositionsOK
  BY DEF PositionsOK, Positions, AllUnborn
<1>9. CountersOK
  <2>1. step \in 1 .. Len(StopOrder) + 1 /\ result \in {-1, 0}
    BY StopOrderFacts, SMTT(30)
  <2>2. /\ boots \in 0 .. MaxBoots /\ locals \in 0 .. MaxLocal /\ remotes \in 0 .. MaxRemote
        /\ produced \in 0 .. MaxProduced /\ boot_base \in 0 .. produced
        /\ late \in Nat /\ faulted \in BOOLEAN
    <3>1. \A n \in Nat : 0 \in 0 .. n
      OBVIOUS
    <3>2. MaxBoots \in Nat /\ MaxLocal \in Nat /\ MaxRemote \in Nat /\ MaxProduced \in Nat
      BY ConstantsAssumption, Zenon
    <3>3. 0 \in Nat /\ boots = 0 /\ locals = 0 /\ remotes = 0 /\ produced = 0 /\ boot_base = 0
      OBVIOUS
    <3> QED
      BY <3>1, <3>2, <3>3, Zenon
  <2> QED
    BY <2>1, <2>2, Zenon DEF CountersOK
<1>10. TypeOK
  BY <1>4, <1>5, <1>6, <1>7, <1>8, <1>9, Zenon DEF TypeOK
<1>11. InFlightKnown
  BY DEF InFlightKnown, Travelling, MqttBusy, AllUnborn
<1>12. RecordsOnTheWay /\ SentWasReceived
  BY <1>1 DEF RecordsOnTheWay, SentWasReceived, MqttBusy, AllUnborn
<1>13. MqttLifeCycle
  BY Zenon DEF MqttLifeCycle, AllUnborn
<1>14. LocalsAtPositions
  BY DEF LocalsAtPositions, AllUnborn
<1>15. SentFirst
  BY <1>1 DEF SentFirst
<1> QED
  BY <1>10, <1>11, <1>12, <1>13, <1>14, <1>15, Zenon DEF DeliveryInv

\* Every step of every thread, signal, crash and restart preserves the invariant.
LEMMA InvariantStep == DeliveryInv /\ [Next]_vars => DeliveryInv'
<1> SUFFICES ASSUME DeliveryInv, [Next]_vars PROVE DeliveryInv'
  OBVIOUS
<1>1. CASE Next
  BY <1>1, TypeStep, InFlightStep, OnTheWayStep, SentFirstStep, SentStep, LifeCycleStep,
     Zenon DEF DeliveryInv
<1>2. CASE UNCHANGED vars
  <2> USE <1>2 DEF vars, store, broker, flags, status, dataQ, ctlQ, dedup, mqttL, handL,
                   coordL, bounds
  <2>1. TypeOK'
    <3>1. StoreTypeOK' /\ FlagsTypeOK'
      BY Zenon DEF DeliveryInv, TypeOK, StoreTypeOK, FlagsTypeOK, Ids
    <3>2. DataTypeOK'
      BY DEF DeliveryInv, TypeOK, DataTypeOK, Ids
    <3>3. CommandTypeOK'
      BY Zenon DEF DeliveryInv, TypeOK, CommandTypeOK
    <3>4. PositionsOK' /\ CountersOK'
      BY DEF DeliveryInv, TypeOK, PositionsOK, CountersOK
    <3> QED
      BY <3>1, <3>2, <3>3, <3>4, Zenon DEF TypeOK
  <2>2. InFlightKnown' /\ RecordsOnTheWay' /\ SentWasReceived'
    BY Zenon DEF DeliveryInv, InFlightKnown, Travelling, MqttBusy, RecordsOnTheWay, IsNext,
           AllEarlierSent, SentWasReceived, Ids
  <2>3. MqttLifeCycle' /\ LocalsAtPositions'
    BY Zenon DEF DeliveryInv, MqttLifeCycle, LocalsAtPositions
  <2>4. SentFirst'
    BY Zenon DEF DeliveryInv, SentFirst
  <2> QED
    BY <2>1, <2>2, <2>3, <2>4, Zenon DEF DeliveryInv
<1> QED
  BY <1>1, <1>2, Zenon

\* DeliveryInv is an invariant of the gateway, for every queue capacity, bound,
\* set of commands and set of faults.
THEOREM Invariant == Spec => []DeliveryInv
  BY InvariantInit, InvariantStep, PTL DEF Spec

\* Every variable of the workers has its type and no queue exceeds the capacity
\* given to bq_init, in every reachable state.
THEOREM TypeCorrect == Spec => []TypeOK
<1>1. DeliveryInv => TypeOK
  BY Zenon DEF DeliveryInv
<1> QED
  BY <1>1, Invariant, PTL

\* The storage worker never has two records on their way, so its push and the mqtt
\* worker's push never meet a full queue, nor a closed result_queue.
THEOREM OneInFlight == Spec => []AtMostOneInFlight
<1>1. DeliveryInv => AtMostOneInFlight
  BY Zenon DEF DeliveryInv, InFlightKnown, MqttLifeCycle, AtMostOneInFlight, MqttBusy
<1> QED
  BY <1>1, Invariant, PTL

\* outbox_store_mark_sent runs only for a row whose message the broker has, over
\* timeouts, late PUBACKs, crashes and restarts.
THEOREM NothingLost == Spec => []SentWasReceived
<1>1. DeliveryInv => SentWasReceived
  BY Zenon DEF DeliveryInv
<1> QED
  BY <1>1, Invariant, PTL

\* The broker has every row before the ones it has received, over retries, crashes
\* and restarts.
THEOREM InOrder == Spec => []DeliveredInOrder
<1>1. DeliveryInv => DeliveredInOrder
  BY DEF DeliveryInv, RecordsOnTheWay, AllEarlierSent, SentWasReceived, DeliveredInOrder,
         IsSent, Ids
<1> QED
  BY <1>1, Invariant, PTL

\* No worker, crash or restart deletes a row, changes its measurement or makes a
\* sent row pending again.
THEOREM Durable == Spec => RowsDurable
<1> DEFINE Grows == \A id \in Ids : /\ id \in DOMAIN rows'
                                    /\ rows'[id].measurement = rows[id].measurement
                                    /\ IsSent(rows, id) => IsSent(rows', id)
<1>1. DeliveryInv /\ [Next]_vars => [Grows]_vars
  BY RowsGrow, Zenon DEF Ids
<1> QED
  BY <1>1, Invariant, PTL DEF Spec, RowsDurable

\* A sequence one longer, equal on the old positions, is the old one appended to.
LEMMA AppendByElements ==
    ASSUME NEW S, NEW s \in Seq(S), NEW t \in Seq(S), NEW e \in S,
           Len(t) = Len(s) + 1,
           \A i \in 1 .. Len(s) : t[i] = s[i],
           t[Len(s) + 1] = e
    PROVE  t = Append(s, e)
  OBVIOUS

\* Every step of the gateway, seen from the database and the broker, is a step
\* of AtLeastOnceOutbox or leaves both alone.
THEOREM RefinesOutbox == Spec => ImplementsOutbox
<1> DEFINE States == {"pending", "sent"}
           outbox == [id \in Ids |-> rows[id].state]
<1>1. ASSUME Init PROVE AtLeastOnce!Init
  <2>1. rows = <<>> /\ received = {}
    BY <1>1 DEF Init
  <2>2. outbox = <<>>
    BY <2>1 DEF Ids
  <2> QED
    BY <2>1, <2>2, Zenon DEF AtLeastOnce!Init
<1>2. ASSUME DeliveryInv, DeliveryInv', [Next]_vars
      PROVE  [AtLeastOnce!Next]_AtLeastOnce!vars
  <2> USE DEF AtLeastOnce!vars
  <2>1. /\ rows \in Seq(Row) /\ rows' \in Seq(Row) /\ net \subseteq Ids
        /\ RecordsOnTheWay
        /\ result_queue \in Seq([id : Ids, ok : BOOLEAN])
    BY <1>2, Zenon DEF DeliveryInv, TypeOK, StoreTypeOK, DataTypeOK
  <2>2. CASE UNCHANGED vars
    BY <2>2, Zenon DEF vars, store, broker, Ids
  <2>3. ASSUME NEW s \in Seq(Row)
        PROVE  /\ [id \in DOMAIN s |-> s[id].state] \in Seq(States)
               /\ Len([id \in DOMAIN s |-> s[id].state]) = Len(s)
    <3>1. DOMAIN s = 1 .. Len(s) /\ Len(s) \in Nat
      OBVIOUS
    <3>2. \A id \in DOMAIN s : s[id] \in Row
      OBVIOUS
    <3>3. \A id \in DOMAIN s : s[id].state \in States
      BY <3>2, Zenon DEF Row
    <3> QED
      BY <3>1, <3>3
  <2>4. outbox \in Seq(States) /\ outbox' \in Seq(States) /\ Len(outbox) = Len(rows)
        /\ Len(outbox') = Len(rows')
    BY <2>1, <2>3, Zenon DEF Ids
  <2>5. CASE Next /\ UNCHANGED <<rows, received>>
    BY <2>5, Zenon DEF Ids
  <2>6. CASE \E id \in net : BrokerReceive(id)
    <3>1. PICK id \in net : BrokerReceive(id)
      BY <2>6
    <3>2. UNCHANGED rows /\ received' = received \cup {id}
      BY <3>1, Zenon DEF BrokerReceive, mqttOthers, store
    <3>3. id \in 1 .. Len(outbox) /\ \A earlier \in 1 .. id - 1 : outbox[earlier] = "sent"
      BY <2>1, <2>4, SMTT(30) DEF RecordsOnTheWay, AllEarlierSent, IsSent, Ids
    <3>4. AtLeastOnce!Deliver(id)
      BY <3>2, <3>3, Zenon DEF AtLeastOnce!Deliver, Ids
    <3> QED
      BY <3>3, <3>4, Zenon DEF AtLeastOnce!Next
  <2>7. CASE /\ Next /\ UNCHANGED received
             /\ ~IsEmpty(result_queue)
             /\ Head(result_queue) \in [id : Ids, ok : BOOLEAN]
             /\ Head(result_queue).ok
             /\ rows' = MarkSent(rows, Head(result_queue).id)
    <3>1. Head(result_queue) = result_queue[1] /\ 1 \in DOMAIN result_queue
      BY <2>1, <2>7, PopFacts, Zenon
    <3>2. PICK r \in Ids : r = Head(result_queue).id /\ r \in received /\ IsPending(rows, r)
      BY <2>1, <2>7, <3>1, Zenon DEF RecordsOnTheWay, IsNext
    <3>3. rows' = MarkSent(rows, r) /\ r \in DOMAIN rows
      BY <2>7, <3>2, Zenon DEF Ids
    <3>4. /\ DOMAIN rows' = DOMAIN rows
          /\ \A k \in DOMAIN rows : rows'[k] =
                IF k = r THEN [measurement |-> rows[k].measurement, state |-> "sent"] ELSE rows[k]
      BY <2>1, <3>3, MarkSentRows, Zenon
    <3>5. outbox' = [outbox EXCEPT ![r] = "sent"]
      <4>1. \A k \in DOMAIN rows : rows'[k].state = IF k = r THEN "sent" ELSE rows[k].state
        BY <3>4, SMTT(30)
      <4> QED
        BY <3>2, <3>4, <4>1, Zenon DEF Ids
    <3>6. AtLeastOnce!Confirm(r)
      BY <2>7, <3>2, <3>5, Zenon DEF AtLeastOnce!Confirm, IsPending
    <3>7. r \in 1 .. Len(outbox)
      <4>1. DOMAIN rows = 1 .. Len(rows)
        BY <2>1
      <4> QED
        BY <2>4, <3>3, <4>1, Zenon
    <3> QED
      BY <3>6, <3>7, Zenon DEF AtLeastOnce!Next
  <2>8. CASE /\ Next /\ UNCHANGED received
             /\ Head(measurement_queue) \in Nat
             /\ rows' = SaveMeasurement(rows, Head(measurement_queue))
    <3>1. PICK m \in Nat : rows' = SaveMeasurement(rows, m)
      BY <2>8
    <3>2. /\ DOMAIN rows' = DOMAIN rows \cup {Len(rows) + 1}
          /\ \A k \in DOMAIN rows : rows'[k] = rows[k]
          /\ rows'[Len(rows) + 1] = [measurement |-> m, state |-> "pending"]
      <4>1. rows \in Seq(Row)
        BY <2>1
      <4> QED
        BY <3>1, <4>1, SaveMeasurementRows, Zenon
    <3>5. Len(rows') = Len(rows) + 1
      BY <2>1, <3>1 DEF SaveMeasurement
    <3>3. /\ \A i \in 1 .. Len(outbox) : outbox'[i] = outbox[i]
          /\ outbox'[Len(outbox) + 1] = "pending"
          /\ Len(outbox') = Len(outbox) + 1
      <4>1. Len(rows) \in Nat /\ DOMAIN rows = 1 .. Len(rows)
        BY <2>1
      <4>2. /\ \A i \in DOMAIN rows : outbox'[i] = outbox[i]
            /\ outbox'[Len(rows) + 1] = "pending"
        <5>1. rows'[Len(rows) + 1].state = "pending" /\ Len(rows) + 1 \in DOMAIN rows'
          BY <3>2
        <5>2. \A i \in DOMAIN rows : i \in DOMAIN rows' /\ rows'[i].state = rows[i].state
          BY <3>2
        <5>3. outbox' = [id \in DOMAIN rows' |-> rows'[id].state]
          BY Zenon DEF Ids
        <5> QED
          BY <5>1, <5>2, <5>3, Zenon DEF Ids
      <4> QED
        BY <2>4, <3>5, <4>1, <4>2, Zenon
    <3>4. outbox' = Append(outbox, "pending")
      <4> HIDE DEF outbox
      <4> QED
        BY <2>4, <3>3, AppendByElements
    <3> QED
      BY <2>8, <3>4, Zenon DEF AtLeastOnce!Next, AtLeastOnce!Accept
  <2> QED
    BY <1>2, <2>2, <2>5, <2>6, <2>7, <2>8, RowsChange, ReceivedChange, Zenon DEF StorageResult,
       StorageMeasure, storageOthers, broker
<1> QED
  BY <1>1, <1>2, Invariant, PTL DEF Spec, ImplementsOutbox, AtLeastOnce!Spec
-----------------------------------------------------------------------------
\* Which steps write which variables of the data workers.
LEMMA Writers ==
    ASSUME Next, ~(Crash \/ Reap)
    PROVE  /\ UNCHANGED measurement_queue \/ SourcePush \/ StorageMeasure
           /\ UNCHANGED result_queue \/ StorageResult \/ MqttReport
           /\ UNCHANGED produced \/ SourceNext
           /\ UNCHANGED sample \/ Source
           /\ UNCHANGED confirmed \/ MqttAcknowledged
           /\ UNCHANGED report \/ Mqtt
           /\ UNCHANGED sto \/ Storage \/ BackoffExpires
           /\ UNCHANGED boot_base \/ StartProcess
           /\ UNCHANGED <<collection_paused, late>> \/ SourceNext
              \/ \E t \in Handlers : ExecuteHere(t)
           /\ closed \subseteq closed'
           /\ UNCHANGED <<step, result>> \/ Coordinator
<1>1. CASE Source
  <2>1. UNCHANGED sourceOthers
    BY <1>1, SourceFrame, Zenon
  <2>2. /\ UNCHANGED measurement_queue \/ SourcePush
        /\ UNCHANGED <<produced, late>> \/ SourceNext
    BY <1>1, Zenon DEF Source, SourceLoop, SourceNext, SourcePush, SourceRetry
  <2> QED
    BY <1>1, <2>1, <2>2, Zenon DEF sourceOthers, status, mqttL, coordL, bounds
<1>2. CASE Storage \/ BackoffExpires
  <2>1. UNCHANGED storageOthers
    BY <1>2, StorageFrame, Zenon
  <2>2. /\ UNCHANGED measurement_queue \/ StorageMeasure
        /\ UNCHANGED result_queue \/ StorageResult
    BY <1>2, Zenon DEF Storage, StorageControl, StorageServe, StorageResult, StorageMeasure,
         StorageSchedule, StorageEnqueue, BackoffExpires, dataQ
  <2> QED
    BY <1>2, <2>1, <2>2, Zenon DEF storageOthers, status, mqttL, coordL, bounds
<1>3. CASE Mqtt \/ \E id \in net : BrokerReceive(id)
  <2>1. UNCHANGED mqttOthers
    BY <1>3, MqttFrame, Zenon
  <2>2. /\ UNCHANGED result_queue \/ MqttReport
        /\ UNCHANGED confirmed \/ MqttAcknowledged
        /\ UNCHANGED report \/ Mqtt
        /\ closed \subseteq closed'
    BY <1>3, Zenon DEF Mqtt, MqttPop, MqttPublish, MqttAcknowledged, MqttGaveUp, MqttReport,
         MqttClose, BrokerReceive
  <2> QED
    BY <1>3, <2>1, <2>2, Zenon DEF mqttOthers, status, coordL, bounds
<1>4. CASE \/ \E t \in Handlers : Handler(t)
           \/ Local \/ Remote
           \/ \E m \in RemoteMessages : MqttCommandReceived(m)
  <2>1. UNCHANGED commandOthers
    BY <1>4, CommandFrame, Zenon
  <2>2. /\ UNCHANGED <<collection_paused, late>> \/ \E t \in Handlers : ExecuteHere(t)
        /\ UNCHANGED closed
    <3>1. CASE \E t \in Handlers : Handler(t)
      BY <3>1, Zenon DEF Handler, LockCommandMutex, ExecuteHere, AskStorage, TakeStorageAnswer,
           AbandonRequest, status
    <3>2. CASE Local
      BY <3>2, Zenon DEF Local, LocalBind, LocalReceive, LocalLeave, LocalAnswer,
           localOthers, status
    <3>3. CASE Remote \/ \E m \in RemoteMessages : MqttCommandReceived(m)
      BY <3>3, Zenon DEF Remote, RemotePop, RemoteAnswer, RemotePublish, MqttCommandReceived,
           remoteOthers, status
    <3> QED
      BY <1>4, <3>1, <3>2, <3>3, Zenon
  <2> QED
    BY <1>4, <2>1, <2>2, Zenon DEF commandOthers, dataQ, mqttL, coordL
<1>5. CASE StartProcess \/ Coordinator \/ SignalArrives
  <2>1. UNCHANGED coordOthers
    BY <1>5, CoordinatorFrame, Zenon
  <2>2. /\ UNCHANGED boot_base \/ StartProcess
        /\ closed \subseteq closed'
        /\ UNCHANGED <<step, result>> \/ Coordinator
    BY <1>5, Zenon DEF StartProcess, Coordinator, StartWorker, StopWaiting, RequestStop,
         ShutdownStep, ReturnResult, SignalArrives, coordL
  <2> QED
    BY <1>5, <2>1, <2>2, Zenon DEF coordOthers, dataQ, mqttL
<1>6. CASE Finished
  BY <1>6, Zenon DEF Finished, vars, dataQ, mqttL, coordL, bounds, status
<1> QED
  BY <1>1, <1>2, <1>3, <1>4, <1>5, <1>6, Zenon DEF Next

\* The coordinator creates the n-th thread of its start-up.
Creates(n) == Coordinator /\ pc["coordinator"] = "start" /\ step = n

\* Which steps move which thread, and where a created thread begins.
LEMMA Movers ==
    ASSUME DeliveryInv, Next, ~(Crash \/ Reap)
    PROVE  /\ pc'["source"] = pc["source"] \/ Source
              \/ (Creates(5) /\ pc'["source"] = "top")
           /\ pc'["storage"] = pc["storage"] \/ Storage
              \/ (Creates(4) /\ pc'["storage"] = "control")
           /\ pc'["mqtt"] = pc["mqtt"] \/ Mqtt
              \/ (Creates(3) /\ pc'["mqtt"] = "pop")
           /\ pc'["local"] = pc["local"] \/ Local \/ Handler("local")
              \/ (Creates(6) /\ pc'["local"] = "bind")
           /\ pc'["remote"] = pc["remote"] \/ Remote \/ Handler("remote")
              \/ (Creates(1) /\ pc'["remote"] = "pop")
           /\ pc'["coordinator"] = pc["coordinator"] \/ StartProcess \/ Coordinator
<1> USE DEF Threads, Handlers
<1>1. PositionsOK
  BY Zenon DEF DeliveryInv, TypeOK
<1>2. CASE StartProcess \/ Coordinator
  <2>1. StartProcess => pc["coordinator"] = "down"
    BY Zenon DEF StartProcess
  <2> QED
    BY <1>2, <2>1, CoordinatorPositions, StartOrderFacts DEF Creates
<1>3. CASE ~(StartProcess \/ Coordinator \/ Finished)
  <2>1. CASE Source \/ Storage \/ Mqtt
    BY <1>1, <2>1, OnlyOwnPosition, Zenon
  <2>2. CASE Local \/ Remote \/ Handler("local") \/ Handler("remote")
    BY <1>1, <2>2, OnlyOwnPosition, Zenon
  <2>3. CASE \/ \E id \in net : BrokerReceive(id)
             \/ \E m \in RemoteMessages : MqttCommandReceived(m)
             \/ BackoffExpires \/ SignalArrives
    BY <1>1, <2>3, OnlyOwnPosition, Zenon
  <2> QED
    BY <1>3, <2>1, <2>2, <2>3, Zenon DEF Next
<1>4. CASE Finished
  BY <1>4, Zenon DEF Finished, vars
<1> QED
  BY <1>2, <1>3, <1>4, Zenon

\* What the end of a process leaves of the state.
LEMMA EndFacts ==
    ASSUME Crash \/ Reap
    PROVE  /\ UNCHANGED <<rows, produced, boot_base>>
           /\ measurement_queue' = <<>> /\ result_queue' = <<>>
           /\ confirmed' = {} /\ sto' = StorageLocals
           /\ collection_paused' = FALSE /\ fatal_error' = FALSE
           /\ result' = -1 /\ late' = 0
           /\ pc'["coordinator"] = "down"
           /\ \A t \in Threads \ {"coordinator"} : pc'[t] = "unborn"
<1>1. pc' = AllUnborn("down")
  BY Zenon DEF Crash, Reap, ProcessEnds
<1>2. /\ pc'["coordinator"] = "down"
      /\ \A t \in Threads \ {"coordinator"} : pc'[t] = "unborn"
  BY <1>1, Zenon DEF AllUnborn, Threads
<1> QED
  BY <1>2, Zenon DEF Crash, Reap, ProcessEnds, store

\* A step of the stop sequence moves no thread but the receiver.
LEMMA ShutdownMoves ==
    ASSUME DeliveryInv, ShutdownStep
    PROVE  UNCHANGED pc \/ Goto("receiver", "done")
<1>1. \/ UNCHANGED pc
      \/ StopOrder[step].act = "destroy" /\ Goto(StopOrder[step].on, "done")
  BY Zenon DEF ShutdownStep
<1>2. step \in Nat /\ step >= 1
  BY StopOrderFacts DEF DeliveryInv, TypeOK, CountersOK
<1>3. step <= Len(StopOrder)
  BY Zenon DEF ShutdownStep
<1>4. step \in 1 .. 12
  BY <1>2, <1>3, StopOrderFacts
<1> QED
  BY <1>1, <1>4, StopOrderFacts, Zenon

\* The positions at which a worker has a step to take.
LEMMA ActsAt ==
    /\ Source => pc["source"] \in {"top", "next", "push", "retry"}
    /\ Storage => pc["storage"] \in {"control", "serve", "result", "measure", "schedule",
                                     "enqueue"}
    /\ Mqtt => pc["mqtt"] \in {"pop", "publish", "wait", "report", "close"}
    /\ Local => pc["local"] \in {"bind", "listen", "answer"}
    /\ Remote => pc["remote"] \in {"pop", "answer", "publish"}
    /\ \A h \in Handlers : Handler(h) => pc[h] \in {"lock", "execute", "await"}
<1>1. /\ Source => pc["source"] \in {"top", "next", "push", "retry"}
      /\ Storage => pc["storage"] \in {"control", "serve", "result", "measure", "schedule",
                                       "enqueue"}
      /\ Mqtt => pc["mqtt"] \in {"pop", "publish", "wait", "report", "close"}
  BY Zenon DEF Source, SourceLoop, SourceNext, SourcePush, SourceRetry, Storage,
       StorageControl, StorageServe, StorageResult, StorageMeasure, StorageSchedule,
       StorageEnqueue, Mqtt, MqttPop, MqttPublish, MqttAcknowledged, MqttGaveUp, MqttReport,
       MqttClose
<1>2. /\ Local => pc["local"] \in {"bind", "listen", "answer"}
      /\ Remote => pc["remote"] \in {"pop", "answer", "publish"}
      /\ \A h \in Handlers : Handler(h) => pc[h] \in {"lock", "execute", "await"}
  BY Zenon DEF Local, LocalBind, LocalReceive, LocalLeave, LocalAnswer, Remote, RemotePop,
       RemoteAnswer, RemotePublish, Handler, LockCommandMutex, ExecuteHere, AskStorage,
       TakeStorageAnswer, AbandonRequest
<1> QED
  BY <1>1, <1>2, Zenon
-----------------------------------------------------------------------------
(* The data path from the source to the database, and the stop. *)

\* A push leaves what is queued where it is.
LEMMA PushKeeps ==
    ASSUME NEW S, NEW q \in Seq(S), NEW e
    PROVE  \A i \in DOMAIN q : i \in DOMAIN Append(q, e) /\ Append(q, e)[i] = q[i]
  OBVIOUS

\* A failure is never taken back while the process lives.
LEMMA FailureStays ==
    ASSUME DeliveryInv, Next, ~(Crash \/ Reap), fatal_error
    PROVE  fatal_error'
<1>1. fatal_error \in BOOLEAN
  BY DEF DeliveryInv, TypeOK, FlagsTypeOK
<1>2. CASE UNCHANGED fatal_error \/ fatal_error' = TRUE
  BY <1>2, Zenon
<1>3. CASE Source \/ Storage \/ BackoffExpires
  BY <1>2, <1>3, Zenon DEF Source, SourceLoop, SourceNext, SourcePush, SourceRetry, Storage,
       StorageControl, StorageServe, StorageResult, StorageMeasure, StorageSchedule,
       StorageEnqueue, BackoffExpires, StorageFail, WorkerFail, flags
<1>4. CASE Mqtt \/ \E id \in net : BrokerReceive(id)
  BY <1>2, <1>4, Zenon DEF Mqtt, MqttPop, MqttPublish, MqttAcknowledged, MqttGaveUp,
       MqttReport, MqttClose, BrokerReceive, WorkerFail, flags
<1>5. CASE \E t \in Handlers : Handler(t)
  BY <1>2, <1>5, Zenon DEF Handler, LockCommandMutex, ExecuteHere, AskStorage,
       TakeStorageAnswer, AbandonRequest, Answer, HandlerFail, WorkerFail
<1>6. CASE Local \/ Remote \/ \E m \in RemoteMessages : MqttCommandReceived(m)
  BY <1>2, <1>6, Zenon DEF Local, LocalBind, LocalReceive, LocalLeave, LocalAnswer, Remote,
       RemotePop, RemoteAnswer, RemotePublish, MqttCommandReceived, WorkerFail
<1>7. CASE StartProcess \/ Coordinator \/ SignalArrives \/ Finished
  <2>1. CASE RequestStop
    BY <1>1, <2>1, Zenon DEF RequestStop
  <2>2. CASE ~RequestStop
    BY <1>2, <1>7, <2>2, Zenon DEF StartProcess, Coordinator, StartWorker, StopWaiting,
         ShutdownStep, ReturnResult, SignalArrives, Finished, vars, flags
  <2> QED
    BY <2>1, <2>2, Zenon
<1> QED
  BY <1>3, <1>4, <1>5, <1>6, <1>7, Zenon DEF Next

-----------------------------------------------------------------------------
\* A pause lets at most the measurement through whose snapshot came before it.
LEMMA PauseStep ==
    ASSUME DeliveryInv, StopInv, Next
    PROVE  PauseSeen'
<1>1. /\ PauseSeen /\ late \in Nat /\ collection_paused \in BOOLEAN
  BY DEF DeliveryInv, StopInv, TypeOK, FlagsTypeOK, CountersOK
<1>2. CASE Crash \/ Reap
  BY <1>2, EndFacts, Zenon DEF PauseSeen
<1>3. CASE SourceNext
  <2>1. pc["source"] = "next" /\ pc'["source"] # "next"
    <3>1. \E w \in {"push", "top", "done"} : Goto("source", w)
      BY <1>3, Zenon DEF SourceNext, WorkerFail
    <3>2. pc["source"] = "next"
      BY <1>3, Zenon DEF SourceNext
    <3>3. pc \in [Threads -> Positions] /\ "source" \in Threads
      BY DEF DeliveryInv, TypeOK, PositionsOK, Threads
    <3> QED
      BY <3>1, <3>2, <3>3, Zenon DEF Goto
  <2>2. UNCHANGED collection_paused
    <3>1. UNCHANGED sourceOthers
      BY <1>3, SourceFrame, Zenon DEF Source
    <3> QED
      BY <3>1, Zenon DEF sourceOthers, status
  <2>3. UNCHANGED late \/ late' = (IF collection_paused THEN late + 1 ELSE late)
    BY <1>3, Zenon DEF SourceNext
  <2> QED
    BY <1>1, <2>1, <2>2, <2>3 DEF PauseSeen
<1>4. CASE \E t \in Handlers : ExecuteHere(t)
  <2>1. pc'["source"] = pc["source"]
    <3>1. PICK t \in Handlers : ExecuteHere(t)
      BY <1>4, Zenon
    <3>2. Handler(t) /\ "source" \in Threads \ {t}
      BY <3>1 DEF Handler, Threads, Handlers
    <3> QED
      BY <3>2, OnlyOwnPosition, Zenon DEF DeliveryInv, TypeOK
  <2>2. \/ UNCHANGED <<collection_paused, late>>
        \/ collection_paused /\ UNCHANGED late
        \/ late' = 0
    BY <1>4, Zenon DEF ExecuteHere
  <2>3. CASE late' = 0
    BY <2>3 DEF PauseSeen
  <2>4. CASE collection_paused /\ UNCHANGED late
    BY <1>1, <2>1, <2>4, Zenon DEF PauseSeen
  <2> QED
    BY <1>1, <2>1, <2>2, <2>3, <2>4, Zenon DEF PauseSeen
<1>5. CASE UNCHANGED <<collection_paused, late>> /\ ~(Crash \/ Reap) /\ ~SourceNext
  <2>1. collection_paused /\ pc'["source"] = "next" => pc["source"] = "next"
    <3>1. CASE Source
      <4>1. pc["source"] = "next" \/ ~collection_paused
            \/ \E w \in {"push", "top", "done", "retry"} : Goto("source", w)
        BY <3>1, <1>5, Zenon DEF Source, SourceLoop, SourcePush, SourceRetry
      <4>2. pc \in [Threads -> Positions] /\ "source" \in Threads
        BY DEF DeliveryInv, TypeOK, PositionsOK, Threads
      <4> QED
        BY <4>1, <4>2, Zenon DEF Goto
    <3> QED
      BY <1>5, <3>1, Movers, Zenon
  <2> QED
    BY <1>1, <1>5, <2>1 DEF PauseSeen
<1> QED
  BY <1>2, <1>3, <1>4, <1>5, Writers, Zenon
-----------------------------------------------------------------------------
\* Which step of the stop sequence joins which thread.
LEMMA JoinSteps ==
    /\ StopOrder[3].act = "join" /\ StopOrder[3].on = "local"
    /\ StopOrder[7].act = "join" /\ StopOrder[7].on = "remote"
    /\ StopOrder[8].act = "join" /\ StopOrder[8].on = "source"
    /\ StopOrder[9].act = "join" /\ StopOrder[9].on = "mqtt"
    /\ StopOrder[11].act = "join" /\ StopOrder[11].on = "storage"
  BY Zenon DEF StopOrder

\* When every worker has ended nobody is left that could fail.
LEMMA NobodyFails ==
    ASSUME Next, ~(StartProcess \/ Coordinator \/ Crash \/ Reap),
           \A t \in {"local", "remote", "source", "mqtt", "storage"} : Ended(t)
    PROVE  UNCHANGED fatal_error
<1>1. ~Source /\ ~Storage /\ ~Mqtt
  BY ActsAt, Zenon DEF Ended
<1>2. ~Local /\ ~Remote /\ \A t \in Handlers : ~Handler(t)
  BY ActsAt DEF Ended, Handlers
<1> QED
  BY <1>1, <1>2, Zenon DEF Next, BackoffExpires, BrokerReceive, MqttCommandReceived,
     SignalArrives, Finished, vars, flags

\* A worker that has ended stays ended while the process lives.
LEMMA EndedStays ==
    ASSUME DeliveryInv, Next, ~(Crash \/ Reap), pc["coordinator"] # "start",
           NEW t \in {"local", "remote", "source", "mqtt", "storage"}, Ended(t)
    PROVE  pc'[t] = pc[t]
<1>3. "local" \in Handlers /\ "remote" \in Handlers
  BY Zenon DEF Handlers
<1>4. pc[t] = "unborn" \/ pc[t] = "done"
  BY DEF Ended
<1>5. CASE t \in {"local", "remote"}
  BY <1>3, <1>4, <1>5, Movers, ActsAt, Zenon DEF Creates
<1>6. CASE t = "source" \/ t = "mqtt"
  BY <1>4, <1>6, Movers, ActsAt, Zenon DEF Creates
<1>7. CASE t = "storage"
  BY <1>4, <1>7, Movers, ActsAt, Zenon DEF Creates
<1> QED
  BY <1>5, <1>6, <1>7, Zenon

\* The coordinator goes past step n of the stop sequence by taking that step.
LEMMA PastStep ==
    ASSUME DeliveryInv, Next, ~(Crash \/ Reap), NEW n \in 2 .. 12, Past(n)'
    PROVE  /\ pc["coordinator"] # "start"
           /\ Past(n) \/ (ShutdownStep /\ step = n)
<1>1. /\ step \in 1 .. 13 /\ Len(StopOrder) = 12
      /\ pc["coordinator"] = "stop" => step = 1
  <2>1. /\ step \in 1 .. Len(StopOrder) + 1
        /\ pc["coordinator"] \in {"down", "run", "stop"} => step = 1
    BY Zenon DEF DeliveryInv, TypeOK, CountersOK, LocalsAtPositions
  <2> QED
    BY <2>1, StopOrderFacts
<1>2. pc \in [Threads -> Positions] /\ "coordinator" \in Threads
  BY Zenon DEF DeliveryInv, TypeOK, PositionsOK, Threads
<1>3. CASE StartProcess \/ StartWorker \/ StopWaiting
  <2>1. pc'["coordinator"] \in {"start", "run", "stop"}
    <3>1. CASE StartProcess \/ StopWaiting
      BY <1>2, <3>1, Zenon DEF StartProcess, StopWaiting, Goto
    <3>2. CASE StartWorker
      BY <1>2, <3>2, Zenon DEF StartWorker, Goto
    <3> QED
      BY <1>3, <3>1, <3>2, Zenon
  <2> QED
    BY <2>1, Zenon DEF Past
<1>4. CASE RequestStop
  <2>1. pc["coordinator"] = "stop" /\ step' = step /\ pc'["coordinator"] = "shutdown"
    BY <1>2, <1>4, Zenon DEF RequestStop, coordL, Goto
  <2> QED
    BY <1>1, <2>1 DEF Past
<1>5. CASE ShutdownStep
  <2>1. pc["coordinator"] = "shutdown" /\ step' = step + 1
    BY <1>5, Zenon DEF ShutdownStep
  <2>2. UNCHANGED pc \/ Goto("receiver", "done")
    BY <1>5, ShutdownMoves, Zenon
  <2>3. pc'["coordinator"] = "shutdown"
    BY <1>2, <2>1, <2>2, Zenon DEF Goto
  <2> QED
    BY <1>1, <1>5, <2>1, <2>3 DEF Past
<1>6. CASE ReturnResult
  BY <1>1, <1>6 DEF ReturnResult, Past
<1>7. CASE ~(StartProcess \/ Coordinator)
  <2>1. step' = step /\ pc'["coordinator"] = pc["coordinator"]
    BY <1>7, Writers, Movers, Zenon
  <2> QED
    BY <2>1, Zenon DEF Past
<1> QED
  BY <1>3, <1>4, <1>5, <1>6, <1>7, Zenon DEF Coordinator

\* pthread_join: a thread has ended when the stop sequence is past its join.
LEMMA JoinedStep ==
    ASSUME DeliveryInv, StopInv, Next
    PROVE  Joined'
<1>1. CASE Crash \/ Reap
  BY <1>1, EndFacts, Zenon DEF Joined, Past
<1>2. CASE ~(Crash \/ Reap)
  <2>1. ASSUME NEW t \in {"local", "remote", "source", "mqtt", "storage"}, NEW n \in 2 .. 12,
               StopOrder[n].act = "join" /\ StopOrder[n].on = t,
               Past(n) => Ended(t)
        PROVE  (Past(n) => Ended(t))'
    <3> SUFFICES ASSUME Past(n)' PROVE Ended(t)'
      OBVIOUS
    <3>1. pc["coordinator"] # "start" /\ (Past(n) \/ (ShutdownStep /\ step = n))
      BY <1>2, PastStep, Zenon
    <3>2. Ended(t)
      BY <2>1, <3>1, Zenon DEF ShutdownStep, Ended
    <3>3. pc'[t] = pc[t]
      BY <1>2, <3>1, <3>2, EndedStays, Zenon
    <3> QED
      BY <3>2, <3>3, Zenon DEF Ended
  <2>2. Joined
    BY Zenon DEF StopInv
  <2> QED
    BY <2>1, <2>2, JoinSteps DEF Joined
<1> QED
  BY <1>1, <1>2, Zenon
-----------------------------------------------------------------------------
\* How a step of the storage worker changes what it has seen closed, and when it
\* leaves its loop.
LEMMA StorageCloses ==
    ASSUME DeliveryInv, Storage \/ BackoffExpires
    PROVE  /\ \/ sto'.measurement_closed = sto.measurement_closed
              \/ /\ "measurement" \in closed /\ measurement_queue = <<>>
                 /\ UNCHANGED measurement_queue
           /\ \/ sto'.result_closed = sto.result_closed
              \/ "result" \in closed /\ result_queue = <<>> /\ UNCHANGED result_queue
           /\ pc'["storage"] = "done" =>
                 \/ fatal_error' = TRUE
                 \/ /\ sto.measurement_closed /\ sto.result_closed
                    /\ sto'.measurement_closed /\ sto'.result_closed
<1>1. sto \in [measurement_closed : BOOLEAN, result_closed : BOOLEAN,
               inflight : BOOLEAN, backoff : BOOLEAN, request : Request \cup {NoCommand}]
  BY DEF DeliveryInv, TypeOK, CommandTypeOK
<1>2. pc \in [Threads -> Positions] /\ "storage" \in Threads
  BY Zenon DEF DeliveryInv, TypeOK, PositionsOK, Threads
<1>3. CASE StorageControl \/ StorageServe
  <2>1. \/ UNCHANGED sto
        \/ \E r : sto' = [sto EXCEPT !.request = r]
    BY <1>3, Zenon DEF StorageControl, StorageServe
  <2>2. Goto("storage", "serve") \/ Goto("storage", "result") \/ fatal_error' = TRUE
    BY <1>3, Zenon DEF StorageControl, StorageServe, WorkerFail
  <2> QED
    BY <1>1, <1>2, <2>1, <2>2, Zenon DEF Goto
<1>4. CASE StorageResult
  <2>1. \/ UNCHANGED sto
        \/ \E b : sto' = [sto EXCEPT !.inflight = FALSE, !.backoff = b]
        \/ /\ IsEmpty(result_queue) /\ "result" \in closed /\ UNCHANGED result_queue
           /\ sto' = [sto EXCEPT !.result_closed = TRUE, !.inflight = FALSE]
    BY <1>4, Zenon DEF StorageResult
  <2>2. Goto("storage", "measure") \/ fatal_error' = TRUE
    BY <1>4, Zenon DEF StorageResult, StorageFail, WorkerFail
  <2> QED
    BY <1>1, <1>2, <2>1, <2>2, Zenon DEF Goto, IsEmpty
<1>5. CASE StorageMeasure
  <2>1. \/ UNCHANGED sto
        \/ /\ sto.measurement_closed \/ IsEmpty(measurement_queue)
           /\ sto' = [sto EXCEPT !.measurement_closed = @ \/ "measurement" \in closed]
           /\ UNCHANGED measurement_queue
    BY <1>5, Zenon DEF StorageMeasure
  <2>2. Goto("storage", "schedule") \/ fatal_error' = TRUE
    BY <1>5, Zenon DEF StorageMeasure, StorageFail, WorkerFail
  <2> QED
    BY <1>1, <1>2, <2>1, <2>2, Zenon DEF Goto, IsEmpty
<1>6. CASE StorageSchedule \/ StorageEnqueue
  <2>1. \/ UNCHANGED sto
        \/ sto' = [sto EXCEPT !.inflight = TRUE]
    BY <1>6, Zenon DEF StorageSchedule, StorageEnqueue
  <2>2. Goto("storage", "enqueue") \/ LoopAgain(sto) \/ fatal_error' = TRUE
    BY <1>6, Zenon DEF StorageSchedule, StorageEnqueue, StorageFail, WorkerFail
  <2> QED
    BY <1>1, <1>2, <2>1, <2>2, Zenon DEF Goto, LoopAgain
<1>7. CASE BackoffExpires
  <2>1. sto' = [sto EXCEPT !.backoff = FALSE] /\ pc'["storage"] = pc["storage"] /\ StorageUp
    BY <1>7, Zenon DEF BackoffExpires
  <2> QED
    BY <1>1, <2>1, Zenon DEF StorageUp
<1> QED
  BY <1>3, <1>4, <1>5, <1>6, <1>7, Zenon DEF Storage

\* The storage worker leaves its loop only by a failure or when both of its
\* queues are closed and drained, and nothing is put into them after that.
LEMMA DrainsStep ==
    ASSUME DeliveryInv, StopInv, Next
    PROVE  StorageDrains'
<1>1. StorageDrains
  BY Zenon DEF StopInv
<1>2. CASE Crash \/ Reap
  <2>1. ~sto'.measurement_closed /\ ~sto'.result_closed
    <3>1. sto' = StorageLocals
      BY <1>2, EndFacts, Zenon
    <3> QED
      BY <3>1, Zenon DEF StorageLocals
  <2>2. pc'["storage"] = "unborn"
    BY <1>2, EndFacts, Zenon DEF Threads
  <2> QED
    BY <2>1, <2>2, Zenon DEF StorageDrains
<1>3. CASE ~(Crash \/ Reap)
  <2>1. closed \subseteq closed'
    BY <1>3, Writers, Zenon
  <2>2. \/ UNCHANGED measurement_queue
        \/ "measurement" \notin closed
        \/ ~sto.measurement_closed /\ StorageMeasure /\ ~IsEmpty(measurement_queue)
    BY <1>3, Writers, Zenon DEF SourcePush, StorageMeasure
  <2>3. \/ UNCHANGED result_queue
        \/ "result" \notin closed
        \/ StorageResult /\ ~IsEmpty(result_queue)
    BY <1>3, Writers, Zenon DEF MqttReport, StorageResult
  <2>4. CASE Storage \/ BackoffExpires
    BY <1>1, <2>1, <2>2, <2>3, <2>4, StorageCloses, Zenon DEF StorageDrains, IsEmpty
  <2>5. CASE ~(Storage \/ BackoffExpires)
    <3>1. UNCHANGED sto
      BY <1>3, <2>5, Writers, Zenon
    <3>2. UNCHANGED measurement_queue \/ "measurement" \notin closed
      BY <2>2, <2>5, Zenon DEF Storage
    <3>3. UNCHANGED result_queue \/ "result" \notin closed
      BY <2>3, <2>5, Zenon DEF Storage
    <3>4. pc'["storage"] = "done" => pc["storage"] = "done"
      BY <1>3, <2>5, Movers, Zenon
    <3>5. fatal_error => fatal_error'
      BY <1>3, FailureStays, Zenon
    <3> QED
      BY <1>1, <2>1, <3>1, <3>2, <3>3, <3>4, <3>5, Zenon DEF StorageDrains
  <2> QED
    BY <2>4, <2>5, Zenon
<1> QED
  BY <1>2, <1>3, Zenon

\* result is 0 only after a complete start, and at the end only if no worker
\* failed: all threads have ended, so none fails any more.
LEMMA ResultStep ==
    ASSUME DeliveryInv, StopInv, Next
    PROVE  ResultEarned'
<1>1. /\ ResultEarned /\ Joined
      /\ pc \in [Threads -> Positions] /\ {"coordinator", "storage", "source"} \subseteq Threads
      /\ step \in 1 .. 13
      /\ pc["coordinator"] = "start" => step <= 6
  <2>1. /\ ResultEarned /\ Joined /\ pc \in [Threads -> Positions]
        /\ step \in 1 .. Len(StopOrder) + 1
        /\ pc["coordinator"] = "start" => step <= Len(StartOrder)
    BY Zenon DEF StopInv, DeliveryInv, TypeOK, PositionsOK, CountersOK, LocalsAtPositions
  <2> QED
    BY <2>1, StopOrderFacts, StartOrderFacts DEF Threads
<1>2. CASE Crash \/ Reap
  <2>1. result' = -1 /\ pc'["coordinator"] = "down" /\ pc'["source"] = "unborn"
    BY <1>2, EndFacts, Zenon DEF Threads
  <2> QED
    BY <2>1 DEF ResultEarned, Exited
<1>3. CASE StartProcess
  <2>1. /\ pc["coordinator"] = "down" /\ step' = step /\ result' = result
        /\ pc' = [pc EXCEPT !["coordinator"] = "start"]
    BY <1>3, Zenon DEF StartProcess, coordL, Goto
  <2>2. step = 1
    BY <2>1, Zenon DEF DeliveryInv, LocalsAtPositions
  <2> QED
    BY <1>1, <2>1, <2>2 DEF ResultEarned, Exited
<1>4. CASE StartWorker
  <2>1. pc["coordinator"] = "start" /\ UNCHANGED result
    BY <1>4, Zenon DEF StartWorker
  <2>2. CASE Goto("coordinator", "stop")
    BY <1>1, <2>1, <2>2, Zenon DEF ResultEarned, Exited, Goto
  <2>3. CASE /\ pc' = [pc EXCEPT ![StartOrder[step]] = Entry[StartOrder[step]],
                                !["coordinator"] = IF step = Len(StartOrder)
                                                   THEN "run" ELSE "start"]
             /\ step' = IF step = Len(StartOrder) THEN 1 ELSE step + 1
    <3>1. pc'["coordinator"] = IF step = 6 THEN "run" ELSE "start"
      BY <1>1, <2>3, StartOrderFacts, Zenon
    <3>2. step' = IF step = 6 THEN 1 ELSE step + 1
      BY <2>3, StartOrderFacts, Zenon
    <3>3. pc'["storage"] = IF step = 4 THEN "control" ELSE pc["storage"]
      <4>1. step \in {1, 2, 3, 4, 5, 6}
        BY <1>1, <2>1
      <4> QED
        BY <1>1, <2>3, <4>1, StartOrderFacts, Zenon
    <3>4. step # 5 => pc'["source"] = pc["source"]
      <4>1. step \in {1, 2, 3, 4, 5, 6}
        BY <1>1, <2>1
      <4> QED
        BY <1>1, <2>3, <4>1, StartOrderFacts, Zenon
    <3> QED
      BY <1>1, <2>1, <3>1, <3>2, <3>3, <3>4 DEF ResultEarned, Exited
  <2> QED
    BY <1>4, <2>2, <2>3, Zenon DEF StartWorker
<1>5. CASE StopWaiting \/ RequestStop
  <2>1. /\ UNCHANGED result \/ pc["coordinator"] = "run"
        /\ Goto("coordinator", "stop") \/ Goto("coordinator", "shutdown")
    BY <1>5, Zenon DEF StopWaiting, RequestStop, coordL
  <2> QED
    BY <1>1, <2>1, Zenon DEF ResultEarned, Exited, Goto
<1>6. CASE ShutdownStep
  <2>1. pc["coordinator"] = "shutdown" /\ UNCHANGED result
    BY <1>6, Zenon DEF ShutdownStep
  <2>2. UNCHANGED pc \/ Goto("receiver", "done")
    BY <1>6, ShutdownMoves, Zenon
  <2> QED
    BY <1>1, <2>1, <2>2, Zenon DEF ResultEarned, Exited, Goto
<1>7. CASE ReturnResult
  <2>1. /\ Goto("coordinator", "exited") /\ UNCHANGED fatal_error
        /\ (fatal_error /\ result' = -1) \/ (~fatal_error /\ UNCHANGED result)
    BY <1>7, Zenon DEF ReturnResult, flags
  <2> QED
    BY <1>1, <2>1 DEF ResultEarned, Exited, Goto
<1>8. CASE ~(StartProcess \/ Coordinator \/ Crash \/ Reap)
  <2>1. step' = step /\ result' = result /\ pc'["coordinator"] = pc["coordinator"]
    BY <1>8, Writers, Movers, Zenon
  <2>2. pc["storage"] # "unborn" => pc'["storage"] # "unborn"
    <3>1. Storage => \E w \in Positions \ {"unborn"} : Goto("storage", w)
      <4> USE DEF Positions
      <4> QED
        BY Zenon DEF Storage, StorageControl, StorageServe, StorageResult,
           StorageMeasure, StorageSchedule, StorageEnqueue, StorageFail, WorkerFail, LoopAgain
    <3> QED
      BY <1>1, <1>8, <3>1, Movers, Zenon DEF Goto
  <2>3. pc["source"] = "unborn" => pc'["source"] = "unborn"
    BY <1>8, Movers, ActsAt, Zenon DEF Creates
  <2>4. pc["coordinator"] = "exited" => UNCHANGED fatal_error
    <3> SUFFICES ASSUME pc["coordinator"] = "exited" PROVE UNCHANGED fatal_error
      OBVIOUS
    <3>1. \A t \in {"local", "remote", "source", "mqtt", "storage"} : Ended(t)
      BY <1>1, Zenon DEF Joined, Past
    <3> QED
      BY <1>8, <3>1, NobodyFails, Zenon
  <2> QED
    BY <1>1, <2>1, <2>2, <2>3, <2>4 DEF ResultEarned, Exited
<1> QED
  BY <1>2, <1>3, <1>4, <1>5, <1>6, <1>7, <1>8, Zenon DEF Coordinator
-----------------------------------------------------------------------------
\* Only SaveMeasurement changes which measurements are stored.
LEMMA StoredChange ==
    ASSUME DeliveryInv, Next
    PROVE  \/ /\ Ids' = Ids
              /\ \A id \in Ids : rows'[id].measurement = rows[id].measurement
           \/ /\ StorageMeasure
              /\ ~IsEmpty(measurement_queue)
              /\ measurement_queue' = Tail(measurement_queue)
              /\ Ids' = Ids \cup {Len(rows) + 1}
              /\ \A id \in Ids : rows'[id].measurement = rows[id].measurement
              /\ rows'[Len(rows) + 1].measurement = Head(measurement_queue)
<1>1. rows \in Seq(Row)
  BY Zenon DEF DeliveryInv, TypeOK, StoreTypeOK
<1>2. CASE UNCHANGED rows
  BY <1>2, Zenon DEF Ids
<1>3. CASE /\ Head(result_queue) \in [id : Ids, ok : BOOLEAN]
           /\ rows' = MarkSent(rows, Head(result_queue).id)
  <2>1. Ids' = Ids
    BY <1>1, <1>3, MarkSentRows, Zenon DEF Ids
  <2> QED
    BY <2>1, RowsGrow, Zenon
<1>4. CASE /\ StorageMeasure /\ ~UNCHANGED rows
           /\ Head(measurement_queue) \in Nat
           /\ rows' = SaveMeasurement(rows, Head(measurement_queue))
  <2>1. ~IsEmpty(measurement_queue) /\ measurement_queue' = Tail(measurement_queue)
    BY <1>4, Zenon DEF StorageMeasure
  <2>2. /\ Ids' = Ids \cup {Len(rows) + 1}
        /\ rows'[Len(rows) + 1] = [measurement |-> Head(measurement_queue), state |-> "pending"]
    BY <1>1, <1>4, SaveMeasurementRows, Zenon DEF Ids
  <2> QED
    BY <1>4, <2>1, <2>2, RowsGrow
<1> QED
  BY <1>2, <1>3, <1>4, RowsChange, Zenon

\* Rows, queue and the measurement in hand stay in the order of collection.
LEMMA CollectedStep ==
    ASSUME DeliveryInv, StopInv, Next
    PROVE  CollectedInOrder'
<1> DEFINE Q == DOMAIN measurement_queue
           SameRows == /\ Ids' = Ids
                       /\ \A id \in Ids : rows'[id].measurement = rows[id].measurement
<1>1. /\ measurement_queue \in Seq(Nat) /\ rows \in Seq(Row)
      /\ sample \in Nat /\ produced \in Nat
  BY DEF DeliveryInv, TypeOK, StoreTypeOK, DataTypeOK, CountersOK
<1>2. \A i \in Q : i \in Nat /\ measurement_queue[i] \in Nat
  BY <1>1
<1>3. /\ \A id \in Ids : id \in Nat /\ id <= Len(rows) /\ rows[id].measurement \in Nat
      /\ Len(rows) \in Nat
  <2>1. /\ Len(rows) \in Nat
        /\ \A id \in Ids : id \in Nat /\ id <= Len(rows)
    BY <1>1 DEF Ids
  <2>2. \A id \in Ids : rows[id] \in Row
    BY <1>1, SeqElements, Zenon DEF Ids
  <2>3. \A r \in Row : r.measurement \in Nat
    BY Zenon DEF Row
  <2> QED
    BY <2>1, <2>2, <2>3, Zenon
<1>4. StoredInOrder /\ QueueInOrder /\ RowsBeforeQueue /\ AllCollected /\ InHandIsLast
  BY Zenon DEF StopInv, CollectedInOrder
<1>5. pc \in [Threads -> Positions] /\ "source" \in Threads
  BY DEF DeliveryInv, TypeOK, PositionsOK, Threads
<1> SUFFICES StoredInOrder' /\ QueueInOrder' /\ RowsBeforeQueue' /\ AllCollected' /\ InHandIsLast'
  BY Zenon DEF CollectedInOrder
<1>6. CASE Crash \/ Reap
  <2>1. /\ measurement_queue' = <<>> /\ pc'["source"] = "unborn"
        /\ UNCHANGED rows /\ produced' = produced
    BY <1>6, EndFacts, Zenon DEF Threads
  <2>2. DOMAIN measurement_queue' = {} /\ Ids' = Ids /\ ~InHand'
    BY <2>1 DEF Ids, InHand
  <2> QED
    BY <1>4, <2>1, <2>2, Zenon DEF StoredInOrder, QueueInOrder, RowsBeforeQueue, AllCollected, InHandIsLast
<1>7. CASE SourceNext /\ SameRows
  <2>1. UNCHANGED measurement_queue
    BY <1>7, Zenon DEF SourceNext
  <2>2. StoredInOrder' /\ QueueInOrder' /\ RowsBeforeQueue'
    BY <1>4, <1>7, <2>1, Zenon DEF StoredInOrder, QueueInOrder, RowsBeforeQueue
  <2>3. CASE produced' = produced + 1 /\ sample' = produced + 1
    <3>1. \A m \in Nat : m <= produced => m <= produced + 1 /\ m < produced + 1
      BY <1>1
    <3>2. AllCollected'
      BY <1>2, <1>3, <1>4, <1>7, <2>1, <2>3, <3>1, Zenon DEF AllCollected
    <3>3. InHandIsLast'
      BY <1>2, <1>3, <1>4, <1>7, <2>1, <2>3, <3>1, Zenon DEF AllCollected, InHandIsLast
    <3> QED
      BY <2>2, <3>2, <3>3, Zenon
  <2>4. CASE produced' = produced /\ (Goto("source", "top") \/ Goto("source", "done"))
    <3>1. ~InHand'
      BY <1>5, <2>4, Zenon DEF Goto, InHand
    <3> QED
      BY <1>4, <1>7, <2>1, <2>2, <2>4, <3>1, Zenon DEF AllCollected, InHandIsLast
  <2> QED
    BY <1>7, <2>3, <2>4, Zenon DEF SourceNext, WorkerFail
<1>8. CASE SourcePush /\ SameRows
  <2>1. produced' = produced /\ InHand
    BY <1>8, Zenon DEF SourcePush, InHand
  <2>2. StoredInOrder'
    BY <1>4, <1>8, Zenon DEF StoredInOrder
  <2>3. CASE measurement_queue' = Append(measurement_queue, sample) /\ Goto("source", "top")
    <3>1. ~InHand'
      BY <1>5, <2>3, Zenon DEF Goto, InHand
    <3> DEFINE n == Len(measurement_queue) + 1
    <3>2. /\ DOMAIN measurement_queue' = Q \cup {n}
          /\ \A i \in Q : i < n /\ measurement_queue'[i] = measurement_queue[i]
          /\ measurement_queue'[n] = sample
          /\ n \in Nat
      BY <1>1, <2>3
    <3> HIDE DEF n
    <3>3. QueueInOrder'
      BY <1>1, <1>2, <1>4, <2>1, <3>2 DEF QueueInOrder, InHandIsLast
    <3>4. RowsBeforeQueue'
      BY <1>4, <1>8, <2>1, <3>2, Zenon DEF RowsBeforeQueue, InHandIsLast
    <3>5. AllCollected'
      BY <1>1, <1>4, <1>8, <2>1, <3>2 DEF AllCollected, InHandIsLast
    <3> QED
      BY <2>2, <3>1, <3>3, <3>4, <3>5, Zenon DEF InHandIsLast
  <2>4. CASE UNCHANGED measurement_queue /\ (UNCHANGED sample \/ ~InHand')
    BY <1>4, <1>8, <2>1, <2>2, <2>4, Zenon DEF QueueInOrder, RowsBeforeQueue, AllCollected, InHandIsLast
  <2>5. \/ measurement_queue' = Append(measurement_queue, sample) /\ Goto("source", "top")
        \/ UNCHANGED measurement_queue
    BY <1>8, Zenon DEF SourcePush
  <2>6. UNCHANGED sample \/ ~InHand'
    <3>1. /\ Goto("source", "done") \/ Goto("source", "top") \/ Goto("source", "retry")
          /\ sample' = IF pc'["source"] = "retry" THEN sample ELSE 0
      BY <1>8, Zenon DEF SourcePush
    <3> QED
      BY <1>5, <3>1, Zenon DEF Goto, InHand
  <2> QED
    BY <2>3, <2>4, <2>5, <2>6, Zenon
<1>9. CASE ~(Crash \/ Reap) /\ ~SourceNext /\ ~SourcePush
  <2>1. produced' = produced
    BY <1>9, Writers, Zenon
  <2>2. InHand' => InHand /\ sample' = sample
    <3>1. CASE Source
      <4>1. \/ pc["source"] = "retry" /\ sample' = sample
            \/ Goto("source", "done") \/ Goto("source", "next")
        BY <1>9, <3>1, Zenon DEF Source, SourceLoop, SourceRetry
      <4> QED
        BY <1>5, <4>1, Zenon DEF Goto, InHand
    <3>2. CASE ~Source
      <4>1. sample' = sample
        BY <1>9, <3>2, Writers, Zenon
      <4>2. pc'["source"] = pc["source"] \/ pc'["source"] = "top"
        BY <1>9, <3>2, Movers, Zenon
      <4> QED
        BY <4>1, <4>2, Zenon DEF InHand
    <3> QED
      BY <3>1, <3>2, Zenon
  <2>3. CASE UNCHANGED measurement_queue /\ SameRows
    BY <1>4, <2>1, <2>2, <2>3, Zenon
       DEF StoredInOrder, QueueInOrder, RowsBeforeQueue, AllCollected, InHandIsLast
  <2>4. CASE ~IsEmpty(measurement_queue) /\ measurement_queue' = Tail(measurement_queue)
    <3>1. /\ \A i \in DOMAIN measurement_queue' :
                /\ i \in Nat /\ i >= 1 /\ i + 1 \in Q
                /\ measurement_queue'[i] = measurement_queue[i + 1]
          /\ 1 \in Q
          /\ Head(measurement_queue) = measurement_queue[1]
      BY <1>1, <2>4, PopFacts
    <3>2. QueueInOrder'
      BY <1>4, <3>1 DEF QueueInOrder
    <3>3. CASE SameRows
      BY <1>4, <2>1, <2>2, <3>1, <3>2, <3>3, Zenon
         DEF StoredInOrder, RowsBeforeQueue, AllCollected, InHandIsLast
    <3>4. CASE /\ Ids' = Ids \cup {Len(rows) + 1}
               /\ \A id \in Ids : rows'[id].measurement = rows[id].measurement
               /\ rows'[Len(rows) + 1].measurement = Head(measurement_queue)
      <4>1. StoredInOrder'
        BY <1>3, <1>4, <3>1, <3>4, SMTT(20) DEF StoredInOrder, RowsBeforeQueue
      <4>2. RowsBeforeQueue'
        BY <1>4, <3>1, <3>4 DEF RowsBeforeQueue, QueueInOrder
      <4>3. AllCollected' /\ InHandIsLast'
        BY <1>4, <2>1, <2>2, <3>1, <3>4, Zenon DEF AllCollected, InHandIsLast
      <4> QED
        BY <3>2, <4>1, <4>2, <4>3, Zenon
    <3> QED
      BY <3>3, <3>4, StoredChange, Zenon
  <2>5. \/ UNCHANGED measurement_queue
        \/ ~IsEmpty(measurement_queue) /\ measurement_queue' = Tail(measurement_queue)
    BY <1>9, Writers, Zenon DEF StorageMeasure
  <2> QED
    BY <2>3, <2>4, <2>5, StoredChange, Zenon
<1>10. SourceNext \/ SourcePush => SameRows
  <2>1. Source => UNCHANGED rows
    BY SourceFrame, Zenon DEF sourceOthers, store
  <2> QED
    BY <2>1, Zenon DEF Source, Ids
<1> HIDE DEF SameRows
<1> QED
  BY <1>6, <1>7, <1>8, <1>9, <1>10, Zenon

\* Without a failure a queued measurement stays queued until it is stored.
LEMMA QueuedMoves ==
    ASSUME DeliveryInv, Next, ~(Crash \/ Reap), ~fatal_error', NEW m, Queued(m)
    PROVE  Queued(m)' \/ Stored(m)'
<1>1. measurement_queue \in Seq(Nat) /\ sample \in Nat
  BY Zenon DEF DeliveryInv, TypeOK, DataTypeOK
<1>2. PICK i \in DOMAIN measurement_queue : measurement_queue[i] = m
  BY Zenon DEF Queued
<1>3. CASE UNCHANGED measurement_queue
  BY <1>2, <1>3, Zenon DEF Queued
<1>4. CASE measurement_queue' = Append(measurement_queue, sample)
  <2>1. i \in DOMAIN measurement_queue' /\ measurement_queue'[i] = m
    BY <1>1, <1>2, <1>4
  <2> QED
    BY <2>1, Zenon DEF Queued
<1>5. CASE /\ measurement_queue' = Tail(measurement_queue) /\ ~IsEmpty(measurement_queue)
           /\ rows' = SaveMeasurement(rows, Head(measurement_queue))
  <2>1. CASE i = 1
    <3>1. rows \in Seq(Row) /\ Head(measurement_queue) \in Nat /\ Head(measurement_queue) = m
      BY <1>1, <1>2, <1>5, <2>1, PopFacts, Zenon DEF DeliveryInv, TypeOK, StoreTypeOK
    <3>2. /\ Len(rows) + 1 \in Ids'
          /\ rows'[Len(rows) + 1] = [measurement |-> m, state |-> "pending"]
      BY <1>5, <3>1, SaveMeasurementRows, Zenon DEF Ids
    <3>3. rows'[Len(rows) + 1].measurement = m
      BY <3>2
    <3> QED
      BY <3>2, <3>3, Zenon DEF Stored
  <2>2. CASE i # 1
    <3>1. i - 1 \in DOMAIN measurement_queue' /\ measurement_queue'[i - 1] = m
      BY <1>1, <1>2, <1>5, <2>2 DEF IsEmpty
    <3> QED
      BY <3>1, Zenon DEF Queued
  <2> QED
    BY <2>1, <2>2, Zenon
<1> QED
  BY <1>3, <1>4, <1>5, Writers, Zenon DEF SourcePush, StorageMeasure, StorageFail, WorkerFail

\* A stored measurement stays stored.
LEMMA StoredStays ==
    ASSUME DeliveryInv, Next, NEW m, Stored(m)
    PROVE  Stored(m)'
<1>1. PICK id \in Ids : rows[id].measurement = m
  BY Zenon DEF Stored
<1>2. id \in Ids' /\ rows'[id].measurement = m
  BY <1>1, RowsGrow, Zenon
<1> QED
  BY <1>2, Zenon DEF Stored

\* Without a failure every measurement of this process is stored, queued or the
\* last one of the source worker.
LEMMA NothingStep ==
    ASSUME DeliveryInv, StopInv, Next
    PROVE  NothingDropped'
<1> DEFINE Last == pc["source"] \in {"push", "retry", "done"}
           Safe(m) == Stored(m) \/ Queued(m) \/ (m = produced /\ Last)
<1>1. /\ ~fatal_error /\ pc["coordinator"] # "down" =>
            \A m \in boot_base + 1 .. produced : Safe(m)
      /\ CollectedInOrder /\ ResultEarned
  BY Zenon DEF StopInv, NothingDropped, InHand
<1>2. /\ pc \in [Threads -> Positions] /\ "source" \in Threads /\ "coordinator" \in Threads
      /\ produced \in Nat /\ boot_base \in Nat /\ sample \in Nat
      /\ measurement_queue \in Seq(Nat)
  BY DEF DeliveryInv, TypeOK, PositionsOK, CountersOK, DataTypeOK, Threads
<1> SUFFICES ASSUME ~fatal_error', pc'["coordinator"] # "down",
                    NEW m \in boot_base' + 1 .. produced'
             PROVE  Stored(m)' \/ Queued(m)' \/ (m = produced' /\ Last')
  BY DEF NothingDropped, InHand
<1>3. ~(Crash \/ Reap)
  BY EndFacts, Zenon
<1>4. ~StartProcess
  <2>1. StartProcess => boot_base' = produced /\ produced' = produced
    BY Zenon DEF StartProcess, coordOthers
  <2> QED
    BY <1>2, <2>1
<1>5. boot_base' = boot_base /\ ~fatal_error
  BY <1>3, <1>4, Writers, FailureStays, Zenon
<1>6. pc["coordinator"] # "down"
  <2>1. Coordinator => pc["coordinator"] \in {"start", "run", "stop", "shutdown"}
    BY Zenon DEF Coordinator, StartWorker, StopWaiting, RequestStop, ShutdownStep, ReturnResult
  <2> QED
    BY <1>3, <1>4, <2>1, Movers, Zenon
<1>7. CASE SourceNext
  <2>1. /\ pc["source"] = "next" /\ UNCHANGED measurement_queue
        /\ \/ produced' = produced
           \/ produced' = produced + 1 /\ Goto("source", "push")
    BY <1>7, Zenon DEF SourceNext
  <2>2. CASE m = produced + 1 /\ produced' = produced + 1 /\ Goto("source", "push")
    BY <1>2, <2>2, Zenon DEF Goto
  <2>3. CASE m \in boot_base + 1 .. produced
    <3>1. Stored(m) \/ Queued(m)
      BY <1>1, <1>5, <1>6, <2>1, <2>3, Zenon
    <3> QED
      BY <1>3, <3>1, StoredStays, QueuedMoves, Zenon
  <2> QED
    BY <1>2, <1>5, <2>1, <2>2, <2>3
<1>8. CASE ~SourceNext
  <2>1. produced' = produced
    BY <1>3, <1>8, Writers, Zenon
  <2>2. Safe(m)
    BY <1>1, <1>5, <1>6, <2>1, Zenon
  <2>3. CASE Stored(m) \/ Queued(m)
    BY <1>3, <2>3, StoredStays, QueuedMoves, Zenon
  <2>4. CASE m = produced /\ Last /\ SourcePush
    <3>1. \/ measurement_queue' = Append(measurement_queue, sample)
          \/ Goto("source", "done") \/ Goto("source", "retry")
      BY <2>4, Zenon DEF SourcePush
    <3>2. CASE measurement_queue' = Append(measurement_queue, sample)
      <4>1. sample = produced
        <5>1. InHand
          BY <2>4, Zenon DEF SourcePush, InHand
        <5> QED
          BY <1>1, <5>1, Zenon DEF CollectedInOrder, InHandIsLast
      <4>2. /\ Len(measurement_queue) + 1 \in DOMAIN measurement_queue'
            /\ measurement_queue'[Len(measurement_queue) + 1] = sample
        BY <1>2, <3>2
      <4> QED
        BY <2>4, <4>1, <4>2, Zenon DEF Queued
    <3>3. CASE Goto("source", "done") \/ Goto("source", "retry")
      BY <1>2, <2>1, <2>4, <3>3, Zenon DEF Goto
    <3> QED
      BY <3>1, <3>2, <3>3, Zenon
  <2>5. CASE m = produced /\ Last /\ ~SourcePush
    <3>1. CASE Source
      <4>1. Goto("source", "done") \/ Goto("source", "push")
        BY <1>8, <2>5, <3>1, Zenon DEF Source, SourceLoop, SourceRetry
      <4> QED
        BY <1>2, <2>1, <2>5, <4>1, Zenon DEF Goto
    <3>2. CASE ~Source
      <4>1. ~Creates(5)
        BY <1>1, <2>5 DEF Creates, ResultEarned
      <4>2. pc'["source"] = pc["source"]
        BY <1>3, <3>2, <4>1, Movers, Zenon
      <4> QED
        BY <2>1, <2>5, <4>2, Zenon
    <3> QED
      BY <3>1, <3>2, Zenon
  <2> QED
    BY <2>2, <2>3, <2>4, <2>5, Zenon
<1> QED
  BY <1>7, <1>8, Zenon

\* A record's report is on its way to the storage worker.
Reported(id) ==
    \/ \E i \in DOMAIN result_queue : result_queue[i].id = id /\ result_queue[i].ok
    \/ pc["mqtt"] = "report" /\ report.id = id /\ report.ok

\* Without a failure a report of success stays on its way until its row is sent.
LEMMA ReportMoves ==
    ASSUME DeliveryInv, Next, ~(Crash \/ Reap), ~fatal_error', NEW id, Reported(id)
    PROVE  Reported(id)' \/ IsSent(rows', id)
<1> DEFINE R == [id : Ids, ok : BOOLEAN]
<1>1. result_queue \in Seq(R) /\ rows \in Seq(Row)
  BY Zenon DEF DeliveryInv, TypeOK, DataTypeOK, StoreTypeOK
<1>2. CASE pc["mqtt"] = "report" /\ report.id = id /\ report.ok
  <2>1. CASE MqttReport
    <3>1. report \in R
      BY <1>2, ReportTyped, Zenon DEF DeliveryInv, TypeOK
    <3>2. result_queue' = Append(result_queue, report)
      BY <2>1, Zenon DEF MqttReport
    <3> HIDE DEF R
    <3>3. /\ Len(result_queue) + 1 \in DOMAIN result_queue'
          /\ result_queue'[Len(result_queue) + 1] = report
      BY <1>1, <3>1, <3>2
    <3> QED
      BY <1>2, <3>3, Zenon DEF Reported
  <2>2. CASE ~Mqtt
    <3>1. UNCHANGED report /\ pc'["mqtt"] = "report"
      <4>1. ~Creates(3)
        BY <1>2, StartOrderFacts DEF Creates, DeliveryInv, MqttLifeCycle
      <4> QED
        BY <1>2, <2>2, <4>1, Writers, Movers, Zenon
    <3> QED
      BY <1>2, <3>1, Zenon DEF Reported
  <2>3. Mqtt => MqttReport
    BY <1>2, Zenon DEF Mqtt, MqttPop, MqttPublish, MqttAcknowledged, MqttGaveUp, MqttClose
  <2> QED
    BY <2>1, <2>2, <2>3, Zenon
<1>3. CASE \E i \in DOMAIN result_queue : result_queue[i].id = id /\ result_queue[i].ok
  <2>1. PICK i \in DOMAIN result_queue : result_queue[i].id = id /\ result_queue[i].ok
    BY <1>3, Zenon
  <2>2. CASE UNCHANGED result_queue
    BY <2>1, <2>2, Zenon DEF Reported
  <2>3. CASE MqttReport
    <3>1. result_queue' = Append(result_queue, report) /\ pc["mqtt"] = "report"
      BY <2>3, Zenon DEF MqttReport
    <3>2. i \in DOMAIN result_queue' /\ result_queue'[i] = result_queue[i]
      BY <1>1, <2>1, <3>1, PushKeeps, Zenon
    <3> QED
      BY <2>1, <3>2, Zenon DEF Reported
  <2>4. CASE StorageResult /\ ~UNCHANGED result_queue
    <3>1. Len(result_queue) \in {0, 1}
      BY OneSlotQueues, Zenon
    <3> HIDE DEF R
    <3>2. i = 1 /\ Head(result_queue) = result_queue[1]
      BY <1>1, <2>1, <3>1
    <3>3. Head(result_queue).id = id /\ Head(result_queue).ok
      BY <2>1, <3>2, Zenon
    <3>4. fatal_error' = TRUE \/ rows' = MarkSent(rows, Head(result_queue).id)
      BY <2>4, <3>3, Zenon DEF StorageResult, StorageFail, WorkerFail
    <3>5. id \in Ids
      <4>1. result_queue[i] \in R
        BY <1>1, <2>1, SeqElements, Zenon
      <4> QED
        BY <2>1, <4>1, Zenon DEF R
    <3>6. rows' = MarkSent(rows, id) /\ id \in DOMAIN rows
      BY <3>3, <3>4, <3>5, Zenon DEF Ids
    <3>7. id \in DOMAIN rows' /\ rows'[id] = [measurement |-> rows[id].measurement, state |-> "sent"]
      BY <1>1, <3>6, MarkSentRows, Zenon
    <3> QED
      BY <3>7 DEF IsSent
  <2> QED
    BY <2>2, <2>3, <2>4, Writers, Zenon
<1> QED
  BY <1>2, <1>3, Zenon DEF Reported

\* Without a failure every confirmed publish is recorded or its report is on its
\* way.
LEMMA ReportStep ==
    ASSUME DeliveryInv, StopInv, Next
    PROVE  NoReportLost'
<1>1. ~fatal_error => \A id \in confirmed : IsSent(rows, id) \/ Reported(id)
  BY Zenon DEF StopInv, NoReportLost, Reported
<1> SUFFICES ASSUME ~fatal_error', NEW id \in confirmed'
             PROVE  IsSent(rows', id) \/ Reported(id)'
  BY Zenon DEF NoReportLost, Reported
<1>2. ~(Crash \/ Reap)
  <2>1. Crash \/ Reap => confirmed' = {}
    BY EndFacts, Zenon
  <2> QED
    BY <2>1
<1>3. ~fatal_error
  BY <1>2, FailureStays, Zenon
<1>4. CASE id \in confirmed
  <2>1. CASE IsSent(rows, id)
    <3>1. id \in Ids
      BY <2>1, Zenon DEF IsSent, Ids
    <3> QED
      BY <2>1, <3>1, RowsGrow, Zenon
  <2>2. CASE Reported(id)
    BY <1>2, <2>2, ReportMoves, Zenon
  <2> QED
    BY <1>1, <1>3, <1>4, <2>1, <2>2, Zenon
<1>5. CASE id \notin confirmed
  <2>1. MqttAcknowledged
    BY <1>2, <1>5, Writers, Zenon
  <2>2. id = job /\ report' = [id |-> job, ok |-> TRUE] /\ Goto("mqtt", "report")
    BY <1>5, <2>1, Zenon DEF MqttAcknowledged
  <2>3. pc'["mqtt"] = "report"
    BY <2>2, Zenon DEF Goto, DeliveryInv, TypeOK, PositionsOK, Threads
  <2>4. report'.id = id /\ report'.ok
    BY <2>2, Zenon
  <2> QED
    BY <2>3, <2>4, Zenon DEF Reported
<1> QED
  BY <1>4, <1>5, Zenon
-----------------------------------------------------------------------------
\* StopInv holds before the first start.
LEMMA StopInit == Init => StopInv
<1> SUFFICES ASSUME Init PROVE StopInv
  OBVIOUS
<1>1. /\ rows = <<>> /\ measurement_queue = <<>> /\ result_queue = <<>>
      /\ confirmed = {} /\ sto = StorageLocals /\ collection_paused = FALSE
      /\ result = -1 /\ pc = AllUnborn("down")
  BY Zenon DEF Init
<1>2. pc["coordinator"] = "down" /\ \A t \in Threads \ {"coordinator"} : pc[t] = "unborn"
  BY <1>1, Zenon DEF AllUnborn, Threads
<1>3. pc["source"] = "unborn" /\ pc["storage"] = "unborn"
  BY <1>2, Zenon DEF Threads
<1>4. DOMAIN measurement_queue = {} /\ Ids = {} /\ ~InHand
  BY <1>1, <1>3 DEF Ids, InHand
<1>5. CollectedInOrder
  BY <1>4, Zenon DEF CollectedInOrder, StoredInOrder, QueueInOrder, RowsBeforeQueue, AllCollected,
     InHandIsLast
<1>6. NothingDropped /\ NoReportLost
  BY <1>1, <1>2, Zenon DEF NothingDropped, NoReportLost
<1>7. Joined
  BY <1>2, Zenon DEF Joined, Past
<1>8. StorageDrains
  BY <1>1, <1>3, Zenon DEF StorageDrains, StorageLocals
<1>9. ResultEarned
  BY <1>1, <1>2, <1>3 DEF ResultEarned, Exited
<1>10. PauseSeen
  BY <1>1, Zenon DEF PauseSeen
<1> QED
  BY <1>5, <1>6, <1>7, <1>8, <1>9, <1>10, Zenon DEF StopInv

\* Every step of GatewayWorkers preserves StopInv where DeliveryInv holds.
LEMMA StopStep == DeliveryInv /\ StopInv /\ [Next]_vars => StopInv'
<1> SUFFICES ASSUME DeliveryInv, StopInv, [Next]_vars PROVE StopInv'
  OBVIOUS
<1>1. CASE Next
  BY <1>1, CollectedStep, NothingStep, ReportStep, JoinedStep, DrainsStep, ResultStep, PauseStep,
     Zenon DEF StopInv
<1>2. CASE UNCHANGED vars
  <2>1. UNCHANGED <<rows, produced, boot_base, measurement_queue, result_queue, confirmed, sto,
                    collection_paused, late, fatal_error, step, result, pc, sample, report, closed>>
    BY <1>2, Zenon DEF vars, store, flags, status, dataQ, mqttL, coordL, bounds
  <2>2. CollectedInOrder'
    BY <2>1, Zenon DEF StopInv, CollectedInOrder, StoredInOrder, QueueInOrder, RowsBeforeQueue,
         AllCollected, InHandIsLast, InHand, Ids
  <2>3. NothingDropped'
    BY <2>1, Zenon DEF StopInv, NothingDropped, Stored, Queued, InHand, Ids
  <2>4. NoReportLost' /\ Joined'
    BY <2>1, Zenon DEF StopInv, NoReportLost, Joined, Past, Ended
  <2>5. StorageDrains' /\ ResultEarned' /\ PauseSeen'
    BY <2>1, Zenon DEF StopInv, StorageDrains, ResultEarned, Exited, PauseSeen
  <2> QED
    BY <2>2, <2>3, <2>4, <2>5, Zenon DEF StopInv
<1> QED
  BY <1>1, <1>2, Zenon

\* StopInv is an invariant of the gateway's workers: the inductive invariant
\* behind the order of the stored measurements and behind the promises of a
\* clean stop.
THEOREM CollectionAndStop == Spec => []StopInv
<1>1. Spec => []DeliveryInv
  BY Invariant, Zenon
<1> QED
  BY <1>1, StopInit, StopStep, PTL DEF Spec

\* Rows are stored in the order in which the source collected the measurements
\* and none twice: measurement_queue is first in, first out, the source worker
\* has one measurement in hand and storage saves what it pops, over restarts.
THEOREM StoredOrdered == Spec => []StoredInOrder
<1>1. StopInv => StoredInOrder
  BY DEF StopInv, CollectedInOrder
<1> QED
  BY <1>1, CollectionAndStop, PTL

\* pause_collection lets at most one more measurement be collected, the one
\* whose snapshot of collection_paused the source worker took before.
THEOREM PauseHolds == Spec => []PauseTakesEffect
<1>1. DeliveryInv /\ StopInv => PauseTakesEffect
  BY DEF DeliveryInv, TypeOK, CountersOK, StopInv, PauseSeen, PauseTakesEffect
<1> QED
  BY <1>1, CollectionAndStop, Invariant, PTL

\* What has been joined and drained when gateway_workers_run has returned 0.
LEMMA AtCleanExit ==
    ASSUME DeliveryInv, StopInv, Exited(0)
    PROVE  /\ ~fatal_error /\ pc["mqtt"] # "report"
           /\ measurement_queue = <<>> /\ result_queue = <<>>
<1>1. /\ ~fatal_error /\ pc["storage"] = "done" /\ pc["mqtt"] # "report"
  BY DEF Exited, StopInv, ResultEarned, Joined, Past, Ended
<1> QED
  BY <1>1, Zenon DEF StopInv, StorageDrains

\* gateway_workers_run returns 0 only with every measurement it collected in the
\* database, except possibly the last one: the storage worker outlives the
\* source worker and drains measurement_queue before it ends.
THEOREM CleanStopStores == Spec => []CleanExitKeepsData
<1>1. ASSUME DeliveryInv, StopInv PROVE CleanExitKeepsData
  <2> SUFFICES ASSUME Exited(0), NEW m \in boot_base + 1 .. produced - 1
               PROVE  \E id \in Ids : rows[id].measurement = m
    BY Zenon DEF CleanExitKeepsData
  <2>1. boot_base \in Nat /\ produced \in Nat
    BY <1>1 DEF DeliveryInv, TypeOK, CountersOK
  <2>2. m \in boot_base + 1 .. produced /\ m # produced
    BY <2>1
  <2>3. pc["coordinator"] # "down"
    BY DEF Exited
  <2>4. Stored(m) \/ Queued(m)
    BY <1>1, <2>2, <2>3, AtCleanExit, Zenon DEF StopInv, NothingDropped
  <2>5. ~Queued(m)
    <3>1. measurement_queue = <<>>
      BY <1>1, AtCleanExit, Zenon
    <3>2. DOMAIN measurement_queue = {}
      BY <3>1
    <3> QED
      BY <3>2, Zenon DEF Queued
  <2> QED
    BY <2>4, <2>5, Zenon DEF Stored
<1> QED
  BY <1>1, CollectionAndStop, Invariant, PTL

\* gateway_workers_run returns 0 only with every publish that returned OK
\* recorded as sent: the mqtt worker has handed over its reports before it ends
\* and the storage worker drains result_queue, so a clean stop causes no
\* message to be sent again.
THEOREM CleanStopRecords == Spec => []CleanExitRecordsSent
<1>1. ASSUME DeliveryInv, StopInv PROVE CleanExitRecordsSent
  <2> SUFFICES ASSUME Exited(0), NEW id \in confirmed
               PROVE  IsSent(rows, id)
    BY Zenon DEF CleanExitRecordsSent
  <2>1. ~fatal_error /\ pc["mqtt"] # "report" /\ DOMAIN result_queue = {}
    BY <1>1, AtCleanExit
  <2> QED
    BY <1>1, <2>1, Zenon DEF StopInv, NoReportLost
<1> QED
  BY <1>1, CollectionAndStop, Invariant, PTL
=============================================================================
