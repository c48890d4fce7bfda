---------------------------- MODULE GatewayWorkers ----------------------------
(***************************************************************************)
(* gateway_workers_run(): the coordinator that starts the workers, waits   *)
(* for a signal or a fatal error and stops them in order, composed with    *)
(* the workers; and the life of the process around it: signal, crash,      *)
(* exit and restart on the same database.                                  *)
(***************************************************************************)
EXTENDS DataWorkers, CommandWorkers, FiniteSets

\* Start order, and where each thread begins.
StartOrder == <<"remote", "receiver", "mqtt", "storage", "source", "local">>

Entry == [remote |-> "pop", receiver |-> "up", mqtt |-> "pop",
          storage |-> "control", source |-> "top", local |-> "bind"]

\* The stop sequence after the label STOP.
StopOrder == <<
    [act |-> "close",   on |-> "measurement"],
    [act |-> "close",   on |-> "delivery"],
    [act |-> "join",    on |-> "local"],
    [act |-> "close",   on |-> "control_request"],
    [act |-> "destroy", on |-> "receiver"],
    [act |-> "close",   on |-> "mqtt_command"],
    [act |-> "join",    on |-> "remote"],
    [act |-> "join",    on |-> "source"],
    [act |-> "join",    on |-> "mqtt"],
    [act |-> "close",   on |-> "result"],
    [act |-> "join",    on |-> "storage"],
    [act |-> "close",   on |-> "control_result"] >>

StorageLocals == [measurement_closed |-> FALSE, result_closed |-> FALSE,
                  inflight |-> FALSE, backoff |-> FALSE, request |-> NoCommand]

AllUnborn(where) == [t \in Threads |-> IF t = "coordinator" THEN where ELSE "unborn"]

EmptyDedup == [s \in Slots |-> Unoccupied]

\* No process; an empty database.
Init ==
    /\ rows = <<>> /\ saved_interval = NoInterval /\ socket_file = FALSE
    /\ net = {} /\ received = {}
    /\ signal = FALSE /\ stop_requested = FALSE /\ fatal_error = FALSE
    /\ interval_ms = ConfigInterval /\ collection_paused = FALSE
    /\ measurement_queue = <<>> /\ delivery_queue = <<>> /\ result_queue = <<>>
    /\ control_request_queue = <<>> /\ control_result_queue = <<>>
    /\ mqtt_command_queue = <<>>
    /\ closed = {} /\ command_mutex = "free"
    /\ dedup_entries = EmptyDedup /\ dedup_next = 0
    /\ pc = AllUnborn("down")
    /\ sample = 0 /\ sto = StorageLocals
    /\ job = 0 /\ puback = FALSE /\ report = NoReport
    /\ command = [t \in Handlers |-> NoCommand]
    /\ reply = [t \in Handlers |-> NoReply]
    /\ request_id = BadId
    /\ step = 1 /\ result = -1
    /\ boots = 0 /\ locals = 0 /\ remotes = 0
    /\ produced = 0 /\ boot_base = 0
    /\ confirmed = {} /\ executed = <<>> /\ late = 0 /\ faulted = FALSE

\* The process is gone: its memory, threads and queues with it.  What
\* libmosquitto held is lost unless the network already carries it.
ProcessEnds ==
    /\ net' \in SUBSET net
    /\ signal' = FALSE /\ stop_requested' = FALSE /\ fatal_error' = FALSE
    /\ interval_ms' = ConfigInterval /\ collection_paused' = FALSE
    /\ measurement_queue' = <<>> /\ delivery_queue' = <<>> /\ result_queue' = <<>>
    /\ control_request_queue' = <<>> /\ control_result_queue' = <<>>
    /\ mqtt_command_queue' = <<>>
    /\ closed' = {} /\ command_mutex' = "free"
    /\ dedup_entries' = EmptyDedup /\ dedup_next' = 0
    /\ pc' = AllUnborn("down")
    /\ sample' = 0 /\ sto' = StorageLocals
    /\ job' = 0 /\ puback' = FALSE /\ report' = NoReport
    /\ command' = [t \in Handlers |-> NoCommand]
    /\ reply' = [t \in Handlers |-> NoReply]
    /\ request_id' = BadId
    /\ step' = 1 /\ result' = -1
    /\ confirmed' = {} /\ executed' = <<>> /\ late' = 0 /\ faulted' = FALSE
    /\ UNCHANGED <<store, received, boots, locals, remotes, produced>>

-----------------------------------------------------------------------------
coordOthers == <<store, broker, collection_paused, dataQ, ctlQ,
                 mqtt_command_queue, dedup, sample, sto, mqttL, handL, locals,
                 remotes, produced, confirmed, executed, late>>

\* gateway_run opens the store and loads the saved interval, or keeps the
\* configured one, before it calls gateway_workers_run.
StartProcess ==
    /\ pc["coordinator"] = "down"
    /\ boots < MaxBoots
    /\ boots' = boots + 1
    /\ boot_base' = produced
    /\ interval_ms' = IF saved_interval = NoInterval THEN ConfigInterval
                      ELSE saved_interval
    /\ socket_file' = (socket_file /\ ~SocketSwept)
    /\ Goto("coordinator", "start")
    /\ UNCHANGED <<coordOthers, flags, closed, coordL, faulted>>

\* Create the next thread, or start the receiver; any failure goes to STOP.
StartWorker ==
    /\ pc["coordinator"] = "start"
    /\ \/ /\ pc' = [pc EXCEPT
                      ![StartOrder[step]] = Entry[StartOrder[step]],
                      !["coordinator"] = IF step = Len(StartOrder)
                                         THEN "run" ELSE "start"]
          /\ step' = IF step = Len(StartOrder) THEN 1 ELSE step + 1
          /\ UNCHANGED faulted
       \/ /\ Fault("start")
          /\ Goto("coordinator", "stop")
          /\ step' = 1
    /\ UNCHANGED <<coordOthers, socket_file, flags, interval_ms, closed,
                   result, boots, boot_base>>

\* The wait loop ends; result = 0 unless a worker failed.
StopWaiting ==
    /\ pc["coordinator"] = "run"
    /\ signal \/ fatal_error
    /\ result' = IF fatal_error THEN result ELSE 0
    /\ Goto("coordinator", "stop")
    /\ UNCHANGED <<coordOthers, socket_file, flags, interval_ms, closed, step,
                   boots, boot_base, faulted>>

\* gateway_workers_request_stop(&workers, result != 0)
RequestStop ==
    /\ pc["coordinator"] = "stop"
    /\ stop_requested' = TRUE
    /\ fatal_error' = (fatal_error \/ result # 0)
    /\ Goto("coordinator", "shutdown")
    /\ UNCHANGED <<coordOthers, socket_file, signal, interval_ms, closed,
                   coordL, boots, boot_base, faulted>>

\* One step of the stop sequence; joining a thread waits for it to return.
ShutdownStep ==
    /\ pc["coordinator"] = "shutdown"
    /\ step <= Len(StopOrder)
    /\ LET s == StopOrder[step]
       IN  \/ /\ s.act = "close"
              /\ closed' = closed \cup {s.on}
              /\ UNCHANGED pc
           \/ /\ s.act = "join"
              /\ pc[s.on] \in {"unborn", "done"}
              /\ UNCHANGED <<closed, pc>>
           \/ /\ s.act = "destroy"
              /\ Goto(s.on, "done")
              /\ UNCHANGED closed
    /\ step' = step + 1
    /\ UNCHANGED <<coordOthers, socket_file, flags, interval_ms, result, boots,
                   boot_base, faulted>>

\* gateway_workers_failed once more, the delivery queue is drained, return.
ReturnResult ==
    /\ pc["coordinator"] = "shutdown"
    /\ step > Len(StopOrder)
    /\ result' = IF fatal_error THEN -1 ELSE result
    /\ Goto("coordinator", "exited")
    /\ UNCHANGED <<coordOthers, socket_file, flags, interval_ms, closed, step,
                   boots, boot_base, faulted>>

Coordinator == StartWorker \/ StopWaiting \/ RequestStop \/ ShutdownStep
               \/ ReturnResult

-----------------------------------------------------------------------------
\* SIGINT or SIGTERM: the handler sets the flag, at any moment.
SignalArrives ==
    /\ Signals
    /\ Running
    /\ ~signal
    /\ signal' = TRUE
    /\ UNCHANGED <<coordOthers, socket_file, stop_requested, fatal_error,
                   interval_ms, closed, pc, coordL, boots, boot_base, faulted>>

\* The process is killed or the power fails; it will be started again.
Crash ==
    /\ "crash" \in Faults
    /\ Running
    /\ boots < MaxBoots
    /\ ProcessEnds
    /\ UNCHANGED <<socket_file, boot_base>>

\* The process that returned is started again.
Reap ==
    /\ pc["coordinator"] = "exited"
    /\ boots < MaxBoots
    /\ ProcessEnds
    /\ UNCHANGED <<socket_file, boot_base>>

\* The last process has returned: nothing is left to do.
Finished ==
    /\ pc["coordinator"] = "exited"
    /\ boots = MaxBoots
    /\ UNCHANGED vars

Next ==
    \/ StartProcess \/ Coordinator
    \/ Source \/ Storage \/ BackoffExpires \/ Mqtt
    \/ \E id \in net : BrokerReceive(id)
    \/ \E t \in Handlers : Handler(t)
    \/ Local \/ Remote
    \/ \E m \in RemoteMessages : MqttCommandReceived(m)
    \/ SignalArrives \/ Crash \/ Reap \/ Finished

Spec == Init /\ [][Next]_vars

-----------------------------------------------------------------------------
(***************************************************************************)
(* Types.                                                                  *)
(***************************************************************************)
Ids == DOMAIN rows

Request == {c \in Command : c.kind \in Kinds}

Reply == [status : {"none", "ok", "error"}, interval_ms : Intervals \cup {NoInterval}]

DedupEntry ==
    {Unoccupied} \cup [occupied : {TRUE}, request_id : RequestIds,
                       command : Command, response : Reply]

StoreTypeOK ==
    /\ rows \in Seq(Row)
    /\ saved_interval \in Intervals \cup {NoInterval}
    /\ socket_file \in BOOLEAN
    /\ net \subseteq Ids /\ received \subseteq Ids

FlagsTypeOK ==
    /\ signal \in BOOLEAN /\ stop_requested \in BOOLEAN /\ fatal_error \in BOOLEAN
    /\ interval_ms \in Intervals /\ collection_paused \in BOOLEAN
    /\ closed \subseteq Queues /\ command_mutex \in Handlers \cup {"free"}

DataTypeOK ==
    /\ measurement_queue \in Seq(Nat) /\ Len(measurement_queue) <= MeasurementCap
    /\ delivery_queue \in Seq(Ids) /\ Len(delivery_queue) <= 1
    /\ result_queue \in Seq([id : Ids, ok : BOOLEAN]) /\ Len(result_queue) <= 1
    /\ sample \in Nat
    /\ job \in Ids \cup {0} /\ puback \in BOOLEAN
    /\ report \in [id : Ids \cup {0}, ok : BOOLEAN]
    /\ confirmed \subseteq Ids

CommandTypeOK ==
    /\ sto \in [measurement_closed : BOOLEAN, result_closed : BOOLEAN,
               inflight : BOOLEAN, backoff : BOOLEAN,
               request : Request \cup {NoCommand}]
    /\ control_request_queue \in Seq(Request) /\ Len(control_request_queue) <= 1
    /\ control_result_queue \in Seq([kind : Kinds, ok : BOOLEAN,
                                      interval_ms : Intervals \cup {NoInterval}])
    /\ Len(control_result_queue) <= 1
    /\ mqtt_command_queue \in Seq(RemoteMessage)
    /\ Len(mqtt_command_queue) <= CommandCap
    /\ dedup_entries \in [Slots -> DedupEntry] /\ dedup_next \in Slots
    /\ command \in [Handlers -> Command \cup {NoCommand}]
    /\ reply \in [Handlers -> Reply]
    /\ request_id \in RequestIds \cup {BadId}
    /\ executed \in Seq(RequestIds)

Positions == {"down", "start", "run", "stop", "shutdown", "exited", "unborn", "up",
              "top", "next", "push", "retry", "control", "serve", "result", "measure",
              "schedule", "enqueue", "pop", "publish", "wait", "report", "close", "bind",
              "listen", "lock", "execute", "await", "answer", "done"}

PositionsOK ==
    /\ pc \in [Threads -> Positions]
    /\ pc["coordinator"] \in {"down", "start", "run", "stop", "shutdown", "exited"}
    /\ pc["receiver"] \in {"unborn", "up", "done"}
    /\ pc["source"] \in {"unborn", "top", "next", "push", "retry", "done"}
    /\ pc["storage"] \in {"unborn", "control", "serve", "result", "measure",
                          "schedule", "enqueue", "done"}
    /\ pc["mqtt"] \in {"unborn", "pop", "publish", "wait", "report", "close", "done"}
    /\ pc["local"] \in {"unborn", "bind", "listen", "lock", "execute", "await",
                        "answer", "done"}
    /\ pc["remote"] \in {"unborn", "pop", "lock", "execute", "await", "answer",
                         "publish", "done"}

CountersOK ==
    /\ step \in 1 .. Len(StopOrder) + 1 /\ result \in {-1, 0}
    /\ boots \in 0 .. MaxBoots /\ locals \in 0 .. MaxLocal
    /\ remotes \in 0 .. MaxRemote
    /\ produced \in 0 .. MaxProduced /\ boot_base \in 0 .. produced
    /\ late \in Nat /\ faulted \in BOOLEAN

\* Every variable of gateway_workers_t, of the threads and of the database
\* has a value of its type, and no queue exceeds the capacity of its bq_init.
TypeOK ==
    /\ StoreTypeOK /\ FlagsTypeOK /\ DataTypeOK /\ CommandTypeOK
    /\ PositionsOK /\ CountersOK

-----------------------------------------------------------------------------
(***************************************************************************)
(* Delivery.                                                               *)
(***************************************************************************)
MqttBusy == pc["mqtt"] \in {"publish", "wait", "report"}

\* Outbox ids on their way from the storage worker and back.
Travelling == Len(delivery_queue) + Len(result_queue) + (IF MqttBusy THEN 1 ELSE 0)

\* The storage worker hands out one record at a time: a record on its way is
\* the only one, and the worker, while it lives, knows of it.  So neither of
\* the one-slot queues is full when its producer pushes, and result_queue is
\* open when the mqtt worker reports (gateway_workers.c, delivery_inflight).
AtMostOneInFlight ==
    /\ Travelling <= 1
    /\ Travelling = 1 /\ StorageUp => sto.inflight
    /\ pc["storage"] = "enqueue" => ~sto.inflight
    /\ MqttBusy => "result" \notin closed

\* A row is marked sent only after the broker has received its message, in
\* whatever process: no timeout, late PUBACK, failed publish, crash or restart
\* makes outbox_store_mark_sent run for a message that may be lost.
SentWasReceived == \A id \in Ids : IsSent(rows, id) => id \in received

\* The broker sees the rows in the order of their ids: when it has a row it
\* has every earlier one, over retries, crashes and restarts.
DeliveredInOrder == \A id \in received : \A earlier \in 1 .. id - 1 : earlier \in received

\* Rows are stored in the order the source collected them and none twice,
\* through measurement_queue and over restarts.
StoredInOrder ==
    \A i, j \in Ids : i < j => rows[i].measurement < rows[j].measurement

\* The database only grows: a row stays, keeps its measurement, and once sent
\* is never pending again, whatever the workers, a crash or a restart do.
RowsDurable ==
    [][\A id \in Ids : /\ id \in DOMAIN rows'
                       /\ rows'[id].measurement = rows[id].measurement
                       /\ IsSent(rows, id) => IsSent(rows', id)]_vars

AtLeastOnce == INSTANCE AtLeastOnceOutbox WITH
    outbox <- [id \in Ids |-> rows[id].state],
    delivered <- received

\* The gateway implements the at-least-once outbox: the threads, their queues,
\* every timeout, crash and restart, seen from the database and the broker.
ImplementsOutbox == AtLeastOnce!Spec

Exited(code) == pc["coordinator"] = "exited" /\ result = code

\* gateway_workers_run returned 0: every measurement it collected is in the
\* database, except possibly the last one, which the source worker still had
\* in hand when it saw the stop.
CleanExitKeepsData ==
    Exited(0) => \A m \in boot_base + 1 .. produced - 1 :
                    \E id \in Ids : rows[id].measurement = m

\* gateway_workers_run returned 0: every publish that returned OK has been
\* recorded, so no confirmed message is sent again after a clean stop.
CleanExitRecordsSent == Exited(0) => \A id \in confirmed : IsSent(rows, id)

\* After a stop that only a signal asked for, with nothing failing around the
\* process, gateway_workers_run returns 0.
SignalledStopReturnsZero == Exited(-1) => faulted

-----------------------------------------------------------------------------
(***************************************************************************)
(* Commands.                                                               *)
(***************************************************************************)
Awaiting == {t \in Handlers : pc[t] = "await"}

\* As long as nobody asked for a stop, a handler that answers set_interval
\* with ok answers with the interval of its own command.
AnswerIsOwn ==
    \A t \in Handlers :
        /\ ~ShouldStop
        /\ pc[t] = "answer"
        /\ command[t].kind = "set_interval"
        /\ reply[t].status = "ok"
        => reply[t].interval_ms = command[t].interval_ms

\* The interval a restart would load.
Reloaded == IF saved_interval = NoInterval THEN ConfigInterval ELSE saved_interval

\* The interval in use is the one the database holds whenever no set_interval
\* is between its save and its acknowledgement; it is never ahead of the
\* database.  (After a stop request the last save may go unapplied.)
IntervalPersisted ==
    Running /\ ~ShouldStop /\ Awaiting = {} => interval_ms = Reloaded

\* pause_collection: a source worker that took its snapshot before the pause
\* may still collect one measurement, and never a second.
PauseTakesEffect == collection_paused => late <= 1

\* A request id is executed again only after DedupCap other executions: a
\* duplicate that arrives earlier is answered from the ring.
DedupWindow ==
    \A i, j \in DOMAIN executed :
        i < j /\ executed[i] = executed[j] => j - i > DedupCap

-----------------------------------------------------------------------------
(***************************************************************************)
(* Progress.  Every thread runs, every wait with a timeout ends, and the   *)
(* broker, when the publisher is connected often enough, acknowledges.     *)
(***************************************************************************)
ThreadFairness ==
    /\ WF_vars(StartProcess) /\ WF_vars(Coordinator)
    /\ WF_vars(Source) /\ WF_vars(Storage) /\ WF_vars(BackoffExpires)
    /\ WF_vars(Mqtt)
    /\ \A t \in Handlers : WF_vars(Handler(t))
    /\ WF_vars(LocalBind \/ LocalLeave \/ LocalAnswer)
    /\ WF_vars(Remote)

FairSpec == Spec /\ ThreadFairness

\* Once a stop is requested, by a signal or a fatal error, every thread ends
\* and gateway_workers_run returns (or the process is killed first).
ShutdownCompletes ==
    Running /\ ShouldStop ~> pc["coordinator"] \in {"down", "exited"}

BrokerFairness ==
    /\ SF_vars(MqttPublish /\ pc'["mqtt"] = "wait")
    /\ SF_vars(\E id \in net : id = job /\ BrokerReceive(id) /\ puback')
    /\ SF_vars(MqttAcknowledged)

DeliverySpec == FairSpec /\ BrokerFairness

\* A stored row is eventually marked sent if the process keeps running and the
\* broker is reachable often enough: no failed publish is forgotten.
EveryRowSent ==
    \A n \in 1 .. MaxProduced : Len(rows) >= n ~> IsSent(rows, n)
=============================================================================
