------------------------- MODULE GatewayCommandProofs -------------------------
(***************************************************************************)
(* CommandInv is an invariant of GatewayWorkers, and what follows from it: *)
(* a handler answers with the result of its own request, the interval in   *)
(* use is the saved one, and a remote request is executed again only after *)
(* DedupCap others.                                                        *)
(***************************************************************************)
EXTENDS GatewayDeliveryProofs, CommandInvariant

\* Which steps write the variables that CommandInv is about.
LEMMA CommandWriters ==
    ASSUME Next, ~(Crash \/ Reap)
    PROVE  /\ UNCHANGED command_mutex \/ \E t \in Handlers : Handler(t)
           /\ UNCHANGED control_request_queue \/ StorageControl
              \/ \E t \in Handlers : AskStorage(t)
           /\ UNCHANGED control_result_queue \/ StorageServe
              \/ \E t \in Handlers : TakeStorageAnswer(t)
           /\ UNCHANGED command \/ LocalReceive \/ RemotePop
           /\ UNCHANGED reply \/ \E t \in Handlers : Handler(t)
           /\ UNCHANGED interval_ms \/ StartProcess
              \/ \E t \in Handlers : TakeStorageAnswer(t)
           /\ UNCHANGED saved_interval \/ StorageServe
           /\ UNCHANGED dedup \/ RemoteAnswer
           /\ UNCHANGED <<executed, request_id>> \/ RemotePop
           /\ UNCHANGED closed \/ ShutdownStep \/ MqttClose
           /\ UNCHANGED step \/ Coordinator
<1>1. CASE Source
  <2>1. UNCHANGED sourceOthers
    BY <1>1, SourceFrame, Zenon
  <2> QED
    BY <2>1, Zenon DEF sourceOthers, store, status, ctlQ, handL, coordL
<1>2. CASE Storage \/ BackoffExpires
  <2>1. UNCHANGED storageOthers
    BY <1>2, StorageFrame, Zenon
  <2>2. /\ UNCHANGED control_request_queue \/ StorageControl
        /\ UNCHANGED control_result_queue \/ StorageServe
        /\ UNCHANGED saved_interval \/ StorageServe
    BY <1>2, Zenon DEF Storage, StorageControl, StorageServe, StorageResult, StorageMeasure,
         StorageSchedule, StorageEnqueue, BackoffExpires, ctlQ, store
  <2> QED
    BY <2>1, <2>2, Zenon DEF storageOthers, status, handL, coordL
<1>3. CASE Mqtt \/ \E id \in net : BrokerReceive(id)
  <2>1. UNCHANGED mqttOthers
    BY <1>3, MqttFrame, Zenon
  <2>2. UNCHANGED closed \/ MqttClose
    BY <1>3, Zenon DEF Mqtt, MqttPop, MqttPublish, MqttAcknowledged, MqttGaveUp, MqttReport,
         MqttClose, BrokerReceive
  <2> QED
    BY <2>1, <2>2, Zenon DEF mqttOthers, store, status, ctlQ, handL, coordL
<1>4. CASE \E t \in Handlers : Handler(t)
  <2>1. UNCHANGED commandOthers
    BY <1>4, CommandFrame, Zenon
  <2>2. /\ UNCHANGED control_request_queue \/ \E t \in Handlers : AskStorage(t)
        /\ UNCHANGED control_result_queue \/ \E t \in Handlers : TakeStorageAnswer(t)
        /\ UNCHANGED interval_ms \/ \E t \in Handlers : TakeStorageAnswer(t)
        /\ UNCHANGED <<command, dedup, executed, request_id, closed>>
    BY <1>4, Zenon DEF Handler, LockCommandMutex, ExecuteHere, AskStorage, TakeStorageAnswer,
         AbandonRequest, status, ctlQ
  <2> QED
    BY <1>4, <2>1, <2>2, Zenon DEF commandOthers, store, coordL
<1>5. CASE Local
  <2>1. UNCHANGED localOthers
    BY <1>5, Zenon DEF Local, LocalBind, LocalReceive, LocalLeave, LocalAnswer
  <2>2. UNCHANGED command \/ LocalReceive
    BY <1>5, Zenon DEF Local, LocalBind, LocalReceive, LocalLeave, LocalAnswer
  <2> QED
    BY <2>1, <2>2, Zenon DEF localOthers, commandOthers, store, coordL, status, ctlQ
<1>6. CASE Remote \/ \E m \in RemoteMessages : MqttCommandReceived(m)
  <2>1. UNCHANGED remoteOthers
    BY <1>6, Zenon DEF Remote, RemotePop, RemoteAnswer, RemotePublish, MqttCommandReceived
  <2>2. /\ UNCHANGED <<command, executed, request_id>> \/ RemotePop
        /\ UNCHANGED dedup \/ RemoteAnswer
        /\ UNCHANGED reply
    BY <1>6, Zenon DEF Remote, RemotePop, RemoteAnswer, RemotePublish, MqttCommandReceived
  <2> QED
    BY <2>1, <2>2, Zenon DEF remoteOthers, commandOthers, store, coordL, status, ctlQ
<1>7. CASE StartProcess \/ Coordinator \/ SignalArrives
  <2>1. UNCHANGED coordOthers
    BY <1>7, CoordinatorFrame, Zenon
  <2>2. /\ UNCHANGED interval_ms \/ StartProcess
        /\ UNCHANGED closed \/ ShutdownStep
        /\ UNCHANGED step \/ Coordinator
    BY <1>7, Zenon DEF StartProcess, Coordinator, StartWorker, StopWaiting, RequestStop,
         ShutdownStep, ReturnResult, SignalArrives, coordL
  <2> QED
    BY <2>1, <2>2, Zenon DEF coordOthers, store, ctlQ, handL
<1>8. CASE Finished
  BY <1>8, Zenon DEF Finished, vars, store, status, ctlQ, handL, coordL
<1> QED
  BY <1>1, <1>2, <1>3, <1>4, <1>5, <1>6, <1>7, <1>8, Zenon DEF Next

\* Where the handlers' threads go.
LEMMA HandlerMoves ==
    ASSUME DeliveryInv
    PROVE  /\ Local => pc'["local"] \in {"listen", "lock", "done"}
           /\ Remote => pc'["remote"] \in {"pop", "lock", "publish", "done"}
           /\ \A t \in Handlers : Handler(t) =>
                \/ LockCommandMutex(t) /\ pc[t] = "lock" /\ pc'[t] = "execute"
                   /\ command_mutex = "free" /\ command_mutex' = t
                \/ AskStorage(t) /\ pc[t] = "execute" /\ pc'[t] = "await"
                   /\ UNCHANGED command_mutex
                \/ /\ pc[t] \in {"execute", "await"} /\ command_mutex' = "free"
                   /\ pc'[t] \in {"answer", "listen", "done"}
                   /\ t = "remote" => pc'[t] # "listen"
<1> USE DEF Threads, Handlers
<1>1. ASSUME NEW t \in Threads, NEW w, Goto(t, w)
      PROVE  pc'[t] = w
  BY <1>1, Zenon DEF DeliveryInv, TypeOK, PositionsOK, Goto
<1>2. Local => \E w \in {"listen", "lock", "done"} : Goto("local", w)
  BY Zenon DEF Local, LocalBind, LocalReceive, LocalLeave, LocalAnswer, WorkerFail
<1>3. Remote => \E w \in {"pop", "lock", "publish", "done"} : Goto("remote", w)
  BY Zenon DEF Remote, RemotePop, RemoteAnswer, RemotePublish, WorkerFail
<1>4. ASSUME NEW t \in Handlers, Handler(t)
      PROVE  \/ LockCommandMutex(t) /\ pc[t] = "lock" /\ Goto(t, "execute")
                /\ command_mutex = "free" /\ command_mutex' = t
             \/ AskStorage(t) /\ pc[t] = "execute" /\ Goto(t, "await")
                /\ UNCHANGED command_mutex
             \/ /\ pc[t] \in {"execute", "await"} /\ command_mutex' = "free"
                /\ \/ Goto(t, "answer") \/ Goto(t, "done")
                   \/ t # "remote" /\ Goto(t, "listen")
  BY <1>4, Zenon DEF Handler, LockCommandMutex, ExecuteHere, AskStorage, TakeStorageAnswer,
       AbandonRequest, Answer, HandlerFail, WorkerFail
<1> QED
  <2>1. /\ Local => pc'["local"] \in {"listen", "lock", "done"}
        /\ Remote => pc'["remote"] \in {"pop", "lock", "publish", "done"}
    BY <1>1, <1>2, <1>3, Zenon
  <2> QED
    BY <1>1, <1>4, <2>1, Zenon

\* A stop, once requested, stays requested while the process lives.
LEMMA StopStays ==
    ASSUME DeliveryInv, Next, ~(Crash \/ Reap)
    PROVE  /\ stop_requested => stop_requested'
           /\ signal => signal'
<1>1. stop_requested \in BOOLEAN /\ signal \in BOOLEAN
  BY Zenon DEF DeliveryInv, TypeOK, FlagsTypeOK
<1>2. UNCHANGED stop_requested \/ stop_requested' = TRUE
  <2>1. CASE Source \/ Storage \/ BackoffExpires
    BY <2>1, Zenon DEF Source, SourceLoop, SourceNext, SourcePush, SourceRetry, Storage,
         StorageControl, StorageServe, StorageResult, StorageMeasure, StorageSchedule,
         StorageEnqueue, BackoffExpires, StorageFail, WorkerFail, flags
  <2>2. CASE Mqtt \/ \E id \in net : BrokerReceive(id)
    BY <2>2, Zenon DEF Mqtt, MqttPop, MqttPublish, MqttAcknowledged, MqttGaveUp,
         MqttReport, MqttClose, BrokerReceive, WorkerFail, flags
  <2>3. CASE \E t \in Handlers : Handler(t)
    BY <2>3, Zenon DEF Handler, LockCommandMutex, ExecuteHere, AskStorage,
         TakeStorageAnswer, AbandonRequest, Answer, HandlerFail, WorkerFail
  <2>4. CASE Local \/ Remote \/ \E m \in RemoteMessages : MqttCommandReceived(m)
    BY <2>4, Zenon DEF Local, LocalBind, LocalReceive, LocalLeave, LocalAnswer, Remote,
         RemotePop, RemoteAnswer, RemotePublish, MqttCommandReceived, WorkerFail
  <2>5. CASE StartProcess \/ Coordinator \/ SignalArrives \/ Finished
    BY <2>5, Zenon DEF StartProcess, Coordinator, StartWorker, StopWaiting, RequestStop,
         ShutdownStep, ReturnResult, SignalArrives, Finished, vars, flags
  <2> QED
    BY <2>1, <2>2, <2>3, <2>4, <2>5, Zenon DEF Next
<1>3. UNCHANGED signal \/ signal' = TRUE
  <2>1. CASE Source
    BY <2>1, Zenon DEF Source, SourceLoop, SourceNext, SourcePush, SourceRetry, WorkerFail, flags
  <2>5. CASE Storage \/ BackoffExpires
    <3>1. UNCHANGED storageOthers
      BY <2>5, StorageFrame, Zenon
    <3> QED
      BY <3>1, Zenon DEF storageOthers
  <2>2. CASE Mqtt \/ \E id \in net : BrokerReceive(id)
    BY <2>2, Zenon DEF Mqtt, MqttPop, MqttPublish, MqttAcknowledged, MqttGaveUp,
         MqttReport, MqttClose, BrokerReceive, WorkerFail, flags
  <2>3. CASE \/ \E t \in Handlers : Handler(t)
             \/ Local \/ Remote
             \/ \E m \in RemoteMessages : MqttCommandReceived(m)
    BY <2>3, CommandFrame, Zenon DEF commandOthers
  <2>4. CASE StartProcess \/ Coordinator \/ SignalArrives \/ Finished
    BY <2>4, Zenon DEF StartProcess, Coordinator, StartWorker, StopWaiting, RequestStop,
         ShutdownStep, ReturnResult, SignalArrives, Finished, vars, flags
  <2> QED
    BY <2>1, <2>2, <2>3, <2>4, <2>5, Zenon DEF Next
<1> QED
  BY <1>1, <1>2, <1>3
-----------------------------------------------------------------------------
\* A thread starts to move only when the coordinator has created it.
LEMMA UnbornStays ==
    ASSUME DeliveryInv, Next, ~(StartProcess \/ Coordinator \/ Crash \/ Reap),
           NEW t \in Threads, pc[t] = "unborn"
    PROVE  pc'[t] = "unborn"
<1>1. PositionsOK
  BY Zenon DEF DeliveryInv, TypeOK
<1>2. CASE Source \/ Storage \/ Mqtt
  BY <1>1, <1>2, OnlyOwnPosition, ActsAt, Zenon
<1>3. CASE Local \/ Remote \/ \E h \in Handlers : Handler(h)
  BY <1>1, <1>3, OnlyOwnPosition, ActsAt, Zenon
<1>4. CASE \/ \E id \in net : BrokerReceive(id)
           \/ \E m \in RemoteMessages : MqttCommandReceived(m)
           \/ BackoffExpires \/ SignalArrives \/ Finished
  <2>1. UNCHANGED pc
    BY <1>1, <1>4, OnlyOwnPosition, Zenon DEF Finished, vars
  <2> QED
    BY <2>1, Zenon
<1> QED
  BY <1>2, <1>3, <1>4, Zenon DEF Next

\* The coordinator creates the threads in StartOrder, each one once.
LEMMA CreationStep ==
    ASSUME DeliveryInv, CommandInv, Next
    PROVE  NotCreated'
<1>1. /\ \A n \in 1 .. 6 : \/ pc["coordinator"] = "down"
                           \/ pc["coordinator"] = "start" /\ step <= n
                           => pc[StartOrder[n]] = "unborn"
      /\ step \in 1 .. 13
  <2>1. DOMAIN StartOrder = 1 .. 6
    BY DEF StartOrder
  <2>2. NotCreated
    BY Zenon DEF CommandInv
  <2> QED
    BY <2>1, <2>2, StopOrderFacts DEF NotCreated, DeliveryInv, TypeOK, CountersOK
<1>2. SUFFICES ASSUME NEW n \in 1 .. 6,
                      \/ pc'["coordinator"] = "down"
                      \/ pc'["coordinator"] = "start" /\ step' <= n
               PROVE  pc'[StartOrder[n]] = "unborn"
  <2>1. DOMAIN StartOrder = 1 .. 6
    BY DEF StartOrder
  <2> QED
    BY <2>1, Zenon DEF NotCreated
<1>3. StartOrder[n] \in Threads \ {"coordinator"}
  BY StartOrderFacts DEF Threads, Handlers
<1>4. CASE Crash \/ Reap
  BY <1>3, <1>4, EndFacts, Zenon
<1>5. CASE StartProcess \/ Coordinator
  <2>1. CASE StartProcess
    <3>1. Goto("coordinator", "start") /\ pc["coordinator"] = "down"
      BY <2>1, Zenon DEF StartProcess
    <3>2. pc'[StartOrder[n]] = pc[StartOrder[n]]
      BY <1>3, <3>1, Zenon DEF Goto, DeliveryInv, TypeOK, PositionsOK
    <3> QED
      BY <1>1, <3>1, <3>2, Zenon
  <2>2. CASE StartWorker
    <3>1. pc["coordinator"] = "start"
      BY <2>2, Zenon DEF StartWorker
    <3>2. \/ Goto("coordinator", "stop")
          \/ /\ step' = IF step = Len(StartOrder) THEN 1 ELSE step + 1
             /\ pc' = [pc EXCEPT ![StartOrder[step]] = Entry[StartOrder[step]],
                                 !["coordinator"] = IF step = Len(StartOrder)
                                                    THEN "run" ELSE "start"]
      BY <2>2, Zenon DEF StartWorker
    <3>3. step \in 1 .. 6
      BY <1>1, <3>1, StartOrderFacts DEF DeliveryInv, LocalsAtPositions
    <3>4. pc \in [Threads -> Positions] /\ "coordinator" \in Threads
      BY Zenon DEF DeliveryInv, TypeOK, PositionsOK, Threads
    <3>5. step < n /\ pc'[StartOrder[n]] = pc[StartOrder[n]]
      BY <1>2, <1>3, <3>2, <3>3, <3>4, StartOrderFacts DEF Goto
    <3> QED
      BY <1>1, <3>1, <3>3, <3>5
  <2>3. CASE StopWaiting \/ RequestStop \/ ReturnResult
    <3>1. \E w \in {"stop", "shutdown", "exited"} : Goto("coordinator", w)
      BY <2>3, Zenon DEF StopWaiting, RequestStop, ReturnResult
    <3> QED
      BY <1>2, <3>1, Zenon DEF Goto, DeliveryInv, TypeOK, PositionsOK, Threads
  <2>4. CASE ShutdownStep
    <3>1. pc["coordinator"] = "shutdown"
      BY <2>4, Zenon DEF ShutdownStep
    <3> QED
      BY <1>2, <2>4, <3>1, ShutdownMoves, Zenon DEF Goto, DeliveryInv, TypeOK, PositionsOK, Threads
  <2> QED
    BY <1>5, <2>1, <2>2, <2>3, <2>4, Zenon DEF Coordinator
<1>6. CASE ~(StartProcess \/ Coordinator \/ Crash \/ Reap)
  <2>1. /\ UNCHANGED step
        /\ pc'["coordinator"] = pc["coordinator"]
    BY <1>6, CommandWriters, Movers, Zenon
  <2>2. pc[StartOrder[n]] = "unborn"
    BY <1>1, <1>2, <2>1, Zenon
  <2> QED
    BY <1>3, <1>6, <2>2, UnbornStays, Zenon
<1> QED
  BY <1>4, <1>5, <1>6, Zenon
-----------------------------------------------------------------------------
\* A created handler was unborn, and so was a created storage worker.
LEMMA CreatedWereUnborn ==
    ASSUME DeliveryInv, CommandInv
    PROVE  /\ Creates(1) => pc["remote"] = "unborn"
           /\ Creates(4) => pc["storage"] = "unborn"
           /\ Creates(6) => pc["local"] = "unborn"
<1>1. DOMAIN StartOrder = 1 .. 6
  BY DEF StartOrder
<1>2. NotCreated
  BY Zenon DEF CommandInv
<1> QED
  BY <1>1, <1>2, StartOrderFacts DEF NotCreated, Creates

\* While no handler takes a step, the same handlers execute and await.
LEMMA HandlersStay ==
    ASSUME DeliveryInv, CommandInv, Next, ~(Crash \/ Reap),
           NEW t \in Handlers, ~Handler(t)
    PROVE  /\ pc[t] \in {"execute", "await"} \/ pc'[t] \in {"execute", "await"}
              => pc'[t] = pc[t]
           /\ pc'[t] = "answer" => pc[t] = "answer"
<1>1. CASE t = "local"
  BY <1>1, Movers, HandlerMoves, ActsAt, CreatedWereUnborn, Zenon
<1>2. CASE t = "remote"
  BY <1>2, Movers, HandlerMoves, ActsAt, CreatedWereUnborn, Zenon
<1> QED
  BY <1>1, <1>2, Zenon DEF Handlers

\* command_mutex is held from its lock to the answer, by one handler.
LEMMA MutexStep ==
    ASSUME DeliveryInv, CommandInv, Next
    PROVE  MutexHeld'
<1>1. MutexHeld /\ "free" \notin Handlers
  BY DEF CommandInv, Handlers
<1>2. CASE Crash \/ Reap
  <2>1. command_mutex' = "free"
    BY <1>2, Zenon DEF Crash, Reap, ProcessEnds
  <2>2. \A t \in Handlers : pc'[t] = "unborn"
    BY <1>2, EndFacts, Zenon DEF Threads, Handlers
  <2> QED
    BY <1>1, <2>1, <2>2, Zenon DEF MutexHeld
<1>3. ASSUME NEW t \in Handlers, Handler(t)
      PROVE  MutexHeld'
  <2>1. \A u \in Handlers \ {t} : pc'[u] = pc[u]
    BY <1>3, OnlyOwnPosition, Zenon DEF DeliveryInv, TypeOK, Threads
  <2>2. \/ command_mutex = "free" /\ command_mutex' = t /\ pc'[t] = "execute"
        \/ /\ pc[t] \in {"execute", "await"} /\ pc'[t] = "await"
           /\ UNCHANGED command_mutex
        \/ /\ pc[t] \in {"execute", "await"} /\ command_mutex' = "free"
           /\ pc'[t] \notin {"execute", "await"}
    BY <1>3, HandlerMoves, Zenon
  <2> QED
    BY <1>1, <2>1, <2>2, Zenon DEF MutexHeld
<1>4. CASE ~(Crash \/ Reap) /\ ~\E t \in Handlers : Handler(t)
  <2>1. UNCHANGED command_mutex
    BY <1>4, CommandWriters, Zenon
  <2>2. \A t \in Handlers :
           pc[t] \in {"execute", "await"} \/ pc'[t] \in {"execute", "await"} => pc'[t] = pc[t]
    BY <1>4, HandlersStay, Zenon
  <2> QED
    BY <1>1, <2>1, <2>2, Zenon DEF MutexHeld
<1> QED
  BY <1>2, <1>3, <1>4, Zenon

\* Only the stop sequence and the mqtt worker's last step close a queue.
LEMMA ClosedStep ==
    ASSUME DeliveryInv, CommandInv, Next
    PROVE  ClosedByStop'
<1>1. /\ ClosedByStop
      /\ pc["coordinator"] = "shutdown" => stop_requested
      /\ pc["mqtt"] = "close" => stop_requested
  BY Zenon DEF CommandInv, DeliveryInv, MqttLifeCycle
<1>2. CASE Crash \/ Reap
  <2>1. closed' = {}
    BY <1>2, Zenon DEF Crash, Reap, ProcessEnds
  <2> QED
    BY <2>1, Zenon DEF ClosedByStop
<1>3. CASE ~(Crash \/ Reap)
  <2>1. stop_requested => stop_requested'
    BY <1>3, StopStays, Zenon
  <2>2. UNCHANGED closed \/ ShutdownStep \/ MqttClose
    BY <1>3, CommandWriters, Zenon
  <2>3. ShutdownStep \/ MqttClose => stop_requested
    BY <1>1, Zenon DEF ShutdownStep, MqttClose
  <2> QED
    BY <1>1, <2>1, <2>2, <2>3, Zenon DEF ClosedByStop
<1> QED
  BY <1>2, <1>3, Zenon
-----------------------------------------------------------------------------
\* A handler keeps its command from the moment it has it to the answer.
LEMMA CommandStays ==
    ASSUME DeliveryInv, Next, ~(Crash \/ Reap), NEW t \in Handlers,
           pc[t] \in {"lock", "execute", "await", "answer"}
    PROVE  command'[t] = command[t]
<1>1. command \in [Handlers -> Command \cup {NoCommand}]
  BY Zenon DEF DeliveryInv, TypeOK, CommandTypeOK
<1>2. CASE LocalReceive
  <2>1. /\ pc["local"] = "listen"
        /\ \E c \in LocalCommands : command' = [command EXCEPT !["local"] = c]
    BY <1>2, Zenon DEF LocalReceive
  <2> QED
    BY <1>1, <2>1, Zenon
<1>3. CASE RemotePop
  <2>1. /\ pc["remote"] = "pop"
        /\ \/ UNCHANGED command
           \/ \E c : command' = [command EXCEPT !["remote"] = c]
    BY <1>3, Zenon DEF RemotePop
  <2> QED
    BY <1>1, <2>1, Zenon
<1> QED
  BY <1>2, <1>3, CommandWriters, Zenon

\* The storage worker keeps the request it serves.
LEMMA ServingStays ==
    ASSUME DeliveryInv, CommandInv, Next, ~(Crash \/ Reap), ~StorageControl, ~StorageServe
    PROVE  /\ Serving' <=> Serving
           /\ Serving => sto'.request = sto.request
<1>1. CASE Storage
  <2>1. pc["storage"] # "serve"
    BY <1>1, Zenon DEF Storage, StorageResult, StorageMeasure, StorageSchedule, StorageEnqueue
  <2>2. \E w \in {"measure", "schedule", "enqueue", "control", "done"} : Goto("storage", w)
    BY <1>1, Zenon DEF Storage, StorageResult, StorageMeasure, StorageSchedule, StorageEnqueue,
         StorageFail, WorkerFail, LoopAgain
  <2>3. pc'["storage"] # "serve"
    BY <2>2, Zenon DEF Goto, DeliveryInv, TypeOK, PositionsOK, Threads
  <2> QED
    BY <2>1, <2>3, Zenon DEF Serving
<1>2. CASE ~Storage
  <2>1. pc'["storage"] = pc["storage"] \/ (pc["storage"] = "unborn" /\ pc'["storage"] = "control")
    BY <1>2, Movers, CreatedWereUnborn, Zenon
  <2>2. UNCHANGED sto \/ sto' = [sto EXCEPT !.backoff = FALSE]
    BY <1>2, Writers, Zenon DEF BackoffExpires
  <2>3. sto'.request = sto.request
    BY <2>2, Zenon DEF DeliveryInv, TypeOK, CommandTypeOK
  <2> QED
    BY <2>1, <2>3, Zenon DEF Serving
<1> QED
  BY <1>1, <1>2, Zenon

\* Nobody else executes or awaits while a handler does.
LEMMA OneHandlerInside ==
    ASSUME CommandInv, NEW t \in Handlers, pc[t] \in {"execute", "await"}
    PROVE  Awaiting = (IF pc[t] = "await" THEN {t} ELSE {})
  BY Zenon DEF CommandInv, MutexHeld, Awaiting

\* The one request that is on its way belongs to the handler that awaits it.
OwnRequest ==
    /\ Awaiting = {} => NoRequest
    /\ \A t \in Awaiting : RequestQueued(t) \/ RequestServed(t) \/ ResultQueued(t)

\* A handler hands its request over only when nothing else is on its way.
LEMMA AskingStep ==
    ASSUME DeliveryInv, CommandInv, Next, ~(Crash \/ Reap), OwnRequest, closed = {},
           ~stop_requested', NEW t \in Handlers, AskStorage(t)
    PROVE  OwnRequest'
<1>1. pc[t] = "execute" /\ Handler(t)
  BY Zenon DEF AskStorage, Handler
<1>2. Awaiting = {} /\ NoRequest
  BY <1>1, OneHandlerInside, Zenon DEF OwnRequest
<1>3. ~IsFull(control_request_queue, 1) /\ "control_request" \notin closed
  BY <1>2 DEF NoRequest, IsFull
<1>4. /\ control_request_queue' = Append(control_request_queue, command[t])
      /\ UNCHANGED control_result_queue /\ Goto(t, "await")
  BY <1>3, Zenon DEF AskStorage
<1>5. control_request_queue' = <<command[t]>> /\ control_result_queue' = <<>>
  BY <1>2, <1>4 DEF NoRequest
<1>6. command'[t] = command[t]
  BY <1>1, CommandStays, Zenon
<1>7. ~Serving'
  <2>1. pc'["storage"] = pc["storage"]
    BY <1>1, OnlyOwnPosition, Zenon DEF DeliveryInv, TypeOK, Threads, Handlers
  <2> QED
    BY <1>2, <2>1, Zenon DEF NoRequest, Serving
<1>8. Awaiting' = {t}
  <2>1. pc'[t] = "await" /\ \A u \in Handlers \ {t} : pc'[u] = pc[u]
    BY <1>1, <1>4, OnlyOwnPosition, Zenon DEF Goto, DeliveryInv, TypeOK, PositionsOK, Threads
  <2> QED
    BY <1>2, <2>1, Zenon DEF Awaiting
<1>9. RequestQueued(t)'
  BY <1>5, <1>6, <1>7, Zenon DEF RequestQueued
<1> QED
  BY <1>8, <1>9, Zenon DEF OwnRequest

\* A result is taken by the handler that awaits it, and nothing is left.
LEMMA TakingStep ==
    ASSUME DeliveryInv, CommandInv, Next, ~(Crash \/ Reap), OwnRequest,
           NEW t \in Handlers, TakeStorageAnswer(t)
    PROVE  /\ OwnRequest'
           /\ ResultQueued(t)
           /\ control_result_queue' = <<>>
<1>1. /\ pc[t] = "await" /\ Handler(t)
      /\ control_result_queue # <<>>
      /\ UNCHANGED control_request_queue
      /\ control_result_queue' = Tail(control_result_queue)
  BY Zenon DEF TakeStorageAnswer, Handler, IsEmpty
<1>2. Awaiting = {t}
  BY <1>1, OneHandlerInside, Zenon
<1>3. ResultQueued(t)
  BY <1>1, <1>2, Zenon DEF OwnRequest, RequestQueued, RequestServed
<1>4. control_request_queue' = <<>> /\ control_result_queue' = <<>>
  BY <1>1, <1>3 DEF ResultQueued
<1>5. ~Serving'
  <2>1. pc'["storage"] = pc["storage"]
    BY <1>1, OnlyOwnPosition, Zenon DEF DeliveryInv, TypeOK, Threads, Handlers
  <2> QED
    BY <1>3, <2>1, Zenon DEF ResultQueued, Serving
<1>6. Awaiting' = {}
  <2>1. pc'[t] # "await"
    <3>1. ~LockCommandMutex(t) /\ ~AskStorage(t)
      BY <1>1, Zenon DEF LockCommandMutex, AskStorage
    <3> QED
      BY <1>1, <3>1, HandlerMoves, Zenon
  <2>2. \A u \in Handlers \ {t} : pc'[u] = pc[u]
    BY <1>1, OnlyOwnPosition, Zenon DEF DeliveryInv, TypeOK, Threads
  <2> QED
    BY <1>2, <2>1, <2>2, Zenon DEF Awaiting
<1>7. NoRequest'
  BY <1>4, <1>5, Zenon DEF NoRequest
<1> QED
  BY <1>3, <1>4, <1>6, <1>7, Zenon DEF OwnRequest

\* What awaits and what it asked for, while the storage worker takes a step.
LEMMA AwaitingUnmoved ==
    ASSUME DeliveryInv, Next, ~(Crash \/ Reap), Storage
    PROVE  /\ Awaiting' = Awaiting
           /\ \A t \in Awaiting : command'[t] = command[t]
<1>1. \A t \in Handlers : pc'[t] = pc[t]
  BY OnlyOwnPosition, Zenon DEF DeliveryInv, TypeOK, Threads, Handlers
<1>2. Awaiting' = Awaiting
  BY <1>1, Zenon DEF Awaiting
<1> QED
  BY <1>2, CommandStays, Zenon DEF Awaiting

\* The storage worker fetches the request of the handler that awaits it.
LEMMA FetchingStep ==
    ASSUME DeliveryInv, CommandInv, Next, ~(Crash \/ Reap), OwnRequest, StorageControl
    PROVE  OwnRequest'
<1>1. /\ pc["storage"] = "control" /\ Storage
      /\ UNCHANGED control_result_queue
      /\ \/ /\ control_request_queue # <<>>
            /\ sto' = [sto EXCEPT !.request = Head(control_request_queue)]
            /\ control_request_queue' = Tail(control_request_queue)
            /\ Goto("storage", "serve")
         \/ /\ control_request_queue = <<>>
            /\ Goto("storage", "result")
            /\ UNCHANGED control_request_queue
  BY Zenon DEF StorageControl, Storage, IsEmpty
<1>2. /\ Awaiting' = Awaiting
      /\ \A t \in Awaiting : command'[t] = command[t]
  BY <1>1, AwaitingUnmoved, Zenon
<1>3. ~Serving
  BY <1>1, Zenon DEF Serving
<1>4. ASSUME NEW w, Goto("storage", w)
      PROVE  pc'["storage"] = w
  BY <1>4, Zenon DEF Goto, DeliveryInv, TypeOK, PositionsOK, Threads
<1>5. CASE control_request_queue = <<>>
  <2>1. UNCHANGED <<control_request_queue, control_result_queue>> /\ ~Serving'
    BY <1>1, <1>4, <1>5, Zenon DEF Serving
  <2> QED
    BY <1>2, <1>3, <2>1, Zenon DEF OwnRequest, NoRequest, RequestQueued, RequestServed, ResultQueued
<1>6. CASE control_request_queue # <<>>
  <2>1. Awaiting # {}
    BY <1>6, Zenon DEF OwnRequest, NoRequest
  <2>2. SUFFICES ASSUME NEW t \in Awaiting
                 PROVE  RequestServed(t)'
    BY <1>2, <2>1, Zenon DEF OwnRequest
  <2>3. RequestQueued(t)
    BY <1>3, <1>6, Zenon DEF OwnRequest, RequestServed, ResultQueued
  <2>4. control_request_queue' = <<>> /\ control_result_queue' = <<>>
    BY <1>1, <1>6, <2>3 DEF RequestQueued
  <2>5. sto'.request = command[t]
    BY <1>1, <1>6, <2>3 DEF RequestQueued, DeliveryInv, TypeOK, CommandTypeOK
  <2>6. Serving'
    BY <1>1, <1>4, <1>6, Zenon DEF Serving
  <2> QED
    BY <1>2, <2>4, <2>5, <2>6, Zenon DEF RequestServed
<1> QED
  BY <1>5, <1>6, Zenon

\* The storage worker's result goes to an empty queue and is the handler's.
LEMMA ServingStep ==
    ASSUME DeliveryInv, CommandInv, Next, ~(Crash \/ Reap), OwnRequest, StorageServe
    PROVE  /\ OwnRequest'
           /\ control_result_queue = <<>>
<1>1. pc["storage"] = "serve" /\ Storage /\ Serving
  BY Zenon DEF StorageServe, Storage, Serving
<1>2. /\ Awaiting' = Awaiting
      /\ \A t \in Awaiting : command'[t] = command[t]
  BY <1>1, AwaitingUnmoved, Zenon
<1>3. Awaiting # {} /\ \A t \in Awaiting : RequestServed(t)
  BY <1>1, Zenon DEF OwnRequest, NoRequest, RequestQueued, ResultQueued
<1>4. control_request_queue = <<>> /\ control_result_queue = <<>>
  BY <1>3, Zenon DEF RequestServed
<1>5. ~IsFull(control_result_queue, 1)
  BY <1>4 DEF IsFull
<1>6. PICK ok \in BOOLEAN :
          /\ control_result_queue' =
                 Append(control_result_queue, [kind |-> sto.request.kind, ok |-> ok,
                                               interval_ms |-> sto.request.interval_ms])
          /\ Goto("storage", "result")
  BY <1>5, Zenon DEF StorageServe
<1>7. UNCHANGED control_request_queue
  BY Zenon DEF StorageServe
<1>8. ~Serving'
  BY <1>6, Zenon DEF Goto, DeliveryInv, TypeOK, PositionsOK, Threads, Serving
<1>9. ASSUME NEW t \in Awaiting
      PROVE  ResultQueued(t)'
  <2>1. control_result_queue' = <<[kind |-> command[t].kind, ok |-> ok,
                                   interval_ms |-> command[t].interval_ms]>>
    BY <1>3, <1>4, <1>6 DEF RequestServed
  <2> QED
    BY <1>2, <1>4, <1>7, <1>8, <2>1, Zenon DEF ResultQueued
<1> QED
  BY <1>2, <1>3, <1>4, <1>9, Zenon DEF OwnRequest

\* No other step touches the request, its handler or its place.
LEMMA RequestUntouched ==
    ASSUME DeliveryInv, CommandInv, Next, ~(Crash \/ Reap), OwnRequest,
           ~StorageControl, ~StorageServe, ~ShouldStop,
           \A t \in Handlers : ~AskStorage(t) /\ ~TakeStorageAnswer(t)
    PROVE  OwnRequest'
<1>1. UNCHANGED <<control_request_queue, control_result_queue>>
  BY CommandWriters, Zenon
<1>2. /\ Serving' <=> Serving
      /\ Serving => sto'.request = sto.request
  BY ServingStays, Zenon
<1>3. ASSUME NEW t \in Handlers
      PROVE  pc'[t] = "await" <=> pc[t] = "await"
  <2>1. CASE Handler(t)
    <3>1. LockCommandMutex(t) \/ ExecuteHere(t)
      BY <2>1, Zenon DEF Handler, AbandonRequest
    <3>2. pc[t] # "await"
      BY <3>1, Zenon DEF LockCommandMutex, ExecuteHere
    <3> QED
      BY <2>1, <3>2, HandlerMoves, Zenon
  <2>2. CASE ~Handler(t)
    BY <2>2, HandlersStay, Zenon
  <2> QED
    BY <2>1, <2>2, Zenon
<1>4. Awaiting' = Awaiting
  BY <1>3, Zenon DEF Awaiting
<1>5. \A t \in Awaiting : command'[t] = command[t]
  BY CommandStays, Zenon DEF Awaiting
<1>6. ASSUME NEW t \in Awaiting
      PROVE  /\ RequestQueued(t) => RequestQueued(t)'
             /\ RequestServed(t) => RequestServed(t)'
             /\ ResultQueued(t) => ResultQueued(t)'
  BY <1>1, <1>2, <1>5, Zenon DEF RequestQueued, RequestServed, ResultQueued
<1>7. NoRequest => NoRequest'
  BY <1>1, <1>2, Zenon DEF NoRequest
<1> QED
  BY <1>4, <1>6, <1>7, Zenon DEF OwnRequest

\* Until a stop is requested, what is on its way is the awaiting handler's.
LEMMA RequestStep ==
    ASSUME DeliveryInv, CommandInv, Next
    PROVE  RequestIsOwn'
<1>1. CASE Crash \/ Reap
  <2>1. control_request_queue' = <<>> /\ control_result_queue' = <<>>
    BY <1>1, Zenon DEF Crash, Reap, ProcessEnds
  <2>2. \A t \in Threads \ {"coordinator"} : pc'[t] = "unborn"
    BY <1>1, EndFacts, Zenon
  <2>3. Awaiting' = {} /\ ~Serving'
    BY <2>2 DEF Awaiting, Serving, Threads, Handlers
  <2> QED
    BY <2>1, <2>3, Zenon DEF RequestIsOwn, NoRequest
<1>2. CASE ~(Crash \/ Reap)
  <2>1. SUFFICES ASSUME ~ShouldStop'
                 PROVE  OwnRequest'
    BY Zenon DEF RequestIsOwn, OwnRequest
  <2>2. ~ShouldStop /\ ~stop_requested /\ ~stop_requested'
    BY <1>2, <2>1, StopStays, Zenon DEF ShouldStop
  <2>3. OwnRequest /\ closed = {}
    BY <2>2, Zenon DEF CommandInv, RequestIsOwn, OwnRequest, ClosedByStop
  <2>4. CASE \E t \in Handlers : AskStorage(t)
    BY <1>2, <2>2, <2>3, <2>4, AskingStep, Zenon
  <2>5. CASE \E t \in Handlers : TakeStorageAnswer(t)
    BY <1>2, <2>3, <2>5, TakingStep, Zenon
  <2>6. CASE StorageControl
    BY <1>2, <2>3, <2>6, FetchingStep, Zenon
  <2>7. CASE StorageServe
    BY <1>2, <2>3, <2>7, ServingStep, Zenon
  <2> QED
    BY <1>2, <2>2, <2>3, <2>4, <2>5, <2>6, <2>7, RequestUntouched, Zenon
<1> QED
  BY <1>1, <1>2, Zenon
-----------------------------------------------------------------------------
\* A handler that answers set_interval with ok took the result of its own request.
LEMMA AnswerStep ==
    ASSUME DeliveryInv, CommandInv, Next
    PROVE  AnswerIsOwn'
<1>1. SUFFICES ASSUME NEW t \in Handlers, ~ShouldStop', pc'[t] = "answer",
                      command'[t].kind = "set_interval", reply'[t].status = "ok"
               PROVE  reply'[t].interval_ms = command'[t].interval_ms
  BY Zenon DEF AnswerIsOwn
<1>2. ~(Crash \/ Reap)
  BY <1>1, EndFacts, Zenon DEF Threads, Handlers
<1>3. ~ShouldStop /\ OwnRequest
  BY <1>1, <1>2, StopStays, Zenon DEF ShouldStop, CommandInv, RequestIsOwn, OwnRequest
<1>4. reply \in [Handlers -> Reply]
  BY Zenon DEF DeliveryInv, TypeOK, CommandTypeOK
<1>5. CASE ~Handler(t)
  <2>1. pc[t] = "answer"
    BY <1>1, <1>2, <1>5, HandlersStay, Zenon
  <2>2. command'[t] = command[t]
    BY <1>2, <2>1, CommandStays, Zenon
  <2>3. reply'[t] = reply[t]
    <3>1. UNCHANGED reply \/ \E u \in Handlers : Handler(u)
      BY <1>2, CommandWriters, Zenon
    <3>2. ASSUME NEW u \in Handlers, Handler(u)
          PROVE  UNCHANGED reply \/ \E r : reply' = [reply EXCEPT ![u] = r]
      BY <3>2, Zenon DEF Handler, LockCommandMutex, ExecuteHere, AskStorage, TakeStorageAnswer,
           AbandonRequest, Answer, HandlerFail
    <3> QED
      BY <1>4, <1>5, <3>1, <3>2, Zenon
  <2> QED
    BY <1>1, <1>3, <2>1, <2>2, <2>3, Zenon DEF CommandInv, AnswerIsOwn
<1>6. CASE Handler(t)
  <2>1. pc[t] \in {"execute", "await"}
    BY <1>1, <1>6, HandlerMoves, Zenon
  <2>2. command'[t] = command[t]
    BY <1>2, <2>1, CommandStays, Zenon
  <2>3. TakeStorageAnswer(t)
    <3>1. ~ExecuteHere(t)
      BY <1>1, <2>2, Zenon DEF ExecuteHere, Kinds
    <3>2. ~LockCommandMutex(t)
      BY <2>1, Zenon DEF LockCommandMutex
    <3>3. ASSUME AskStorage(t) \/ AbandonRequest(t)
          PROVE  FALSE
      <4>1. \E w \in {"await", "listen", "done"} : Goto(t, w)
        BY <3>3, Zenon DEF AskStorage, AbandonRequest, HandlerFail, WorkerFail
      <4> QED
        BY <1>1, <4>1, Zenon DEF Goto, DeliveryInv, TypeOK, PositionsOK, Threads
    <3> QED
      BY <1>6, <3>1, <3>2, <3>3, Zenon DEF Handler
  <2>4. ResultQueued(t)
    BY <1>2, <1>3, <2>3, TakingStep, Zenon
  <2>5. PICK r : r = Head(control_result_queue)
    OBVIOUS
  <2>6. r.kind = command[t].kind /\ r.interval_ms = command[t].interval_ms
    BY <2>4, <2>5 DEF ResultQueued
  <2>7. \/ \E w \in {"listen", "done"} : Goto(t, w)
        \/ reply' = [reply EXCEPT ![t] = Error]
        \/ /\ interval_ms' = (IF r.kind = "set_interval" THEN r.interval_ms ELSE interval_ms)
           /\ reply' = [reply EXCEPT ![t] = Ok(interval_ms')]
    BY <2>3, <2>5, Zenon DEF TakeStorageAnswer, HandlerFail, WorkerFail, Answer
  <2>8. reply'[t] = Ok(r.interval_ms)
    <3>1. ~\E w \in {"listen", "done"} : Goto(t, w)
      BY <1>1, Zenon DEF Goto, DeliveryInv, TypeOK, PositionsOK, Threads
    <3>2. reply' # [reply EXCEPT ![t] = Error]
      BY <1>1, <1>4 DEF Error
    <3> QED
      BY <1>1, <1>4, <2>2, <2>6, <2>7, <3>1, <3>2, Zenon
  <2> QED
    BY <2>2, <2>6, <2>8 DEF Ok
<1> QED
  BY <1>5, <1>6, Zenon
-----------------------------------------------------------------------------
\* The interval that set_interval saves is a real one.
LEMMA SetIntervalValue ==
    ASSUME DeliveryInv, NEW t \in Handlers, pc[t] \in {"execute", "await"},
           command[t].kind = "set_interval"
    PROVE  command[t].interval_ms \in Intervals /\ command[t].interval_ms # NoInterval
<1>1. command[t] \in Command
  BY Zenon DEF DeliveryInv, LocalsAtPositions
<1>2. command[t].interval_ms \in Intervals
  BY <1>1, Zenon DEF Command
<1> QED
  BY <1>2, ConstantsAssumption, Zenon DEF NoInterval

\* The result queue is empty before the process starts.
LEMMA DownStep ==
    ASSUME DeliveryInv, CommandInv, Next, pc'["coordinator"] = "down"
    PROVE  control_result_queue' = <<>>
<1>1. CASE Crash \/ Reap
  BY <1>1, Zenon DEF Crash, Reap, ProcessEnds
<1>2. CASE ~(Crash \/ Reap)
  <2>1. pc["coordinator"] = "down"
    BY <1>2, Movers, CoordinatorPositions, Zenon
  <2>2. control_result_queue = <<>>
    BY <2>1, Zenon DEF CommandInv, SavedIsKnown
  <2>3. ~StorageServe
    <3>1. pc["storage"] = "unborn"
      BY <2>1, Zenon DEF DeliveryInv, MqttLifeCycle
    <3> QED
      BY <3>1, Zenon DEF StorageServe
  <2>4. \A t \in Handlers : ~TakeStorageAnswer(t)
    BY <2>2, Zenon DEF TakeStorageAnswer, IsEmpty
  <2> QED
    BY <1>2, <2>2, <2>3, <2>4, CommandWriters, Zenon
<1> QED
  BY <1>1, <1>2, Zenon

\* The storage worker saves the interval and queues the result in one step.
LEMMA SavingStep ==
    ASSUME DeliveryInv, CommandInv, Next, ~(Crash \/ Reap), OwnRequest, StorageServe,
           interval_ms = Reloaded \/ SavingResults # {}
    PROVE  /\ \A i \in SavingResults' : saved_interval' = control_result_queue'[i].interval_ms
           /\ interval_ms' = Reloaded' \/ SavingResults' # {}
<1>1. control_result_queue = <<>> /\ interval_ms = Reloaded
  BY ServingStep DEF SavingResults
<1>2. ~IsFull(control_result_queue, 1)
  BY <1>1 DEF IsFull
<1>3. PICK ok \in BOOLEAN :
          /\ saved_interval' = (IF ok /\ sto.request.kind = "set_interval"
                                THEN sto.request.interval_ms ELSE saved_interval)
          /\ control_result_queue' =
                 Append(control_result_queue, [kind |-> sto.request.kind, ok |-> ok,
                                               interval_ms |-> sto.request.interval_ms])
  BY <1>2, Zenon DEF StorageServe
<1>4. UNCHANGED interval_ms
  BY Zenon DEF StorageServe, storageOthers, status
<1>5. control_result_queue' = <<[kind |-> sto.request.kind, ok |-> ok,
                                 interval_ms |-> sto.request.interval_ms]>>
  BY <1>1, <1>3
<1>6. CASE ok /\ sto.request.kind = "set_interval"
  <2>1. SavingResults' = {1}
    BY <1>5, <1>6 DEF SavingResults
  <2>2. saved_interval' = control_result_queue'[1].interval_ms
    BY <1>3, <1>5, <1>6
  <2> QED
    BY <2>1, <2>2, Zenon
<1>7. CASE ~(ok /\ sto.request.kind = "set_interval")
  <2>1. SavingResults' = {}
    BY <1>5, <1>7 DEF SavingResults
  <2>2. UNCHANGED saved_interval
    BY <1>3, <1>7, Zenon
  <2> QED
    BY <1>1, <1>4, <2>1, <2>2, Zenon DEF Reloaded
<1> QED
  BY <1>6, <1>7, Zenon

\* The handler applies an interval exactly when its result says it was saved.
LEMMA ApplyingStep ==
    ASSUME DeliveryInv, CommandInv, Next, ~(Crash \/ Reap), OwnRequest,
           NEW t \in Handlers, TakeStorageAnswer(t),
           \A i \in SavingResults : saved_interval = control_result_queue[i].interval_ms,
           interval_ms = Reloaded \/ SavingResults # {}
    PROVE  /\ \A i \in SavingResults' : saved_interval' = control_result_queue'[i].interval_ms
           /\ interval_ms' = Reloaded' \/ SavingResults' # {}
<1>1. ResultQueued(t) /\ control_result_queue' = <<>>
  BY TakingStep, Zenon
<1>2. SavingResults' = {}
  BY <1>1 DEF SavingResults
<1>3. UNCHANGED saved_interval /\ pc[t] = "await"
  BY Zenon DEF TakeStorageAnswer, commandOthers, store
<1>4. PICK r : /\ r = Head(control_result_queue) /\ control_result_queue = <<r>>
               /\ r.kind = command[t].kind /\ r.interval_ms = command[t].interval_ms
               /\ r.ok \in BOOLEAN
  BY <1>1 DEF ResultQueued
<1>5. \/ /\ ~(r.kind = command[t].kind /\ r.ok)
         /\ UNCHANGED interval_ms
      \/ /\ r.ok
         /\ interval_ms' = IF r.kind = "set_interval" THEN r.interval_ms ELSE interval_ms
  BY <1>4, Zenon DEF TakeStorageAnswer
<1>6. CASE r.kind = "set_interval" /\ r.ok
  <2>1. SavingResults = {1}
    BY <1>4, <1>6 DEF SavingResults
  <2>2. saved_interval = r.interval_ms
    BY <1>4, <2>1
  <2>3. interval_ms' = r.interval_ms
    BY <1>4, <1>5, <1>6, Zenon
  <2>4. r.interval_ms # NoInterval
    BY <1>3, <1>4, <1>6, SetIntervalValue, Zenon
  <2> QED
    BY <1>2, <1>3, <2>2, <2>3, <2>4, Zenon DEF Reloaded
<1>7. CASE ~(r.kind = "set_interval" /\ r.ok)
  <2>1. SavingResults = {}
    BY <1>4, <1>7 DEF SavingResults
  <2>2. UNCHANGED interval_ms
    BY <1>4, <1>5, <1>7, Zenon
  <2> QED
    BY <1>2, <1>3, <2>1, <2>2, Zenon DEF Reloaded
<1> QED
  BY <1>6, <1>7, Zenon

\* The interval in use follows the database through save and acknowledgement.
LEMMA SavedStep ==
    ASSUME DeliveryInv, CommandInv, Next
    PROVE  SavedIsKnown'
<1>1. SUFFICES ASSUME Running', ~ShouldStop'
               PROVE  /\ \A i \in SavingResults' :
                            saved_interval' = control_result_queue'[i].interval_ms
                      /\ interval_ms' = Reloaded' \/ SavingResults' # {}
  BY DownStep, Zenon DEF SavedIsKnown
<1>2. ~(Crash \/ Reap)
  BY <1>1, EndFacts, Zenon DEF Running
<1>3. ~ShouldStop /\ OwnRequest
  BY <1>1, <1>2, StopStays, Zenon DEF ShouldStop, CommandInv, RequestIsOwn, OwnRequest
<1>4. CASE StartProcess
  <2>1. pc["coordinator"] = "down" /\ UNCHANGED coordOthers
        /\ interval_ms' = IF saved_interval = NoInterval THEN ConfigInterval
                          ELSE saved_interval
    BY <1>4, CoordinatorFrame, Zenon DEF StartProcess
  <2>2. control_result_queue = <<>>
    BY <2>1, Zenon DEF CommandInv, SavedIsKnown
  <2>3. UNCHANGED <<saved_interval, control_result_queue>>
    BY <2>1, Zenon DEF coordOthers, store, ctlQ
  <2>4. SavingResults' = {}
    BY <2>2, <2>3 DEF SavingResults
  <2>5. interval_ms' = Reloaded'
    BY <2>1, <2>3, Zenon DEF Reloaded
  <2> QED
    BY <2>4, <2>5, Zenon
<1>5. CASE ~StartProcess
  <2>1. Running
    <3>1. Coordinator => pc["coordinator"] \in {"start", "run", "stop", "shutdown"}
      BY Zenon DEF Coordinator, StartWorker, StopWaiting, RequestStop, ShutdownStep, ReturnResult
    <3>2. pc'["coordinator"] = pc["coordinator"] \/ Coordinator
      BY <1>2, <1>5, Movers, Zenon
    <3> QED
      BY <1>1, <3>1, <3>2, Zenon DEF Running
  <2>2. /\ \A i \in SavingResults : saved_interval = control_result_queue[i].interval_ms
        /\ interval_ms = Reloaded \/ SavingResults # {}
    BY <1>3, <2>1, Zenon DEF CommandInv, SavedIsKnown
  <2>3. CASE StorageServe
    BY <1>2, <1>3, <2>2, <2>3, SavingStep, Zenon
  <2>4. CASE \E t \in Handlers : TakeStorageAnswer(t)
    BY <1>2, <1>3, <2>2, <2>4, ApplyingStep, Zenon
  <2>5. CASE ~StorageServe /\ \A t \in Handlers : ~TakeStorageAnswer(t)
    <3>1. UNCHANGED <<control_result_queue, saved_interval, interval_ms>>
      BY <1>2, <1>5, <2>5, CommandWriters, Zenon
    <3> QED
      BY <2>2, <3>1, Zenon DEF SavingResults, Reloaded
  <2> QED
    BY <2>3, <2>4, <2>5, Zenon
<1> QED
  BY <1>4, <1>5, Zenon
-----------------------------------------------------------------------------
\* The ring's next slot, without the remainder.
LEMMA NextSlotValue ==
    ASSUME NEW n \in Slots
    PROVE  NextSlot(n) = (IF n = DedupCap - 1 THEN 0 ELSE n + 1)
<1>1. n \in 0 .. DedupCap - 1 /\ DedupCap \in Nat \ {0}
  BY DedupCapAssumption, Zenon DEF Slots
<1>2. CASE n = DedupCap - 1
  BY <1>1, <1>2 DEF NextSlot
<1>3. CASE n # DedupCap - 1
  <2>1. n + 1 \in 0 .. DedupCap - 1
    BY <1>1, <1>3
  <2> QED
    BY <1>1, <1>3, <2>1 DEF NextSlot
<1> QED
  BY <1>2, <1>3, Zenon

\* The ages of the slots are 0 .. DedupCap - 1.
LEMMA Ages ==
    ASSUME DeliveryInv
    PROVE  /\ \A s \in Slots : Age(s) \in 0 .. DedupCap - 1
           /\ \A k \in 0 .. DedupCap - 1 : \E s \in Slots : Age(s) = k
<1>1. dedup_next \in 0 .. DedupCap - 1 /\ DedupCap \in Nat \ {0}
  BY DedupCapAssumption, Zenon DEF DeliveryInv, TypeOK, CommandTypeOK, Slots
<1>2. \A s \in Slots : Age(s) \in 0 .. DedupCap - 1
  BY <1>1 DEF Age, Slots
<1>3. ASSUME NEW k \in 0 .. DedupCap - 1
      PROVE  \E s \in Slots : Age(s) = k
  <2>1. CASE k < dedup_next
    <3>1. dedup_next - 1 - k \in Slots /\ Age(dedup_next - 1 - k) = k
      BY <1>1, <2>1 DEF Age, Slots
    <3> QED
      BY <3>1, Zenon
  <2>2. CASE k >= dedup_next
    <3>1. dedup_next - 1 - k + DedupCap \in Slots /\ Age(dedup_next - 1 - k + DedupCap) = k
      BY <1>1, <2>2 DEF Age, Slots
    <3> QED
      BY <3>1, Zenon
  <2> QED
    BY <1>1, <2>1, <2>2
<1> QED
  BY <1>2, <1>3, Zenon

\* What is known of the remote worker's requests and its ring.
LEMMA RingTypes ==
    ASSUME DeliveryInv
    PROVE  /\ executed \in Seq(RequestIds) /\ Len(executed) \in Nat
           /\ dedup_next \in Slots /\ dedup_entries \in [Slots -> DedupEntry]
           /\ pc["remote"] \in {"unborn", "pop", "lock", "execute", "await", "answer",
                                "publish", "done"}
<1>1. /\ executed \in Seq(RequestIds)
      /\ dedup_next \in Slots /\ dedup_entries \in [Slots -> DedupEntry]
  BY Zenon DEF DeliveryInv, TypeOK, CommandTypeOK
<1>2. pc["remote"] \in {"unborn", "pop", "lock", "execute", "await", "answer", "publish", "done"}
  BY DEF DeliveryInv, TypeOK, PositionsOK
<1> QED
  BY <1>1, <1>2

\* Apart from taking and answering a request, the remote worker keeps executing,
\* keeps waiting, or ends.
LEMMA ExecutingStays ==
    ASSUME DeliveryInv, CommandInv, Next, ~(Crash \/ Reap), ~RemotePop, ~RemoteAnswer
    PROVE  \/ pc'["remote"] = "done"
           \/ pc["remote"] # "done" /\ (Executing' <=> Executing)
<1>1. CASE pc'["remote"] = pc["remote"]
  BY <1>1, Zenon DEF Executing
<1>2. CASE Remote
  <2>1. pc["remote"] = "publish" /\ Goto("remote", "pop")
    BY <1>2, Zenon DEF Remote, RemotePublish
  <2>2. pc'["remote"] = "pop"
    BY <2>1, Zenon DEF Goto, DeliveryInv, TypeOK, PositionsOK, Threads, Handlers
  <2> QED
    BY <2>1, <2>2, Zenon DEF Executing
<1>3. CASE Handler("remote")
  <2>1. /\ pc["remote"] \in {"lock", "execute", "await"}
        /\ pc'["remote"] \in {"execute", "await", "answer", "done"}
    BY <1>3, HandlerMoves, Zenon DEF Handlers
  <2> QED
    BY <2>1, Zenon DEF Executing
<1>4. CASE Creates(1) /\ pc'["remote"] = "pop"
  BY <1>4, CreatedWereUnborn, Zenon DEF Executing
<1> QED
  BY <1>1, <1>2, <1>3, <1>4, Movers, Zenon

\* Taking a request that the ring does not know.
LEMMA TakenRequest ==
    ASSUME DeliveryInv, RemotePop
    PROVE  \/ /\ UNCHANGED <<executed, request_id, dedup>>
              /\ ~Executing /\ ~Executing' /\ pc["remote"] = "pop"
           \/ \E rid \in RequestIds :
                 /\ executed' = Append(executed, rid) /\ request_id' = rid
                 /\ UNCHANGED dedup
                 /\ SlotsOf(dedup_entries, rid) = {}
                 /\ ~Executing /\ Executing' /\ pc["remote"] = "pop" /\ pc'["remote"] = "lock"
<1>1. ASSUME NEW w, Goto("remote", w)
      PROVE  pc'["remote"] = w
  BY <1>1, Zenon DEF Goto, DeliveryInv, TypeOK, PositionsOK, Threads, Handlers
<1>2. pc["remote"] = "pop" /\ UNCHANGED dedup
  BY Zenon DEF RemotePop
<1>3. mqtt_command_queue \in Seq(RemoteMessage)
  BY Zenon DEF DeliveryInv, TypeOK, CommandTypeOK
<1>4. \/ /\ UNCHANGED <<executed, request_id>>
         /\ \E w \in {"pop", "publish", "done"} : Goto("remote", w)
      \/ \E m : /\ m = Head(mqtt_command_queue) /\ mqtt_command_queue # <<>>
                /\ m.request_id # BadId
                /\ FindCached(dedup_entries, m.request_id, m.command) = "MISS"
                /\ request_id' = m.request_id
                /\ executed' = Append(executed, m.request_id)
                /\ Goto("remote", "lock")
  BY Zenon DEF RemotePop, IsEmpty, WorkerFail
<1>5. CASE /\ UNCHANGED <<executed, request_id>>
           /\ \E w \in {"pop", "publish", "done"} : Goto("remote", w)
  BY <1>1, <1>2, <1>5, Zenon DEF Executing
<1>6. ASSUME NEW m, m = Head(mqtt_command_queue), mqtt_command_queue # <<>>,
             m.request_id # BadId,
             FindCached(dedup_entries, m.request_id, m.command) = "MISS",
             request_id' = m.request_id, executed' = Append(executed, m.request_id),
             Goto("remote", "lock")
      PROVE  \E rid \in RequestIds :
                 /\ executed' = Append(executed, rid) /\ request_id' = rid
                 /\ SlotsOf(dedup_entries, rid) = {}
                 /\ pc'["remote"] = "lock"
  <2>1. m.request_id \in RequestIds
    <3>1. m \in RemoteMessage
      BY <1>3, <1>6
    <3> QED
      BY <1>6, <3>1, Zenon DEF RemoteMessage
  <2>2. SlotsOf(dedup_entries, m.request_id) = {}
    BY <1>6, Zenon DEF FindCached
  <2> QED
    BY <1>1, <1>6, <2>1, <2>2, Zenon
<1> QED
  BY <1>2, <1>4, <1>5, <1>6, Zenon DEF Executing

\* The ring holds what it should when nothing that it is about changes.
LEMMA RingUnchanged ==
    ASSUME CommandInv, UNCHANGED <<executed, request_id, dedup>>,
           \/ pc'["remote"] = "done"
           \/ pc["remote"] # "done" /\ (Executing' <=> Executing)
    PROVE  RingRemembers'
<1>1. RingRemembers
  BY Zenon DEF CommandInv
<1>2. CASE pc'["remote"] = "done"
  BY <1>2, Zenon DEF RingRemembers, Executing
<1>3. CASE pc["remote"] # "done" /\ (Executing' <=> Executing)
  <2>1. Cached' = Cached /\ \A s \in Slots : Age(s)' = Age(s)
    BY <1>3, Zenon DEF Cached, Age, dedup
  <2> QED
    BY <1>1, <1>3, <2>1, Zenon DEF RingRemembers, dedup
<1> QED
  BY <1>2, <1>3, Zenon

\* Answering caches the request in the next slot, the youngest from then on.
LEMMA CachingStep ==
    ASSUME DeliveryInv, CommandInv, RemoteAnswer
    PROVE  RingRemembers'
<1>1. /\ executed \in Seq(RequestIds) /\ Len(executed) \in Nat
      /\ dedup_next \in Slots /\ dedup_entries \in [Slots -> DedupEntry]
  BY RingTypes, Zenon
<1>2. pc["remote"] = "answer" /\ UNCHANGED <<executed, request_id>>
  BY Zenon DEF RemoteAnswer
<1>3. /\ RingRemembers /\ Executing
      /\ Len(executed) > 0 /\ request_id = executed[Len(executed)]
  BY <1>2, Zenon DEF CommandInv, RingRemembers, Executing
<1>4. ASSUME NEW w, Goto("remote", w)
      PROVE  pc'["remote"] = w
  BY <1>4, Zenon DEF Goto, DeliveryInv, TypeOK, PositionsOK, Threads, Handlers
<1>5. \/ Goto("remote", "done")
      \/ /\ dedup_entries' = [dedup_entries EXCEPT ![dedup_next] =
                                  [occupied |-> TRUE, request_id |-> request_id,
                                   command |-> command["remote"],
                                   response |-> reply["remote"]]]
         /\ dedup_next' = NextSlot(dedup_next)
         /\ Goto("remote", "publish")
  BY Zenon DEF RemoteAnswer, WorkerFail, CacheResponse
<1>6. CASE Goto("remote", "done")
  BY <1>4, <1>6, Zenon DEF RingRemembers, Executing
<1>7. CASE ~Goto("remote", "done")
  <2>1. ~Executing' /\ Cached = Len(executed) - 1 /\ Cached' = Len(executed)
    BY <1>1, <1>2, <1>3, <1>4, <1>5, <1>7 DEF Executing, Cached
  <2>2. dedup_next' = IF dedup_next = DedupCap - 1 THEN 0 ELSE dedup_next + 1
    BY <1>1, <1>5, <1>7, NextSlotValue, Zenon
  <2>3. dedup_next \in 0 .. DedupCap - 1 /\ DedupCap \in Nat \ {0}
    BY <1>1, DedupCapAssumption, Zenon DEF Slots
  <2>4. ASSUME NEW s \in Slots
        PROVE  /\ s = dedup_next => Age(s)' = 0
               /\ s # dedup_next => Age(s)' = Age(s) + 1
    BY <2>2, <2>3 DEF Age, Slots
  <2>5. ASSUME NEW s \in Slots, Age(s)' < Cached'
        PROVE  /\ dedup_entries'[s].occupied
               /\ dedup_entries'[s].request_id = executed'[Cached' - Age(s)']
    <3>1. CASE s = dedup_next
      <4>1. dedup_entries'[s].occupied /\ dedup_entries'[s].request_id = request_id
        BY <1>1, <1>5, <1>7, <3>1
      <4>2. Cached' - Age(s)' = Len(executed)
        BY <1>1, <2>1, <2>4, <3>1
      <4> QED
        BY <1>2, <1>3, <4>1, <4>2, Zenon
    <3>2. CASE s # dedup_next
      <4>1. dedup_entries'[s] = dedup_entries[s]
        BY <1>1, <1>5, <1>7, <3>2, Zenon
      <4>2. Age(s) \in Nat /\ Age(s)' = Age(s) + 1
        <5>1. Age(s) \in Nat
          BY Ages
        <5> QED
          BY <2>4, <3>2, <5>1, Zenon
      <4>3. Age(s) < Cached /\ Cached' - Age(s)' = Cached - Age(s)
        <5>1. Len(executed) \in Nat
          BY <1>1, Zenon
        <5> QED
          BY <2>1, <2>5, <4>2, <5>1
      <4>4. /\ dedup_entries[s].occupied
            /\ dedup_entries[s].request_id = executed[Cached - Age(s)]
        BY <1>2, <1>3, <4>3, Zenon DEF RingRemembers
      <4> QED
        BY <1>2, <4>1, <4>3, <4>4, Zenon
    <3> QED
      BY <3>1, <3>2, Zenon
  <2> QED
    BY <2>1, <2>5, Zenon DEF RingRemembers
<1> QED
  BY <1>6, <1>7, Zenon

\* The ring holds the latest executions, over every step.
LEMMA RingStep ==
    ASSUME DeliveryInv, CommandInv, Next
    PROVE  RingRemembers'
<1>1. CASE Crash \/ Reap
  <2>1. executed' = <<>> /\ dedup_next' = 0
    BY <1>1, Zenon DEF Crash, Reap, ProcessEnds
  <2>2. ~Executing'
    BY <1>1, EndFacts, Zenon DEF Executing, Threads, Handlers
  <2>3. \A s \in Slots : Age(s)' >= 0
    BY <2>1, DedupCapAssumption DEF Age, Slots
  <2>4. Cached' = 0
    BY <2>1, <2>2 DEF Cached
  <2>5. \A s \in Slots : ~(Age(s)' < Cached')
    BY <2>1, <2>3, <2>4, DedupCapAssumption DEF Age, Slots
  <2> QED
    BY <2>2, <2>5, Zenon DEF RingRemembers
<1>2. CASE ~(Crash \/ Reap) /\ RemotePop
  <2>1. CASE UNCHANGED <<executed, request_id, dedup>> /\ ~Executing /\ ~Executing'
             /\ pc["remote"] = "pop"
    BY <2>1, RingUnchanged, Zenon
  <2>2. ASSUME NEW rid \in RequestIds,
               executed' = Append(executed, rid), request_id' = rid, UNCHANGED dedup,
               ~Executing, Executing', pc["remote"] = "pop"
        PROVE  RingRemembers'
    <3>1. /\ executed \in Seq(RequestIds) /\ Len(executed) \in Nat
      BY RingTypes, Zenon
    <3>2. /\ Len(executed') = Len(executed) + 1 /\ executed'[Len(executed')] = rid
          /\ \A i \in 1 .. Len(executed) : executed'[i] = executed[i]
      BY <2>2, <3>1
    <3>3. Cached = Len(executed) /\ Cached' = Len(executed)
      BY <2>2, <3>1, <3>2 DEF Cached
    <3>4. \A s \in Slots : Age(s)' = Age(s) /\ Age(s) \in Nat
      BY <2>2, Ages DEF Age, dedup
    <3>5. ASSUME NEW s \in Slots, Age(s)' < Cached'
          PROVE  /\ dedup_entries'[s].occupied
                 /\ dedup_entries'[s].request_id = executed'[Cached' - Age(s)']
      <4>1. Age(s) < Cached /\ Cached - Age(s) \in 1 .. Len(executed)
        BY <3>1, <3>3, <3>4, <3>5
      <4>2. /\ dedup_entries[s].occupied
            /\ dedup_entries[s].request_id = executed[Cached - Age(s)]
        BY <2>2, <4>1, Zenon DEF CommandInv, RingRemembers
      <4> QED
        BY <2>2, <3>2, <3>3, <3>4, <4>1, <4>2, Zenon DEF dedup
    <3>6. Len(executed') > 0 /\ request_id' = executed'[Len(executed')]
      BY <2>2, <3>1, <3>2
    <3> QED
      BY <3>5, <3>6, Zenon DEF RingRemembers
  <2> QED
    BY <1>2, <2>1, <2>2, TakenRequest, Zenon
<1>3. CASE ~(Crash \/ Reap) /\ RemoteAnswer
  BY <1>3, CachingStep, Zenon
<1>4. CASE ~(Crash \/ Reap) /\ ~RemotePop /\ ~RemoteAnswer
  <2>1. UNCHANGED <<executed, request_id, dedup>>
    BY <1>4, CommandWriters, Zenon
  <2> QED
    BY <1>4, <2>1, ExecutingStays, RingUnchanged, Zenon
<1> QED
  BY <1>1, <1>2, <1>3, <1>4, Zenon

\* A request that the ring does not know was not among the last DedupCap.
LEMMA WindowStep ==
    ASSUME DeliveryInv, CommandInv, Next
    PROVE  DedupWindow'
<1>1. DedupWindow /\ executed \in Seq(RequestIds) /\ Len(executed) \in Nat
  BY RingTypes, Zenon DEF CommandInv
<1>2. CASE UNCHANGED executed
  BY <1>1, <1>2, Zenon DEF DedupWindow
<1>3. CASE Crash \/ Reap
  <2>1. executed' = <<>>
    BY <1>3, Zenon DEF Crash, Reap, ProcessEnds
  <2> QED
    BY <2>1 DEF DedupWindow
<1>4. ASSUME NEW rid \in RequestIds, executed' = Append(executed, rid),
             SlotsOf(dedup_entries, rid) = {}, ~Executing, pc["remote"] = "pop"
      PROVE  DedupWindow'
  <2>1. /\ Len(executed') = Len(executed) + 1 /\ executed'[Len(executed')] = rid
        /\ \A i \in 1 .. Len(executed) : executed'[i] = executed[i]
        /\ DOMAIN executed' = 1 .. Len(executed) + 1 /\ DOMAIN executed = 1 .. Len(executed)
    BY <1>1, <1>4
  <2>2. DedupCap \in Nat
    BY DedupCapAssumption, Zenon
  <2>3. ASSUME NEW i \in 1 .. Len(executed), executed[i] = rid
        PROVE  Len(executed) + 1 - i > DedupCap
    <3>1. SUFFICES ASSUME Len(executed) - i < DedupCap
                   PROVE  FALSE
      BY <1>1, <2>2
    <3>2. Len(executed) - i \in 0 .. DedupCap - 1
      BY <1>1, <2>2, <3>1
    <3>3. PICK s \in Slots : Age(s) = Len(executed) - i
      BY <3>2, Ages, Zenon
    <3>4. Cached = Len(executed)
      BY <1>1, <1>4 DEF Cached
    <3>5. Age(s) < Cached /\ Cached - Age(s) = i
      BY <1>1, <3>3, <3>4
    <3>6. dedup_entries[s].occupied /\ dedup_entries[s].request_id = executed[i]
      BY <1>4, <3>5, Zenon DEF CommandInv, RingRemembers
    <3> QED
      BY <1>4, <2>3, <3>6, Zenon DEF SlotsOf
  <2>4. ASSUME NEW i \in DOMAIN executed', NEW j \in DOMAIN executed',
               i < j, executed'[i] = executed'[j]
        PROVE  j - i > DedupCap
    <3>1. i \in 1 .. Len(executed)
      BY <1>1, <2>1, <2>4
    <3>2. CASE j = Len(executed) + 1
      <4>1. executed[i] = rid
        BY <2>1, <2>4, <3>1, <3>2, Zenon
      <4>2. Len(executed) + 1 - i > DedupCap
        BY <2>3, <3>1, <4>1, Zenon
      <4> QED
        BY <3>2, <4>2, SMTT(20)
    <3>3. CASE j \in 1 .. Len(executed)
      BY <1>1, <2>1, <2>4, <3>1, <3>3, Zenon DEF DedupWindow
    <3> QED
      BY <1>1, <2>1, <3>2, <3>3
  <2> QED
    BY <2>4, Zenon DEF DedupWindow
<1>5. CASE ~(Crash \/ Reap) /\ RemotePop
  BY <1>2, <1>4, <1>5, TakenRequest, Zenon
<1> QED
  BY <1>2, <1>3, <1>5, CommandWriters, Zenon
-----------------------------------------------------------------------------
\* Before the first start nothing is asked, saved, executed or remembered.
LEMMA CommandInit ==
    ASSUME Init
    PROVE  CommandInv
<1>1. pc = AllUnborn("down")
  BY Zenon DEF Init
<1>2. /\ pc["coordinator"] = "down"
      /\ \A t \in Threads \ {"coordinator"} : pc[t] = "unborn"
  BY <1>1, Zenon DEF AllUnborn, Threads
<1>3. /\ command_mutex = "free" /\ closed = {}
      /\ control_request_queue = <<>> /\ control_result_queue = <<>>
      /\ executed = <<>> /\ dedup_next = 0
  BY Zenon DEF Init
<1>4. /\ \A t \in Handlers : pc[t] = "unborn" /\ t # "free"
      /\ Awaiting = {} /\ ~Serving /\ ~Executing
  BY <1>2, Zenon DEF Threads, Handlers, Awaiting, Serving, Executing
<1>5. MutexHeld /\ ClosedByStop /\ AnswerIsOwn
  BY <1>3, <1>4, Zenon DEF MutexHeld, ClosedByStop, AnswerIsOwn
<1>6. RequestIsOwn /\ SavedIsKnown
  BY <1>2, <1>3, <1>4, Zenon DEF RequestIsOwn, NoRequest, SavedIsKnown, Running
<1>7. NotCreated
  <2>1. DOMAIN StartOrder = 1 .. 6
    BY DEF StartOrder
  <2> QED
    BY <1>2, <2>1, StartOrderFacts DEF NotCreated, Threads, Handlers
<1>8. RingRemembers /\ DedupWindow
  <2>1. \A s \in Slots : ~(Age(s) < Cached)
    BY <1>3, <1>4, DedupCapAssumption DEF Age, Cached, Slots
  <2> QED
    BY <1>3, <1>4, <2>1 DEF RingRemembers, DedupWindow
<1> QED
  BY <1>5, <1>6, <1>7, <1>8, Zenon DEF CommandInv

\* Every step preserves CommandInv.
LEMMA CommandStep ==
    ASSUME DeliveryInv, CommandInv, [Next]_vars
    PROVE  CommandInv'
<1>1. CASE Next
  BY <1>1, MutexStep, ClosedStep, RequestStep, AnswerStep, SavedStep, CreationStep, RingStep,
     WindowStep, Zenon DEF CommandInv
<1>2. CASE UNCHANGED vars
  <2>1. /\ UNCHANGED <<pc, command_mutex, closed, stop_requested, signal>>
        /\ UNCHANGED <<control_request_queue, control_result_queue, sto, command, reply>>
        /\ UNCHANGED <<saved_interval, interval_ms, executed, request_id, step>>
        /\ UNCHANGED <<dedup_entries, dedup_next>>
    BY <1>2, Zenon DEF vars, store, flags, status, ctlQ, dedup, handL, coordL
  <2>2. (MutexHeld /\ ClosedByStop /\ AnswerIsOwn /\ NotCreated)'
    BY <2>1, Zenon DEF CommandInv, MutexHeld, ClosedByStop, AnswerIsOwn, NotCreated, ShouldStop
  <2>3. RequestIsOwn'
    BY <2>1, Zenon DEF CommandInv, RequestIsOwn, Awaiting, NoRequest, RequestQueued,
         RequestServed, ResultQueued, Serving, ShouldStop
  <2>4. SavedIsKnown'
    BY <2>1, Zenon DEF CommandInv, SavedIsKnown, SavingResults, Reloaded, Running, ShouldStop
  <2>5. RingRemembers' /\ DedupWindow'
    BY <2>1, Zenon DEF CommandInv, RingRemembers, Executing, Cached, Age, DedupWindow
  <2> QED
    BY <2>2, <2>3, <2>4, <2>5, Zenon DEF CommandInv
<1> QED
  BY <1>1, <1>2, Zenon

\* CommandInv is an invariant of the gateway's workers: the inductive invariant
\* behind the promises about commands.
THEOREM CommandsInOrder == Spec => []CommandInv
<1>1. Spec => []DeliveryInv
  BY Invariant, Zenon
<1> QED
  BY <1>1, CommandInit, CommandStep, PTL DEF Spec

\* A handler that answers set_interval with ok, before any stop is requested,
\* answers with the interval of its own command: command_mutex lets one request
\* through at a time, and the one result on its way is that request's.
THEOREM AnswersItsOwn == Spec => []AnswerIsOwn
<1>1. CommandInv => AnswerIsOwn
  BY Zenon DEF CommandInv
<1> QED
  BY <1>1, CommandsInOrder, PTL

\* The interval in use is the one a restart would load, whenever no handler
\* awaits the storage worker: gateway_execute_command applies an interval only
\* after the database has it.
THEOREM IntervalIsSaved == Spec => []IntervalPersisted
<1>1. CommandInv => IntervalPersisted
  BY DEF CommandInv, IntervalPersisted, RequestIsOwn, NoRequest, SavedIsKnown, SavingResults
<1> QED
  BY <1>1, CommandsInOrder, PTL

\* A remote request id is executed again only after DedupCap other executions,
\* whatever the capacity of the ring and however often the broker redelivers.
THEOREM NoEarlyRepeat == Spec => []DedupWindow
<1>1. CommandInv => DedupWindow
  BY DEF CommandInv
<1> QED
  BY <1>1, CommandsInOrder, PTL
=============================================================================
