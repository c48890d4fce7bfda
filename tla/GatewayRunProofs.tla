--------------------------- MODULE GatewayRunProofs ----------------------------
(***************************************************************************)
(* gateway_run gives back what it holds and tells the truth, for every     *)
(* number of measurements, attempts, faults and bytes: the order in which  *)
(* it acquires and releases, the bytes of the network smoke test, the      *)
(* network thread of the command receiver, the references to libmosquitto. *)
(***************************************************************************)
EXTENDS GatewayRun, TLAPS

Serving == {"open_store", "interval", "source", "create", "start", "service", "stopping",
            "failed", "log_stop"}
Publishing == {"smoke_create", "smoke_start", "smoke_next", "connect", "publish", "smoke_done"}
Ending == {"shutdown", "close_source", "close_store", "stop_logger", "returned"}

\* Which mode takes which way through gateway_run; the label STOP and the log
\* record of the stop are reached on a stop request only.
Ways ==
    /\ mode \in {"SERVICE", "SMOKE", "MQTT_SMOKE"}
    /\ pc \in {"install", "logger", "log_start", "smoke"} \cup Serving \cup Publishing \cup Ending
    /\ pc \in Serving => mode = "SERVICE"
    /\ pc \in Publishing => mode = "MQTT_SMOKE"
    /\ pc = "smoke" => mode = "SMOKE"
    /\ pc \in {"stopping", "log_stop"} => stop

\* When each resource may be held.
Holdings ==
    /\ held \subseteq Resources
    /\ "logger" \in held => pc \notin {"install", "logger", "returned"}
    /\ "store" \in held =>
          pc \in (Serving \ {"open_store"}) \cup {"shutdown", "close_source", "close_store"}
    /\ "source" \in held =>
          pc \in (Serving \ {"open_store", "interval", "source"}) \cup {"shutdown", "close_source"}
    /\ "publisher" \in held =>
          pc \in {"start", "service", "stopping", "failed", "log_stop", "smoke_start",
                  "smoke_next", "connect", "publish", "smoke_done", "shutdown"}

\* What a result of 0 stands for; what refuses to close takes it back.
Work ==
    /\ mode = "SERVICE" => stop
    /\ mode = "MQTT_SMOKE" => received = 1..SmokeCount
    /\ mode = "SMOKE" => net_result = 0

Results ==
    /\ result \in {-1, 0}
    /\ result = 0 => pc \in {"smoke_done"} \cup Ending /\ Work
    /\ stuck # {} => result = -1 /\ pc \in {"stop_logger", "returned"}

\* The MQTT smoke test publishes measurement after measurement.
Published ==
    /\ pc \in {"install", "logger", "log_start", "smoke_create", "smoke_start"} =>
          sequence = 0 /\ received = {}
    /\ pc = "smoke_next" => sequence \in Nat /\ received = 1..sequence
    /\ pc \in {"connect", "publish"} =>
          /\ sequence \in Nat /\ sequence > 0
          /\ 1..(sequence - 1) \subseteq received /\ received \subseteq 1..sequence

\* The sockets and the bytes of the network smoke test: what was sent is in the
\* kernel, in the parser or in a frame that the parser has returned.
Amount(bytes) == Len(bytes)

Conserved(side, pipe, frames, sent) ==
    /\ frame_ok[side] = frames
    /\ Amount(pipe) + Amount(parsed[side]) + Size * frames = sent

Bytes ==
    /\ net_pc \in {"listen", "connect", "accept"} =>
          /\ index = 1 /\ part = 0
          /\ Conserved("gateway", up, 0, 0) /\ Conserved("client", down, 0, 0)
    /\ net_pc = "send" =>
          /\ Conserved("gateway", up, 0, Size * (index - 1) + part)
          /\ Conserved("client", down, 0, 0)
    /\ net_pc = "serve" =>
          /\ part = 0 /\ Conserved("gateway", up, index - 1, Size * Count)
          /\ Conserved("client", down, 0, Size * (index - 1))
    /\ net_pc = "ack" =>
          /\ Conserved("gateway", up, index, Size * Count)
          /\ Conserved("client", down, 0, Size * (index - 1) + part)
    /\ net_pc = "collect" =>
          /\ Conserved("gateway", up, Count, Size * Count)
          /\ Conserved("client", down, index - 1, Size * Count)
    /\ net_pc = "count" =>
          /\ Conserved("gateway", up, Count, Size * Count)
          /\ Conserved("client", down, Count, Size * Count)

Exchanged ==
    up = <<>> /\ down = <<>> /\ frame_ok = [gateway |-> Count, client |-> Count]

Network ==
    /\ net_pc \in {"listen", "connect", "accept", "send", "serve", "ack", "collect", "count",
                   "done", "returned"}
    /\ index \in Nat \ {0} /\ part \in Nat
    /\ up \in Seq(Nat \X Nat) /\ down \in Seq(Nat \X Nat)
    /\ parsed \in [{"gateway", "client"} -> Seq(Nat \X Nat)]
    /\ frame_ok \in [{"gateway", "client"} -> Nat]
    /\ Bytes
    /\ net_result \in {-1, 0}
    /\ net_result = 0 => net_pc \in {"done", "returned"} /\ Exchanged
    /\ fds # {} => pc = "smoke" /\ net_pc # "returned"

\* The receiver lives inside gateway_workers_run, and its network thread and a
\* callback inside the receiver.
Threads ==
    /\ owner \in {"absent", "new", "running", "disconnect", "cancel", "join", "gone"}
    /\ owner \notin {"absent", "gone"} => Workers
    /\ loop \in BOOLEAN /\ loop_started \in BOOLEAN
    /\ loop => loop_started /\ owner \in {"running", "disconnect", "cancel", "join"}
    /\ callback # "none" => loop

\* The references to libmosquitto.
Users == (IF "publisher" \in held THEN 1 ELSE 0) + (IF owner \in {"absent", "gone"} THEN 0 ELSE 1)

References == library = [count |-> Users, initialised |-> Users > 0]

RunInv == Ways /\ Holdings /\ Results /\ Published /\ Network /\ Threads /\ References
-----------------------------------------------------------------------------
\* Each step goes the way of its mode and holds what it may.
LEMMA WaysStep ==
    Ways /\ Holdings /\ [Next]_vars => Ways' /\ Holdings'
  <1> SUFFICES ASSUME Ways, Holdings, [Next]_vars
               PROVE  Ways' /\ Holdings'
    OBVIOUS
  <1> USE DEF Ways, Holdings, Resources, Serving, Publishing, Ending, Goto, Same, config,
              Workers
  <1>0. CASE UNCHANGED vars
    BY <1>0 DEF vars
  <1>1. CASE Install \/ InitLogger \/ LogStart \/ OpenStore \/ LoadInterval \/ OpenSource \/
             CreatePublisher \/ StartPublisher
    BY <1>1 DEF Install, InitLogger, LogStart, OpenStore, LoadInterval, OpenSource,
       CreatePublisher, StartPublisher, Step
  <1>2. CASE NetworkSmoke \/ NetworkSmokeFails \/ NetworkSmokeReturns
    BY <1>2, Zenon DEF NetworkSmoke, NetworkSmokeFails, NetworkSmokeReturns
  <1>3. CASE CreateReceiver \/ StartReceiver \/ ReceiverNetwork \/ ReceiverCallback
    BY <1>3, Zenon DEF CreateReceiver, StartReceiver, ReceiverNetwork, ReceiverCallback,
       ReceiverOnly
  <1>4. CASE CoordinatorStops \/ WorkerFails \/ DestroyReceiver \/ ReceiverDestroyed \/
             WorkersReturn
    BY <1>4, Zenon DEF CoordinatorStops, WorkerFails, DestroyReceiver, ReceiverDestroyed,
       WorkersReturn, Stopping, ReceiverOnly
  <1>5. CASE WaitForStop \/ StoreNext \/ Wait \/ StorageStops \/ LogStop
    BY <1>5, Zenon DEF WaitForStop, StoreNext, Wait, StorageStops, LogStop, Step, Fails
  <1>6. CASE SmokeCreate \/ SmokeStart \/ SmokeNext
    BY <1>6, Zenon DEF SmokeCreate, SmokeStart, SmokeNext, Step
  <1>7. CASE WaitConnected \/ Publish
    BY <1>7, Zenon DEF WaitConnected, Publish, Again, SmokeEnds
  <1>8. CASE SmokeDone \/ DestroyPublisher \/ CloseSource
    BY <1>8, Zenon DEF SmokeDone, DestroyPublisher, CloseSource, Release
  <1>9. CASE CloseStore \/ StopLogger
    BY <1>9, Zenon DEF CloseStore, StopLogger, Release, Keeps
  <1>10. CASE StartFails \/ StartUpFails \/ ServiceFails \/ SmokeSetUpFails
    BY <1>10, Zenon DEF StartFails, StartUpFails, ServiceFails, SmokeSetUpFails, Fails
  <1>11. CASE CreateReceiverFails \/ StartReceiverFails
    BY <1>11, Zenon DEF CreateReceiverFails, StartReceiverFails
  <1>12. CASE Signal
    BY <1>12 DEF Signal
  <1> QED
    BY <1>0, <1>1, <1>2, <1>3, <1>4, <1>5, <1>6, <1>7, <1>8, <1>9, <1>10, <1>11, <1>12, Zenon
       DEF Next, Progress

\* Each step keeps what the result says.
LEMMA ResultsStep ==
    Ways /\ Results /\ Published /\ Network /\ [Next]_vars => Results'
  <1> SUFFICES ASSUME Ways, Results, Published, Network, [Next]_vars
               PROVE  Results'
    OBVIOUS
  <1> USE DEF Ways, Results, Work, data, callees, network, Serving, Publishing, Ending, Goto,
              Same, config, Workers
  <1>0. CASE UNCHANGED vars
    BY <1>0 DEF vars
  <1>1. CASE Install \/ InitLogger \/ LogStart \/ OpenStore \/ LoadInterval \/ OpenSource \/
             CreatePublisher \/ StartPublisher
    BY <1>1 DEF Install, InitLogger, LogStart, OpenStore, LoadInterval, OpenSource,
       CreatePublisher, StartPublisher, Step
  <1>2. CASE NetworkSmoke \/ NetworkSmokeFails \/ NetworkSmokeReturns
    <2>1. net_result \in {-1, 0}
      BY DEF Network
    <2>2. CASE NetworkSmoke \/ NetworkSmokeFails
      BY <2>2 DEF NetworkSmoke, NetworkSmokeFails
    <2>3. CASE NetworkSmokeReturns
      BY <2>1, <2>3 DEF NetworkSmokeReturns
    <2> QED
      BY <1>2, <2>2, <2>3
  <1>3. CASE CreateReceiver \/ StartReceiver \/ ReceiverNetwork \/ ReceiverCallback
    BY <1>3, Zenon DEF CreateReceiver, StartReceiver, ReceiverNetwork, ReceiverCallback,
       ReceiverOnly
  <1>4. CASE CoordinatorStops \/ WorkerFails \/ DestroyReceiver \/ ReceiverDestroyed \/
             WorkersReturn
    BY <1>4 DEF CoordinatorStops, WorkerFails, DestroyReceiver, ReceiverDestroyed,
       WorkersReturn, Stopping, ReceiverOnly
  <1>5. CASE WaitForStop \/ StoreNext \/ Wait \/ StorageStops \/ LogStop
    BY <1>5 DEF WaitForStop, StoreNext, Wait, StorageStops, LogStop, Step, Fails
  <1>6. CASE SmokeCreate \/ SmokeStart \/ SmokeNext
    <2>1. CASE SmokeCreate \/ SmokeStart
      BY <2>1 DEF SmokeCreate, SmokeStart, Step
    <2>2. CASE SmokeNext
      <3>1. CASE sequence = SmokeCount
        BY <2>2, <3>1 DEF SmokeNext, Published
      <3>2. CASE sequence # SmokeCount
        BY <2>2, <3>2 DEF SmokeNext
      <3> QED
        BY <3>1, <3>2
    <2> QED
      BY <1>6, <2>1, <2>2
  <1>7. CASE WaitConnected \/ Publish
    BY <1>7 DEF WaitConnected, Publish, Again, SmokeEnds
  <1>8. CASE SmokeDone \/ DestroyPublisher \/ CloseSource
    BY <1>8 DEF SmokeDone, DestroyPublisher, CloseSource, Release
  <1>9. CASE CloseStore \/ StopLogger
    BY <1>9 DEF CloseStore, StopLogger, Release, Keeps
  <1>10. CASE StartFails \/ StartUpFails \/ ServiceFails \/ SmokeSetUpFails
    BY <1>10 DEF StartFails, StartUpFails, ServiceFails, SmokeSetUpFails, Fails
  <1>11. CASE CreateReceiverFails \/ StartReceiverFails
    BY <1>11, Zenon DEF CreateReceiverFails, StartReceiverFails
  <1>12. CASE Signal
    BY <1>12 DEF Signal
  <1> QED
    BY <1>0, <1>1, <1>2, <1>3, <1>4, <1>5, <1>6, <1>7, <1>8, <1>9, <1>10, <1>11, <1>12, Zenon
       DEF Next, Progress

\* Each step keeps what the broker has.
LEMMA PublishedStep ==
    Ways /\ Published /\ [Next]_vars => Published'
  <1> SUFFICES ASSUME Ways, Published, [Next]_vars
               PROVE  Published'
    OBVIOUS
  <1> USE DEF Ways, Published, data, Serving, Publishing, Ending, Goto, Same, Workers
  <1>0. CASE UNCHANGED vars
    BY <1>0 DEF vars
  <1>1. CASE Install \/ InitLogger \/ LogStart \/ OpenStore \/ LoadInterval \/ OpenSource \/
             CreatePublisher \/ StartPublisher
    BY <1>1 DEF Install, InitLogger, LogStart, OpenStore, LoadInterval, OpenSource,
       CreatePublisher, StartPublisher, Step
  <1>2. CASE NetworkSmoke \/ NetworkSmokeFails \/ NetworkSmokeReturns
    BY <1>2 DEF NetworkSmoke, NetworkSmokeFails, NetworkSmokeReturns
  <1>3. CASE CreateReceiver \/ StartReceiver \/ ReceiverNetwork \/ ReceiverCallback
    BY <1>3, Zenon DEF CreateReceiver, StartReceiver, ReceiverNetwork, ReceiverCallback,
       ReceiverOnly
  <1>4. CASE CoordinatorStops \/ WorkerFails \/ DestroyReceiver \/ ReceiverDestroyed \/
             WorkersReturn
    BY <1>4 DEF CoordinatorStops, WorkerFails, DestroyReceiver, ReceiverDestroyed,
       WorkersReturn, Stopping, ReceiverOnly
  <1>5. CASE WaitForStop \/ StoreNext \/ Wait \/ StorageStops \/ LogStop
    BY <1>5 DEF WaitForStop, StoreNext, Wait, StorageStops, LogStop, Step, Fails
  <1>6. CASE SmokeCreate \/ SmokeStart \/ SmokeNext
    <2>0. 1..0 = {}
      OBVIOUS
    <2>1. CASE SmokeCreate \/ SmokeStart
      <3>1. sequence = 0 /\ received = {} /\ UNCHANGED data
            /\ pc' \in {"smoke_start", "smoke_next"}
        BY <2>1, Zenon DEF SmokeCreate, SmokeStart, Step
      <3> QED
        BY <2>0, <3>1
    <2>2. CASE SmokeNext
      <3>1. CASE sequence = SmokeCount
        BY <2>2, <3>1 DEF SmokeNext
      <3>2. CASE sequence # SmokeCount
        <4>1. /\ pc = "smoke_next" /\ pc' = "connect" /\ sequence' = sequence + 1
              /\ UNCHANGED received
          BY <2>2, <3>2, Zenon DEF SmokeNext
        <4> QED
          BY <4>1
      <3> QED
        BY <3>1, <3>2
    <2> QED
      BY <1>6, <2>1, <2>2
  <1>7. CASE WaitConnected \/ Publish
    <2>1. CASE WaitConnected
      BY <2>1 DEF WaitConnected, Again, SmokeEnds
    <2>2. CASE Publish
      <3>1. /\ pc = "publish" /\ UNCHANGED sequence
            /\ pc' \in {"smoke_next", "connect", "smoke_done"}
        BY <2>2 DEF Publish, Again, SmokeEnds
      <3>2. pc' = "smoke_next" => received' = received \cup {sequence}
        BY <2>2 DEF Publish, Again, SmokeEnds
      <3>3. received' \in {received, received \cup {sequence}}
        BY <2>2 DEF Publish
      <3>4. received \cup {sequence} = 1..sequence
        <4>1. /\ 1..(sequence - 1) \subseteq received /\ received \subseteq 1..sequence
              /\ sequence \in 1..sequence
              /\ \A n \in 1..sequence : n = sequence \/ n \in 1..(sequence - 1)
          BY <3>1
        <4> QED
          BY <4>1, Zenon
      <3>5. 1..(sequence - 1) \subseteq received' /\ received' \subseteq 1..sequence
        BY <3>1, <3>3
      <3> QED
        BY <3>1, <3>2, <3>4, <3>5, Zenon
    <2> QED
      BY <1>7, <2>1, <2>2
  <1>8. CASE SmokeDone \/ DestroyPublisher \/ CloseSource
    BY <1>8 DEF SmokeDone, DestroyPublisher, CloseSource, Release
  <1>9. CASE CloseStore \/ StopLogger
    BY <1>9 DEF CloseStore, StopLogger, Release, Keeps
  <1>10. CASE StartFails \/ StartUpFails \/ ServiceFails \/ SmokeSetUpFails
    BY <1>10 DEF StartFails, StartUpFails, ServiceFails, SmokeSetUpFails, Fails
  <1>11. CASE CreateReceiverFails \/ StartReceiverFails
    BY <1>11, Zenon DEF CreateReceiverFails, StartReceiverFails
  <1>12. CASE Signal
    BY <1>12 DEF Signal
  <1> QED
    BY <1>0, <1>1, <1>2, <1>3, <1>4, <1>5, <1>6, <1>7, <1>8, <1>9, <1>10, <1>11, <1>12, Zenon
       DEF Next, Progress

\* Each step of the receiver and of its owner keeps the network thread inside
\* gateway_workers_run.
LEMMA ThreadsStep ==
    Ways /\ Threads /\ [Next]_vars => Threads'
  <1> SUFFICES ASSUME Ways, Threads, [Next]_vars
               PROVE  Threads'
    OBVIOUS
  <1> USE DEF Ways, Threads, Workers, Storage, callees, receiver, Goto, Same, Receiver!receiver,
              Receiver!client, config
  <1>0. CASE UNCHANGED vars
    BY <1>0 DEF vars
  <1>1. CASE Install \/ InitLogger \/ LogStart \/ OpenStore \/ LoadInterval \/ OpenSource \/
             CreatePublisher \/ StartPublisher
    BY <1>1 DEF Install, InitLogger, LogStart, OpenStore, LoadInterval, OpenSource,
       CreatePublisher, StartPublisher, Step
  <1>2. CASE NetworkSmoke \/ NetworkSmokeFails \/ NetworkSmokeReturns
    BY <1>2 DEF NetworkSmoke, NetworkSmokeFails, NetworkSmokeReturns
  <1>3. CASE WaitForStop \/ StoreNext \/ Wait \/ StorageStops \/ LogStop
    BY <1>3 DEF WaitForStop, StoreNext, Wait, StorageStops, LogStop, Step, Fails
  <1>4. CASE SmokeCreate \/ SmokeStart \/ SmokeNext
    BY <1>4 DEF SmokeCreate, SmokeStart, SmokeNext, Step
  <1>5. CASE WaitConnected \/ Publish
    BY <1>5 DEF WaitConnected, Publish, Again, SmokeEnds
  <1>6. CASE SmokeDone \/ DestroyPublisher \/ CloseSource
    BY <1>6 DEF SmokeDone, DestroyPublisher, CloseSource, Release
  <1>7. CASE CloseStore \/ StopLogger
    BY <1>7 DEF CloseStore, StopLogger, Release, Keeps
  <1>8. CASE StartFails \/ StartUpFails \/ ServiceFails \/ SmokeSetUpFails
    BY <1>8 DEF StartFails, StartUpFails, ServiceFails, SmokeSetUpFails, Fails
  <1>9. CASE Signal
    BY <1>9 DEF Signal
  <1>10. CASE CreateReceiver
    BY <1>10 DEF CreateReceiver, ReceiverOnly, Receiver!Create
  <1>11. CASE StartReceiver
    BY <1>11 DEF StartReceiver, ReceiverOnly, Receiver!Start
  <1>12. CASE ReceiverNetwork
    BY <1>12 DEF ReceiverNetwork, ReceiverOnly, Receiver!Network, Receiver!NetworkConnect,
       Receiver!NetworkDrop, Receiver!NetworkSuback, Receiver!NetworkMessage, Receiver!Listening
  <1>13. CASE ReceiverCallback
    BY <1>13 DEF ReceiverCallback, ReceiverOnly, Receiver!Callback, Receiver!on_connect,
       Receiver!on_subscribe, Receiver!on_message
  <1>14. CASE CoordinatorStops
    BY <1>14 DEF CoordinatorStops, Stopping, ReceiverOnly
  <1>15. CASE WorkerFails
    BY <1>15 DEF WorkerFails, Stopping, ReceiverOnly
  <1>16. CASE DestroyReceiver
    BY <1>16 DEF DestroyReceiver, Stopping, ReceiverOnly, Receiver!DestroyBegin,
       Receiver!DestroyDisconnect, Receiver!DestroyCancel
  <1>17. CASE ReceiverDestroyed
    BY <1>17, Zenon DEF ReceiverDestroyed, Stopping, ReceiverOnly, Receiver!DestroyJoin
  <1>18. CASE WorkersReturn
    BY <1>18 DEF WorkersReturn, Stopping, ReceiverOnly
  <1>19. CASE CreateReceiverFails
    BY <1>19 DEF CreateReceiverFails
  <1>20. CASE StartReceiverFails
    BY <1>20 DEF StartReceiverFails, Receiver!Start
  <1> QED
    BY <1>0, <1>1, <1>2, <1>3, <1>4, <1>5, <1>6, <1>7, <1>8, <1>9, <1>10, <1>11, <1>12, <1>13,
       <1>14, <1>15, <1>16, <1>17, <1>18, <1>19, <1>20, Zenon DEF Next, Progress

\* Outside the network smoke test nothing touches its sockets, and gateway_run
\* leaves it when it has returned.
LEMMA NetworkAlone ==
    ASSUME [Next]_vars, ~NetworkSmoke, ~NetworkSmokeFails
    PROVE  UNCHANGED network /\ (pc = "smoke" /\ pc' # "smoke" => net_pc = "returned")
  <1> USE DEF network, callees, Goto, Same, Workers
  <1>0. CASE UNCHANGED vars
    BY <1>0 DEF vars
  <1>1. CASE Install \/ InitLogger \/ LogStart \/ OpenStore \/ LoadInterval \/ OpenSource \/
             CreatePublisher \/ StartPublisher
    BY <1>1, Zenon DEF Install, InitLogger, LogStart, OpenStore, LoadInterval, OpenSource,
       CreatePublisher, StartPublisher, Step
  <1>2. CASE CreateReceiver \/ StartReceiver \/ ReceiverNetwork \/ ReceiverCallback
    BY <1>2, Zenon DEF CreateReceiver, StartReceiver, ReceiverNetwork, ReceiverCallback,
       ReceiverOnly
  <1>3. CASE CoordinatorStops \/ WorkerFails \/ DestroyReceiver \/ ReceiverDestroyed \/
             WorkersReturn
    BY <1>3, Zenon DEF CoordinatorStops, WorkerFails, DestroyReceiver, ReceiverDestroyed,
       WorkersReturn, Stopping, ReceiverOnly
  <1>4. CASE WaitForStop \/ StoreNext \/ Wait \/ StorageStops \/ LogStop
    BY <1>4, Zenon DEF WaitForStop, StoreNext, Wait, StorageStops, LogStop, Step, Fails
  <1>5. CASE SmokeCreate \/ SmokeStart \/ SmokeNext
    BY <1>5, Zenon DEF SmokeCreate, SmokeStart, SmokeNext, Step
  <1>6. CASE WaitConnected \/ Publish
    BY <1>6, Zenon DEF WaitConnected, Publish, Again, SmokeEnds
  <1>7. CASE SmokeDone \/ DestroyPublisher \/ CloseSource
    BY <1>7, Zenon DEF SmokeDone, DestroyPublisher, CloseSource, Release
  <1>8. CASE CloseStore \/ StopLogger
    BY <1>8, Zenon DEF CloseStore, StopLogger, Release, Keeps
  <1>9. CASE StartFails \/ StartUpFails \/ ServiceFails \/ SmokeSetUpFails
    BY <1>9, Zenon DEF StartFails, StartUpFails, ServiceFails, SmokeSetUpFails, Fails
  <1>10. CASE CreateReceiverFails \/ StartReceiverFails
    BY <1>10, Zenon DEF CreateReceiverFails, StartReceiverFails
  <1>11. CASE Signal
    BY <1>11, Zenon DEF Signal
  <1>12. CASE NetworkSmokeReturns
    BY <1>12, Zenon DEF NetworkSmokeReturns
  <1> QED
    BY <1>0, <1>1, <1>2, <1>3, <1>4, <1>5, <1>6, <1>7, <1>8, <1>9, <1>10, <1>11, <1>12, Zenon
       DEF Next, Progress

\* A frame more of Size bytes.
LEMMA OneFrameMore ==
    ASSUME NEW n \in Nat \ {0}
    PROVE  /\ Size * (n - 1) + Size = Size * n /\ Size * n \in Nat /\ Size * (n - 1) \in Nat
           /\ Size * ((n + 1) - 1) = Size * n /\ Size * (1 - 1) = 0
           /\ Size * 0 = 0 /\ Size * 0 \in Nat /\ Size * Count \in Nat /\ Size \in Nat
  BY SizesAssumption

\* Sending puts a byte into the kernel, ...
LEMMA ByteSent ==
    ASSUME NEW pipe \in Seq(Nat \X Nat), NEW b \in Nat \X Nat
    PROVE  Append(pipe, b) \in Seq(Nat \X Nat) /\ Amount(Append(pipe, b)) = Amount(pipe) + 1
  BY DEF Amount

\* ... receiving moves bytes from the kernel to the parser, ...
LEMMA BytesReceived ==
    ASSUME NEW pipe \in Seq(Nat \X Nat), NEW buffer \in Seq(Nat \X Nat), NEW n \in 1..Len(pipe)
    PROVE  /\ SubSeq(pipe, n + 1, Len(pipe)) \in Seq(Nat \X Nat)
           /\ buffer \o SubSeq(pipe, 1, n) \in Seq(Nat \X Nat)
           /\ Amount(SubSeq(pipe, n + 1, Len(pipe))) + Amount(buffer \o SubSeq(pipe, 1, n))
                 = Amount(pipe) + Amount(buffer)
  <1> DEFINE rest == SubSeq(pipe, n + 1, Len(pipe))
             some == SubSeq(pipe, 1, n)
  <1>1. rest \in Seq(Nat \X Nat) /\ Amount(rest) = Amount(pipe) - n
    <2>1. CASE n = Len(pipe)
      BY <2>1 DEF Amount
    <2>2. CASE n < Len(pipe)
      <3>1. rest \in Seq(Nat \X Nat)
        BY <2>2
      <3>2. Len(rest) = Len(pipe) - n
        BY <2>2
      <3> QED
        BY <3>1, <3>2, Zenon DEF Amount
    <2> QED
      BY <2>1, <2>2
  <1>0. n \in Nat /\ Amount(pipe) \in Nat /\ Amount(buffer) \in Nat
    BY DEF Amount
  <1>2. buffer \o some \in Seq(Nat \X Nat) /\ Amount(buffer \o some) = Amount(buffer) + n
    BY DEF Amount
  <1> HIDE DEF rest, some
  <1>3. Amount(rest) + Amount(buffer \o some) = Amount(pipe) + Amount(buffer)
    BY <1>0, <1>1, <1>2
  <1> QED
    BY <1>1, <1>2, <1>3, Zenon DEF rest, some

\* ... and a frame taken out of the parser is Size bytes.
LEMMA FrameTaken ==
    ASSUME NEW buffer \in Seq(Nat \X Nat), Len(buffer) >= Size
    PROVE  /\ SubSeq(buffer, Size + 1, Len(buffer)) \in Seq(Nat \X Nat)
           /\ Amount(SubSeq(buffer, Size + 1, Len(buffer))) = Amount(buffer) - Size
  BY SizesAssumption DEF Amount

\* The types of what the network smoke test has on the way.
LEMMA NetworkTypes ==
    ASSUME Network
    PROVE  /\ up \in Seq(Nat \X Nat) /\ down \in Seq(Nat \X Nat)
           /\ parsed["gateway"] \in Seq(Nat \X Nat) /\ parsed["client"] \in Seq(Nat \X Nat)
           /\ index \in Nat \ {0} /\ part \in Nat
  BY DEF Network

\* The same, as amounts.
LEMMA NetworkAmounts ==
    ASSUME Network
    PROVE  /\ Amount(up) \in Nat /\ Amount(down) \in Nat
           /\ Amount(parsed["gateway"]) \in Nat /\ Amount(parsed["client"]) \in Nat
  BY NetworkTypes DEF Amount

\* The sockets are opened before a byte is sent.
LEMMA SetUpStep ==
    ASSUME Network, pc = "smoke", UNCHANGED pc, Smoke!SetUp
    PROVE  Network'
  <1>1. /\ UNCHANGED <<index, part, up, down, parsed, frame_ok, net_result>>
        /\ net_pc \in {"listen", "connect", "accept"}
        /\ net_pc' \in {"connect", "accept", "send"}
    BY DEF Smoke!SetUp
  <1>2. Size * (1 - 1) + 0 = 0
    BY SizesAssumption
  <1> QED
    BY <1>1, <1>2 DEF Network, Bytes, Conserved, Exchanged

\* All frames came: nothing is left on the way.
LEMMA CountFramesStep ==
    ASSUME Network, pc = "smoke", UNCHANGED pc, Smoke!CountFrames
    PROVE  Network'
  <1>1. /\ UNCHANGED <<index, part, up, down, parsed, frame_ok, fds>>
        /\ net_pc = "count" /\ net_pc' = "done" /\ net_result' \in {-1, 0}
        /\ net_result' = 0 => frame_ok = [gateway |-> Count, client |-> Count]
    BY DEF Smoke!CountFrames
  <1>2. up = <<>> /\ down = <<>>
    <2> DEFINE all == Size * Count
    <2>1. /\ Amount(up) + Amount(parsed["gateway"]) + all = all
          /\ Amount(down) + Amount(parsed["client"]) + all = all
      BY <1>1 DEF Network, Bytes, Conserved
    <2>2. all \in Nat
      BY SizesAssumption
    <2> HIDE DEF all
    <2>3. Amount(up) = 0 /\ Amount(down) = 0
      BY NetworkAmounts, <2>1, <2>2
    <2> QED
      BY NetworkTypes, <2>3 DEF Amount
  <1> QED
    BY <1>1, <1>2 DEF Network, Bytes, Exchanged

\* The sockets are closed.
LEMMA DoneStep ==
    ASSUME Network, pc = "smoke", UNCHANGED pc, Smoke!Done
    PROVE  Network'
  <1>1. /\ UNCHANGED <<index, part, up, down, parsed, frame_ok, net_result>>
        /\ net_pc = "done" /\ net_pc' = "returned" /\ fds' = {}
    BY DEF Smoke!Done
  <1> QED
    BY <1>1 DEF Network, Bytes, Exchanged

\* The client sends its frames.
LEMMA SendStep ==
    ASSUME Network, pc = "smoke", UNCHANGED pc, Smoke!Send
    PROVE  Network'
  <1>0. /\ UNCHANGED <<down, parsed, frame_ok, net_result, fds>> /\ net_pc = "send"
    BY Zenon DEF Smoke!Send
  <1>1. CASE part < Size
    <2>1. /\ up' = Append(up, <<index, part + 1>>) /\ part' = part + 1
          /\ UNCHANGED <<net_pc, index>>
      BY <1>1, SizesAssumption DEF Smoke!Send, Smoke!SendByte, Network
    <2>2. up' \in Seq(Nat \X Nat) /\ Amount(up') = Amount(up) + 1
      <3>1. <<index, part + 1>> \in Nat \X Nat
        BY NetworkTypes
      <3> QED
        BY NetworkTypes, <2>1, <3>1, ByteSent, Zenon
    <2>3. Conserved("gateway", up, 0, Size * (index - 1) + part)'
      <3> DEFINE before == Size * (index - 1)
      <3>1. /\ before \in Nat /\ Amount(up) \in Nat /\ Amount(parsed["gateway"]) \in Nat
            /\ Size * 0 \in Nat /\ part \in Nat /\ part' = part + 1 /\ Amount(up') = Amount(up) + 1
        BY NetworkTypes, NetworkAmounts, <2>1, <2>2, OneFrameMore, Zenon
      <3>2. /\ frame_ok["gateway"] = 0
            /\ Amount(up) + Amount(parsed["gateway"]) + Size * 0 = before + part
        BY <1>0 DEF Network, Bytes, Conserved
      <3> HIDE DEF before
      <3>3. Amount(up') + Amount(parsed["gateway"]) + Size * 0 = before + part'
        BY <3>1, <3>2
      <3> QED
        BY <1>0, <2>1, <3>2, <3>3, Zenon DEF Conserved, before
    <2> QED
      BY <1>0, <2>1, <2>2, <2>3 DEF Network, Bytes, Conserved
  <1>2. CASE ~(part < Size)
    <2>1. part = Size /\ part' = 0 /\ Smoke!Turn("send", "serve") /\ UNCHANGED up
      BY <1>2 DEF Smoke!Send, Smoke!SendByte
    <2>2. Conserved("gateway", up, 0, Size * index)
      <3>1. Conserved("gateway", up, 0, Size * (index - 1) + Size)
        BY <1>0, <2>1, Zenon DEF Network, Bytes
      <3>2. Size * (index - 1) + Size = Size * index
        BY NetworkTypes, OneFrameMore, Zenon
      <3> QED
        BY <3>1, <3>2, Zenon
    <2>3. CASE index = Count
      <3>1. net_pc' = "serve" /\ index' = 1
        BY <2>1, <2>3, Zenon DEF Smoke!Turn
      <3> QED
        BY <1>0, <2>1, <2>2, <2>3, <3>1 DEF Network, Bytes, Conserved
    <2>4. CASE index # Count
      <3>1. net_pc' = "send" /\ index' = index + 1
        BY <2>1, <2>4 DEF Smoke!Turn
      <3>2. index' - 1 = index /\ index' \in Nat \ {0}
        <4>1. index \in Nat \ {0}
          BY NetworkTypes, Zenon
        <4> QED
          BY <3>1, <4>1
      <3>3. Conserved("gateway", up, 0, Size * (index' - 1) + 0)
        <4>1. Size * index + 0 = Size * index
          BY NetworkTypes, OneFrameMore
        <4> QED
          BY <2>2, <3>2, <4>1, Zenon
      <3>4. /\ Conserved("gateway", up, 0, Size * (index - 1) + part)'
            /\ Conserved("client", down, 0, 0)'
        BY <1>0, <2>1, <3>3, Zenon DEF Network, Bytes, Conserved
      <3> QED
        BY <1>0, <2>1, <3>1, <3>2, <3>4 DEF Network, Bytes
    <2> QED
      BY <2>3, <2>4
  <1> QED
    BY <1>1, <1>2

\* The gateway sends its answers.
LEMMA AckStep ==
    ASSUME Network, pc = "smoke", UNCHANGED pc, Smoke!Ack
    PROVE  Network'
  <1>0. /\ UNCHANGED <<up, parsed, frame_ok, net_result, fds>> /\ net_pc = "ack"
    BY Zenon DEF Smoke!Ack
  <1>1. CASE part < Size
    <2>1. /\ down' = Append(down, <<index, part + 1>>) /\ part' = part + 1
          /\ UNCHANGED <<net_pc, index>>
      BY <1>1, SizesAssumption DEF Smoke!Ack, Smoke!SendByte, Network
    <2>2. down' \in Seq(Nat \X Nat) /\ Amount(down') = Amount(down) + 1
      <3>1. <<index, part + 1>> \in Nat \X Nat
        BY NetworkTypes
      <3> QED
        BY NetworkTypes, <2>1, <3>1, ByteSent, Zenon
    <2>3. Conserved("client", down, 0, Size * (index - 1) + part)'
      <3> DEFINE before == Size * (index - 1)
      <3>1. /\ before \in Nat /\ Amount(down) \in Nat /\ Amount(parsed["client"]) \in Nat
            /\ Size * 0 \in Nat /\ part \in Nat /\ part' = part + 1
            /\ Amount(down') = Amount(down) + 1
        BY NetworkTypes, NetworkAmounts, <2>1, <2>2, OneFrameMore, Zenon
      <3>2. /\ frame_ok["client"] = 0
            /\ Amount(down) + Amount(parsed["client"]) + Size * 0 = before + part
        BY <1>0 DEF Network, Bytes, Conserved
      <3> HIDE DEF before
      <3>3. Amount(down') + Amount(parsed["client"]) + Size * 0 = before + part'
        BY <3>1, <3>2
      <3> QED
        BY <1>0, <2>1, <3>2, <3>3, Zenon DEF Conserved, before
    <2> QED
      BY <1>0, <2>1, <2>2, <2>3 DEF Network, Bytes, Conserved
  <1>2. CASE ~(part < Size)
    <2>1. part = Size /\ part' = 0 /\ Smoke!Turn("serve", "collect") /\ UNCHANGED down
      BY <1>2 DEF Smoke!Ack, Smoke!SendByte
    <2>2. Conserved("client", down, 0, Size * index)
      <3>1. Conserved("client", down, 0, Size * (index - 1) + Size)
        BY <1>0, <2>1, Zenon DEF Network, Bytes
      <3>2. Size * (index - 1) + Size = Size * index
        BY NetworkTypes, OneFrameMore, Zenon
      <3> QED
        BY <3>1, <3>2, Zenon
    <2>3. CASE index = Count
      <3>1. net_pc' = "collect" /\ index' = 1
        BY <2>1, <2>3, Zenon DEF Smoke!Turn
      <3> QED
        BY <1>0, <2>1, <2>2, <2>3, <3>1 DEF Network, Bytes, Conserved
    <2>4. CASE index # Count
      <3>1. net_pc' = "serve" /\ index' = index + 1
        BY <2>1, <2>4 DEF Smoke!Turn
      <3>2. index' - 1 = index /\ index' \in Nat \ {0}
        <4>1. index \in Nat \ {0}
          BY NetworkTypes, Zenon
        <4> QED
          BY <3>1, <4>1
      <3>3. /\ Conserved("gateway", up, index - 1, Size * Count)'
            /\ Conserved("client", down, 0, Size * (index - 1))'
        BY <1>0, <2>1, <2>2, <3>2, Zenon DEF Network, Bytes, Conserved
      <3> QED
        BY <1>0, <2>1, <3>1, <3>2, <3>3 DEF Network, Bytes
    <2> QED
      BY <2>3, <2>4
  <1> QED
    BY <1>1, <1>2

\* The gateway receives the frames, ...
LEMMA ServeStep ==
    ASSUME Network, pc = "smoke", UNCHANGED pc, Smoke!Serve
    PROVE  Network'
  <1>0. UNCHANGED <<down, index, part, net_result, fds>> /\ net_pc = "serve"
    BY Zenon DEF Smoke!Serve
  <1>1. ASSUME NEW n \in Smoke!Taken(up), Smoke!Feed("gateway", up, n),
               up' = SubSeq(up, n + 1, Len(up)), UNCHANGED <<net_pc, frame_ok>>
        PROVE  Network'
    <2>1. n \in 1..Len(up) /\ parsed["gateway"] \in Seq(Nat \X Nat)
      BY NetworkTypes, SizesAssumption DEF Smoke!Taken
    <2> DEFINE more == parsed["gateway"] \o SubSeq(up, 1, n)
    <2>2. /\ more \in Seq(Nat \X Nat) /\ up' \in Seq(Nat \X Nat)
          /\ Amount(up') + Amount(more) = Amount(up) + Amount(parsed["gateway"])
      <3>1. /\ more \in Seq(Nat \X Nat) /\ SubSeq(up, n + 1, Len(up)) \in Seq(Nat \X Nat)
            /\ Amount(SubSeq(up, n + 1, Len(up))) + Amount(more)
                  = Amount(up) + Amount(parsed["gateway"])
        BY NetworkTypes, <2>1, BytesReceived, Zenon
      <3> QED
        BY <1>1, <3>1, Zenon
    <2>3. parsed' = [parsed EXCEPT !["gateway"] = more]
      BY <1>1, Zenon DEF Smoke!Feed
    <2> HIDE DEF more
    <2>4. /\ parsed' \in [{"gateway", "client"} -> Seq(Nat \X Nat)]
          /\ parsed'["gateway"] = more /\ parsed'["client"] = parsed["client"]
      BY <2>2, <2>3 DEF Network
    <2>5. Conserved("gateway", up, index - 1, Size * Count)'
      BY <1>0, <1>1, <2>2, <2>4, Zenon DEF Network, Bytes, Conserved
    <2> QED
      BY <1>0, <1>1, <2>2, <2>4, <2>5 DEF Network, Bytes, Conserved
  <1>2. ASSUME Smoke!TakeFrame("gateway"), UNCHANGED up, net_pc' \in {"ack", "done"}
        PROVE  Network'
    <2>1. /\ parsed' \in [{"gateway", "client"} -> Seq(Nat \X Nat)]
          /\ Amount(parsed'["gateway"]) = Amount(parsed["gateway"]) - Size
          /\ parsed'["client"] = parsed["client"]
          /\ frame_ok' \in [{"gateway", "client"} -> Nat]
          /\ frame_ok'["gateway"] = frame_ok["gateway"] + 1
          /\ frame_ok'["client"] = frame_ok["client"]
      <3> DEFINE rest == SubSeq(parsed["gateway"], Size + 1, Len(parsed["gateway"]))
      <3>1. /\ parsed' = [parsed EXCEPT !["gateway"] = rest]
            /\ frame_ok' = [frame_ok EXCEPT !["gateway"] = frame_ok["gateway"] + 1]
            /\ Len(parsed["gateway"]) >= Size
        BY <1>2, Zenon DEF Smoke!TakeFrame
      <3>2. rest \in Seq(Nat \X Nat) /\ Amount(rest) = Amount(parsed["gateway"]) - Size
        BY NetworkTypes, <3>1, FrameTaken, Zenon
      <3> HIDE DEF rest
      <3> QED
        BY <3>1, <3>2 DEF Network
    <2>2. Conserved("gateway", up, index, Size * Count)'
      <3>1. /\ frame_ok["gateway"] = index - 1 /\ index \in Nat \ {0}
            /\ Amount(up) + Amount(parsed["gateway"]) + Size * (index - 1) = Size * Count
            /\ Amount(up) \in Nat /\ Amount(parsed["gateway"]) \in Nat
        BY NetworkTypes, NetworkAmounts, <1>0, Zenon DEF Network, Bytes, Conserved
      <3>2. /\ Size * (index - 1) + Size = Size * index /\ Size * (index - 1) \in Nat
            /\ Size \in Nat /\ Size * Count \in Nat
            /\ Amount(parsed'["gateway"]) = Amount(parsed["gateway"]) - Size
        BY <2>1, <3>1, OneFrameMore, Zenon
      <3>3. frame_ok'["gateway"] = index
        BY <2>1, <3>1
      <3>4. Amount(up) + Amount(parsed'["gateway"]) + Size * index = Size * Count
        BY <3>1, <3>2
      <3> QED
        BY <1>0, <1>2, <3>3, <3>4, Zenon DEF Conserved
    <2>3. Conserved("client", down, 0, Size * (index - 1) + part)'
      <3>1. part = 0 /\ Conserved("client", down, 0, Size * (index - 1))
        BY <1>0, Zenon DEF Network, Bytes
      <3>2. Size * (index - 1) + part = Size * (index - 1)
        BY NetworkTypes, <3>1, OneFrameMore
      <3> QED
        BY <1>0, <2>1, <3>1, <3>2, Zenon DEF Conserved
    <2> QED
      BY <1>0, <1>2, <2>1, <2>2, <2>3 DEF Network, Bytes, Conserved
  <1>3. \/ \E n \in Smoke!Taken(up) : /\ Smoke!Feed("gateway", up, n)
                                      /\ up' = SubSeq(up, n + 1, Len(up))
                                      /\ UNCHANGED <<net_pc, frame_ok>>
        \/ Smoke!TakeFrame("gateway") /\ UNCHANGED up /\ net_pc' \in {"ack", "done"}
    BY Zenon DEF Smoke!Serve
  <1> QED
    BY <1>1, <1>2, <1>3, Zenon

\* ... and the client the answers.
LEMMA CollectStep ==
    ASSUME Network, pc = "smoke", UNCHANGED pc, Smoke!Collect
    PROVE  Network'
  <1>0. UNCHANGED <<up, part, net_result, fds>> /\ net_pc = "collect"
    BY Zenon DEF Smoke!Collect
  <1>1. ASSUME NEW n \in Smoke!Taken(down), Smoke!Feed("client", down, n),
               down' = SubSeq(down, n + 1, Len(down)), UNCHANGED <<net_pc, index, frame_ok>>
        PROVE  Network'
    <2>1. n \in 1..Len(down) /\ parsed["client"] \in Seq(Nat \X Nat)
      BY NetworkTypes, SizesAssumption DEF Smoke!Taken
    <2> DEFINE more == parsed["client"] \o SubSeq(down, 1, n)
    <2>2. /\ more \in Seq(Nat \X Nat) /\ down' \in Seq(Nat \X Nat)
          /\ Amount(down') + Amount(more) = Amount(down) + Amount(parsed["client"])
      <3>1. /\ more \in Seq(Nat \X Nat) /\ SubSeq(down, n + 1, Len(down)) \in Seq(Nat \X Nat)
            /\ Amount(SubSeq(down, n + 1, Len(down))) + Amount(more)
                  = Amount(down) + Amount(parsed["client"])
        BY NetworkTypes, <2>1, BytesReceived, Zenon
      <3> QED
        BY <1>1, <3>1, Zenon
    <2>3. parsed' = [parsed EXCEPT !["client"] = more]
      BY <1>1, Zenon DEF Smoke!Feed
    <2> HIDE DEF more
    <2>4. /\ parsed' \in [{"gateway", "client"} -> Seq(Nat \X Nat)]
          /\ parsed'["client"] = more /\ parsed'["gateway"] = parsed["gateway"]
      BY <2>2, <2>3 DEF Network
    <2>5. Conserved("client", down, index - 1, Size * Count)'
      BY <1>0, <1>1, <2>2, <2>4, Zenon DEF Network, Bytes, Conserved
    <2> QED
      BY <1>0, <1>1, <2>2, <2>4, <2>5 DEF Network, Bytes, Conserved
  <1>2. ASSUME Smoke!TakeFrame("client"), UNCHANGED down,
               Smoke!CollectTurn \/ (net_pc' = "done" /\ UNCHANGED index)
        PROVE  Network'
    <2>1. /\ parsed' \in [{"gateway", "client"} -> Seq(Nat \X Nat)]
          /\ Amount(parsed'["client"]) = Amount(parsed["client"]) - Size
          /\ parsed'["gateway"] = parsed["gateway"]
          /\ frame_ok' \in [{"gateway", "client"} -> Nat]
          /\ frame_ok'["client"] = frame_ok["client"] + 1
          /\ frame_ok'["gateway"] = frame_ok["gateway"]
      <3> DEFINE rest == SubSeq(parsed["client"], Size + 1, Len(parsed["client"]))
      <3>1. /\ parsed' = [parsed EXCEPT !["client"] = rest]
            /\ frame_ok' = [frame_ok EXCEPT !["client"] = frame_ok["client"] + 1]
            /\ Len(parsed["client"]) >= Size
        BY <1>2, Zenon DEF Smoke!TakeFrame
      <3>2. rest \in Seq(Nat \X Nat) /\ Amount(rest) = Amount(parsed["client"]) - Size
        BY NetworkTypes, <3>1, FrameTaken, Zenon
      <3> HIDE DEF rest
      <3> QED
        BY <3>1, <3>2 DEF Network
    <2>2. /\ frame_ok'["client"] = index
          /\ Amount(down') + Amount(parsed'["client"]) + Size * index = Size * Count
      <3>1. /\ frame_ok["client"] = index - 1 /\ index \in Nat \ {0}
            /\ Amount(down) + Amount(parsed["client"]) + Size * (index - 1) = Size * Count
            /\ Amount(down) \in Nat /\ Amount(parsed["client"]) \in Nat
        BY NetworkTypes, NetworkAmounts, <1>0, Zenon DEF Network, Bytes, Conserved
      <3>2. /\ Size * (index - 1) + Size = Size * index /\ Size * (index - 1) \in Nat
            /\ Size \in Nat /\ Size * Count \in Nat
            /\ Amount(parsed'["client"]) = Amount(parsed["client"]) - Size
        BY <2>1, <3>1, OneFrameMore, Zenon
      <3>3. frame_ok'["client"] = index
        BY <2>1, <3>1
      <3>4. Amount(down) + Amount(parsed'["client"]) + Size * index = Size * Count
        BY <3>1, <3>2
      <3> QED
        BY <1>2, <3>3, <3>4, Zenon
    <2>3. Conserved("gateway", up, Count, Size * Count)'
      BY <1>0, <2>1, Zenon DEF Network, Bytes, Conserved
    <2>4. CASE net_pc' = "done" /\ UNCHANGED index
      BY <1>0, <1>2, <2>1, <2>4 DEF Network, Bytes
    <2>5. CASE Smoke!CollectTurn /\ index = Count
      <3>1. net_pc' = "count" /\ index' = 1
        BY <2>5 DEF Smoke!CollectTurn, Smoke!Turn
      <3>2. Conserved("client", down, Count, Size * Count)'
        BY <2>2, <2>5, Zenon DEF Conserved
      <3> QED
        BY <1>0, <1>2, <2>1, <2>3, <3>1, <3>2 DEF Network, Bytes
    <2>6. CASE Smoke!CollectTurn /\ index # Count
      <3>1. net_pc' = "collect" /\ index' = index + 1 /\ index' - 1 = index
        <4>1. net_pc' = "collect" /\ index' = index + 1
          BY <2>6, Zenon DEF Smoke!CollectTurn, Smoke!Turn
        <4> QED
          BY NetworkTypes, <4>1
      <3>2. Conserved("client", down, index - 1, Size * Count)'
        BY <2>2, <3>1, Zenon DEF Conserved
      <3> QED
        BY NetworkTypes, <1>0, <1>2, <2>1, <2>3, <3>1, <3>2 DEF Network, Bytes
    <2> QED
      BY <1>2, <2>4, <2>5, <2>6, Zenon
  <1>3. \/ \E n \in Smoke!Taken(down) : /\ Smoke!Feed("client", down, n)
                                        /\ down' = SubSeq(down, n + 1, Len(down))
                                        /\ UNCHANGED <<net_pc, index, frame_ok>>
        \/ /\ Smoke!TakeFrame("client") /\ UNCHANGED down
           /\ Smoke!CollectTurn \/ (net_pc' = "done" /\ UNCHANGED index)
    BY Zenon DEF Smoke!Collect
  <1> QED
    BY <1>1, <1>2, <1>3, Zenon

\* Each step of the network smoke test keeps count of the bytes.
LEMMA NetworkStep ==
    Network /\ [Next]_vars => Network'
  <1> SUFFICES ASSUME Network, [Next]_vars
               PROVE  Network'
    OBVIOUS
  <1>1. CASE ~NetworkSmoke /\ ~NetworkSmokeFails
    <2>1. UNCHANGED network /\ (pc = "smoke" /\ pc' # "smoke" => net_pc = "returned")
      BY <1>1, NetworkAlone
    <2> QED
      BY <2>1, Zenon DEF Network, Bytes, Exchanged, Conserved, network
  <1>2. CASE NetworkSmokeFails
    <2>1. pc = "smoke" /\ UNCHANGED <<pc, index, part, up, down, parsed, frame_ok, net_result>>
          /\ net_pc' = "done" /\ net_pc \notin {"done", "returned"}
      BY <1>2, Zenon DEF NetworkSmokeFails, Smoke!Fail
    <2> QED
      BY <2>1 DEF Network, Bytes, Exchanged
  <1>3. CASE NetworkSmoke
    <2>1. pc = "smoke" /\ UNCHANGED pc
      BY <1>3, Zenon DEF NetworkSmoke
    <2> QED
      BY <1>3, <2>1, SetUpStep, SendStep, ServeStep, AckStep, CollectStep, CountFramesStep,
         DoneStep, Zenon DEF NetworkSmoke, Smoke!Progress
  <1> QED
    BY <1>1, <1>2, <1>3, Zenon

\* The library with n users.
UsedBy(n) == [count |-> n, initialised |-> n > 0]

\* A user more, a user less, and a creation that fails.
LEMMA LibraryCalls ==
    ASSUME NEW n \in Nat
    PROVE  /\ mqtt_library_acquire(UsedBy(n)) = UsedBy(n + 1)
           /\ n > 0 => mqtt_library_release(UsedBy(n)) = UsedBy(n - 1)
           /\ FailedCreation(UsedBy(n)) = {UsedBy(n)}
  <1>0. ASSUME NEW m \in Nat
        PROVE  UsedBy(m).count = m /\ UsedBy(m).initialised = (m > 0)
    BY Zenon DEF UsedBy
  <1>1. mqtt_library_acquire(UsedBy(n)) = UsedBy(n + 1)
    <2>1. (n + 1 > 0) = TRUE
      OBVIOUS
    <2> QED
      BY <1>0, <2>1, Zenon DEF mqtt_library_acquire, UsedBy
  <1>2. ASSUME NEW m \in Nat, m > 0
        PROVE  mqtt_library_release(UsedBy(m)) = UsedBy(m - 1)
    <2>1. m # 0 /\ (m > 0 /\ m # 1) = (m - 1 > 0)
      BY <1>2
    <2> QED
      BY <1>0, <2>1, Zenon DEF mqtt_library_release, UsedBy
  <1>3. mqtt_library_release(UsedBy(n + 1)) = UsedBy(n)
    <2>1. n + 1 \in Nat /\ n + 1 > 0 /\ (n + 1) - 1 = n
      OBVIOUS
    <2> QED
      BY <1>2, <2>1, Zenon
  <1>4. FailedCreation(UsedBy(n)) = {UsedBy(n)}
    BY <1>1, <1>3, Zenon DEF FailedCreation
  <1> QED
    BY <1>1, <1>2, <1>4, Zenon

\* What a step may do to the users of the library.
Gone(o) == o \in {"absent", "gone"}

Moves ==
    LET keeps == "publisher" \in held' <=> "publisher" \in held
        gains == "publisher" \notin held /\ "publisher" \in held'
        loses == "publisher" \in held /\ "publisher" \notin held'
    IN  \/ library' = library /\ keeps /\ (Gone(owner') <=> Gone(owner))
        \/ library' \in FailedCreation(library) /\ keeps /\ owner' = owner
        \/ /\ library' = mqtt_library_acquire(library)
           /\ \/ gains /\ owner' = owner
              \/ keeps /\ Gone(owner) /\ ~Gone(owner')
        \/ /\ library' = mqtt_library_release(library)
           /\ \/ loses /\ owner' = owner
              \/ keeps /\ ~Gone(owner) /\ Gone(owner')

\* Whoever comes acquires the library, and whoever goes releases it.
LEMMA LibraryMoves ==
    Holdings /\ [Next]_vars => Moves
  <1> SUFFICES ASSUME Holdings, [Next]_vars
               PROVE  Moves
    OBVIOUS
  <1> USE DEF Moves, Gone, callees, receiver, Goto, Same, Workers
  <1>p. pc \in {"create", "smoke_create"} => "publisher" \notin held
    BY DEF Holdings
  <1>0. CASE UNCHANGED vars
    BY <1>0 DEF vars
  <1>1. CASE Install \/ InitLogger \/ LogStart \/ OpenStore \/ LoadInterval \/ OpenSource \/
             CreatePublisher \/ StartPublisher
    <2>1. CASE Install \/ InitLogger \/ LogStart \/ OpenStore \/ LoadInterval \/ StartPublisher
      <3>1. PICK what \in {{}, {"logger"}, {"store"}} :
               /\ held' = held \cup what /\ UNCHANGED owner
               /\ library' = IF "publisher" \in what THEN mqtt_library_acquire(library) ELSE library
        BY <2>1, Zenon DEF Install, InitLogger, LogStart, OpenStore, LoadInterval,
           StartPublisher, Step
      <3> QED
        BY <3>1, Zenon
    <2>2. CASE OpenSource
      BY <2>2, Zenon DEF OpenSource, Step
    <2>3. CASE CreatePublisher
      BY <1>p, <2>3, Zenon DEF CreatePublisher, Step
    <2> QED
      BY <1>1, <2>1, <2>2, <2>3, Zenon
  <1>2. CASE NetworkSmoke \/ NetworkSmokeFails \/ NetworkSmokeReturns
    BY <1>2, Zenon DEF NetworkSmoke, NetworkSmokeFails, NetworkSmokeReturns
  <1>3. CASE CreateReceiver \/ StartReceiver \/ ReceiverNetwork \/ ReceiverCallback
    BY <1>3, Zenon DEF CreateReceiver, StartReceiver, ReceiverNetwork, ReceiverCallback,
       ReceiverOnly, Receiver!Create, Receiver!Start, Receiver!Network, Receiver!NetworkConnect,
       Receiver!NetworkDrop, Receiver!NetworkSuback, Receiver!NetworkMessage,
       Receiver!Listening, Receiver!Callback, Receiver!on_connect, Receiver!on_subscribe,
       Receiver!on_message
  <1>4. CASE CoordinatorStops \/ WorkerFails \/ DestroyReceiver \/ ReceiverDestroyed \/
             WorkersReturn
    BY <1>4, Zenon DEF CoordinatorStops, WorkerFails, DestroyReceiver, ReceiverDestroyed,
       WorkersReturn, Stopping, ReceiverOnly, Receiver!DestroyBegin, Receiver!DestroyDisconnect,
       Receiver!DestroyCancel, Receiver!DestroyJoin
  <1>5. CASE WaitForStop \/ StoreNext \/ Wait \/ StorageStops \/ LogStop
    BY <1>5, Zenon DEF WaitForStop, StoreNext, Wait, StorageStops, LogStop, Step, Fails
  <1>6. CASE SmokeCreate \/ SmokeStart \/ SmokeNext
    <2>1. CASE SmokeCreate
      BY <1>p, <2>1, Zenon DEF SmokeCreate, Step
    <2>2. CASE SmokeStart \/ SmokeNext
      BY <2>2, Zenon DEF SmokeStart, SmokeNext, Step
    <2> QED
      BY <1>6, <2>1, <2>2, Zenon
  <1>7. CASE WaitConnected \/ Publish
    BY <1>7, Zenon DEF WaitConnected, Publish, Again, SmokeEnds
  <1>8. CASE SmokeDone \/ DestroyPublisher \/ CloseSource
    BY <1>8, Zenon DEF SmokeDone, DestroyPublisher, CloseSource, Release
  <1>9. CASE CloseStore \/ StopLogger
    BY <1>9, Zenon DEF CloseStore, StopLogger, Release, Keeps
  <1>10. CASE StartFails \/ StartUpFails \/ ServiceFails \/ SmokeSetUpFails
    BY <1>10, Zenon DEF StartFails, StartUpFails, ServiceFails, SmokeSetUpFails, Fails
  <1>11. CASE CreateReceiverFails \/ StartReceiverFails
    BY <1>11, Zenon DEF CreateReceiverFails, StartReceiverFails, Receiver!Start
  <1>12. CASE Signal
    BY <1>12, Zenon DEF Signal
  <1> QED
    BY <1>0, <1>1, <1>2, <1>3, <1>4, <1>5, <1>6, <1>7, <1>8, <1>9, <1>10, <1>11, <1>12, Zenon
       DEF Next, Progress

\* Each step keeps the count of the references.
LEMMA ReferencesStep ==
    Holdings /\ References /\ [Next]_vars => References'
  <1> SUFFICES ASSUME Holdings, References, [Next]_vars
               PROVE  References'
    OBVIOUS
  <1> DEFINE keeps == "publisher" \in held' <=> "publisher" \in held
             gains == "publisher" \notin held /\ "publisher" \in held'
             loses == "publisher" \in held /\ "publisher" \notin held'
  <1>0. Users \in Nat /\ library = UsedBy(Users)
    BY DEF Users, References, UsedBy
  <1>1. CASE library' = library /\ Users' = Users
    BY <1>0, <1>1, Zenon DEF References, UsedBy
  <1>2. CASE library' \in FailedCreation(library) /\ Users' = Users
    BY <1>0, <1>2, LibraryCalls, Zenon DEF References, UsedBy
  <1>3. CASE library' = mqtt_library_acquire(library) /\ Users' = Users + 1
    BY <1>0, <1>3, LibraryCalls, Zenon DEF References, UsedBy
  <1>4. CASE library' = mqtt_library_release(library) /\ Users > 0 /\ Users' = Users - 1
    BY <1>0, <1>4, LibraryCalls, Zenon DEF References, UsedBy
  <1>5. /\ keeps /\ (Gone(owner') <=> Gone(owner)) => Users' = Users
        /\ keeps /\ Gone(owner) /\ ~Gone(owner') => Users' = Users + 1
        /\ keeps /\ ~Gone(owner) /\ Gone(owner') => Users > 0 /\ Users' = Users - 1
    BY DEF Users, Gone
  <1>6. /\ gains /\ owner' = owner => Users' = Users + 1
        /\ loses /\ owner' = owner => Users > 0 /\ Users' = Users - 1
    BY DEF Users
  <1>7. Moves
    BY LibraryMoves
  <1> QED
    BY <1>1, <1>2, <1>3, <1>4, <1>5, <1>6, <1>7, Zenon DEF Moves
-----------------------------------------------------------------------------

\* gateway_run starts with nothing.
LEMMA RunInit == Init => RunInv
  <1> SUFFICES ASSUME Init
               PROVE  RunInv
    OBVIOUS
  <1>1. Ways
    BY DEF Init, Ways, Serving, Publishing, Ending
  <1>2. Holdings /\ Results
    BY DEF Init, Holdings, Results, Ending
  <1>3. Published
    BY DEF Init, Published
  <1>4. Network
    <2>1. /\ net_pc = "listen" /\ fds = {} /\ index = 1 /\ part = 0 /\ up = <<>> /\ down = <<>>
          /\ parsed = [gateway |-> <<>>, client |-> <<>>]
          /\ frame_ok = [gateway |-> 0, client |-> 0] /\ net_result = -1
      BY DEF Init, Smoke!Init
    <2>2. Amount(<<>>) = 0 /\ Size * 0 = 0
      BY SizesAssumption DEF Amount
    <2>3. Bytes
      BY <2>1, <2>2 DEF Bytes, Conserved
    <2>4. <<>> \in Seq(Nat \X Nat)
      OBVIOUS
    <2>5. /\ parsed \in [{"gateway", "client"} -> Seq(Nat \X Nat)]
          /\ frame_ok \in [{"gateway", "client"} -> Nat]
      <3> DEFINE none == <<>>
      <3>1. none \in Seq(Nat \X Nat) /\ parsed = [gateway |-> none, client |-> none]
        BY <2>1, <2>4
      <3> HIDE DEF none
      <3> QED
        BY <2>1, <3>1
    <2>6. index \in Nat \ {0} /\ part \in Nat /\ net_result \in {-1, 0} /\ net_result # 0
      BY <2>1
    <2> QED
      BY <2>1, <2>3, <2>4, <2>5, <2>6, Zenon DEF Network
  <1>5. Threads
    BY Zenon DEF Init, Receiver!Init, Threads
  <1>6. References
    <2>1. Users = 0
      BY DEF Init, Receiver!Init, Users
    <2>2. (0 > 0) = FALSE
      OBVIOUS
    <2> QED
      BY <2>1, <2>2, Zenon DEF Init, NoLibrary, References
  <1> QED
    BY <1>1, <1>2, <1>3, <1>4, <1>5, <1>6, Zenon DEF RunInv

\* The inductive invariant of gateway_run: the way of each mode, what is held
\* where, what a result of 0 stands for, the bytes of the network smoke test,
\* the network thread of the receiver, and the references to libmosquitto.
THEOREM RunInvariant == Spec => []RunInv
  <1>1. RunInv /\ [Next]_vars => RunInv'
    <2> SUFFICES ASSUME RunInv, [Next]_vars
                 PROVE  RunInv'
      OBVIOUS
    <2>1. Ways /\ Holdings /\ Results /\ Published /\ Network /\ Threads /\ References
      BY Zenon DEF RunInv
    <2>2. Ways' /\ Holdings' /\ Results' /\ Published' /\ Network' /\ Threads' /\ References'
      BY <2>1, WaysStep, ResultsStep, PublishedStep, NetworkStep, ThreadsStep, ReferencesStep,
         Zenon
    <2> QED
      BY <2>2, Zenon DEF RunInv
  <1> QED
    BY <1>1, RunInit, PTL DEF Spec

\* A return of gateway_run tells the truth (gateway.h): on every path to
\* SHUTDOWN everything acquired is given back, except what refused to close, and
\* a result of 0 means that nothing did and that the work of the mode is done.
THEOREM RunTellsTheTruth == Spec => []ReturnIsTrue
  <1>1. RunInv => ReturnIsTrue
    <2> SUFFICES ASSUME RunInv, pc = "returned"
                 PROVE  /\ held = {} /\ fds = {}
                        /\ result = 0 => stuck = {} /\ Work
                        /\ net_result = 0 => Exchanged
      BY Zenon DEF ReturnIsTrue, Work, Exchanged
    <2>1. held = {}
      BY DEF RunInv, Holdings, Resources, Serving
    <2>2. fds = {}
      BY DEF RunInv, Network
    <2>3. result = 0 => stuck = {} /\ Work
      BY DEF RunInv, Results
    <2>4. net_result = 0 => Exchanged
      BY DEF RunInv, Network
    <2> QED
      BY <2>1, <2>2, <2>3, <2>4
  <1> QED
    BY <1>1, RunInvariant, PTL

\* The network thread of the command receiver, whose callback uses the stack of
\* gateway_workers_run, does not outlive that call.
THEOREM NoLateCallback == Spec => []NoCallbackAfterReturn
  <1>1. RunInv => NoCallbackAfterReturn
    BY Zenon DEF RunInv, Threads, NoCallbackAfterReturn
  <1> QED
    BY <1>1, RunInvariant, PTL

\* libmosquitto is initialised exactly while the publisher or the receiver
\* exists (mqtt_library_runtime.c).
THEOREM LibraryIsShared == Spec => []LibraryWhileUsed
  <1>1. RunInv => LibraryWhileUsed
    BY Zenon DEF RunInv, References, Users, LibraryWhileUsed
  <1> QED
    BY <1>1, RunInvariant, PTL
=============================================================================
