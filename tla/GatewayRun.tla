------------------------------ MODULE GatewayRun ------------------------------
(***************************************************************************)
(* gateway_run of core/gateway.c in its four builds (with and without      *)
(* storage, with and without MQTT) and three modes: what it acquires, in   *)
(* which order, and what it gives back on every path to SHUTDOWN.  What    *)
(* gateway.c itself contains is here: the storage service, the wait for a  *)
(* signal, the MQTT smoke test with its retries and the network smoke test *)
(* (module LoopbackSmoke).  Of gateway_workers_run this module has the     *)
(* command receiver (module MqttCommandReceiver), whose network thread must*)
(* not outlive the call; the workers themselves are module GatewayWorkers. *)
(* Publisher and receiver share libmosquitto (module MqttLibrary).  The    *)
(* parser of the frames is module FrameParser.                             *)
(***************************************************************************)
EXTENDS Integers, Sequences, MqttLibrary

CONSTANTS SmokeCount,    \* GATEWAY_MQTT_SMOKE_MEASUREMENT_COUNT
          MaxAttempts,   \* of gateway_publish_with_retry
          Ticks,         \* waits between two measurements of the storage service
          MaxStored,     \* bound on the measurements of the storage service
          MaxFaults,     \* bound on the calls that fail
          Count, Size, RecvSize, Pipe   \* of LoopbackSmoke

\* Numbers of frames and of bytes.
ASSUME SizesAssumption == Count \in Nat /\ Size \in Nat /\ RecvSize \in Nat

\* The kernel's socket buffers take a whole phase of the network smoke test.
ASSUME PipeHoldsAPhase == Pipe >= Count * Size

VARIABLES build, mode, source_kind,   \* the program and its configuration
          pc, result,
          held,          \* what gateway_run owns
          stuck,         \* what could not be given back
          stop,          \* graceful_shutdown_requested
          sequence,      \* of the simulated source
          stored,        \* measurements in the outbox
          received,      \* measurements the broker has
          attempt, tick,
          net_pc, fds, index, part, up, down, parsed, frame_ok, net_result,
          library,       \* of module MqttLibrary
          state, loop_started, owner, loop, callback, disconnecting, link,
          suback, subscribed,   \* of MqttCommandReceiver
          faults

config == <<build, mode, source_kind>>
data == <<sequence, stored, received>>
network == <<net_pc, fds, index, part, up, down, parsed, frame_ok, net_result>>
receiver == <<state, loop_started, owner, loop, callback, disconnecting, link,
              suback, subscribed>>
callees == <<network, library, receiver>>
vars == <<config, pc, result, held, stuck, stop, data, attempt, tick, callees, faults>>

Smoke == INSTANCE LoopbackSmoke WITH pc <- net_pc, result <- net_result

Receiver == INSTANCE MqttCommandReceiver

Storage == build \in {"storage", "full"}
Mqtt == build \in {"mqtt", "full"}

\* gateway_run has validated the configuration: MQTT_SMOKE needs MQTT, a
\* source other than the simulated one needs storage (and only the service
\* looks at it).
Init ==
    /\ build \in {"plain", "storage", "mqtt", "full"}
    /\ mode \in {"SERVICE", "SMOKE"} \cup (IF Mqtt THEN {"MQTT_SMOKE"} ELSE {})
    /\ source_kind \in {"SIMULATED"} \cup
                      (IF Storage /\ mode = "SERVICE" THEN {"STM32_MODBUS"} ELSE {})
    /\ pc = "install" /\ result = -1 /\ held = {} /\ stuck = {} /\ stop = FALSE
    /\ sequence = 0 /\ stored = {} /\ received = {} /\ attempt = 0 /\ tick = 0
    /\ Smoke!Init /\ Receiver!Init /\ library = NoLibrary

Fault == faults < MaxFaults /\ faults' = faults + 1
Goto(from, to) == pc = from /\ pc' = to
Same == UNCHANGED <<config, stuck, stop, data, attempt, tick, network, receiver>>

\* A call that succeeds and goes on, having acquired `what`; a publisher holds
\* a reference to the library.
Step(from, what, to) ==
    /\ Goto(from, to) /\ held' = held \cup what
    /\ library' = IF "publisher" \in what THEN mqtt_library_acquire(library) ELSE library
    /\ Same /\ UNCHANGED <<result, faults>>

\* A call that fails; everything acquired so far is given back at `to`.
Fails(from, to) ==
    /\ Goto(from, to) /\ Fault
    /\ library' \in IF from \in {"create", "smoke_create"}
                    THEN FailedCreation(library) ELSE {library}
    /\ Same /\ UNCHANGED <<result, held>>
-----------------------------------------------------------------------------
(* Start-up. *)
Install == Step("install", {}, "logger")

InitLogger == Step("logger", {"logger"}, "log_start")

\* Nothing is held yet: gateway_run returns.
StartFails == \E at \in {"install", "logger"} : Fails(at, "returned")

LogStart ==
    Step("log_start", {}, CASE mode = "SMOKE" -> "smoke"
                            [] mode = "MQTT_SMOKE" -> "smoke_create"
                            [] mode = "SERVICE" /\ Storage -> "open_store"
                            [] OTHER -> "service")

OpenStore == Step("open_store", {"store"}, "interval")

\* outbox_store_load_interval and outbox_store_get_stats.
LoadInterval == Step("interval", {}, "source")

OpenSource ==
    Step("source", IF source_kind = "STM32_MODBUS" THEN {"source"} ELSE {},
         IF Mqtt THEN "create" ELSE "service")

CreatePublisher == Step("create", {"publisher"}, "start")

StartPublisher == Step("start", {}, "service")

StartUpFails ==
    \E at \in {"log_start", "open_store", "interval", "source", "create", "start"} :
        /\ at = "source" => source_kind = "STM32_MODBUS"
        /\ Fails(at, "shutdown")
-----------------------------------------------------------------------------
(* The network smoke test, and the service of the four builds. *)
NetworkSmoke ==
    /\ pc = "smoke" /\ Smoke!Progress
    /\ UNCHANGED <<config, pc, result, held, stuck, stop, data, attempt, tick, library, receiver>>

NetworkSmokeFails ==
    /\ pc = "smoke" /\ Smoke!Fail
    /\ UNCHANGED <<config, pc, result, held, stuck, stop, data, attempt, tick, library, receiver>>

NetworkSmokeReturns ==
    /\ Goto("smoke", "shutdown") /\ net_pc = "returned" /\ result' = net_result
    /\ Same /\ UNCHANGED <<held, library, faults>>

\* wait_for_stop, and in the build with MQTT but no storage as well.
WaitForStop ==
    /\ ~Storage /\ stop /\ Step("service", {}, "log_stop")

\* gateway_store_next_measurement, then Ticks waits of 100 ms.
StoreNext ==
    /\ build = "storage" /\ pc = "service" /\ tick = 0 /\ ~stop
    /\ \/ /\ sequence < MaxStored /\ sequence' = sequence + 1
          /\ stored' = stored \cup {sequence + 1}
       \/ source_kind = "STM32_MODBUS" /\ UNCHANGED <<sequence, stored>>   \* NO_DATA
    /\ tick' = Ticks
    /\ UNCHANGED <<config, pc, result, held, stuck, stop, received, attempt, faults, callees>>

Wait ==
    /\ build = "storage" /\ pc = "service" /\ tick > 0 /\ ~stop /\ tick' = tick - 1
    /\ UNCHANGED <<config, pc, result, held, stuck, stop, data, attempt, faults, callees>>


StorageStops ==
    /\ build = "storage" /\ stop /\ pc = "service" /\ pc' = "log_stop" /\ tick' = 0
    /\ UNCHANGED <<config, result, held, stuck, stop, data, attempt, faults, callees>>

ServiceFails == build # "full" /\ Fails("service", "shutdown")

LogStop ==
    \/ /\ Goto("log_stop", "shutdown") /\ result' = 0
       /\ Same /\ UNCHANGED <<held, library, faults>>
    \/ Fails("log_stop", "shutdown")
-----------------------------------------------------------------------------
(* gateway_workers_run, as far as it owns the command receiver: "stopping"   *)
(* and "failed" are its label STOP with result 0 and -1.                     *)
Workers == build = "full" /\ pc \in {"service", "stopping", "failed"}

\* An action of the receiver's module, while the rest stands still.
ReceiverOnly ==
    UNCHANGED <<config, pc, result, held, stuck, stop, data, attempt, tick, network, library, faults>>

CreateReceiver ==
    /\ Workers /\ pc = "service" /\ Receiver!Create
    /\ library' = mqtt_library_acquire(library)
    /\ UNCHANGED <<config, pc, result, held, stuck, stop, data, attempt, tick, network, faults>>

\* A mutex, a queue or the receiver cannot be made: CLEANUP, nothing to stop.
CreateReceiverFails ==
    /\ Workers /\ owner = "absent" /\ Goto("service", "shutdown") /\ Fault
    /\ library' \in FailedCreation(library)
    /\ Same /\ UNCHANGED <<result, held>>

StartReceiver ==
    Workers /\ pc = "service" /\ Receiver!Start(TRUE) /\ ReceiverOnly

\* The command thread or the receiver does not start.
StartReceiverFails ==
    /\ Workers /\ Goto("service", "failed") /\ Fault
    /\ owner = "new" /\ (Receiver!Start(FALSE) \/ UNCHANGED receiver)
    /\ UNCHANGED <<config, result, held, stuck, stop, data, attempt, tick, network, library>>

\* The coordinator's loop ends with a stop request, ...
CoordinatorStops ==
    /\ Workers /\ owner = "running" /\ stop /\ Goto("service", "stopping")
    /\ Same /\ UNCHANGED <<result, held, library, faults>>

\* ... or because a worker failed, which may still happen while it stops them.
WorkerFails ==
    /\ Workers /\ owner # "absent" /\ pc \in {"service", "stopping"}
    /\ pc = "service" => owner = "running"
    /\ pc' = "failed" /\ Fault
    /\ Same /\ UNCHANGED <<result, held, library>>

Stopping == Workers /\ pc # "service"

DestroyReceiver ==
    /\ Stopping
    /\ Receiver!DestroyBegin \/ Receiver!DestroyDisconnect \/ Receiver!DestroyCancel
    /\ ReceiverOnly

\* The join, and the reference to the library.
ReceiverDestroyed ==
    /\ Stopping /\ Receiver!DestroyJoin /\ library' = mqtt_library_release(library)
    /\ UNCHANGED <<config, pc, result, held, stuck, stop, data, attempt, tick, network, faults>>

\* The other threads are joined and gateway_workers_run returns.
WorkersReturn ==
    /\ Stopping /\ owner = "gone"
    /\ pc' = IF pc = "stopping" THEN "log_stop" ELSE "shutdown"
    /\ Same /\ UNCHANGED <<result, held, library, faults>>

\* The network thread, whatever gateway_run does meanwhile.
ReceiverNetwork == Receiver!Network /\ ReceiverOnly

ReceiverCallback == Receiver!Callback /\ ReceiverOnly
-----------------------------------------------------------------------------
(* run_mqtt_smoke and gateway_publish_with_retry. *)
SmokeCreate == Step("smoke_create", {"publisher"}, "smoke_start")

SmokeStart == Step("smoke_start", {}, "smoke_next")

SmokeSetUpFails == \E at \in {"smoke_create", "smoke_start"} : Fails(at, "smoke_done")

\* The next measurement, or the end of the loop.
SmokeNext ==
    /\ pc = "smoke_next"
    /\ IF sequence = SmokeCount
       THEN pc' = "smoke_done" /\ result' = 0 /\ UNCHANGED <<sequence, attempt>>
       ELSE /\ pc' = "connect" /\ sequence' = sequence + 1 /\ attempt' = 1
            /\ UNCHANGED result
    /\ UNCHANGED <<config, held, stuck, stop, stored, received, tick, faults, callees>>

SmokeEnds == pc' = "smoke_done" /\ attempt' = 0

\* The next attempt, or none is left.
Again ==
    IF attempt < MaxAttempts THEN pc' = "connect" /\ attempt' = attempt + 1 ELSE SmokeEnds

\* The stop request is looked at before and after the wait for a connection.
WaitConnected ==
    /\ pc = "connect"
    /\ \/ ~stop /\ pc' = "publish" /\ UNCHANGED <<attempt, faults>>
       \/ ~stop /\ Again /\ UNCHANGED faults
       \/ stop /\ SmokeEnds /\ UNCHANGED faults
       \/ ~stop /\ SmokeEnds /\ Fault
    /\ UNCHANGED <<config, result, held, stuck, stop, data, tick, callees>>

\* mqtt_publisher_publish: OK once the broker has it; TIMEOUT tells nothing.
Publish ==
    /\ pc = "publish"
    /\ \/ /\ received' = received \cup {sequence}
          /\ pc' = "smoke_next" /\ attempt' = 0 /\ UNCHANGED faults
       \/ Again /\ received' \in {received, received \cup {sequence}} /\ UNCHANGED faults
       \/ SmokeEnds /\ Fault /\ UNCHANGED received
    /\ UNCHANGED <<config, result, held, stuck, stop, sequence, stored, tick, callees>>

Release(from, what, to) ==
    /\ Goto(from, to) /\ held' = held \ {what}
    /\ library' = IF what = "publisher" /\ what \in held
                  THEN mqtt_library_release(library) ELSE library
    /\ Same /\ UNCHANGED <<result, faults>>

SmokeDone == Release("smoke_done", "publisher", "shutdown")
-----------------------------------------------------------------------------
(* SHUTDOWN. *)

Keeps(from, what, to) ==
    /\ Goto(from, to) /\ what \in held /\ Fault /\ result' = -1
    /\ held' = held \ {what} /\ stuck' = stuck \cup {what}
    /\ UNCHANGED <<config, stop, data, attempt, tick, callees>>

DestroyPublisher == Release("shutdown", "publisher", "close_source")

CloseSource == Release("close_source", "source", "close_store")

\* Mutant of CloseStore: a failure is only reported.
CloseStoreQuietly ==
    \/ Release("close_store", "store", "stop_logger")
    \/ /\ Goto("close_store", "stop_logger") /\ "store" \in held /\ Fault
       /\ stuck' = stuck \cup {"store"} /\ held' = held \ {"store"}
       /\ UNCHANGED <<config, result, stop, data, attempt, tick, callees>>

CloseStore ==
    Release("close_store", "store", "stop_logger") \/ Keeps("close_store", "store", "stop_logger")

\* async_logger_shutdown and async_logger_destroy.
StopLogger ==
    Release("stop_logger", "logger", "returned") \/ Keeps("stop_logger", "logger", "returned")

\* The handler of graceful_shutdown_install.
Signal ==
    /\ pc \notin {"install", "returned"} /\ ~stop /\ stop' = TRUE
    /\ UNCHANGED <<config, pc, result, held, stuck, data, attempt, tick, faults, callees>>

Progress ==
    \/ Install \/ InitLogger \/ LogStart \/ OpenStore \/ LoadInterval \/ OpenSource
    \/ CreatePublisher \/ StartPublisher
    \/ NetworkSmoke \/ NetworkSmokeReturns
    \/ CreateReceiver \/ StartReceiver \/ CoordinatorStops
    \/ DestroyReceiver \/ ReceiverDestroyed \/ WorkersReturn
    \/ WaitForStop \/ StoreNext \/ Wait \/ StorageStops \/ LogStop
    \/ SmokeCreate \/ SmokeStart \/ SmokeNext \/ WaitConnected \/ Publish \/ SmokeDone
    \/ DestroyPublisher \/ CloseSource \/ CloseStore \/ StopLogger

Next ==
    \/ Progress \/ StartFails \/ StartUpFails \/ ServiceFails \/ NetworkSmokeFails
    \/ CreateReceiverFails \/ StartReceiverFails \/ WorkerFails \/ SmokeSetUpFails
    \/ ReceiverNetwork \/ ReceiverCallback \/ Signal

Spec == Init /\ [][Next]_vars

\* The threads run: gateway_run goes on, a callback that has begun is made.  A
\* broker that has a SUBSCRIBE answers it if the connection lasts.
FairSpec ==
    /\ Spec /\ WF_vars(Progress) /\ WF_vars(ReceiverCallback)
    /\ SF_vars(Receiver!NetworkSuback /\ ReceiverOnly)
-----------------------------------------------------------------------------
Resources == {"logger", "store", "source", "publisher"}

TypeOK ==
    /\ held \subseteq Resources /\ stuck \subseteq Resources /\ result \in {-1, 0}
    /\ sequence \in 0..(IF mode = "SERVICE" THEN MaxStored ELSE SmokeCount)
    /\ attempt \in 0..MaxAttempts /\ tick \in 0..Ticks
    /\ state \in {"none", "STOPPED", "CONNECTING", "READY", "FAILED", "STOPPING"}

\* What a return of gateway_run says (gateway.h): whatever failed on the way, it
\* holds nothing, neither a socket of the network smoke test nor one of its
\* resources, except what refused to close; and 0 means that everything was
\* closed and the work is done.  A service was asked to stop, the MQTT smoke
\* test has every measurement at the broker, in whatever attempt it got there,
\* and the network smoke test has received all frames of both directions.
ReturnIsTrue ==
    pc = "returned" =>
        /\ held = {} /\ fds = {}
        /\ result = 0 =>
              /\ stuck = {}
              /\ mode = "SERVICE" => stop
              /\ mode = "MQTT_SMOKE" => received = 1..SmokeCount
              /\ mode = "SMOKE" => /\ up = <<>> /\ down = <<>>
                                  /\ frame_ok = [gateway |-> Count, client |-> Count]

\* gateway_workers_run gives the message handler a pointer to its own stack:
\* once it has returned, whatever made it return and whatever callback was
\* running when the receiver was destroyed, the network thread is gone.
NoCallbackAfterReturn == ~Workers => callback = "none" /\ ~loop

\* libmosquitto is initialised exactly while the publisher or the receiver
\* exists: neither cleans it up under the other, a failed creation leaves no
\* reference, and gateway_run returns with the library cleaned up.
LibraryWhileUsed ==
    LET users == (IF "publisher" \in held THEN 1 ELSE 0)
                 + (IF owner \in {"absent", "gone"} THEN 0 ELSE 1)
    IN  library = [count |-> users, initialised |-> users > 0]

\* The topic is subscribed again after every reconnect: a connection that
\* lasts is subscribed in the end, or the failure is recorded, or the receiver
\* is being destroyed.
ResubscribedAfterReconnect ==
    link = "up" ~> subscribed \/ link # "up" \/ state \in {"FAILED", "STOPPING"}

=============================================================================
