----------------------------- MODULE WorkerState ------------------------------
(***************************************************************************)
(* The state that the threads of gateway_workers_run() share, and the      *)
(* small operations all of them use: the stop flags, the bounded queues    *)
(* and a worker's failure.  DataWorkers and CommandWorkers define what the *)
(* threads do with it and GatewayWorkers composes them.                    *)
(*                                                                         *)
(* A queue operation of blocking_queue.c is atomic here: the queue's own   *)
(* locking is the subject of module BlockingQueue, which shows that it     *)
(* implements atomic operations.  A call with a timeout is a wait: the     *)
(* steps below say what each outcome leads to.                             *)
(***************************************************************************)
EXTENDS Integers, Sequences, Outbox, CommandDedup

CONSTANTS
    MeasurementCap,   \* GATEWAY_MEASUREMENT_QUEUE_CAPACITY, 32 in the code
    CommandCap,       \* GATEWAY_MQTT_COMMAND_QUEUE_CAPACITY, 8 in the code
    Intervals,        \* the sampling intervals in [100, 60000] under study
    ConfigInterval,   \* the interval of the configuration file
    RequestIds,       \* the request ids of remote commands
    LocalCommands,    \* the commands a local client may send
    RemoteMessages,   \* the messages that may arrive on the request topic
    Faults,           \* the kinds of failure the environment may inject
    Signals,          \* whether SIGINT or SIGTERM may arrive
    SocketSwept,      \* whether the supervisor removes the runtime directory
    MaxProduced,      \* bound: measurements the source delivers
    MaxLocal,         \* bound: commands from local clients
    MaxRemote,        \* bound: messages on the request topic
    MaxBoots          \* bound: starts of the process

NoInterval == 0       \* gateway_config has no row

Kinds == {"set_interval", "get_storage_stats"}

\* set_interval with a value in range, the other command that needs the
\* database, the two that change the sampling flag, and "query", which stands
\* for every command whose reply changes nothing: status, get_config,
\* get_version, a set_interval out of range and an unknown command.
Command ==
    [kind : {"set_interval"}, interval_ms : Intervals]
    \cup [kind : {"get_storage_stats", "pause_collection",
                  "resume_collection", "query"}, interval_ms : {NoInterval}]

NoCommand == [kind |-> "none", interval_ms |-> NoInterval]

Unsupported == [kind |-> "unsupported", interval_ms |-> NoInterval]

BadId == "bad request_id"   \* bad JSON, or a request_id the worker rejects

RemoteMessage ==
    [request_id : RequestIds \cup {BadId}, command : Command \cup {Unsupported}]

FaultKinds == {"crash", "start", "source", "store", "clock", "payload",
               "socket", "response"}

ASSUME ConstantsAssumption ==
    /\ MeasurementCap \in Nat \ {0}
    /\ CommandCap \in Nat \ {0}
    /\ Intervals \subseteq Nat \ {NoInterval}
    /\ ConfigInterval \in Intervals
    /\ BadId \notin RequestIds
    /\ LocalCommands \subseteq Command
    /\ RemoteMessages \subseteq RemoteMessage
    /\ Faults \subseteq FaultKinds
    /\ Signals \in BOOLEAN
    /\ SocketSwept \in BOOLEAN
    /\ MaxProduced \in Nat
    /\ MaxLocal \in Nat
    /\ MaxRemote \in Nat
    /\ MaxBoots \in Nat \ {0}

NoReport == [id |-> 0, ok |-> FALSE]

Handlers == {"local", "remote"}   \* the two callers of gateway_execute_command

Threads == {"coordinator", "receiver", "source", "storage", "mqtt"} \cup Handlers

Queues == {"measurement", "delivery", "result", "control_request",
           "control_result", "mqtt_command"}

(***************************************************************************)
(* What survives the process.                                              *)
(***************************************************************************)
VARIABLES
    rows,            \* the outbox table
    saved_interval,  \* the row of gateway_config, or NoInterval
    socket_file,     \* the command socket exists in the file system
    net,             \* outbox ids handed to libmosquitto and not yet settled
    received         \* outbox ids the broker has received at least once

(***************************************************************************)
(* gateway_workers_t, and the signal flag of graceful_shutdown.c.          *)
(***************************************************************************)
VARIABLES
    signal, stop_requested, fatal_error,
    interval_ms, collection_paused,
    measurement_queue, delivery_queue, result_queue,
    control_request_queue, control_result_queue, mqtt_command_queue,
    closed,          \* the queues bq_close was called on
    command_mutex,   \* the handler that holds it, or "free"
    dedup_entries, dedup_next

(***************************************************************************)
(* The threads: their position and their local variables.                  *)
(***************************************************************************)
VARIABLES
    pc,
    sample,          \* source: the measurement in hand
    sto,             \* storage: the locals of gateway_storage_worker
    job,             \* mqtt: the outbox id being delivered
    puback,          \* mqtt: the PUBACK of the current publish has arrived
    report,          \* mqtt: the report being handed back
    command, reply,  \* each handler: the command and its reply
    request_id,      \* remote: the id of the request in hand
    step, result     \* coordinator: position in start-up or stop, result

(***************************************************************************)
(* Bounds, and history that only the properties read.                      *)
(***************************************************************************)
VARIABLES
    boots, locals, remotes,
    produced,        \* measurements collected so far, over all starts
    boot_base,       \* produced when the process started
    confirmed,       \* outbox ids whose publish returned OK in this process
    executed,        \* request ids executed by this process, in order
    late,            \* measurements collected since the pause took effect
    faulted          \* the environment injected a failure into this process

store   == <<rows, saved_interval>>
broker  == <<net, received>>
flags   == <<signal, stop_requested, fatal_error>>
status  == <<interval_ms, collection_paused>>
dataQ   == <<measurement_queue, delivery_queue, result_queue>>
ctlQ    == <<control_request_queue, control_result_queue>>
dedup   == <<dedup_entries, dedup_next>>
mqttL   == <<job, puback, report>>
handL   == <<command_mutex, command, reply, request_id>>
coordL  == <<step, result>>
bounds  == <<boots, locals, remotes, boot_base>>

vars == <<store, socket_file, broker, flags, status, dataQ, ctlQ,
          mqtt_command_queue, closed, dedup, pc, sample, sto, mqttL, handL,
          coordL, bounds, produced, confirmed, executed, late, faulted>>

-----------------------------------------------------------------------------
\* gateway_workers_should_stop
ShouldStop == stop_requested \/ signal

Goto(t, where) == pc' = [pc EXCEPT ![t] = where]

\* gateway_worker_fail, and the position the failing thread goes to.
WorkerFail(t, where) ==
    /\ stop_requested' = TRUE
    /\ fatal_error' = TRUE
    /\ UNCHANGED signal
    /\ Goto(t, where)

IsFull(q, cap) == Len(q) >= cap

IsEmpty(q) == q = <<>>

\* The environment injects a failure of this kind.
Fault(kind) == kind \in Faults /\ faulted' = TRUE

\* The process exists and has not returned from gateway_workers_run.
Running == pc["coordinator"] \notin {"down", "exited"}
=============================================================================
