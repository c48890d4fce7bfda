---------------------------- MODULE CommandWorkers ----------------------------
(***************************************************************************)
(* The two command entries of gateway_workers.c: gateway_command_worker    *)
(* serves one local client at a time, gateway_mqtt_command_worker serves   *)
(* the requests the MQTT callback queued.  Both run                        *)
(* gateway_execute_command, which asks the storage worker through a pair   *)
(* of one-slot queues when the command needs the database.                 *)
(***************************************************************************)
EXTENDS WorkerState

commandOthers == <<store, broker, signal, dataQ, sample, sto, mqttL, coordL,
                   boots, boot_base, produced, confirmed>>

NoReply == [status |-> "none", interval_ms |-> NoInterval]

Ok(v) == [status |-> "ok", interval_ms |-> v]

Error == [status |-> "error", interval_ms |-> NoInterval]

-----------------------------------------------------------------------------
(***************************************************************************)
(* gateway_execute_command and gateway_handle_command, run by handler t.   *)
(***************************************************************************)
\* Mutant of LockCommandMutex: nobody waits for the mutex.
EnterUnlocked(t) ==
    /\ pc[t] = "lock"
    /\ command_mutex' = t
    /\ Goto(t, "execute")
    /\ UNCHANGED <<commandOthers, socket_file, stop_requested, fatal_error,
                   status, ctlQ, mqtt_command_queue, closed, dedup, command,
                   reply, request_id, locals, remotes, executed, late, faulted>>

LockCommandMutex(t) ==
    /\ pc[t] = "lock"
    /\ command_mutex = "free"
    /\ command_mutex' = t
    /\ Goto(t, "execute")
    /\ UNCHANGED <<commandOthers, socket_file, stop_requested, fatal_error,
                   status, ctlQ, mqtt_command_queue, closed, dedup, command,
                   reply, request_id, locals, remotes, executed, late, faulted>>

\* gateway_handle_command returned 0: unlock, and answer.
Answer(t, r) ==
    /\ reply' = [reply EXCEPT ![t] = r]
    /\ command_mutex' = "free"
    /\ Goto(t, "answer")
    /\ UNCHANGED <<stop_requested, fatal_error>>

\* gateway_handle_command returned -1: unlock; the local worker drops its
\* client, the remote worker takes the whole gateway down.
HandlerFail(t) ==
    /\ command_mutex' = "free"
    /\ UNCHANGED reply
    /\ IF t = "remote"
       THEN WorkerFail(t, "done")
       ELSE Goto(t, "listen") /\ UNCHANGED <<stop_requested, fatal_error>>

\* The commands that need no other thread.
ExecuteHere(t) ==
    /\ pc[t] = "execute"
    /\ command[t].kind \notin Kinds
    /\ \/ /\ command[t].kind \in {"pause_collection", "resume_collection"}
          /\ collection_paused' = (command[t].kind = "pause_collection")
          /\ late' = IF collection_paused THEN late ELSE 0
       \/ /\ command[t].kind = "query"
          /\ UNCHANGED <<collection_paused, late>>
    /\ Answer(t, Ok(interval_ms))
    /\ UNCHANGED <<commandOthers, socket_file, interval_ms, ctlQ,
                   mqtt_command_queue, closed, dedup, command, request_id,
                   locals, remotes, executed, faulted>>

\* bq_push on storage_control_request_queue: only BQ_OK goes on.
AskStorage(t) ==
    /\ pc[t] = "execute"
    /\ command[t].kind \in Kinds
    /\ \/ /\ "control_request" \notin closed
          /\ ~IsFull(control_request_queue, 1)
          /\ control_request_queue' = Append(control_request_queue, command[t])
          /\ Goto(t, "await")
          /\ UNCHANGED <<command_mutex, reply, stop_requested, fatal_error>>
       \/ /\ \/ "control_request" \in closed
             \/ IsFull(control_request_queue, 1)
          /\ HandlerFail(t)
          /\ UNCHANGED control_request_queue
    /\ UNCHANGED <<commandOthers, socket_file, status, control_result_queue,
                   mqtt_command_queue, closed, dedup, command, request_id,
                   locals, remotes, executed, late, faulted>>

\* Mutant of TakeStorageAnswer: the new interval is applied whether or not it
\* was saved.
TakeAnswerUnsaved(t) ==
    /\ pc[t] = "await"
    /\ ~IsEmpty(control_result_queue)
    /\ control_result_queue' = Tail(control_result_queue)
    /\ LET r == Head(control_result_queue)
       IN  interval_ms' = IF r.kind = "set_interval" THEN r.interval_ms
                          ELSE interval_ms
    /\ Answer(t, Ok(interval_ms'))
    /\ UNCHANGED <<commandOthers, socket_file, collection_paused,
                   control_request_queue, mqtt_command_queue, closed, dedup,
                   command, request_id, locals, remotes, executed, late, faulted>>

\* bq_pop on storage_control_result_queue returned a result, whoever asked
\* for it: only its kind is compared with the command.
TakeStorageAnswer(t) ==
    /\ pc[t] = "await"
    /\ ~IsEmpty(control_result_queue)
    /\ control_result_queue' = Tail(control_result_queue)
    /\ LET r == Head(control_result_queue)
       IN  \/ /\ r.kind # command[t].kind
              /\ HandlerFail(t)
              /\ UNCHANGED interval_ms
           \/ /\ r.kind = command[t].kind /\ ~r.ok
              /\ Answer(t, Error)
              /\ UNCHANGED interval_ms
           \/ /\ r.kind = command[t].kind /\ r.ok
              /\ interval_ms' = IF r.kind = "set_interval"
                                THEN r.interval_ms ELSE interval_ms
              /\ Answer(t, Ok(interval_ms'))
    /\ UNCHANGED <<commandOthers, socket_file, collection_paused,
                   control_request_queue, mqtt_command_queue, closed, dedup,
                   command, request_id, locals, remotes, executed, late, faulted>>

\* bq_pop timed out and a stop is requested: the request is abandoned.  A
\* result that arrived after the timeout stays in the queue.
AbandonRequest(t) ==
    /\ pc[t] = "await"
    /\ ShouldStop
    /\ HandlerFail(t)
    /\ UNCHANGED <<commandOthers, socket_file, status, ctlQ,
                   mqtt_command_queue, closed, dedup, command, request_id,
                   locals, remotes, executed, late, faulted>>

Handler(t) ==
    \/ LockCommandMutex(t) \/ ExecuteHere(t) \/ AskStorage(t)
    \/ TakeStorageAnswer(t) \/ AbandonRequest(t)

-----------------------------------------------------------------------------
(***************************************************************************)
(* gateway_command_worker.                                                 *)
(***************************************************************************)
localOthers == <<commandOthers, status, ctlQ, mqtt_command_queue, closed, dedup,
                 command_mutex, reply, request_id, remotes, executed, late>>

\* bind() fails when the path exists, and the path is not removed then.
LocalBind ==
    /\ pc["local"] = "bind"
    /\ \/ /\ ~socket_file
          /\ socket_file' = TRUE
          /\ Goto("local", "listen")
          /\ UNCHANGED <<stop_requested, fatal_error>>
       \/ /\ socket_file
          /\ WorkerFail("local", "done")
          /\ UNCHANGED socket_file
    /\ UNCHANGED <<localOthers, command, locals, faulted>>

\* poll, accept and recv_line delivered a command line and no stop was seen.
LocalReceive ==
    /\ pc["local"] = "listen"
    /\ ~ShouldStop
    /\ locals < MaxLocal
    /\ locals' = locals + 1
    /\ \E c \in LocalCommands : command' = [command EXCEPT !["local"] = c]
    /\ Goto("local", "lock")
    /\ UNCHANGED <<localOthers, socket_file, stop_requested, fatal_error, faulted>>

\* The loop ends by a stop or by an error of the socket, and the path is
\* unlinked; a failing unlink is an error too.
LocalLeave ==
    /\ pc["local"] = "listen"
    /\ \/ /\ ShouldStop
          /\ Goto("local", "done")
          /\ socket_file' = FALSE
          /\ UNCHANGED <<stop_requested, fatal_error, faulted>>
       \/ /\ Fault("socket")
          /\ WorkerFail("local", "done")
          /\ socket_file' \in BOOLEAN
    /\ UNCHANGED <<localOthers, command, locals>>

\* send_all, then the client is closed whether or not the reply went out.
LocalAnswer ==
    /\ pc["local"] = "answer"
    /\ Goto("local", "listen")
    /\ UNCHANGED <<localOthers, socket_file, stop_requested, fatal_error,
                   command, locals, faulted>>

Local == LocalBind \/ LocalReceive \/ LocalLeave \/ LocalAnswer

-----------------------------------------------------------------------------
(***************************************************************************)
(* gateway_mqtt_command_received, called by libmosquitto's thread, and     *)
(* gateway_mqtt_command_worker.                                            *)
(***************************************************************************)
remoteOthers == <<commandOthers, socket_file, status, ctlQ, closed,
                  command_mutex, locals, late>>

\* bq_push on mqtt_command_queue with timeout 0: a full queue drops m.
MqttCommandReceived(m) ==
    /\ pc["receiver"] = "up"
    /\ remotes < MaxRemote
    /\ remotes' = remotes + 1
    /\ mqtt_command_queue' =
           IF "mqtt_command" \notin closed
              /\ ~IsFull(mqtt_command_queue, CommandCap)
           THEN Append(mqtt_command_queue, m)
           ELSE mqtt_command_queue
    /\ UNCHANGED <<remoteOthers, stop_requested, fatal_error, dedup, pc,
                   command, reply, request_id, executed, faulted>>

\* bq_pop on mqtt_command_queue, the checks of the message and the dedup
\* lookup.  Only a MISS goes on to execute; the others are answered, with an
\* error response that may be impossible to build or with the cached one.
RemotePop ==
    /\ pc["remote"] = "pop"
    /\ \/ /\ ~IsEmpty(mqtt_command_queue)
          /\ LET m == Head(mqtt_command_queue)
                 verdict == IF m.command = Unsupported THEN "UNSUPPORTED"
                            ELSE FindCached(dedup_entries, m.request_id, m.command)
             IN  \/ /\ m.request_id = BadId
                    /\ Goto("remote", "pop")
                    /\ UNCHANGED <<command, request_id, executed,
                                   stop_requested, fatal_error, faulted>>
                 \/ /\ m.request_id # BadId /\ verdict # "MISS"
                    /\ \/ /\ Goto("remote", "publish")
                          /\ UNCHANGED <<stop_requested, fatal_error, faulted>>
                       \/ /\ verdict # "MATCH"
                          /\ Fault("response")
                          /\ WorkerFail("remote", "done")
                    /\ UNCHANGED <<command, request_id, executed>>
                 \/ /\ m.request_id # BadId /\ verdict = "MISS"
                    /\ command' = [command EXCEPT !["remote"] = m.command]
                    /\ request_id' = m.request_id
                    /\ executed' = Append(executed, m.request_id)
                    /\ Goto("remote", "lock")
                    /\ UNCHANGED <<stop_requested, fatal_error, faulted>>
          /\ mqtt_command_queue' = Tail(mqtt_command_queue)
       \/ /\ IsEmpty(mqtt_command_queue)
          /\ "mqtt_command" \in closed
          /\ Goto("remote", "done")
          /\ UNCHANGED <<command, request_id, executed, mqtt_command_queue,
                         stop_requested, fatal_error, faulted>>
    /\ UNCHANGED <<remoteOthers, dedup, reply, remotes>>

\* Build the response and cache it, then publish it.  A response that cannot
\* be built or does not fit its slot is fatal.
RemoteAnswer ==
    /\ pc["remote"] = "answer"
    /\ \/ /\ dedup_entries' = CacheResponse(dedup_entries, dedup_next,
                                            request_id, command["remote"],
                                            reply["remote"])
          /\ dedup_next' = NextSlot(dedup_next)
          /\ Goto("remote", "publish")
          /\ UNCHANGED <<stop_requested, fatal_error, faulted>>
       \/ /\ Fault("response")
          /\ WorkerFail("remote", "done")
          /\ UNCHANGED dedup
    /\ UNCHANGED <<remoteOthers, mqtt_command_queue, command, reply,
                   request_id, remotes, executed>>

\* gateway_publish_command_response returned; its result is only logged.
RemotePublish ==
    /\ pc["remote"] = "publish"
    /\ Goto("remote", "pop")
    /\ UNCHANGED <<remoteOthers, mqtt_command_queue, stop_requested,
                   fatal_error, dedup, command, reply, request_id, remotes,
                   executed, faulted>>

Remote == RemotePop \/ RemoteAnswer \/ RemotePublish
=============================================================================
