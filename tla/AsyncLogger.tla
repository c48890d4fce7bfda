------------------------------ MODULE AsyncLogger ------------------------------
(***************************************************************************)
(* The asynchronous logger (modules/log/async_logger.c): producers that    *)
(* call async_logger_log, the writer thread, shutdown and destroy.         *)
(*                                                                         *)
(* The queue is what module AtomicQueue says a bounded queue is.  A line   *)
(* is its sequence number; the rotation of the files is part of the write  *)
(* of a line: it may fail and lose `file`.                                 *)
(***************************************************************************)
EXTENDS Integers, Sequences, FiniteSets, Functions

CONSTANTS Producers,
          Capacity,    \* capacity of the queue
          MaxSequence  \* bound on the messages numbered

\* "free" tells that nobody holds submit_mutex.
ASSUME ProducersAssumption == "free" \notin Producers

VARIABLES durability,         \* the configuration: "BUFFERED" or "FSYNC_EACH",
          rotating,           \* and whether rotation_bytes > 0
          queue, closed,
          next_sequence, accepted, written, rejected,
          durable_sequence, write_error,
          submit_mutex,       \* the producer that holds it, or "free"
          asleep,             \* the producers asleep on durable_cond
          pc, message, result,\* of each producer
          writer,             \* where the writer thread is
          current,            \* the message the writer has popped
          lines, synced,      \* the lines written; how many are synced
          file,               \* FALSE: logger->file is NULL
          control, status,    \* init, shutdown, destroy; what shutdown returned
          ready               \* the resources init_ex has made

queue_vars == <<queue, closed>>
stats == <<next_sequence, accepted, written, rejected>>
durable == <<durable_sequence, write_error, asleep>>
producers == <<pc, message, result>>
output == <<lines, synced, file>>
config == <<durability, rotating>>
state == <<queue_vars, stats, durable, submit_mutex, producers, writer, current, output,
           control, status, ready>>
vars == <<config, state>>

life == <<control, status, ready>>

durable_mode == durability = "FSYNC_EACH"

Init ==
    /\ durability \in {"BUFFERED", "FSYNC_EACH"} /\ rotating \in BOOLEAN
    /\ queue = <<>> /\ closed = FALSE
    /\ next_sequence = 1 /\ accepted = 0 /\ written = 0 /\ rejected = 0
    /\ durable_sequence = 0 /\ write_error = FALSE
    /\ submit_mutex = "free" /\ asleep = {}
    /\ pc = [p \in Producers |-> "idle"]
    /\ message = [p \in Producers |-> 0]
    /\ result = [p \in Producers |-> "none"]
    /\ writer = "none" /\ current = 0
    /\ lines = <<>> /\ synced = 0 /\ file = FALSE
    /\ control = "init" /\ status = "none" /\ ready = {}
-----------------------------------------------------------------------------
(* async_logger_init_ex: its resources, in the order it makes them. *)
Resources == <<"queue", "stats_mutex", "submit_mutex", "durable_cond", "file", "thread">>

Make(resource) ==
    /\ control = "init" /\ Cardinality(ready) < Len(Resources)
    /\ resource = Resources[Cardinality(ready) + 1]
    /\ ready' = ready \cup {resource}
    /\ file' = (file \/ resource = "file")
    /\ IF resource = "thread" THEN control' = "running" /\ writer' = "pop"
                              ELSE UNCHANGED <<control, writer>>
    /\ UNCHANGED <<queue_vars, stats, durable, submit_mutex, producers, current, lines, synced,
                   status>>

\* One of them cannot be made (or fstat fails): cleanup_before_writer.
InitFails ==
    /\ control = "init" /\ control' = "failed"
    /\ ready' = ready \ {"queue", "stats_mutex", "submit_mutex", "durable_cond", "file"}
    /\ file' = FALSE
    /\ UNCHANGED <<queue_vars, stats, durable, submit_mutex, producers, writer, current, lines,
                   synced, status>>

Initialized == control \in {"running", "joining", "shutdown"}
-----------------------------------------------------------------------------
(* async_logger_log. *)
Goto(p, there) == pc' = [pc EXCEPT ![p] = there]

Return(p, r) ==
    /\ Goto(p, "idle")
    /\ result' = [result EXCEPT ![p] = r]
    /\ UNCHANGED message

\* The durable mode takes submit_mutex before it numbers the message.
LogBegin(p) ==
    /\ pc[p] = "idle" /\ Initialized /\ next_sequence <= MaxSequence
    /\ IF durable_mode THEN submit_mutex = "free" /\ submit_mutex' = p
                       ELSE UNCHANGED submit_mutex
    /\ Goto(p, "number")
    /\ result' = [result EXCEPT ![p] = "none"]
    /\ message' = [message EXCEPT ![p] = 0]
    /\ UNCHANGED <<queue_vars, stats, durable, writer, current, output, life>>

UnlockSubmit(p) == submit_mutex' = IF submit_mutex = p THEN "free" ELSE submit_mutex

\* The sequence number, under stats_mutex.
Number(p) ==
    /\ pc[p] = "number"
    /\ message' = [message EXCEPT ![p] = next_sequence]
    /\ next_sequence' = next_sequence + 1
    /\ Goto(p, "push")
    /\ UNCHANGED <<queue_vars, accepted, written, rejected, durable, submit_mutex, result,
                   writer, current, output, life>>

\* clock_gettime fails: the number is spent.
ClockFails(p) ==
    /\ pc[p] = "number"
    /\ next_sequence' = next_sequence + 1
    /\ UnlockSubmit(p) /\ Return(p, "error")
    /\ UNCHANGED <<queue_vars, accepted, written, rejected, durable, writer, current, output, life>>

\* bq_push without a timeout.
Push(p) ==
    /\ pc[p] = "push" /\ ~closed /\ Len(queue) < Capacity
    /\ queue' = Append(queue, message[p])
    /\ Goto(p, "count")
    /\ UNCHANGED <<closed, stats, durable, submit_mutex, message, result, writer, current,
                   output, life>>

PushRejected(p) ==
    /\ pc[p] = "push" /\ closed
    /\ rejected' = rejected + 1
    /\ UnlockSubmit(p) /\ Return(p, "error")
    /\ UNCHANGED <<queue_vars, next_sequence, accepted, written, durable, writer, current,
                   output, life>>

CountAccepted(p) ==
    /\ pc[p] = "count"
    /\ accepted' = accepted + 1
    /\ UnlockSubmit(p)
    /\ IF durable_mode THEN Goto(p, "wait") /\ UNCHANGED <<message, result>> ELSE Return(p, "ok")
    /\ UNCHANGED <<queue_vars, next_sequence, written, rejected, durable, writer, current,
                   output, life>>

\* Mutant of WaitDurable: the error ends the wait but does not fail the call.
WaitIgnoresError(p) ==
    /\ pc[p] = "wait" /\ p \notin asleep
    /\ IF durable_sequence < message[p] /\ ~write_error
       THEN asleep' = asleep \cup {p} /\ UNCHANGED producers
       ELSE Return(p, "ok") /\ UNCHANGED asleep
    /\ UNCHANGED <<queue_vars, stats, durable_sequence, write_error, submit_mutex, writer,
                   current, output, life>>

\* The wait on durable_cond, and its predicate again after each wake-up.
WaitDurable(p) ==
    /\ pc[p] = "wait" /\ p \notin asleep
    /\ IF durable_sequence < message[p] /\ ~write_error
       THEN asleep' = asleep \cup {p} /\ UNCHANGED producers
       ELSE Return(p, IF write_error THEN "error" ELSE "ok") /\ UNCHANGED asleep
    /\ UNCHANGED <<queue_vars, stats, durable_sequence, write_error, submit_mutex, writer,
                   current, output, life>>
-----------------------------------------------------------------------------
(* writer_main. *)
Pop ==
    /\ writer = "pop"
    /\ \/ /\ queue # <<>>
          /\ current' = Head(queue) /\ queue' = Tail(queue)
          /\ writer' = "write"
       \/ /\ queue = <<>> /\ closed
          /\ writer' = "sync" /\ UNCHANGED <<current, queue>>
    /\ UNCHANGED <<closed, stats, durable, submit_mutex, producers, output, life>>

\* write_one: the durable mode syncs the line.
WriteOne ==
    /\ writer = "write"
    /\ lines' = Append(lines, current)
    /\ synced' = IF durable_mode THEN Len(lines') ELSE synced
    /\ writer' = "publish"
    /\ UNCHANGED <<queue_vars, stats, durable, submit_mutex, producers, current, file,
                   life>>

\* It fails before or after the line is in the file; a failed rotation has
\* closed the file.
WriteFails ==
    /\ writer = "write"
    /\ lines' \in {lines, Append(lines, current)}
    /\ file' \in IF rotating THEN BOOLEAN ELSE {file}
    /\ writer' = "mark_error"
    /\ UNCHANGED <<queue_vars, stats, durable, submit_mutex, producers, current, synced,
                   life>>

\* The counters, and the durable sequence for the producers that wait.
PublishWritten ==
    /\ writer = "publish"
    /\ written' = written + 1
    /\ IF durable_mode THEN durable_sequence' = current /\ asleep' = {}
                       ELSE UNCHANGED <<durable_sequence, asleep>>
    /\ writer' = "pop"
    /\ UNCHANGED <<queue_vars, next_sequence, accepted, rejected, write_error, submit_mutex,
                   producers, current, output, life>>

\* The sync at the end, once the queue is closed and empty.
SyncAtEnd ==
    /\ writer = "sync"
    /\ \/ synced' = Len(lines) /\ writer' = "done"
       \/ UNCHANGED synced /\ writer' = "mark_error"
    /\ UNCHANGED <<queue_vars, stats, durable, submit_mutex, producers, current, lines, file,
                   life>>

\* mark_writer_error: the flag and the broadcast under stats_mutex ...
MarkError ==
    /\ writer = "mark_error"
    /\ write_error' = TRUE /\ asleep' = {}
    /\ writer' = "close"
    /\ UNCHANGED <<queue_vars, stats, durable_sequence, submit_mutex, producers, current,
                   output, life>>

\* Mutant of CloseAfterError: the queue stays open.
LeaveOpenAfterError ==
    /\ writer = "close" /\ writer' = "done"
    /\ UNCHANGED <<queue_vars, stats, durable, submit_mutex, producers, current, output,
                   life>>

\* ... then bq_close, so that nobody waits for a queue that is not read.
CloseAfterError ==
    /\ writer = "close" /\ writer' = "done"
    /\ closed' = TRUE
    /\ UNCHANGED <<queue, stats, durable, submit_mutex, producers, current, output,
                   life>>
-----------------------------------------------------------------------------
(* async_logger_shutdown and async_logger_destroy. *)

Shutdown ==
    /\ control = "running" /\ control' = "joining"
    /\ closed' = TRUE
    /\ UNCHANGED <<queue, stats, durable, submit_mutex, producers, writer, current, output,
                   status, ready>>

\* Mutant of ShutdownJoin: the error is read before the writer has ended.
ShutdownUnjoined ==
    /\ control = "joining" /\ control' = "shutdown"
    /\ ready' = ready \ {"thread"}
    /\ status' = IF write_error THEN "error" ELSE "ok"
    /\ UNCHANGED <<queue_vars, stats, durable, submit_mutex, producers, writer, current, output>>

ShutdownJoin ==
    /\ control = "joining" /\ writer = "done" /\ control' = "shutdown"
    /\ ready' = ready \ {"thread"}
    /\ status' = IF write_error THEN "error" ELSE "ok"
    /\ UNCHANGED <<queue_vars, stats, durable, submit_mutex, producers, writer, current, output>>

\* The gateway destroys the logger whatever shutdown returned, and destroy
\* asks for shutdown_complete only.  Nobody is in a call any more.
Destroy ==
    /\ control = "shutdown" /\ control' = "destroyed"
    /\ \A p \in Producers : pc[p] = "idle"
    /\ ready' = {} /\ file' = FALSE
    /\ UNCHANGED <<queue_vars, stats, durable, submit_mutex, producers, writer, current, lines,
                   synced, status>>

Log(p) ==
    \/ Number(p) \/ ClockFails(p) \/ Push(p) \/ PushRejected(p)
    \/ CountAccepted(p) \/ WaitDurable(p)

Writer ==
    \/ Pop \/ WriteOne \/ WriteFails \/ PublishWritten \/ SyncAtEnd \/ MarkError \/ CloseAfterError

Next ==
    /\ \/ \E p \in Producers : LogBegin(p) \/ Log(p)
       \/ \E resource \in Range(Resources) : Make(resource)
       \/ InitFails
       \/ Writer \/ Shutdown \/ ShutdownJoin \/ Destroy
    /\ UNCHANGED config

Spec == Init /\ [][Next]_vars

\* Every thread that can go on does.
FairSpec ==
    /\ Spec
    /\ \A p \in Producers : WF_state(Log(p))
    /\ WF_state(Writer) /\ WF_state(ShutdownJoin)
-----------------------------------------------------------------------------
TypeOK ==
    /\ queue \in Seq(1..MaxSequence + Cardinality(Producers)) /\ Len(queue) <= Capacity
    /\ closed \in BOOLEAN /\ write_error \in BOOLEAN /\ file \in BOOLEAN
    /\ {next_sequence, accepted, written, rejected, durable_sequence, current, synced}
          \subseteq 0..(MaxSequence + Cardinality(Producers))
    /\ submit_mutex \in Producers \cup {"free"} /\ asleep \subseteq Producers
    /\ pc \in [Producers -> {"idle", "number", "push", "count", "wait"}]
    /\ result \in [Producers -> {"none", "ok", "error"}]
    /\ writer \in {"none", "pop", "write", "publish", "sync", "mark_error", "close", "done"}
    /\ control \in {"init", "failed", "running", "joining", "shutdown", "destroyed"}
    /\ status \in {"none", "ok", "error"} /\ ready \subseteq Range(Resources)

\* In the durable mode a call of async_logger_log that returned 0 has its
\* own line in the part of the file that fsync has confirmed, whatever the
\* other producers and the writer did in between.
OkMeansDurable ==
    durable_mode =>
        \A p \in Producers :
            result[p] = "ok" => message[p] \in Range(SubSeq(lines, 1, synced))

\* A shutdown that returned 0 has written and synced every message whose
\* async_logger_log returned 0 or is still counting itself as accepted.
ShutdownWroteAll ==
    status = "ok" =>
        /\ queue = <<>> /\ synced = Len(lines)
        /\ \A p \in Producers :
              result[p] = "ok" \/ pc[p] \in {"count", "wait"} => message[p] \in Range(lines)

\* Every call of async_logger_log returns: neither a full queue whose writer is
\* gone nor a durable wait holds a producer for ever.  So does a shutdown,
\* which joins the writer.
CallsReturn ==
    /\ \A p \in Producers : pc[p] # "idle" ~> pc[p] = "idle"
    /\ control = "joining" ~> control \in {"shutdown", "destroyed"}
=============================================================================
