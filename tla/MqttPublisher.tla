---------------------------- MODULE MqttPublisher -----------------------------
(***************************************************************************)
(* modules/mqtt/mqtt_publisher.c: a synchronous QoS 1 publisher on top of  *)
(* libmosquitto, whose network thread reports through callbacks.  A step   *)
(* of a thread is what it does while it holds publisher->mutex.            *)
(***************************************************************************)
EXTENDS Integers, FiniteSets

CONSTANTS
    Callers,   \* the threads that publish or wait for the connection
    MaxMid     \* bound: message ids the library hands out (fresh ones)

ASSUME MaxMidAssumption == MaxMid \in Nat

VARIABLES
    state, expected_mid, publish_completed, loop_started, publish_mutex,
    pc,        \* per caller: "idle", "enter", "locked", "waiting" (for
               \* a PUBACK) or "wait_connected"
    asleep,    \* the callers inside pthread_cond_timedwait, not yet woken
    mid, outcome,
    control    \* the thread that starts and stops: "idle", "disconnect",
               \* "join", "final"

\* libmosquitto and the broker.
VARIABLES
    loop,           \* the network thread runs
    callback,       \* the callback it is about to make: <<name, argument>>
    link,           \* "down", "refused" or "up"
    disconnecting,  \* mosquitto_disconnect was called
    queued,         \* message ids the library still has to deliver
    pubacks,        \* message ids whose PUBACK is on the wire
    received,       \* message ids the broker has received
    last_mid

publisher == <<state, expected_mid, publish_completed, loop_started>>
callers == <<publish_mutex, pc, asleep, mid, outcome>>
library == <<loop, callback, link, disconnecting, queued, pubacks, received,
             last_mid>>
vars == <<publisher, callers, control, library>>

NoCallback == <<"none", 0>>

Nobody == "nobody"   \* no thread holds publish_mutex

ASSUME CallersAssumption == Nobody \notin Callers

\* mqtt_publisher_create.
Init ==
    /\ state = "STOPPED" /\ expected_mid = -1
    /\ publish_completed = FALSE /\ loop_started = FALSE
    /\ publish_mutex = Nobody /\ asleep = {}
    /\ pc = [c \in Callers |-> "idle"]
    /\ mid = [c \in Callers |-> 0]
    /\ outcome = [c \in Callers |-> "none"]
    /\ control = "idle"
    /\ loop = FALSE /\ callback = NoCallback /\ link = "down"
    /\ disconnecting = FALSE
    /\ queued = {} /\ pubacks = {} /\ received = {} /\ last_mid = 0

\* pthread_cond_broadcast(&publisher->state_changed)
Broadcast == asleep' = {}

-----------------------------------------------------------------------------
(* mqtt_publisher_start, mqtt_publisher_stop; the state is left for the   *)
(* rest of stop by one thread at a time.                                   *)

Start ==
    /\ control = "idle" /\ state = "STOPPED"
    /\ \/ /\ state' = "CONNECTING" /\ loop_started' = TRUE
          /\ loop' = TRUE
          /\ UNCHANGED asleep
       \/ /\ state' = "DISCONNECTED"   \* connect_async or loop_start failed
          /\ Broadcast
          /\ UNCHANGED <<loop_started, loop>>
    /\ disconnecting' = FALSE
    /\ UNCHANGED <<expected_mid, publish_completed, publish_mutex, pc, mid,
                   outcome, control, callback, link, queued, pubacks, received,
                   last_mid>>

StopBegin ==
    /\ control = "idle" /\ state # "STOPPED"
    /\ state' = "STOPPING"
    /\ Broadcast
    /\ control' = "disconnect"
    /\ UNCHANGED <<expected_mid, publish_completed, loop_started, publish_mutex,
                   pc, mid, outcome, library>>

StopDisconnect ==
    /\ control = "disconnect"
    /\ disconnecting' = TRUE
    /\ control' = IF loop_started THEN "join" ELSE "final"
    /\ UNCHANGED <<publisher, callers, loop, callback, link, queued, pubacks,
                   received, last_mid>>

\* mosquitto_loop_stop: a callback that has begun is finished first.
StopJoin ==
    /\ control = "join" /\ callback = NoCallback
    /\ loop' = FALSE /\ link' = "down" /\ pubacks' = {}
    /\ control' = "final"
    /\ UNCHANGED <<publisher, callers, callback, disconnecting, queued, received,
                   last_mid>>

\* Mutant of StopFinal: on_disconnect is trusted to have set STOPPED.
StopFinalTrusting ==
    /\ control = "final"
    /\ loop_started' = FALSE
    /\ Broadcast
    /\ control' = "idle"
    /\ UNCHANGED <<state, expected_mid, publish_completed, publish_mutex, pc,
                   mid, outcome, library>>

StopFinal ==
    /\ control = "final"
    /\ loop_started' = FALSE
    /\ state' = "STOPPED"
    /\ Broadcast
    /\ control' = "idle"
    /\ UNCHANGED <<expected_mid, publish_completed, publish_mutex, pc, mid,
                   outcome, library>>

-----------------------------------------------------------------------------
(* The network thread of libmosquitto (external) and the three callbacks. *)

Report(name, arg) == callback' = <<name, arg>>

NetworkConnect ==
    /\ loop /\ ~disconnecting /\ link = "down" /\ callback = NoCallback
    /\ \/ link' = "up" /\ Report("on_connect", 0)
       \/ link' = "refused" /\ Report("on_connect", 1)
    /\ UNCHANGED <<publisher, callers, control, loop, disconnecting, queued,
                   pubacks, received, last_mid>>

NetworkDrop ==
    /\ loop /\ link # "down" /\ callback = NoCallback
    /\ link' = "down" /\ pubacks' = {} /\ Report("on_disconnect", 0)
    /\ UNCHANGED <<publisher, callers, control, loop, disconnecting, queued,
                   received, last_mid>>

NetworkDeliver(m) ==
    /\ loop /\ link = "up" /\ m \in queued
    /\ received' = received \cup {m}
    /\ pubacks' = pubacks \cup {m}
    /\ UNCHANGED <<publisher, callers, control, loop, callback, link,
                   disconnecting, queued, last_mid>>

NetworkPuback(m) ==
    /\ loop /\ link = "up" /\ m \in pubacks /\ callback = NoCallback
    /\ pubacks' = pubacks \ {m} /\ queued' = queued \ {m}
    /\ Report("on_publish", m)
    /\ UNCHANGED <<publisher, callers, control, loop, link, disconnecting,
                   received, last_mid>>

on_connect ==
    /\ callback[1] = "on_connect"
    /\ state' = IF state = "STOPPING" THEN state
                ELSE IF callback[2] = 0 THEN "CONNECTED" ELSE "DISCONNECTED"
    /\ Broadcast
    /\ callback' = NoCallback
    /\ UNCHANGED <<expected_mid, publish_completed, loop_started, publish_mutex,
                   pc, mid, outcome, control, loop, link, disconnecting, queued,
                   pubacks, received, last_mid>>

\* Mutant of on_disconnect: the waiting threads are not woken.
on_disconnectQuiet ==
    /\ callback[1] = "on_disconnect"
    /\ state' = IF state = "STOPPING" THEN "STOPPED" ELSE "DISCONNECTED"
    /\ callback' = NoCallback
    /\ UNCHANGED <<expected_mid, publish_completed, loop_started, callers,
                   control, loop, link, disconnecting, queued, pubacks,
                   received, last_mid>>

on_disconnect ==
    /\ callback[1] = "on_disconnect"
    /\ state' = IF state = "STOPPING" THEN "STOPPED" ELSE "DISCONNECTED"
    /\ Broadcast
    /\ callback' = NoCallback
    /\ UNCHANGED <<expected_mid, publish_completed, loop_started, publish_mutex,
                   pc, mid, outcome, control, loop, link, disconnecting, queued,
                   pubacks, received, last_mid>>

\* Mutant of on_publish: any PUBACK completes the publish.
on_publishAny ==
    /\ callback[1] = "on_publish"
    /\ publish_completed' = TRUE
    /\ Broadcast
    /\ callback' = NoCallback
    /\ UNCHANGED <<state, expected_mid, loop_started, publish_mutex, pc, mid,
                   outcome, control, loop, link, disconnecting, queued, pubacks,
                   received, last_mid>>

on_publish ==
    /\ callback[1] = "on_publish"
    /\ IF callback[2] = expected_mid
       THEN publish_completed' = TRUE /\ Broadcast
       ELSE UNCHANGED <<publish_completed, asleep>>
    /\ callback' = NoCallback
    /\ UNCHANGED <<state, expected_mid, loop_started, publish_mutex, pc, mid,
                   outcome, control, loop, link, disconnecting, queued, pubacks,
                   received, last_mid>>

-----------------------------------------------------------------------------
(* mqtt_publisher_publish_json and mqtt_publisher_wait_connected.          *)

\* The call, up to the deadline and the request for publish_mutex.
PublishCall(c) ==
    /\ pc[c] = "idle" /\ last_mid < MaxMid
    /\ pc' = [pc EXCEPT ![c] = "enter"]
    /\ mid' = [mid EXCEPT ![c] = 0]
    /\ outcome' = [outcome EXCEPT ![c] = "none"]
    /\ UNCHANGED <<publisher, publish_mutex, asleep, control, library>>

\* mqtt_publisher_publish of a measurement that has no JSON form or no topic
\* that fits, and the early returns of publish_json.
PublishRefused(c) ==
    /\ pc[c] = "idle"
    /\ mid' = [mid EXCEPT ![c] = 0]
    /\ outcome' = [outcome EXCEPT ![c] = "FAILED"]
    /\ UNCHANGED <<publisher, publish_mutex, pc, asleep, control, library>>

LockPublish(c) ==
    /\ pc[c] = "enter" /\ publish_mutex = Nobody
    /\ publish_mutex' = c
    /\ pc' = [pc EXCEPT ![c] = "locked"]
    /\ UNCHANGED <<publisher, asleep, mid, outcome, control, library>>

\* The label FINISH.
Finish(c, result) ==
    /\ expected_mid' = -1
    /\ publish_mutex' = Nobody
    /\ pc' = [pc EXCEPT ![c] = "idle"]
    /\ asleep' = asleep \ {c}
    /\ outcome' = [outcome EXCEPT ![c] = result]

\* mosquitto_publish: a call that fails may have queued the message.
Submit(c) ==
    /\ pc[c] = "locked"
    /\ \/ /\ state # "CONNECTED"
          /\ Finish(c, "FAILED")
          /\ UNCHANGED <<publish_completed, mid, queued, last_mid>>
       \/ /\ state = "CONNECTED" /\ last_mid < MaxMid
          /\ publish_completed' = FALSE
          /\ last_mid' = last_mid + 1
          /\ mid' = [mid EXCEPT ![c] = last_mid + 1]
          /\ queued' = queued \cup {last_mid + 1}
          /\ \/ /\ expected_mid' = last_mid + 1
                /\ pc' = [pc EXCEPT ![c] = "waiting"]
                /\ asleep' = asleep \cup {c}
                /\ UNCHANGED <<publish_mutex, outcome>>
             \/ Finish(c, "FAILED")
       \/ /\ state = "CONNECTED"
          /\ publish_completed' = FALSE
          /\ Finish(c, "FAILED")
          /\ UNCHANGED <<mid, queued, last_mid>>
    /\ UNCHANGED <<state, loop_started, control, loop, callback, link,
                   disconnecting, pubacks, received>>

\* Mutant of WokenInPublish: the loop does not look at the state.
WokenIgnoringState(c) ==
    /\ pc[c] = "waiting" /\ c \notin asleep
    /\ \/ /\ publish_completed
          /\ Finish(c, "OK")
       \/ /\ ~publish_completed
          /\ asleep' = asleep \cup {c}
          /\ UNCHANGED <<expected_mid, publish_mutex, pc, outcome>>
    /\ UNCHANGED <<state, publish_completed, loop_started, mid, control, library>>

\* The wait for the PUBACK, after a wake-up.
WokenInPublish(c) ==
    /\ pc[c] = "waiting" /\ c \notin asleep
    /\ \/ /\ publish_completed
          /\ Finish(c, "OK")
       \/ /\ ~publish_completed /\ state # "CONNECTED"
          /\ Finish(c, "FAILED")
       \/ /\ ~publish_completed /\ state = "CONNECTED"
          /\ asleep' = asleep \cup {c}
          /\ UNCHANGED <<expected_mid, publish_mutex, pc, outcome>>
    /\ UNCHANGED <<state, publish_completed, loop_started, mid, control, library>>

\* The deadline, which was computed before publish_mutex was taken, is over.
\* A PUBACK that has come in is not looked at any more.
TimedOutInPublish(c) ==
    /\ pc[c] = "waiting"
    /\ Finish(c, "FAILED")
    /\ UNCHANGED <<state, publish_completed, loop_started, mid, control, library>>

\* mqtt_publisher_wait_connected: the loop condition, first and after wake-ups.
WaitConnected(c) ==
    /\ pc[c] \in {"idle", "wait_connected"} /\ c \notin asleep
    /\ \/ /\ state \in {"CONNECTING", "DISCONNECTED"}
          /\ pc' = [pc EXCEPT ![c] = "wait_connected"]
          /\ asleep' = asleep \cup {c}
       \/ /\ state \notin {"CONNECTING", "DISCONNECTED"}
          /\ pc[c] = "wait_connected"
          /\ pc' = [pc EXCEPT ![c] = "idle"]
          /\ UNCHANGED asleep
    /\ UNCHANGED <<publisher, publish_mutex, mid, outcome, control, library>>

TimedOutInWait(c) ==
    /\ pc[c] = "wait_connected"
    /\ pc' = [pc EXCEPT ![c] = "idle"]
    /\ asleep' = asleep \ {c}
    /\ UNCHANGED <<publisher, publish_mutex, mid, outcome, control, library>>

\* pthread_cond_timedwait may return without a broadcast.
SpuriousWakeup(c) ==
    /\ c \in asleep
    /\ asleep' = asleep \ {c}
    /\ UNCHANGED <<publisher, publish_mutex, pc, mid, outcome, control, library>>

-----------------------------------------------------------------------------
Stop == StopBegin \/ StopDisconnect \/ StopJoin \/ StopFinal

Callback == on_connect \/ on_disconnect \/ on_publish

Network ==
    \/ NetworkConnect \/ NetworkDrop
    \/ \E m \in 1 .. MaxMid : NetworkDeliver(m) \/ NetworkPuback(m)

Caller(c) ==
    \/ PublishCall(c) \/ PublishRefused(c) \/ LockPublish(c) \/ Submit(c) \/ WokenInPublish(c)
    \/ TimedOutInPublish(c) \/ WaitConnected(c) \/ TimedOutInWait(c)
    \/ SpuriousWakeup(c)

Next == Start \/ Stop \/ Network \/ Callback \/ \E c \in Callers : Caller(c)

Spec == Init /\ [][Next]_vars

\* A thread that is not waiting gets the mutexes in the end, a callback that
\* has begun is made, and a stop goes on.  Neither the broker nor the clock
\* owes anything: StopReleases does not rest on time-outs.
Fairness ==
    /\ WF_vars(StopDisconnect) /\ WF_vars(StopJoin) /\ WF_vars(StopFinal)
    /\ WF_vars(Callback)
    /\ \A c \in Callers :
          /\ SF_vars(LockPublish(c)) /\ WF_vars(Submit(c))
          /\ WF_vars(WokenInPublish(c))
          /\ WF_vars(pc[c] = "wait_connected" /\ WaitConnected(c))

FairSpec == Spec /\ Fairness

-----------------------------------------------------------------------------
\* The fields of struct mqtt_publisher and the calls have values of their types.
TypeOK ==
    /\ state \in {"STOPPED", "CONNECTING", "CONNECTED", "DISCONNECTED", "STOPPING"}
    /\ expected_mid \in {-1} \cup 1 .. MaxMid
    /\ publish_completed \in BOOLEAN /\ loop_started \in BOOLEAN
    /\ publish_mutex \in Callers \cup {Nobody}
    /\ pc \in [Callers -> {"idle", "enter", "locked", "waiting", "wait_connected"}]
    /\ asleep \subseteq Callers
    /\ mid \in [Callers -> 0 .. MaxMid]
    /\ outcome \in [Callers -> {"none", "OK", "FAILED"}]
    /\ control \in {"idle", "disconnect", "join", "final"}
    /\ loop \in BOOLEAN /\ disconnecting \in BOOLEAN
    /\ link \in {"down", "refused", "up"}
    /\ queued \subseteq 1 .. MaxMid /\ pubacks \subseteq 1 .. MaxMid
    /\ received \subseteq 1 .. MaxMid /\ last_mid \in 0 .. MaxMid

\* Nobody sleeps through an event: while a thread sleeps for a PUBACK it has
\* not come and the client is connected, and while one sleeps for the
\* connection it may still come, although callbacks, stop and other callers
\* share one condition variable.
NobodySleepsThrough ==
    \A c \in asleep :
        /\ pc[c] = "waiting" => ~publish_completed /\ state = "CONNECTED"
        /\ pc[c] = "wait_connected" => state \in {"CONNECTING", "DISCONNECTED"}

\* Between start and stop the state and loop_started agree with the network
\* thread: in particular a stop that races with on_connect and on_disconnect
\* ends in STOPPED with the thread gone.
StateMatchesLoop ==
    control = "idle" =>
        /\ loop_started = loop
        /\ state \in IF loop THEN {"CONNECTING", "CONNECTED", "DISCONNECTED"}
                     ELSE {"STOPPED", "DISCONNECTED"}

\* The holder of publish_mutex is the one caller between the lock and FINISH.
LockHeld ==
    \A c \in Callers : pc[c] \in {"locked", "waiting"} <=> publish_mutex = c

\* expected_mid is the message of the caller that waits, and -1 when none does;
\* a caller has no message id before mosquitto_publish gave it one.
ExpectedIsOwn ==
    /\ \A c \in Callers :
          /\ pc[c] = "waiting" => expected_mid = mid[c]
          /\ pc[c] \in {"enter", "locked"} => mid[c] = 0
    /\ (\A c \in Callers : pc[c] # "waiting") => expected_mid = -1

\* What was acknowledged was received, and what was received was handed over:
\* on the wire, in the callback and in publish_completed.
AckedWasReceived ==
    /\ queued \subseteq 1 .. last_mid /\ received \subseteq 1 .. last_mid
    /\ pubacks \subseteq received
    /\ callback[1] = "on_publish" => callback[2] \in received
    /\ \A c \in Callers : pc[c] = "waiting" /\ publish_completed => mid[c] \in received

\* Who calls back, and from which thread, while a stop is under way.
LoopKnown ==
    /\ control \in {"disconnect", "join"} => loop_started = loop
    /\ control = "final" => ~loop
    /\ ~loop => callback = NoCallback

Callbacks ==
    {NoCallback, <<"on_connect", 0>>, <<"on_connect", 1>>, <<"on_disconnect", 0>>}
      \cup {<<"on_publish", m>> : m \in 1 .. MaxMid}

\* Only a caller in one of the two waits sleeps.
OnlyWaitersSleep == \A c \in asleep : pc[c] \in {"waiting", "wait_connected"}

\* The inductive invariant.
PublisherInv ==
    /\ TypeOK /\ callback \in Callbacks
    /\ LockHeld /\ ExpectedIsOwn /\ AckedWasReceived /\ LoopKnown
    /\ OnlyWaitersSleep /\ NobodySleepsThrough /\ StateMatchesLoop

\* The callers inside mqtt_publisher_publish_json.
Calling == {c \in Callers : pc[c] \in {"enter", "locked", "waiting"}}

Service == INSTANCE PublishService WITH
    Messages <- 1 .. MaxMid,
    calling <- Calling,
    message <- mid,
    handed <- 1 .. last_mid

\* The publisher with its callbacks, locks and time-outs does what its header
\* promises to the workers.
ImplementsPublishService == Service!Spec

\* A stop releases every thread that waits for a PUBACK or for the connection,
\* without the help of its time-out, unless the publisher is started again
\* before the thread has looked.
StopReleases ==
    \A c \in Callers :
        control # "idle" /\ pc[c] \in {"waiting", "wait_connected"}
            ~> pc[c] = "idle" \/ (control = "idle" /\ state # "STOPPED")
=============================================================================
