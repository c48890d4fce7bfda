------------------------- MODULE MqttCommandReceiver --------------------------
(***************************************************************************)
(* modules/mqtt/mqtt_command_receiver.c: the client that subscribes to the *)
(* request topic and hands each message to the gateway.  The coordinator   *)
(* of gateway_workers_run creates, starts and destroys it; libmosquitto's  *)
(* network thread makes the callbacks.  GatewayRun calls this module.      *)
(***************************************************************************)
EXTENDS Naturals

VARIABLES
    state, loop_started,
    owner      \* "absent", "new", "running", then in destroy "disconnect",
               \* "cancel", "join", and "gone"

\* libmosquitto and the broker (external).
VARIABLES
    loop, callback, disconnecting,
    link,        \* "down", "refused" or "up"
    suback,      \* a SUBSCRIBE is on its way: "none", "pending"
    subscribed   \* the broker delivers the request topic on this connection

receiver == <<state, loop_started>>
client == <<loop, callback, disconnecting, link, suback, subscribed>>

Init ==
    /\ state = "none" /\ loop_started = FALSE /\ owner = "absent"
    /\ loop = FALSE /\ callback = "none" /\ disconnecting = FALSE
    /\ link = "down" /\ suback = "none" /\ subscribed = FALSE

\* mqtt_command_receiver_create: calloc makes the state STOPPED.
Create ==
    /\ owner = "absent" /\ owner' = "new" /\ state' = "STOPPED"
    /\ UNCHANGED <<loop_started, client>>

\* A stop that has begun is final.
receiver_set_state(s) == state' = IF state = "STOPPING" THEN state ELSE s

\* mqtt_command_receiver_start, called once.
Start(ok) ==
    /\ owner = "new" /\ owner' = "running"
    /\ IF ok THEN state' = "CONNECTING" /\ loop_started' = TRUE /\ loop' = TRUE
             ELSE state' = "FAILED" /\ UNCHANGED <<loop_started, loop>>
    /\ UNCHANGED <<callback, disconnecting, link, suback, subscribed>>
-----------------------------------------------------------------------------
(* mqtt_command_receiver_destroy. *)
DestroyBegin ==
    /\ owner \in {"new", "running"} /\ owner' = "disconnect"
    /\ state' = "STOPPING"
    /\ UNCHANGED <<loop_started, client>>

DestroyDisconnect ==
    /\ owner = "disconnect" /\ owner' = "cancel"
    /\ disconnecting' = TRUE
    /\ UNCHANGED <<receiver, loop, callback, link, suback, subscribed>>

\* mosquitto_loop_stop(force), when there is a network thread: it takes no
\* further event from the network, ...
DestroyCancel ==
    /\ owner = "cancel" /\ owner' = "join"
    /\ UNCHANGED <<receiver, client>>

\* Mutant of DestroyJoin: the object is freed without mosquitto_loop_stop.
DestroyWithoutJoin ==
    /\ owner = "join" /\ owner' = "gone"
    /\ UNCHANGED <<receiver, client>>

\* ... and a callback that has begun ends before the join returns.  Then the
\* client and the object are freed.
DestroyJoin ==
    /\ owner = "join" /\ owner' = "gone"
    /\ loop_started => callback = "none"
    /\ loop' = FALSE /\ link' = "down" /\ suback' = "none" /\ subscribed' = FALSE
    /\ UNCHANGED <<receiver, callback, disconnecting>>
-----------------------------------------------------------------------------
(* The network thread between two callbacks. *)
Listening == loop /\ callback = "none" /\ owner # "join"

NetworkConnect ==
    /\ Listening /\ ~disconnecting /\ link = "down"
    /\ \/ link' = "up" /\ callback' = "on_connect"
       \/ link' = "refused" /\ callback' = "on_connect_refused"
    /\ UNCHANGED <<receiver, owner, loop, disconnecting, suback, subscribed>>

\* The session is clean: the broker forgets the subscription.  There is no
\* disconnect callback.
NetworkDrop ==
    /\ Listening /\ link # "down"
    /\ link' = "down" /\ suback' = "none" /\ subscribed' = FALSE
    /\ UNCHANGED <<receiver, owner, loop, callback, disconnecting>>

\* The SUBACK: QoS 1 granted, or not.
NetworkSuback ==
    /\ Listening /\ link = "up" /\ suback = "pending"
    /\ suback' = "none"
    /\ \/ callback' = "on_subscribe" /\ subscribed' = TRUE
       \/ callback' = "on_subscribe_refused" /\ UNCHANGED subscribed
    /\ UNCHANGED <<receiver, owner, loop, disconnecting, link>>

NetworkMessage ==
    /\ Listening /\ link = "up" /\ subscribed
    /\ callback' = "on_message"
    /\ UNCHANGED <<receiver, owner, loop, disconnecting, link, suback, subscribed>>

\* Mutant of on_connect: the subscription is made on the first connection only.
on_connect_once ==
    /\ callback \in {"on_connect", "on_connect_refused"}
    /\ callback' = "none"
    /\ suback' = IF callback = "on_connect" /\ state = "CONNECTING" THEN "pending" ELSE suback
    /\ UNCHANGED <<receiver, owner, loop, disconnecting, link, subscribed>>

\* mosquitto_subscribe sends the SUBSCRIBE or fails at once.
on_connect ==
    /\ callback \in {"on_connect", "on_connect_refused"}
    /\ callback' = "none"
    /\ \/ callback = "on_connect" /\ suback' = "pending" /\ UNCHANGED state
       \/ receiver_set_state("FAILED") /\ UNCHANGED suback
    /\ UNCHANGED <<loop_started, owner, loop, disconnecting, link, subscribed>>

on_subscribe ==
    /\ callback \in {"on_subscribe", "on_subscribe_refused"}
    /\ receiver_set_state(IF callback = "on_subscribe" THEN "READY" ELSE "FAILED")
    /\ callback' = "none"
    /\ UNCHANGED <<loop_started, owner, loop, disconnecting, link, suback, subscribed>>

\* The gateway's message handler runs (a part of CommandWorkers) and returns.
on_message ==
    /\ callback = "on_message"
    /\ callback' = "none"
    /\ UNCHANGED <<receiver, owner, loop, disconnecting, link, suback, subscribed>>

Network == NetworkConnect \/ NetworkDrop \/ NetworkSuback \/ NetworkMessage

Callback == on_connect \/ on_subscribe \/ on_message
=============================================================================
