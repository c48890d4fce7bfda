---------------------------- MODULE PublishService ----------------------------
(***************************************************************************)
(* What mqtt_publisher.h promises to the workers that publish: a message   *)
(* handed to the client library may reach the broker at any later time or  *)
(* never, and a call that returns MQTT_PUBLISHER_OK has reached it.        *)
(***************************************************************************)
EXTENDS Naturals

CONSTANTS Callers, Messages

NoMessage == 0

VARIABLES
    calling,   \* the threads inside mqtt_publisher_publish_json
    message,   \* the message each thread handed over in its current call
    handed, received,
    outcome    \* "OK" or "FAILED", of the last call of each thread

vars == <<calling, message, handed, received, outcome>>

Init ==
    /\ calling = {} /\ handed = {} /\ received = {}
    /\ message = [c \in Callers |-> NoMessage]
    /\ outcome = [c \in Callers |-> "none"]

Call(c) ==
    /\ c \notin calling
    /\ calling' = calling \cup {c}
    /\ message' = [message EXCEPT ![c] = NoMessage]
    /\ outcome' = [outcome EXCEPT ![c] = "none"]
    /\ UNCHANGED <<handed, received>>

\* A call with an argument that cannot be published.
Refuse(c) ==
    /\ c \notin calling
    /\ message' = [message EXCEPT ![c] = NoMessage]
    /\ outcome' = [outcome EXCEPT ![c] = "FAILED"]
    /\ UNCHANGED <<calling, handed, received>>

HandOver(c) ==
    \E m \in Messages \ handed :
        /\ c \in calling /\ message[c] = NoMessage
        /\ message' = [message EXCEPT ![c] = m]
        /\ handed' = handed \cup {m}
        /\ UNCHANGED <<calling, received, outcome>>

Receive ==
    \E m \in handed :
        /\ received' = received \cup {m}
        /\ UNCHANGED <<calling, message, handed, outcome>>

ReturnOk(c) ==
    /\ c \in calling /\ message[c] \in received
    /\ calling' = calling \ {c}
    /\ outcome' = [outcome EXCEPT ![c] = "OK"]
    /\ UNCHANGED <<message, handed, received>>

\* The message of a failed call may have been handed over all the same.
ReturnFailed(c) ==
    /\ c \in calling
    /\ calling' = calling \ {c}
    /\ outcome' = [outcome EXCEPT ![c] = "FAILED"]
    /\ \/ UNCHANGED <<message, handed>>
       \/ /\ message[c] = NoMessage
          /\ \E m \in Messages \ handed :
                /\ handed' = handed \cup {m}
                /\ message' = [message EXCEPT ![c] = m]
    /\ UNCHANGED received

Next ==
    \/ \E c \in Callers :
          Call(c) \/ Refuse(c) \/ HandOver(c) \/ ReturnOk(c) \/ ReturnFailed(c)
    \/ Receive

Spec == Init /\ [][Next]_vars
=============================================================================
