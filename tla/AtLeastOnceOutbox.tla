-------------------------- MODULE AtLeastOnceOutbox ---------------------------
(***************************************************************************)
(* What the gateway promises about stored measurements: each is kept as    *)
(* pending until the broker has it, is delivered at least once, and the    *)
(* broker gets them in order, a record never before all earlier ones are   *)
(* settled.  Threads, queues, timeouts, crashes and restarts do not appear.*)
(***************************************************************************)
EXTENDS Integers, Sequences

VARIABLES
    outbox,      \* the state of each record, by id: "pending" or "sent"
    delivered    \* the ids the broker has received at least once

vars == <<outbox, delivered>>

Init == outbox = <<>> /\ delivered = {}

Accept ==
    /\ outbox' = Append(outbox, "pending")
    /\ UNCHANGED delivered

\* The first delivery of a record, or one more of a record already sent.
Deliver(id) ==
    /\ \A earlier \in 1 .. id - 1 : outbox[earlier] = "sent"
    /\ delivered' = delivered \cup {id}
    /\ UNCHANGED outbox

Confirm(id) ==
    /\ outbox[id] = "pending"
    /\ id \in delivered
    /\ outbox' = [outbox EXCEPT ![id] = "sent"]
    /\ UNCHANGED delivered

Next == Accept \/ \E id \in 1 .. Len(outbox) : Deliver(id) \/ Confirm(id)

Spec == Init /\ [][Next]_vars
=============================================================================
