----------------------------- MODULE AtomicQueue ------------------------------
(***************************************************************************)
(* What a bounded queue of blocking_queue.h promises to its users: a FIFO  *)
(* of at most Capacity items, whose calls take effect in one step.  After  *)
(* close, no item enters and the items inside can still be taken out.  A   *)
(* call that must wait simply has not taken effect yet.                    *)
(***************************************************************************)
EXTENDS Integers, Sequences

CONSTANTS Threads, Items, Capacity

Modes == {"try", "timed", "forever"}   \* timeout_ms == 0, > 0 and < 0

NoItem == "no item"

VARIABLES
    items, closed,
    op,       \* the call each thread is in: "idle", "push" or "pop"
    mode,     \* its timeout
    item,     \* the item a push carries
    outcome   \* what the last call of each thread returned, and the item

vars == <<items, closed, op, mode, item, outcome>>

Init ==
    /\ items = <<>> /\ closed = FALSE
    /\ op = [t \in Threads |-> "idle"]
    /\ mode = [t \in Threads |-> "try"]
    /\ item = [t \in Threads |-> NoItem]
    /\ outcome = [t \in Threads |-> <<"none", NoItem>>]

Call(t, o, v, m) ==
    /\ op[t] = "idle"
    /\ op' = [op EXCEPT ![t] = o]
    /\ mode' = [mode EXCEPT ![t] = m]
    /\ item' = [item EXCEPT ![t] = v]
    /\ outcome' = [outcome EXCEPT ![t] = <<"none", NoItem>>]
    /\ UNCHANGED <<items, closed>>

Return(t, code, v) ==
    /\ op' = [op EXCEPT ![t] = "idle"]
    /\ outcome' = [outcome EXCEPT ![t] = <<code, v>>]
    /\ mode' = [mode EXCEPT ![t] = "try"]
    /\ item' = [item EXCEPT ![t] = NoItem]

PushOk(t) ==
    /\ op[t] = "push" /\ ~closed /\ Len(items) < Capacity
    /\ items' = Append(items, item[t])
    /\ Return(t, "OK", NoItem)
    /\ UNCHANGED closed

PopOk(t) ==
    /\ op[t] = "pop" /\ items # <<>>
    /\ items' = Tail(items)
    /\ Return(t, "OK", Head(items))
    /\ UNCHANGED closed

PushClosed(t) ==
    /\ op[t] = "push" /\ closed
    /\ Return(t, "CLOSED", NoItem)
    /\ UNCHANGED <<items, closed>>

PopClosed(t) ==
    /\ op[t] = "pop" /\ closed /\ items = <<>>
    /\ Return(t, "CLOSED", NoItem)
    /\ UNCHANGED <<items, closed>>

\* A call that does not wait reports the state it saw; one that waits may
\* report a timeout although the state has changed by then.
TimedOut(t) ==
    /\ \/ op[t] # "idle" /\ mode[t] = "timed"
       \/ op[t] = "push" /\ mode[t] = "try" /\ Len(items) = Capacity
       \/ op[t] = "pop" /\ mode[t] = "try" /\ items = <<>>
    /\ Return(t, "TIMEOUT", NoItem)
    /\ UNCHANGED <<items, closed>>

Close ==
    /\ closed' = TRUE
    /\ UNCHANGED <<items, op, mode, item, outcome>>

Next ==
    \/ \E t \in Threads :
          \/ \E m \in Modes : \/ \E v \in Items : Call(t, "push", v, m)
                              \/ Call(t, "pop", NoItem, m)
          \/ PushOk(t) \/ PopOk(t) \/ PushClosed(t) \/ PopClosed(t) \/ TimedOut(t)
    \/ Close

Spec == Init /\ [][Next]_vars
=============================================================================
