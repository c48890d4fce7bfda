---------------------------- MODULE BlockingQueue -----------------------------
(***************************************************************************)
(* modules/blocking_queue/blocking_queue.c (and its copy in modules/log):  *)
(* a ring buffer behind one mutex and two condition variables.  A step is  *)
(* what a thread does from taking the mutex to releasing it, in            *)
(* pthread_mutex_unlock or in a wait on a condition variable.              *)
(***************************************************************************)
EXTENDS Integers, Sequences, FiniteSets

CONSTANTS
    Threads,    \* the callers
    Items,      \* what is queued
    Capacity    \* bq_init's capacity

ASSUME CapacityAssumption == Capacity \in Nat \ {0}
ASSUME ThreadsAssumption == IsFiniteSet(Threads)

Modes == {"try", "timed", "forever"}   \* timeout_ms == 0, > 0 and < 0

NoItem == "no item"

VARIABLES
    buffer, head, tail, size, closed,   \* bounded_queue_t
    pc,        \* per thread: "idle", in "push" or "pop", or waiting on the
               \* condition variable "not_full" or "not_empty"
    mode, item, outcome

queue == <<buffer, head, tail, size>>
calls == <<pc, mode, item, outcome>>
vars == <<queue, closed, calls>>

Index == 0 .. Capacity - 1

\* bq_init.  What the malloc'ed slots hold is never read.
Init ==
    /\ buffer = [i \in Index |-> NoItem]
    /\ head = 0 /\ tail = 0 /\ size = 0 /\ closed = FALSE
    /\ pc = [t \in Threads |-> "idle"]
    /\ mode = [t \in Threads |-> "try"]
    /\ item = [t \in Threads |-> NoItem]
    /\ outcome = [t \in Threads |-> <<"none", NoItem>>]

-----------------------------------------------------------------------------
Call(t, o, v, m) ==
    /\ pc[t] = "idle"
    /\ pc' = [pc EXCEPT ![t] = o]
    /\ mode' = [mode EXCEPT ![t] = m]
    /\ item' = [item EXCEPT ![t] = v]
    /\ outcome' = [outcome EXCEPT ![t] = <<"none", NoItem>>]
    /\ UNCHANGED <<queue, closed>>

SetOutcome(t, code, v) ==
    /\ outcome' = [outcome EXCEPT ![t] = <<code, v>>]
    /\ mode' = [mode EXCEPT ![t] = "try"]
    /\ item' = [item EXCEPT ![t] = NoItem]

Return(t, code) ==
    /\ pc' = [pc EXCEPT ![t] = "idle"]
    /\ SetOutcome(t, code, NoItem)

Waiting(cond) == {t \in Threads : pc[t] = cond}

\* Mutant of ReturnAndSignal: the signal is left out.
ReturnSilently(t, cond, back) == pc' = [pc EXCEPT ![t] = "idle"]

\* t returns after pthread_cond_signal(cond), which wakes one waiting thread,
\* if there is one, to run its loop condition again from "back".
ReturnAndSignal(t, cond, back) ==
    \/ /\ Waiting(cond) = {}
       /\ pc' = [pc EXCEPT ![t] = "idle"]
    \/ \E w \in Waiting(cond) : pc' = [pc EXCEPT ![t] = "idle", ![w] = back]

\* The queue is full or empty: BQ_TIMEOUT at once, or wait on cond.
Block(t, cond) ==
    \/ /\ mode[t] = "try"
       /\ Return(t, "TIMEOUT")
    \/ /\ mode[t] # "try"
       /\ pc' = [pc EXCEPT ![t] = cond]
       /\ UNCHANGED <<mode, item, outcome>>

\* Mutant of Advance: a wrap one slot early.
AdvanceShort(i) == (i + 1) % (Capacity - 1)

\* The next slot of the ring.
Advance(i) == (i + 1) % Capacity

\* bq_push, from the entry or from a wake-up.
Push(t) ==
    /\ pc[t] = "push"
    /\ \/ /\ closed
          /\ Return(t, "CLOSED")
          /\ UNCHANGED queue
       \/ /\ ~closed /\ size = Capacity
          /\ Block(t, "not_full")
          /\ UNCHANGED queue
       \/ /\ ~closed /\ size < Capacity
          /\ buffer' = [buffer EXCEPT ![tail] = item[t]]
          /\ tail' = Advance(tail)
          /\ size' = size + 1
          /\ ReturnAndSignal(t, "not_empty", "pop")
          /\ SetOutcome(t, "OK", NoItem)
          /\ UNCHANGED head
    /\ UNCHANGED closed

\* bq_pop, from the entry or from a wake-up.
Pop(t) ==
    /\ pc[t] = "pop"
    /\ \/ /\ size = 0 /\ closed
          /\ Return(t, "CLOSED")
          /\ UNCHANGED queue
       \/ /\ size = 0 /\ ~closed
          /\ Block(t, "not_empty")
          /\ UNCHANGED queue
       \/ /\ size > 0
          /\ head' = Advance(head)
          /\ size' = size - 1
          /\ ReturnAndSignal(t, "not_full", "push")
          /\ SetOutcome(t, "OK", buffer[head])
          /\ UNCHANGED <<buffer, tail>>
    /\ UNCHANGED closed

\* Where a waiting thread continues.
Back(cond) == IF cond = "not_full" THEN "push" ELSE "pop"

\* pthread_cond_timedwait returned ETIMEDOUT: the loop condition is not
\* looked at again.
TimedOut(t) ==
    /\ pc[t] \in {"not_full", "not_empty"}
    /\ mode[t] = "timed"
    /\ Return(t, "TIMEOUT")
    /\ UNCHANGED <<queue, closed>>

\* A wait may return without a signal.
SpuriousWakeup(t) ==
    /\ pc[t] \in {"not_full", "not_empty"}
    /\ pc' = [pc EXCEPT ![t] = Back(pc[t])]
    /\ UNCHANGED <<queue, closed, mode, item, outcome>>

\* Mutant of Close: not_full is not broadcast.
CloseWakesTakers ==
    /\ closed' = TRUE
    /\ pc' = [t \in Threads |-> IF pc[t] = "not_empty" THEN "pop" ELSE pc[t]]
    /\ UNCHANGED <<queue, mode, item, outcome>>

\* bq_close: both condition variables are broadcast.
Close ==
    /\ closed' = TRUE
    /\ pc' = [t \in Threads |-> IF pc[t] \in {"not_full", "not_empty"}
                                THEN Back(pc[t]) ELSE pc[t]]
    /\ UNCHANGED <<queue, mode, item, outcome>>

Next ==
    \/ \E t \in Threads :
          \/ \E m \in Modes : \/ \E v \in Items : Call(t, "push", v, m)
                              \/ Call(t, "pop", NoItem, m)
          \/ Push(t) \/ Pop(t) \/ TimedOut(t) \/ SpuriousWakeup(t)
    \/ Close

Spec == Init /\ [][Next]_vars

\* A thread that is not waiting gets the mutex in the end, and a timed wait
\* ends in the end.
Fairness ==
    \A t \in Threads : WF_vars(Push(t)) /\ WF_vars(Pop(t)) /\ WF_vars(TimedOut(t))

FairSpec == Spec /\ Fairness

-----------------------------------------------------------------------------
\* The fields of bounded_queue_t and the calls have values of their types; in
\* particular the asserts of bq_push and bq_pop on size hold.
TypeOK ==
    /\ buffer \in [Index -> Items \cup {NoItem}]
    /\ head \in Index /\ tail \in Index /\ size \in 0 .. Capacity
    /\ closed \in BOOLEAN
    /\ pc \in [Threads -> {"idle", "push", "pop", "not_full", "not_empty"}]
    /\ mode \in [Threads -> Modes]
    /\ item \in [Threads -> Items \cup {NoItem}]
    /\ outcome \in [Threads -> {"none", "OK", "CLOSED", "TIMEOUT"}
                               \X (Items \cup {NoItem})]

Running(o) == {t \in Threads : pc[t] = o}

\* No wake-up is lost: while a thread waits for an item, every item in the
\* queue has a thread that is awake to take it, and while a thread waits for
\* room, every free slot has a thread that is awake to fill it, although push
\* and pop signal one thread only, waits time out and threads overtake.
NoLostWakeup ==
    /\ Waiting("not_empty") # {} => size <= Cardinality(Running("pop"))
    /\ Waiting("not_full") # {} => Capacity - size <= Cardinality(Running("push"))

\* Nobody sleeps on a closed queue: the broadcasts of bq_close reach every
\* waiting thread and no thread starts to wait afterwards.
ClosedWakesAll == closed => Waiting("not_empty") \cup Waiting("not_full") = {}

\* The contents in the order they leave.
Contents == [i \in 1 .. size |-> buffer[(head + i - 1) % Capacity]]

\* The call each thread is in, whether it waits or not.
Op == [t \in Threads |-> IF pc[t] \in {"not_full", "not_empty"} THEN Back(pc[t]) ELSE pc[t]]

Atomic == INSTANCE AtomicQueue WITH items <- Contents, op <- Op

\* The ring buffer with its waits and signals implements the atomic queue:
\* same items in the same order, same results, same behaviour after close.
ImplementsAtomicQueue == Atomic!Spec

\* A thread does not wait for ever while the queue has something for it.
WaitersServed ==
    \A t \in Threads :
        /\ [](pc[t] = "not_empty" => <>(pc[t] # "not_empty" \/ size = 0))
        /\ [](pc[t] = "not_full" => <>(pc[t] # "not_full" \/ size = Capacity))
=============================================================================
