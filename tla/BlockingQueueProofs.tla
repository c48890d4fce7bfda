-------------------------- MODULE BlockingQueueProofs --------------------------
(***************************************************************************)
(* Proofs about module BlockingQueue, for any number of threads, any items *)
(* and any capacity: the wake-up arguments of blocking_queue.c, and that   *)
(* the ring buffer implements the atomic queue.                            *)
(***************************************************************************)
EXTENDS BlockingQueue, FiniteSetTheorems, SequenceTheorems, TLAPS

\* The ring is consistent: tail is `size` slots after head.
Ring == tail = (head + size) % Capacity

\* What bq_push and bq_pop rely on.
QueueInv == TypeOK /\ Ring /\ ClosedWakesAll /\ NoLostWakeup

-----------------------------------------------------------------------------
(* The remainder, as far as the ring needs it. *)

\* An index that has run at most once past the end is brought back by one
\* capacity.
Slot(a) == IF a < Capacity THEN a ELSE a - Capacity

\* The index arithmetic of the ring: one subtraction replaces the modulo.
LEMMA Wrap == \A a \in Nat : a < 2 * Capacity => a % Capacity = Slot(a)
<1> SUFFICES ASSUME NEW a \in Nat, a < 2 * Capacity PROVE a % Capacity = Slot(a)
  OBVIOUS
<1>1. CASE a < Capacity
  BY <1>1, CapacityAssumption DEF Slot
<1>2. CASE a >= Capacity
  BY <1>2, CapacityAssumption DEF Slot
<1> QED  BY <1>1, <1>2, CapacityAssumption

\* The next slot of a ring is a slot of it.
LEMMA AdvanceStays ==
    ASSUME NEW i \in Index
    PROVE  Advance(i) \in Index /\ Advance(i) = Slot(i + 1)
<1>1. i + 1 \in Nat /\ i + 1 < 2 * Capacity
  BY CapacityAssumption DEF Index
<1>2. Advance(i) = Slot(i + 1)
  BY <1>1, Wrap DEF Advance
<1> QED  BY <1>2, CapacityAssumption DEF Slot, Index

-----------------------------------------------------------------------------
(* Sizes of sets of threads. *)

\* Sets of threads are finite.
LEMMA CardNat == \A S \in SUBSET Threads : IsFiniteSet(S) /\ Cardinality(S) \in Nat
  BY ThreadsAssumption, FS_Subset, FS_CardinalityType

\* A thread that joins a set of threads adds one to it.
LEMMA CardAdd ==
    \A S \in SUBSET Threads : \A x \in Threads \ S : Cardinality(S \cup {x}) = Cardinality(S) + 1
  BY CardNat, FS_AddElement, Zenon

\* A thread that leaves a set of threads takes one from it.
LEMMA CardRemove ==
    \A S \in SUBSET Threads : \A x \in S : Cardinality(S \ {x}) = Cardinality(S) - 1
  BY CardNat, FS_RemoveElement, Zenon

\* A set of threads is no larger than one that contains it.
LEMMA CardMonotone ==
    \A S, T \in SUBSET Threads : S \subseteq T => Cardinality(S) <= Cardinality(T)
  BY CardNat, FS_Subset

-----------------------------------------------------------------------------
(* Types and the ring. *)

\* Where a thread can be.
Places == {"idle", "push", "pop", "not_full", "not_empty"}

\* A return with a signal keeps every thread at a place of its code.
LEMMA SignalType ==
    ASSUME TypeOK, NEW t \in Threads, NEW cond, NEW back \in Places,
           ReturnAndSignal(t, cond, back)
    PROVE  pc' \in [Threads -> Places]
<1>1. CASE pc' = [pc EXCEPT ![t] = "idle"]
  BY <1>1 DEF TypeOK, Places
<1>2. CASE \E w \in Waiting(cond) : pc' = [pc EXCEPT ![t] = "idle", ![w] = back]
  BY <1>2 DEF TypeOK, Places, Waiting
<1> QED  BY <1>1, <1>2 DEF ReturnAndSignal

\* What a call returned, and the fields it resets, have their types.
CallsTyped ==
    /\ mode \in [Threads -> Modes]
    /\ item \in [Threads -> Items \cup {NoItem}]
    /\ outcome \in [Threads -> {"none", "OK", "CLOSED", "TIMEOUT"} \X (Items \cup {NoItem})]

\* What a call leaves behind when it returns has its type.
LEMMA OutcomeType ==
    ASSUME TypeOK, NEW t \in Threads, NEW code \in {"none", "OK", "CLOSED", "TIMEOUT"},
           NEW v \in Items \cup {NoItem}, SetOutcome(t, code, v)
    PROVE  CallsTyped'
  BY DEF TypeOK, SetOutcome, CallsTyped, Modes

\* A call that returns without a signal keeps the types of the calls.
LEMMA ReturnType ==
    ASSUME TypeOK, NEW t \in Threads, NEW code \in {"CLOSED", "TIMEOUT"}, Return(t, code)
    PROVE  CallsTyped' /\ pc' \in [Threads -> Places]
<1>1. CallsTyped'
  BY OutcomeType DEF Return
<1> QED  BY <1>1 DEF Return, TypeOK, Places

\* A call that gives up or goes to sleep keeps the types of the calls.
LEMMA BlockType ==
    ASSUME TypeOK, NEW t \in Threads, NEW cond \in {"not_full", "not_empty"}, Block(t, cond)
    PROVE  CallsTyped' /\ pc' \in [Threads -> Places]
<1>1. CASE Return(t, "TIMEOUT")
  BY <1>1, ReturnType
<1>2. CASE pc' = [pc EXCEPT ![t] = cond] /\ UNCHANGED <<mode, item, outcome>>
  BY <1>2 DEF TypeOK, Places, CallsTyped
<1> QED  BY <1>1, <1>2 DEF Block

\* The fields of bounded_queue_t other than closed.
RingTyped ==
    /\ buffer \in [Index -> Items \cup {NoItem}]
    /\ head \in Index /\ tail \in Index /\ size \in 0 .. Capacity /\ Ring

\* bq_push fills the slot at tail: the two indexes and the size stay consistent
\* across the wrap of either index.
LEMMA PushRing ==
    ASSUME TypeOK, Ring, NEW v \in Items \cup {NoItem}, size < Capacity,
           buffer' = [buffer EXCEPT ![tail] = v], tail' = Advance(tail),
           size' = size + 1, head' = head
    PROVE  RingTyped'
<1>1. /\ head \in Nat /\ size \in Nat /\ tail \in Nat /\ Capacity \in Nat \ {0}
      /\ head < Capacity /\ size < Capacity /\ tail < Capacity
  BY CapacityAssumption DEF TypeOK, Index
<1>2. tail = Slot(head + size) /\ tail' = Slot(tail + 1) /\ tail' \in Index
  <2>1. head + size \in Nat /\ head + size < 2 * Capacity
    BY <1>1
  <2>2. (head + size) % Capacity = Slot(head + size)
    BY <2>1, Wrap
  <2> QED  BY <2>2, AdvanceStays DEF Ring, TypeOK
<1>3. (head' + size') % Capacity = Slot(head' + size')
  <2>1. head' + size' \in Nat /\ head' + size' < 2 * Capacity
    BY <1>1
  <2> QED  BY <2>1, Wrap
<1>4. Slot(tail + 1) = Slot(head + size + 1)
  BY <1>1, <1>2 DEF Slot
<1>5. Ring'
  BY <1>2, <1>3, <1>4, <1>1 DEF Ring
<1> QED  BY <1>1, <1>2, <1>5 DEF RingTyped, TypeOK

\* bq_pop empties the slot at head: the two indexes and the size stay
\* consistent across the wrap of either index.
LEMMA PopRing ==
    ASSUME TypeOK, Ring, size > 0, head' = Advance(head), size' = size - 1,
           UNCHANGED <<buffer, tail>>
    PROVE  RingTyped'
<1>1. /\ head \in Nat /\ size \in Nat /\ tail \in Nat /\ Capacity \in Nat \ {0}
      /\ head < Capacity /\ size <= Capacity /\ tail < Capacity /\ size > 0
  BY CapacityAssumption DEF TypeOK, Index
<1>2. head' = Slot(head + 1) /\ head' \in Index
  BY AdvanceStays DEF TypeOK
<1>3. tail = Slot(head + size)
  <2>1. head + size \in Nat /\ head + size < 2 * Capacity
    BY <1>1
  <2> QED  BY <2>1, Wrap DEF Ring
<1>4. (head' + size') % Capacity = Slot(head' + size')
  <2>1. head' + size' \in Nat /\ head' + size' < 2 * Capacity
    BY <1>1, <1>2 DEF Slot
  <2> QED  BY <2>1, Wrap
<1>5. Slot(head' + size') = Slot(head + size)
  BY <1>1, <1>2 DEF Slot
<1>6. Ring'
  BY <1>3, <1>4, <1>5 DEF Ring
<1> QED  BY <1>1, <1>2, <1>6 DEF RingTyped, TypeOK

\* The invariant of the types and of the ring, split into the fields of
\* bounded_queue_t and the calls.
LEMMA TypeParts == TypeOK /\ Ring <=> /\ RingTyped /\ closed \in BOOLEAN
                                     /\ pc \in [Threads -> Places] /\ CallsTyped
  BY DEF TypeOK, RingTyped, CallsTyped, Places

\* Every step of a caller, and bq_close, keeps the types and the ring.
LEMMA TypeStep ==
    ASSUME TypeOK, Ring, [Next]_vars
    PROVE  TypeOK' /\ Ring'
<1> DEFINE Kept == RingTyped' /\ closed' \in BOOLEAN
<1>0. RingTyped /\ closed \in BOOLEAN
  BY TypeParts
<1>1. ASSUME UNCHANGED <<queue, closed>> PROVE Kept
  BY <1>0, <1>1 DEF RingTyped, Ring, queue, Index
<1> SUFFICES Kept /\ pc' \in [Threads -> Places] /\ CallsTyped'
  BY DEF TypeOK, RingTyped, CallsTyped, Places
<1>2. ASSUME NEW t \in Threads, NEW m \in Modes, NEW o \in {"push", "pop"},
             NEW v \in Items \cup {NoItem}, Call(t, o, v, m)
      PROVE  Kept /\ pc' \in [Threads -> Places] /\ CallsTyped'
  <2>1. Kept
    BY <1>1, <1>2 DEF Call
  <2> QED  BY <2>1, <1>2 DEF Call, TypeOK, Places, CallsTyped
<1>3. ASSUME NEW t \in Threads, Push(t)
      PROVE  Kept /\ pc' \in [Threads -> Places] /\ CallsTyped'
  <2>1. CASE Return(t, "CLOSED") /\ UNCHANGED queue
    BY <2>1, <1>1, <1>3, ReturnType DEF Push
  <2>2. CASE Block(t, "not_full") /\ UNCHANGED queue
    BY <2>2, <1>1, <1>3, BlockType DEF Push
  <2>3. CASE /\ ~closed /\ size < Capacity
             /\ buffer' = [buffer EXCEPT ![tail] = item[t]]
             /\ tail' = Advance(tail) /\ size' = size + 1
             /\ ReturnAndSignal(t, "not_empty", "pop")
             /\ SetOutcome(t, "OK", NoItem) /\ UNCHANGED head
    <3>1. item[t] \in Items \cup {NoItem}
      BY DEF TypeOK
    <3>2. RingTyped'
      BY <2>3, <3>1, PushRing, Zenon
    <3>3. pc' \in [Threads -> Places]
      BY <2>3, SignalType DEF Places
    <3>4. CallsTyped'
      BY <2>3, OutcomeType
    <3> QED  BY <3>2, <3>3, <3>4, <1>0, <1>3 DEF Push
  <2> QED  BY <1>3, <2>1, <2>2, <2>3 DEF Push
<1>4. ASSUME NEW t \in Threads, Pop(t)
      PROVE  Kept /\ pc' \in [Threads -> Places] /\ CallsTyped'
  <2>1. CASE Return(t, "CLOSED") /\ UNCHANGED queue
    BY <2>1, <1>1, <1>4, ReturnType DEF Pop
  <2>2. CASE Block(t, "not_empty") /\ UNCHANGED queue
    BY <2>2, <1>1, <1>4, BlockType DEF Pop
  <2>3. CASE /\ size > 0 /\ head' = Advance(head) /\ size' = size - 1
             /\ ReturnAndSignal(t, "not_full", "push")
             /\ SetOutcome(t, "OK", buffer[head]) /\ UNCHANGED <<buffer, tail>>
    <3>1. buffer[head] \in Items \cup {NoItem}
      BY DEF TypeOK
    <3>2. RingTyped'
      BY <2>3, PopRing
    <3>3. pc' \in [Threads -> Places]
      BY <2>3, SignalType DEF Places
    <3>4. CallsTyped'
      BY <2>3, <3>1, OutcomeType
    <3> QED  BY <3>2, <3>3, <3>4, <1>0, <1>4 DEF Pop
  <2> QED  BY <1>4, <2>1, <2>2, <2>3 DEF Pop
<1>5. ASSUME NEW t \in Threads, TimedOut(t)
      PROVE  Kept /\ pc' \in [Threads -> Places] /\ CallsTyped'
  BY <1>5, <1>1, ReturnType DEF TimedOut
<1>6. ASSUME NEW t \in Threads, SpuriousWakeup(t)
      PROVE  Kept /\ pc' \in [Threads -> Places] /\ CallsTyped'
  <2>1. Kept
    BY <1>1, <1>6 DEF SpuriousWakeup
  <2> QED  BY <2>1, <1>6 DEF SpuriousWakeup, Back, TypeOK, Places, CallsTyped
<1>7. CASE Close
  <2>1. RingTyped'
    BY <1>0, <1>7 DEF Close, RingTyped, Ring, queue, Index
  <2> QED  BY <2>1, <1>7 DEF Close, Back, TypeOK, Places, CallsTyped
<1>8. CASE UNCHANGED vars
  <2>1. Kept
    BY <1>1, <1>8 DEF vars
  <2> QED  BY <2>1, <1>8 DEF vars, calls, TypeOK, Places, CallsTyped
<1> QED  BY <1>2, <1>3, <1>4, <1>5, <1>6, <1>7, <1>8 DEF Next

-----------------------------------------------------------------------------
(* Wake-ups. *)

\* The two halves of NoLostWakeup.
TakersServed == Waiting("not_empty") # {} => size <= Cardinality(Running("pop"))
FillersServed == Waiting("not_full") # {} => Capacity - size <= Cardinality(Running("push"))

\* A thread that stops waiting, or begins a call, takes no wake-up from another.
LEMMA MoreAwake ==
    ASSUME TypeOK, TypeOK', size' = size, ClosedWakesAll, closed' = closed, NoLostWakeup,
           \A c \in {"not_empty", "not_full"} : Waiting(c)' \subseteq Waiting(c),
           \A o \in {"push", "pop"} : Running(o) \subseteq Running(o)'
    PROVE  ClosedWakesAll' /\ NoLostWakeup'
<1>1. ClosedWakesAll'
  BY DEF ClosedWakesAll
<1>2. \A o \in {"push", "pop"} : /\ Cardinality(Running(o)) \in Nat
                                /\ Cardinality(Running(o)') \in Nat
                                /\ Cardinality(Running(o)) <= Cardinality(Running(o)')
  BY CardNat, CardMonotone DEF Running
<1>3. size \in Nat /\ Capacity \in Nat
  BY CapacityAssumption DEF TypeOK
<1> QED  BY <1>1, <1>2, <1>3 DEF NoLostWakeup

\* A thread that finds the queue full (empty) leaves the room (the items) to
\* nobody: there are none.
LEMMA BlockWakes ==
    ASSUME TypeOK, TypeOK', ClosedWakesAll, NoLostWakeup, ~closed, UNCHANGED <<queue, closed>>,
           NEW t \in Threads,
           \/ pc[t] = "push" /\ size = Capacity /\ Block(t, "not_full")
           \/ pc[t] = "pop" /\ size = 0 /\ Block(t, "not_empty")
    PROVE  ClosedWakesAll' /\ NoLostWakeup'
<1>1. \A o \in {"push", "pop"} : /\ Cardinality(Running(o)) \in Nat
                                /\ Cardinality(Running(o)') \in Nat
  BY CardNat DEF Running
<1>2. size \in Nat /\ Capacity \in Nat /\ size' = size
  BY CapacityAssumption DEF TypeOK, queue
<1>3. ClosedWakesAll'
  BY DEF ClosedWakesAll
<1>4. CASE pc[t] = "push" /\ size = Capacity /\ Block(t, "not_full")
  <2>1. \E p \in {"idle", "not_full"} : pc' = [pc EXCEPT ![t] = p]
    BY <1>4 DEF Block, Return
  <2>2. Waiting("not_empty")' = Waiting("not_empty") /\ Running("pop")' = Running("pop")
    BY <2>1, <1>4 DEF Waiting, Running, TypeOK
  <2> QED  BY <1>1, <1>2, <1>3, <1>4, <2>2 DEF NoLostWakeup
<1>5. CASE pc[t] = "pop" /\ size = 0 /\ Block(t, "not_empty")
  <2>1. \E p \in {"idle", "not_empty"} : pc' = [pc EXCEPT ![t] = p]
    BY <1>5 DEF Block, Return
  <2>2. Waiting("not_full")' = Waiting("not_full") /\ Running("push")' = Running("push")
    BY <2>1, <1>5 DEF Waiting, Running, TypeOK
  <2> QED  BY <1>1, <1>2, <1>3, <1>5, <2>2 DEF NoLostWakeup
<1> QED  BY <1>4, <1>5

\* The signal of a push passes the new item on to a waiting thread, and the
\* slot it took was its own.
LEMMA PushWakes ==
    ASSUME TypeOK, TypeOK', ClosedWakesAll, NoLostWakeup, ~closed, closed' = closed,
           NEW t \in Threads, pc[t] = "push", size < Capacity, size' = size + 1,
           ReturnAndSignal(t, "not_empty", "pop")
    PROVE  ClosedWakesAll' /\ NoLostWakeup'
<1>1. size \in Nat /\ Capacity \in Nat
  BY CapacityAssumption DEF TypeOK
<1>2. Waiting("not_full")' = Waiting("not_full") /\ Running("push")' = Running("push") \ {t}
  <2>1. CASE pc' = [pc EXCEPT ![t] = "idle"]
    BY <2>1 DEF Waiting, Running, TypeOK
  <2>2. ASSUME NEW w \in Waiting("not_empty"), pc' = [pc EXCEPT ![t] = "idle", ![w] = "pop"]
        PROVE  Waiting("not_full")' = Waiting("not_full") /\ Running("push")' = Running("push") \ {t}
    <3>1. \A u \in Threads : pc'[u] = IF u = w THEN "pop" ELSE IF u = t THEN "idle" ELSE pc[u]
      BY <2>2 DEF Waiting, TypeOK
    <3>2. w \in Threads /\ pc[w] = "not_empty"
      BY <2>2 DEF Waiting
    <3> QED  BY <3>1, <3>2 DEF Waiting, Running
  <2> QED  BY <2>1, <2>2 DEF ReturnAndSignal
<1>3. Cardinality(Running("push")') = Cardinality(Running("push")) - 1
  BY <1>2, CardRemove DEF Running
<1>4. Cardinality(Running("push")) \in Nat /\ Cardinality(Running("pop")) \in Nat
  BY CardNat DEF Running
<1>5. FillersServed'
  BY <1>1, <1>2, <1>3, <1>4 DEF NoLostWakeup, FillersServed
<1>6. TakersServed'
  <2>1. CASE Waiting("not_empty") = {} /\ pc' = [pc EXCEPT ![t] = "idle"]
    <3>1. Waiting("not_empty")' = {}
      BY <2>1 DEF Waiting, TypeOK
    <3> QED  BY <3>1 DEF TakersServed
  <2>2. ASSUME NEW w \in Waiting("not_empty"), pc' = [pc EXCEPT ![t] = "idle", ![w] = "pop"]
        PROVE  TakersServed'
    <3>1. Running("pop")' = Running("pop") \cup {w} /\ w \in Threads \ Running("pop")
      BY <2>2 DEF Waiting, Running, TypeOK
    <3>2. Cardinality(Running("pop")') = Cardinality(Running("pop")) + 1
      BY <3>1, CardAdd DEF Running
    <3> QED  BY <1>1, <1>4, <2>2, <3>2 DEF NoLostWakeup, TakersServed
  <2> QED  BY <2>1, <2>2 DEF ReturnAndSignal
<1> QED  BY <1>5, <1>6 DEF ClosedWakesAll, NoLostWakeup, TakersServed, FillersServed

\* The signal of a pop passes the free slot on, and the item it took was its
\* own.
LEMMA PopWakes ==
    ASSUME TypeOK, TypeOK', ClosedWakesAll, NoLostWakeup, closed' = closed,
           NEW t \in Threads, pc[t] = "pop", size > 0, size' = size - 1,
           ReturnAndSignal(t, "not_full", "push")
    PROVE  ClosedWakesAll' /\ NoLostWakeup'
<1>1. size \in Nat /\ Capacity \in Nat
  BY CapacityAssumption DEF TypeOK
<1>2. Waiting("not_empty")' = Waiting("not_empty") /\ Running("pop")' = Running("pop") \ {t}
  <2>1. CASE pc' = [pc EXCEPT ![t] = "idle"]
    BY <2>1 DEF Waiting, Running, TypeOK
  <2>2. ASSUME NEW w \in Waiting("not_full"), pc' = [pc EXCEPT ![t] = "idle", ![w] = "push"]
        PROVE  Waiting("not_empty")' = Waiting("not_empty") /\ Running("pop")' = Running("pop") \ {t}
    <3>1. \A u \in Threads : pc'[u] = IF u = w THEN "push" ELSE IF u = t THEN "idle" ELSE pc[u]
      BY <2>2 DEF Waiting, TypeOK
    <3>2. w \in Threads /\ pc[w] = "not_full"
      BY <2>2 DEF Waiting
    <3> QED  BY <3>1, <3>2 DEF Waiting, Running
  <2> QED  BY <2>1, <2>2 DEF ReturnAndSignal
<1>3. Cardinality(Running("pop")') = Cardinality(Running("pop")) - 1
  BY <1>2, CardRemove DEF Running
<1>4. Cardinality(Running("push")) \in Nat /\ Cardinality(Running("pop")) \in Nat
  BY CardNat DEF Running
<1>5. TakersServed'
  BY <1>1, <1>2, <1>3, <1>4 DEF NoLostWakeup, TakersServed
<1>6. FillersServed' /\ Waiting("not_full")' \subseteq Waiting("not_full")
  <2>1. CASE Waiting("not_full") = {} /\ pc' = [pc EXCEPT ![t] = "idle"]
    <3>1. Waiting("not_full")' = {}
      BY <2>1 DEF Waiting, TypeOK
    <3> QED  BY <3>1 DEF FillersServed
  <2>2. ASSUME NEW w \in Waiting("not_full"), pc' = [pc EXCEPT ![t] = "idle", ![w] = "push"]
        PROVE  FillersServed' /\ Waiting("not_full")' \subseteq Waiting("not_full")
    <3>1. /\ Running("push")' = Running("push") \cup {w} /\ w \in Threads \ Running("push")
          /\ Waiting("not_full")' \subseteq Waiting("not_full")
      BY <2>2 DEF Waiting, Running, TypeOK
    <3>2. Cardinality(Running("push")') = Cardinality(Running("push")) + 1
      BY <3>1, CardAdd DEF Running
    <3> QED  BY <1>1, <1>4, <2>2, <3>1, <3>2 DEF NoLostWakeup, FillersServed
  <2> QED  BY <2>1, <2>2 DEF ReturnAndSignal
<1>7. ClosedWakesAll'
  BY <1>2, <1>6 DEF ClosedWakesAll
<1> QED  BY <1>5, <1>6, <1>7 DEF NoLostWakeup, TakersServed, FillersServed

\* No step of a caller loses a wake-up, and bq_close wakes everybody.
LEMMA WakeStep ==
    ASSUME TypeOK, TypeOK', ClosedWakesAll, NoLostWakeup, [Next]_vars
    PROVE  ClosedWakesAll' /\ NoLostWakeup'
<1> DEFINE Wakes == ClosedWakesAll' /\ NoLostWakeup'
<1>1. ASSUME NEW t \in Threads, NEW m \in Modes, NEW o \in {"push", "pop"},
             NEW v \in Items \cup {NoItem}, Call(t, o, v, m)
      PROVE  Wakes
  <2>1. /\ \A c \in {"not_empty", "not_full"} : Waiting(c)' \subseteq Waiting(c)
        /\ \A a \in {"push", "pop"} : Running(a) \subseteq Running(a)'
    BY <1>1 DEF Call, Waiting, Running, TypeOK
  <2> QED  BY <1>1, <2>1, MoreAwake DEF Call, queue

\* On a closed queue nobody waits, so that nobody can miss anything.
<1>2. ASSUME NEW t \in Threads, closed, UNCHANGED <<queue, closed>>, Return(t, "CLOSED")
      PROVE  Wakes
  <2>1. Waiting("not_empty")' = {} /\ Waiting("not_full")' = {}
    BY <1>2 DEF ClosedWakesAll, Return, Waiting, TypeOK
  <2> QED  BY <2>1 DEF ClosedWakesAll, NoLostWakeup
<1>3. ASSUME NEW t \in Threads, Push(t) PROVE Wakes
  <2>1. CASE closed /\ Return(t, "CLOSED") /\ UNCHANGED queue
    BY <2>1, <1>2, <1>3 DEF Push
  <2>2. CASE ~closed /\ size = Capacity /\ Block(t, "not_full") /\ UNCHANGED queue
    BY <2>2, <1>3, BlockWakes DEF Push
  <2>3. CASE /\ ~closed /\ size < Capacity /\ size' = size + 1
             /\ ReturnAndSignal(t, "not_empty", "pop")
    BY <2>3, <1>3, PushWakes DEF Push
  <2> QED  BY <1>3, <2>1, <2>2, <2>3 DEF Push
<1>4. ASSUME NEW t \in Threads, Pop(t) PROVE Wakes
  <2>1. CASE closed /\ Return(t, "CLOSED") /\ UNCHANGED queue
    BY <2>1, <1>2, <1>4 DEF Pop
  <2>2. CASE ~closed /\ size = 0 /\ Block(t, "not_empty") /\ UNCHANGED queue
    BY <2>2, <1>4, BlockWakes DEF Pop
  <2>3. CASE size > 0 /\ size' = size - 1 /\ ReturnAndSignal(t, "not_full", "push")
    BY <2>3, <1>4, PopWakes DEF Pop
  <2> QED  BY <1>4, <2>1, <2>2, <2>3 DEF Pop
<1>5. ASSUME NEW t \in Threads, TimedOut(t) \/ SpuriousWakeup(t) PROVE Wakes
  <2>1. \E p \in {"idle", "push", "pop"} : pc' = [pc EXCEPT ![t] = p]
    BY <1>5 DEF TimedOut, Return, SpuriousWakeup, Back
  <2>2. pc[t] \in {"not_full", "not_empty"} /\ UNCHANGED <<queue, closed>>
    BY <1>5 DEF TimedOut, SpuriousWakeup
  <2>3. /\ \A c \in {"not_empty", "not_full"} : Waiting(c)' \subseteq Waiting(c)
        /\ \A a \in {"push", "pop"} : Running(a) \subseteq Running(a)'
    BY <2>1, <2>2 DEF Waiting, Running, TypeOK
  <2> QED  BY <2>2, <2>3, MoreAwake DEF queue
<1>6. CASE Close
  <2>1. Waiting("not_empty")' = {} /\ Waiting("not_full")' = {}
    BY <1>6 DEF Close, Back, Waiting, TypeOK
  <2> QED  BY <2>1 DEF ClosedWakesAll, NoLostWakeup
<1>7. CASE UNCHANGED vars
  <2>1. UNCHANGED <<pc, size, closed>>
    BY <1>7 DEF vars, calls, queue
  <2> QED  BY <2>1 DEF ClosedWakesAll, NoLostWakeup, Waiting, Running
<1> QED  BY <1>1, <1>3, <1>4, <1>5, <1>6, <1>7 DEF Next

\* bq_init makes an empty ring that nobody waits for.
LEMMA InitQueue == Init => QueueInv
<1> SUFFICES ASSUME Init PROVE QueueInv
  OBVIOUS
<1>1. Capacity \in Nat \ {0} /\ 0 \in Index /\ (0 + 0) % Capacity = 0
  BY CapacityAssumption DEF Index
<1>2. TypeOK /\ Ring
  <2>1. Ring
    BY <1>1 DEF Init, Ring
  <2>2. head \in Index /\ tail \in Index /\ size \in 0 .. Capacity
    BY <1>1, SMT DEF Init
  <2>3. closed \in BOOLEAN
    BY Zenon DEF Init
  <2>4. buffer \in [Index -> Items \cup {NoItem}] /\ pc \in [Threads -> Places]
    BY DEF Init, Places
  <2>5. CallsTyped
    BY DEF Init, CallsTyped, Modes
  <2> QED  BY <2>1, <2>2, <2>3, <2>4, <2>5 DEF TypeOK, Places, CallsTyped
<1>3. Waiting("not_empty") = {} /\ Waiting("not_full") = {}
  BY DEF Init, Waiting
<1> QED  BY <1>2, <1>3 DEF QueueInv, ClosedWakesAll, NoLostWakeup

\* The inductive invariant of the queue: types, a consistent ring, nobody
\* asleep on a closed queue and no lost wake-up.
THEOREM QueueInvariant == Spec => []QueueInv
<1>1. QueueInv /\ [Next]_vars => QueueInv'
  BY TypeStep, WakeStep DEF QueueInv
<1> QED  BY InitQueue, <1>1, PTL DEF Spec

\* The fields of bounded_queue_t keep their types, so that the asserts of
\* bq_push and bq_pop on size hold.
THEOREM QueueTypes == Spec => []TypeOK
<1>1. QueueInv => TypeOK
  BY DEF QueueInv
<1> QED  BY QueueInvariant, <1>1, PTL

\* bq_push and bq_pop signal one thread only and lose no wake-up, for any
\* number of threads and any capacity.
THEOREM WakeupsKept == Spec => []NoLostWakeup
<1>1. QueueInv => NoLostWakeup
  BY DEF QueueInv
<1> QED  BY QueueInvariant, <1>1, PTL

\* bq_close leaves nobody asleep, and nobody falls asleep after it.
THEOREM CloseWakes == Spec => []ClosedWakesAll
<1>1. QueueInv => ClosedWakesAll
  BY DEF QueueInv
<1> QED  BY QueueInvariant, <1>1, PTL

-----------------------------------------------------------------------------
(* The ring implements the atomic queue. *)

\* The slot of the i-th item.
At(i) == Slot(head + i - 1)

\* The contents form a sequence of size items, the slots from head on.
LEMMA ContentsAt ==
    ASSUME TypeOK
    PROVE  /\ Contents = [i \in 1 .. size |-> buffer[At(i)]]
           /\ \A i \in 1 .. Capacity : At(i) \in Index /\ (head + i - 1) % Capacity = At(i)
           /\ Contents \in Seq(Items \cup {NoItem}) /\ Len(Contents) = size
<1>1. /\ head \in Nat /\ size \in Nat /\ Capacity \in Nat \ {0}
      /\ head < Capacity /\ size <= Capacity
  BY CapacityAssumption DEF TypeOK, Index
<1>2. \A i \in 1 .. Capacity : head + i - 1 \in Nat /\ head + i - 1 < 2 * Capacity
  BY <1>1
<1>3. \A i \in 1 .. Capacity : (head + i - 1) % Capacity = At(i)
  BY <1>2, Wrap DEF At
<1>4. \A i \in 1 .. Capacity : At(i) \in Index
  BY <1>1, <1>2 DEF At, Slot, Index
<1>5. Contents = [i \in 1 .. size |-> buffer[At(i)]]
  BY <1>1, <1>3 DEF Contents
<1>6. \A i \in 1 .. size : buffer[At(i)] \in Items \cup {NoItem}
  <2>1. buffer \in [Index -> Items \cup {NoItem}]
    BY DEF TypeOK
  <2>2. \A i \in 1 .. size : At(i) \in Index
    BY <1>1, <1>4
  <2> QED  BY <2>1, <2>2
<1> QED  BY <1>1, <1>3, <1>4, <1>5, <1>6

\* Sequences are equal when their items are.
LEMMA SameItems ==
    ASSUME NEW S, NEW s \in Seq(S), NEW n \in Nat, NEW f, f = [i \in 1 .. n |-> f[i]],
           Len(s) = n, \A i \in 1 .. n : s[i] = f[i]
    PROVE  s = f
<1>1. s \in [1 .. n -> S]
  BY LenProperties
<1>2. s = [i \in 1 .. n |-> s[i]]
  BY <1>1
<1> QED  BY <1>2

\* bq_push appends: the slot it fills holds none of the items in the queue.
LEMMA ContentsPush ==
    ASSUME TypeOK, TypeOK', Ring, NEW v \in Items \cup {NoItem}, size < Capacity,
           buffer' = [buffer EXCEPT ![tail] = v], size' = size + 1, head' = head
    PROVE  Contents' = Append(Contents, v)
<1>1. /\ head \in Nat /\ size \in Nat /\ Capacity \in Nat \ {0}
      /\ head < Capacity /\ size < Capacity
  BY CapacityAssumption DEF TypeOK, Index
<1>2. tail = Slot(head + size)
  <2>1. head + size \in Nat /\ head + size < 2 * Capacity
    BY <1>1
  <2> QED  BY <2>1, Wrap DEF Ring
<1>3. \A i \in 1 .. size : At(i) # tail
  BY <1>1, <1>2 DEF At, Slot
<1>4. At(size + 1) = tail
  BY <1>1, <1>2 DEF At
<1>5. \A i \in 1 .. (size + 1) : At(i) \in Index /\ (head + i - 1) % Capacity = At(i)
  BY <1>1, ContentsAt
<1>6. Contents' = [i \in 1 .. (size + 1) |-> buffer'[At(i)]]
  BY <1>5 DEF Contents
<1>7. \A i \in 1 .. (size + 1) : buffer'[At(i)] = IF i <= size THEN Contents[i] ELSE v
  <2>1. buffer \in [Index -> Items \cup {NoItem}] /\ tail \in Index
    BY DEF TypeOK
  <2>2. \A i \in 1 .. size : At(i) \in Index /\ Contents[i] = buffer[At(i)]
    BY <1>1, <1>5, ContentsAt
  <2>3. \A i \in 1 .. size : buffer'[At(i)] = Contents[i]
    BY <2>1, <2>2, <1>3
  <2>4. buffer'[At(size + 1)] = v
    BY <2>1, <1>4
  <2> QED  BY <1>1, <2>3, <2>4
<1>8. /\ Append(Contents, v) \in Seq(Items \cup {NoItem})
      /\ Len(Append(Contents, v)) = size + 1
      /\ \A i \in 1 .. size : Append(Contents, v)[i] = Contents[i]
      /\ Append(Contents, v)[size + 1] = v
  BY ContentsAt, AppendProperties
<1>9. \A i \in 1 .. (size + 1) : Append(Contents, v)[i] = Contents'[i]
  BY <1>1, <1>6, <1>7, <1>8
<1>10. Contents' = [i \in 1 .. (size + 1) |-> Contents'[i]] /\ size + 1 \in Nat
  BY <1>1, <1>6
<1> QED  BY <1>8, <1>9, <1>10, SameItems

\* bq_pop returns the first item and leaves the others in their order.
LEMMA ContentsPop ==
    ASSUME TypeOK, TypeOK', size > 0, head' = Advance(head), size' = size - 1,
           UNCHANGED buffer
    PROVE  Contents # <<>> /\ Head(Contents) = buffer[head] /\ Contents' = Tail(Contents)
<1>1. /\ head \in Nat /\ size \in Nat /\ Capacity \in Nat \ {0}
      /\ head < Capacity /\ size <= Capacity /\ size > 0
  BY CapacityAssumption DEF TypeOK, Index
<1>2. /\ Contents \in Seq(Items \cup {NoItem}) /\ Len(Contents) = size
      /\ \A i \in 1 .. size : Contents[i] = buffer[At(i)]
  BY ContentsAt
<1>3. head' = Slot(head + 1) /\ head' \in Nat /\ head' < Capacity
  BY AdvanceStays, CapacityAssumption DEF TypeOK, Index
<1>4. \A i \in 1 .. (size - 1) : (head' + i - 1) % Capacity = At(i + 1)
  <2> SUFFICES ASSUME NEW i \in 1 .. (size - 1) PROVE (head' + i - 1) % Capacity = At(i + 1)
    OBVIOUS
  <2>1. head' + i - 1 \in Nat /\ head' + i - 1 < 2 * Capacity
    BY <1>1, <1>3
  <2>2. (head' + i - 1) % Capacity = Slot(head' + i - 1)
    BY <2>1, Wrap
  <2>3. Slot(head' + i - 1) = Slot(head + i)
    BY <1>1, <1>3 DEF Slot
  <2> QED  BY <1>1, <2>2, <2>3 DEF At
<1>5. Contents' = [i \in 1 .. (size - 1) |-> Contents[i + 1]]
  <2>1. Contents' = [i \in 1 .. (size - 1) |-> buffer[At(i + 1)]]
    BY <1>4 DEF Contents
  <2>2. \A i \in 1 .. (size - 1) : Contents[i + 1] = buffer[At(i + 1)]
    BY <1>1, <1>2
  <2> QED  BY <2>1, <2>2
<1>6. Contents # <<>>
  BY <1>1, <1>2
<1>7. Contents' = Tail(Contents)
  <2>1. /\ Tail(Contents) \in Seq(Items \cup {NoItem}) /\ Len(Tail(Contents)) = size - 1
        /\ \A i \in 1 .. (size - 1) : Tail(Contents)[i] = Contents[i + 1]
    BY <1>2, <1>6, HeadTailProperties
  <2>2. \A i \in 1 .. (size - 1) : Tail(Contents)[i] = Contents'[i]
    BY <1>5, <2>1
  <2>3. Contents' = [i \in 1 .. (size - 1) |-> Contents'[i]] /\ size - 1 \in Nat
    BY <1>1, <1>5
  <2> QED  BY <2>1, <2>2, <2>3, SameItems
<1>8. Head(Contents) = buffer[head]
  <2>1. At(1) = head
    BY <1>1 DEF At, Slot
  <2> QED  BY <1>1, <1>2, <1>6, <2>1
<1> QED  BY <1>6, <1>7, <1>8

\* A step of the thread t alone moves its call; the thread that a signal wakes
\* stays in the call it was in.
LEMMA OpMove ==
    ASSUME TypeOK, NEW t \in Threads, NEW p \in {"idle", "push", "pop"},
           pc' = [pc EXCEPT ![t] = p]
    PROVE  Op' = [Op EXCEPT ![t] = p]
  BY Zenon DEF Op, Back, TypeOK

\* Going to sleep and waking up stay within the call.
LEMMA OpWait ==
    ASSUME TypeOK, NEW t \in Threads, NEW c \in {"not_full", "not_empty"},
           \/ pc[t] = Back(c) /\ pc' = [pc EXCEPT ![t] = c]
           \/ pc[t] = c /\ pc' = [pc EXCEPT ![t] = Back(c)]
    PROVE  Op' = Op
  BY DEF Op, Back, TypeOK

\* A return with a signal ends the call of the thread that returns, and only
\* that call.
LEMMA OpSignal ==
    ASSUME TypeOK, NEW t \in Threads, NEW c \in {"not_full", "not_empty"},
           pc[t] \in {"push", "pop"}, ReturnAndSignal(t, c, Back(c))
    PROVE  Op' = [Op EXCEPT ![t] = "idle"]
<1>1. CASE pc' = [pc EXCEPT ![t] = "idle"]
  BY <1>1, OpMove, Zenon
<1>2. ASSUME NEW w \in Waiting(c), pc' = [pc EXCEPT ![t] = "idle", ![w] = Back(c)]
      PROVE  Op' = [Op EXCEPT ![t] = "idle"]
  BY <1>2, Zenon DEF Op, Back, Waiting, TypeOK
<1> QED  BY <1>1, <1>2 DEF ReturnAndSignal

\* A step that leaves the ring alone leaves its contents alone.
LEMMA ContentsSame ==
    ASSUME UNCHANGED queue
    PROVE  Contents' = Contents
  BY DEF Contents, queue

\* A call that returns CLOSED or TIMEOUT does so in the atomic queue as well.
LEMMA ReturnRefines ==
    ASSUME TypeOK, NEW t \in Threads, NEW code, Return(t, code)
    PROVE  Atomic!Return(t, code, NoItem)
<1>1. Op' = [Op EXCEPT ![t] = "idle"]
  BY OpMove, Zenon DEF Return
<1> QED  BY <1>1, Zenon DEF Return, SetOutcome, Atomic!Return, NoItem, Atomic!NoItem

\* bq_push, with its wait or without.
LEMMA PushRefines ==
    ASSUME TypeOK, TypeOK', Ring, NEW t \in Threads, Push(t)
    PROVE  [Atomic!Next]_(Atomic!vars)
<1>0. Op[t] = "push" /\ Len(Contents) = size
  BY ContentsAt DEF Push, Op
<1>1. CASE closed /\ Return(t, "CLOSED") /\ UNCHANGED queue
  <2>1. Atomic!PushClosed(t)
    BY <1>0, <1>1, ReturnRefines, ContentsSame, Zenon DEF Push, Atomic!PushClosed, NoItem, Atomic!NoItem
  <2> QED  BY <2>1 DEF Atomic!Next
<1>2. CASE ~closed /\ size = Capacity /\ Block(t, "not_full") /\ UNCHANGED queue
  <2>1. CASE mode[t] = "try" /\ Return(t, "TIMEOUT")
    <3>1. Atomic!TimedOut(t)
      BY <1>0, <1>2, <2>1, ReturnRefines, ContentsSame, Zenon DEF Push, Atomic!TimedOut, NoItem, Atomic!NoItem
    <3> QED  BY <3>1 DEF Atomic!Next
  <2>2. CASE pc' = [pc EXCEPT ![t] = "not_full"] /\ UNCHANGED <<mode, item, outcome>>
    <3>1. Op' = Op
      BY <2>2, OpWait, Zenon DEF Push, Back
    <3> QED  BY <1>2, <2>2, <3>1, ContentsSame DEF Push, Atomic!vars
  <2> QED  BY <1>2, <2>1, <2>2 DEF Block
<1>3. CASE /\ ~closed /\ size < Capacity
           /\ buffer' = [buffer EXCEPT ![tail] = item[t]] /\ size' = size + 1
           /\ ReturnAndSignal(t, "not_empty", "pop")
           /\ SetOutcome(t, "OK", NoItem) /\ UNCHANGED head
  <2>1. item[t] \in Items \cup {NoItem}
    BY DEF TypeOK
  <2>2. Contents' = Append(Contents, item[t])
    BY <1>3, <2>1, ContentsPush, Zenon
  <2>3. Op' = [Op EXCEPT ![t] = "idle"]
    BY <1>3, OpSignal DEF Push, Back
  <2>4. Atomic!PushOk(t)
    BY <1>0, <1>3, <2>2, <2>3, Zenon DEF Push, SetOutcome, Atomic!PushOk, Atomic!Return, NoItem, Atomic!NoItem
  <2> QED  BY <2>4 DEF Atomic!Next
<1> QED  BY <1>1, <1>2, <1>3 DEF Push

\* bq_pop, with its wait or without.
LEMMA PopRefines ==
    ASSUME TypeOK, TypeOK', NEW t \in Threads, Pop(t)
    PROVE  [Atomic!Next]_(Atomic!vars)
<1>0. Op[t] = "pop" /\ Len(Contents) = size /\ (size = 0 => Contents = <<>>)
  BY ContentsAt DEF Pop, Op
<1>1. CASE size = 0 /\ closed /\ Return(t, "CLOSED") /\ UNCHANGED queue
  <2>1. Atomic!PopClosed(t)
    BY <1>0, <1>1, ReturnRefines, ContentsSame, Zenon DEF Pop, Atomic!PopClosed, NoItem, Atomic!NoItem
  <2> QED  BY <2>1 DEF Atomic!Next
<1>2. CASE size = 0 /\ Block(t, "not_empty") /\ UNCHANGED queue
  <2>1. CASE mode[t] = "try" /\ Return(t, "TIMEOUT")
    <3>1. Atomic!TimedOut(t)
      BY <1>0, <1>2, <2>1, ReturnRefines, ContentsSame, Zenon DEF Pop, Atomic!TimedOut, NoItem, Atomic!NoItem
    <3> QED  BY <3>1 DEF Atomic!Next
  <2>2. CASE pc' = [pc EXCEPT ![t] = "not_empty"] /\ UNCHANGED <<mode, item, outcome>>
    <3>1. Op' = Op
      BY <2>2, OpWait, Zenon DEF Pop, Back
    <3> QED  BY <1>2, <2>2, <3>1, ContentsSame DEF Pop, Atomic!vars
  <2> QED  BY <1>2, <2>1, <2>2 DEF Block
<1>3. CASE /\ size > 0 /\ head' = Advance(head) /\ size' = size - 1
           /\ ReturnAndSignal(t, "not_full", "push")
           /\ SetOutcome(t, "OK", buffer[head]) /\ UNCHANGED <<buffer, tail>>
  <2>1. Contents # <<>> /\ Head(Contents) = buffer[head] /\ Contents' = Tail(Contents)
    BY <1>3, ContentsPop
  <2>2. Op' = [Op EXCEPT ![t] = "idle"]
    BY <1>3, OpSignal DEF Pop, Back
  <2>3. Atomic!PopOk(t)
    BY <1>0, <1>3, <2>1, <2>2, Zenon DEF Pop, SetOutcome, Atomic!PopOk, Atomic!Return, NoItem, Atomic!NoItem
  <2> QED  BY <2>3 DEF Atomic!Next
<1> QED  BY <1>1, <1>2, <1>3 DEF Pop

\* bq_init yields an empty atomic queue.
LEMMA InitRefines == Init => Atomic!Init
<1> SUFFICES ASSUME Init PROVE Atomic!Init
  OBVIOUS
<1>1. Contents = <<>>
  BY DEF Init, Contents
<1>2. Op = [t \in Threads |-> "idle"]
  BY DEF Init, Op
<1> QED  BY <1>1, <1>2, Zenon DEF Init, Atomic!Init, NoItem, Atomic!NoItem

\* Every step of the ring buffer is a step of the atomic queue or leaves it as
\* it is.
LEMMA StepRefines ==
    ASSUME TypeOK, TypeOK', Ring, [Next]_vars
    PROVE  [Atomic!Next]_(Atomic!vars)
<1>1. ASSUME NEW t \in Threads, NEW m \in Modes, NEW v \in Items, Call(t, "push", v, m)
      PROVE  [Atomic!Next]_(Atomic!vars)
  <2>1. Op[t] = "idle" /\ Op' = [Op EXCEPT ![t] = "push"] /\ Contents' = Contents
    BY <1>1, OpMove, ContentsSame, Zenon DEF Call, Op
  <2>2. Atomic!Call(t, "push", v, m)
    BY <1>1, <2>1, Zenon DEF Call, Atomic!Call, NoItem, Atomic!NoItem
  <2> QED  BY <2>2 DEF Atomic!Next, Modes, Atomic!Modes
<1>2. ASSUME NEW t \in Threads, NEW m \in Modes, Call(t, "pop", NoItem, m)
      PROVE  [Atomic!Next]_(Atomic!vars)
  <2>1. Op[t] = "idle" /\ Op' = [Op EXCEPT ![t] = "pop"] /\ Contents' = Contents
    BY <1>2, OpMove, ContentsSame, Zenon DEF Call, Op
  <2>2. Atomic!Call(t, "pop", Atomic!NoItem, m)
    BY <1>2, <2>1, Zenon DEF Call, Atomic!Call, NoItem, Atomic!NoItem
  <2> QED  BY <2>2 DEF Atomic!Next, Modes, Atomic!Modes
<1>3. ASSUME NEW t \in Threads, TimedOut(t)
      PROVE  [Atomic!Next]_(Atomic!vars)
  <2>1. Op[t] # "idle"
    BY <1>3 DEF TimedOut, Op, Back
  <2>2. Atomic!TimedOut(t)
    BY <1>3, <2>1, ReturnRefines, ContentsSame, Zenon DEF TimedOut, Atomic!TimedOut, NoItem, Atomic!NoItem
  <2> QED  BY <2>2 DEF Atomic!Next
<1>4. ASSUME NEW t \in Threads, SpuriousWakeup(t)
      PROVE  [Atomic!Next]_(Atomic!vars)
  <2>1. Op' = Op
    BY <1>4, OpWait, Zenon DEF SpuriousWakeup
  <2> QED  BY <1>4, <2>1, ContentsSame DEF SpuriousWakeup, Atomic!vars
<1>5. CASE Close
  <2>1. Op' = Op
    BY <1>5 DEF Close, Op, Back, TypeOK
  <2>2. Atomic!Close
    BY <1>5, <2>1, ContentsSame DEF Close, Atomic!Close
  <2> QED  BY <2>2 DEF Atomic!Next
<1>6. CASE UNCHANGED vars
  <2>1. Op' = Op
    BY <1>6 DEF vars, calls, Op
  <2> QED  BY <1>6, <2>1, ContentsSame DEF vars, calls, Atomic!vars
<1> QED  BY <1>1, <1>2, <1>3, <1>4, <1>5, <1>6, PushRefines, PopRefines DEF Next

\* The ring buffer with its waits, signals, time-outs and spurious wake-ups
\* implements the atomic queue, for every capacity and every number of threads.
THEOREM RefinesAtomicQueue == Spec => ImplementsAtomicQueue
<1>1. QueueInv /\ QueueInv' /\ [Next]_vars => [Atomic!Next]_(Atomic!vars)
  BY StepRefines DEF QueueInv
<1> QED  BY <1>1, InitRefines, QueueInvariant, PTL DEF Spec, ImplementsAtomicQueue, Atomic!Spec
=============================================================================
