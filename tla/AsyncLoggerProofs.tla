--------------------------- MODULE AsyncLoggerProofs ---------------------------
(***************************************************************************)
(* What the logger promises, for any producers and any capacity: a durable *)
(* call that returned 0 has its line on the disk, and a shutdown that      *)
(* returned 0 has written everything that was accepted.                    *)
(***************************************************************************)
EXTENDS AsyncLogger, TLAPS

Types ==
    /\ durability \in {"BUFFERED", "FSYNC_EACH"}
    /\ queue \in Seq(Nat) /\ lines \in Seq(Nat)
    /\ closed \in BOOLEAN /\ write_error \in BOOLEAN
    /\ next_sequence \in Nat /\ durable_sequence \in Nat /\ current \in Nat
    /\ synced \in Nat /\ synced <= Len(lines)
    /\ submit_mutex \in Producers \cup {"free"}
    /\ pc \in [Producers -> {"idle", "number", "push", "count", "wait"}]
    /\ message \in [Producers -> Nat]
    /\ result \in [Producers -> {"none", "ok", "error"}]
    /\ writer \in {"none", "pop", "write", "publish", "sync", "mark_error", "close", "done"}
    /\ control \in {"init", "failed", "running", "joining", "shutdown", "destroyed"}
    /\ status \in {"none", "ok", "error"}

\* A message that the queue has taken, until its producer calls again.
Pushed(p) == pc[p] \in {"count", "wait"} \/ result[p] = "ok"

\* m is among the first n elements of s.
Among(m, s, n) == \E i \in 1..n : s[i] = m

Queued(m) == Among(m, queue, Len(queue))
InHand(m) == writer = "write" /\ current = m
Written(m) == Among(m, lines, Len(lines))
Synced(m) == Among(m, lines, synced)

\* Where shutdown and the end of the writer are.
Stages ==
    /\ control = "init" => writer = "none" /\ status = "none"
    /\ \A p \in Producers : result[p] # "none" => pc[p] = "idle"
    /\ writer = "sync" => closed /\ queue = <<>>
    /\ writer = "done" /\ ~write_error => closed /\ queue = <<>> /\ synced = Len(lines)
    /\ writer = "close" => write_error
    /\ status = "ok" => writer = "done" /\ ~write_error

\* Without an error nothing that was pushed is lost.
Kept ==
    ~write_error /\ writer # "mark_error" =>
        \A p \in Producers :
            Pushed(p) => Queued(message[p]) \/ InHand(message[p]) \/ Written(message[p])

\* submit_mutex is held from the number to the push, ...
OneSubmits == \A p \in Producers : pc[p] \in {"number", "push", "count"} => submit_mutex = p

\* The elements of s grow, above low and below high.
Increasing(s, low, high) ==
    /\ \A i \in 1..Len(s) : low < s[i] /\ s[i] < high
    /\ \A i, j \in 1..Len(s) : i < j => s[i] < s[j]

\* ... so the queue is sorted, after what the writer has and before what is
\* still to be pushed, ...
Sorted ==
    /\ current < next_sequence /\ durable_sequence <= current
    /\ writer \in {"write", "publish"} => durable_sequence < current
    /\ Increasing(queue, current, next_sequence)
    /\ \A p \in Producers :
          pc[p] = "push" => /\ Increasing(queue, current, message[p])
                            /\ current < message[p] /\ message[p] < next_sequence

\* ... and the writer confirms what it has written in this order: what is not
\* in the queue is synced, unless it is the one that the writer has or failed on.
Confirmed ==
    \A p \in Producers :
        /\ pc[p] \in {"count", "wait"} =>
              \/ Queued(message[p]) \/ Synced(message[p])
              \/ /\ message[p] = current /\ durable_sequence < current
                 /\ writer \in {"write", "mark_error", "close", "done"}
        /\ result[p] = "ok" => Synced(message[p])

LoggerInv ==
    Types /\ Stages /\ Kept /\ (durable_mode => OneSubmits /\ Sorted /\ Confirmed)
-----------------------------------------------------------------------------
\* The queue and the file after a push, a write and a pop.
LEMMA AppendFacts ==
    ASSUME NEW s \in Seq(Nat), NEW m \in Nat
    PROVE  /\ Append(s, m) \in Seq(Nat) /\ Len(Append(s, m)) = Len(s) + 1
           /\ \A i \in 1..Len(s) : Append(s, m)[i] = s[i]
           /\ Append(s, m)[Len(s) + 1] = m
    OBVIOUS

LEMMA TailFacts ==
    ASSUME NEW s \in Seq(Nat), s # <<>>
    PROVE  /\ Tail(s) \in Seq(Nat) /\ Len(s) \in Nat /\ Len(Tail(s)) = Len(s) - 1
           /\ Len(s) > 0 /\ Head(s) = s[1] /\ Head(s) \in Nat
           /\ \A i \in 1..Len(Tail(s)) : Tail(s)[i] = s[i + 1]
    OBVIOUS

\* The new element is there, ...
LEMMA AppendLast ==
    ASSUME NEW s \in Seq(Nat), NEW m \in Nat
    PROVE  Among(m, Append(s, m), Len(Append(s, m)))
  <1>1. Len(s) + 1 \in 1..Len(Append(s, m)) /\ Append(s, m)[Len(s) + 1] = m
    BY AppendFacts
  <1> QED
    BY <1>1, Zenon DEF Among

\* ... and what was there stays.
LEMMA AppendKeeps ==
    ASSUME NEW s \in Seq(Nat), NEW m \in Nat, NEW n \in Nat, n <= Len(s),
           NEW x, Among(x, s, n)
    PROVE  /\ Among(x, Append(s, m), n)
           /\ Among(x, Append(s, m), Len(Append(s, m)))
  <1>1. PICK i \in 1..n : s[i] = x
    BY Zenon DEF Among
  <1>2. i \in 1..Len(Append(s, m)) /\ Append(s, m)[i] = x
    BY <1>1, AppendFacts
  <1> QED
    BY <1>1, <1>2, Zenon DEF Among

\* A pop takes the first away and leaves the others.
LEMMA TailAmong ==
    ASSUME NEW s \in Seq(Nat), s # <<>>, NEW x, Among(x, s, Len(s))
    PROVE  x = Head(s) \/ Among(x, Tail(s), Len(Tail(s)))
  <1>1. PICK i \in 1..Len(s) : s[i] = x
    BY DEF Among
  <1>2. CASE i = 1
    BY <1>1, <1>2, TailFacts
  <1>3. CASE i # 1
    <2>1. i - 1 \in 1..Len(Tail(s)) /\ (i - 1) + 1 = i
      BY <1>3, TailFacts
    <2>2. Tail(s)[i - 1] = x
      BY <1>1, <2>1, TailFacts, Zenon
    <2> QED
      BY <2>1, <2>2, Zenon DEF Among
  <1> QED
    BY <1>2, <1>3

\* A queue that grows from below m still does with m at its end, ...
LEMMA AppendIncreasing ==
    ASSUME NEW s \in Seq(Nat), NEW m \in Nat, NEW low \in Nat, NEW high \in Nat,
           low < m, m < high, Increasing(s, low, m)
    PROVE  Increasing(Append(s, m), low, high)
  <1>1. \A i \in 1..Len(s) : s[i] \in Nat /\ low < s[i] /\ s[i] < m
    BY DEF Increasing
  <1>2. \A i, j \in 1..Len(s) : i < j => s[i] < s[j]
    BY Zenon DEF Increasing
  <1>3. \A i \in 1..Len(Append(s, m)) : low < Append(s, m)[i] /\ Append(s, m)[i] < high
    BY <1>1, AppendFacts
  <1>4. ASSUME NEW i \in 1..Len(Append(s, m)), NEW j \in 1..Len(Append(s, m)), i < j
        PROVE  Append(s, m)[i] < Append(s, m)[j]
    <2>1. CASE j = Len(s) + 1
      BY <1>1, <1>4, <2>1, AppendFacts
    <2>2. CASE j \in 1..Len(s)
      BY <1>2, <1>4, <2>2, AppendFacts
    <2> QED
      BY <1>4, <2>1, <2>2, AppendFacts
  <1> QED
    BY <1>3, <1>4, Zenon DEF Increasing

\* ... without its first element it does above this element, ...
LEMMA TailIncreasing ==
    ASSUME NEW s \in Seq(Nat), s # <<>>, NEW low \in Nat, NEW high \in Nat,
           Increasing(s, low, high)
    PROVE  Increasing(Tail(s), Head(s), high) /\ low < Head(s) /\ Head(s) < high
  <1>1. low < Head(s) /\ Head(s) < high
    BY TailFacts DEF Increasing
  <1>2. ASSUME NEW i \in 1..Len(Tail(s))
        PROVE  Head(s) < Tail(s)[i] /\ Tail(s)[i] < high
    <2>1. i + 1 \in 1..Len(s) /\ 1 \in 1..Len(s) /\ 1 < i + 1
      BY TailFacts
    <2> QED
      BY <2>1, TailFacts DEF Increasing
  <1>3. ASSUME NEW i \in 1..Len(Tail(s)), NEW j \in 1..Len(Tail(s)), i < j
        PROVE  Tail(s)[i] < Tail(s)[j]
    <2>1. i + 1 \in 1..Len(s) /\ j + 1 \in 1..Len(s) /\ i + 1 < j + 1
      BY <1>3, TailFacts
    <2> QED
      BY <2>1, TailFacts DEF Increasing
  <1> QED
    BY <1>1, <1>2, <1>3, Zenon DEF Increasing

\* ... and the upper bound may grow.
LEMMA WiderIncreasing ==
    ASSUME NEW s \in Seq(Nat), NEW low \in Nat, NEW high \in Nat, NEW higher \in Nat,
           high <= higher, Increasing(s, low, high)
    PROVE  Increasing(s, low, higher)
  BY DEF Increasing

\* The initial state.
LEMMA LoggerInit == Init => LoggerInv
  <1> SUFFICES ASSUME Init PROVE LoggerInv
    OBVIOUS
  <1>1. Types
    <2>1. queue \in Seq(Nat) /\ lines \in Seq(Nat) /\ Len(lines) = 0 /\ synced = 0
      BY DEF Init
    <2>2. closed \in BOOLEAN /\ write_error \in BOOLEAN
      BY Zenon DEF Init
    <2> QED
      BY <2>1, <2>2 DEF Init, Types
  <1>2. Stages /\ Kept
    BY DEF Init, Stages, Kept, Pushed
  <1>3. OneSubmits /\ Sorted /\ Confirmed
    BY DEF Init, OneSubmits, Sorted, Increasing, Confirmed
  <1> QED
    BY <1>1, <1>2, <1>3 DEF LoggerInv

\* Each step keeps the types.
LEMMA TypesStep == Types /\ [Next]_vars => Types'
  <1> SUFFICES ASSUME Types, [Next]_vars PROVE Types'
    OBVIOUS
  <1> USE DEF Types, queue_vars, stats, durable, producers, output, life, Goto, Return,
              UnlockSubmit
  <1>1. CASE UNCHANGED vars
    BY <1>1 DEF vars, config, state
  <1>2. ASSUME Next PROVE Types'
    <2>0. UNCHANGED config
      BY <1>2 DEF Next
    <2> USE <2>0 DEF config
    <2>1. ASSUME NEW p \in Producers, LogBegin(p) PROVE Types'
      BY <2>1 DEF LogBegin
    <2>2. ASSUME NEW p \in Producers, Number(p) PROVE Types'
      BY <2>2 DEF Number
    <2>3. ASSUME NEW p \in Producers, ClockFails(p) PROVE Types'
      BY <2>3 DEF ClockFails
    <2>4. ASSUME NEW p \in Producers, Push(p) PROVE Types'
      BY <2>4, AppendFacts DEF Push
    <2>5. ASSUME NEW p \in Producers, PushRejected(p) PROVE Types'
      BY <2>5 DEF PushRejected
    <2>6. ASSUME NEW p \in Producers, CountAccepted(p) PROVE Types'
      <3>1. CASE Goto(p, "wait") /\ UNCHANGED <<message, result>>
        BY <2>6, <3>1 DEF CountAccepted
      <3>2. CASE Return(p, "ok")
        BY <2>6, <3>2 DEF CountAccepted
      <3> QED
        BY <2>6, <3>1, <3>2, Zenon DEF CountAccepted
    <2>7. ASSUME NEW p \in Producers, WaitDurable(p) PROVE Types'
      <3>1. UNCHANGED producers \/ \E r \in {"ok", "error"} : Return(p, r)
        BY <2>7, Zenon DEF WaitDurable
      <3>2. UNCHANGED <<queue_vars, stats, durable_sequence, write_error, submit_mutex, writer,
                        current, output, life>>
        BY <2>7, Zenon DEF WaitDurable
      <3>3. CASE UNCHANGED producers
        BY <3>2, <3>3
      <3>4. ASSUME NEW r \in {"ok", "error"}, Return(p, r) PROVE Types'
        BY <3>2, <3>4
      <3> QED
        BY <3>1, <3>3, <3>4, Zenon
    <2>8. ASSUME NEW r \in Range(Resources), Make(r) PROVE Types'
      BY <2>8 DEF Make
    <2>9. CASE InitFails
      BY <2>9 DEF InitFails
    <2>10. CASE Pop
      <3>1. /\ queue' \in Seq(Nat) /\ current' \in Nat
            /\ writer' \in {"write", "sync"}
        BY <2>10, TailFacts, Zenon DEF Pop
      <3> QED
        BY <2>10, <3>1 DEF Pop
    <2>11. CASE WriteOne
      BY <2>11, AppendFacts DEF WriteOne
    <2>12. CASE WriteFails
      <3>0. /\ writer' = "mark_error"
            /\ UNCHANGED <<queue_vars, stats, durable, submit_mutex, producers, current, synced,
                           life>>
        BY <2>12, Zenon DEF WriteFails
      <3>1. CASE lines' = lines
        BY <3>0, <3>1
      <3>2. CASE lines' = Append(lines, current)
        <4>1. lines' \in Seq(Nat) /\ synced <= Len(lines')
          BY <3>2, AppendFacts
        <4> QED
          BY <3>0, <4>1
      <3> QED
        BY <2>12, <3>1, <3>2 DEF WriteFails
    <2>13. CASE PublishWritten
      BY <2>13 DEF PublishWritten
    <2>14. CASE SyncAtEnd
      BY <2>14 DEF SyncAtEnd
    <2>15. CASE MarkError
      BY <2>15 DEF MarkError
    <2>16. CASE CloseAfterError
      BY <2>16 DEF CloseAfterError
    <2>17. CASE Shutdown
      BY <2>17 DEF Shutdown
    <2>18. CASE ShutdownJoin
      BY <2>18 DEF ShutdownJoin
    <2>19. CASE Destroy
      BY <2>19 DEF Destroy
    <2> QED
      BY <1>2, <2>1, <2>2, <2>3, <2>4, <2>5, <2>6, <2>7, <2>8, <2>9, <2>10, <2>11, <2>12,
         <2>13, <2>14, <2>15, <2>16, <2>17, <2>18, <2>19, Zenon DEF Next, Log, Writer
  <1> QED
    BY <1>1, <1>2

\* Where the writer and shutdown are: the writer ends without an error only
\* once the queue is closed and empty, and shutdown waits for its end.
LEMMA StagesStep == Types /\ Stages /\ [Next]_vars => Stages'
  <1> SUFFICES ASSUME Types, Stages, [Next]_vars PROVE Stages'
    OBVIOUS
  <1> USE DEF Types, Stages, queue_vars, stats, durable, producers, output, life, Goto, Return
  <1>1. CASE UNCHANGED vars
    BY <1>1 DEF vars, config, state
  <1>2. ASSUME Next PROVE Stages'
    <2>1. ASSUME NEW p \in Producers, LogBegin(p) PROVE Stages'
      BY <2>1 DEF LogBegin
    <2>2. ASSUME NEW p \in Producers, Number(p) PROVE Stages'
      BY <2>2 DEF Number
    <2>3. ASSUME NEW p \in Producers, ClockFails(p) PROVE Stages'
      BY <2>3 DEF ClockFails
    <2>4. ASSUME NEW p \in Producers, Push(p) PROVE Stages'
      BY <2>4 DEF Push
    <2>5. ASSUME NEW p \in Producers, PushRejected(p) PROVE Stages'
      BY <2>5 DEF PushRejected
    <2>6. ASSUME NEW p \in Producers, CountAccepted(p) PROVE Stages'
      BY <2>6 DEF CountAccepted
    <2>7. ASSUME NEW p \in Producers, WaitDurable(p) PROVE Stages'
      BY <2>7 DEF WaitDurable
    <2>8. ASSUME NEW r \in Range(Resources), Make(r) PROVE Stages'
      BY <2>8 DEF Make
    <2>9. CASE InitFails
      BY <2>9 DEF InitFails
    <2>10. CASE Pop
      BY <2>10 DEF Pop
    <2>11. CASE WriteOne
      BY <2>11 DEF WriteOne
    <2>12. CASE WriteFails
      BY <2>12 DEF WriteFails
    <2>13. CASE PublishWritten
      BY <2>13 DEF PublishWritten
    <2>14. CASE SyncAtEnd
      BY <2>14 DEF SyncAtEnd
    <2>15. CASE MarkError
      BY <2>15 DEF MarkError
    <2>16. CASE CloseAfterError
      BY <2>16 DEF CloseAfterError
    <2>17. CASE Shutdown
      BY <2>17 DEF Shutdown
    <2>18. CASE ShutdownJoin
      BY <2>18 DEF ShutdownJoin
    <2>19. CASE Destroy
      BY <2>19 DEF Destroy
    <2> QED
      BY <1>2, <2>1, <2>2, <2>3, <2>4, <2>5, <2>6, <2>7, <2>8, <2>9, <2>10, <2>11, <2>12,
         <2>13, <2>14, <2>15, <2>16, <2>17, <2>18, <2>19, Zenon DEF Next, Log, Writer
  <1> QED
    BY <1>1, <1>2

\* Only the producers' own steps change where they are.
LEMMA Callers ==
    ASSUME [Next]_vars
    PROVE  \/ UNCHANGED producers /\ UNCHANGED <<submit_mutex, next_sequence>>
           \/ \E p \in Producers : LogBegin(p) \/ Log(p)
  BY Zenon DEF Next, vars, state, stats, Make, InitFails, Writer, Pop, WriteOne, WriteFails,
     PublishWritten, SyncAtEnd, MarkError, CloseAfterError, Shutdown, ShutdownJoin, Destroy

\* A producer whose message is in the queue's care got it there before, or
\* pushes it now.
LEMMA PushedBefore ==
    ASSUME Types, Stages, [Next]_vars, NEW q \in Producers, Pushed(q)'
    PROVE  Push(q) \/ (Pushed(q) /\ message'[q] = message[q])
  <1> USE DEF Types, Stages, Pushed, stats, durable, producers, output, life, Goto, Return
  <1>1. CASE UNCHANGED producers
    BY <1>1
  <1>2. ASSUME NEW p \in Producers, LogBegin(p) PROVE Pushed(q) /\ message'[q] = message[q]
    BY <1>2 DEF LogBegin
  <1>3. ASSUME NEW p \in Producers, Number(p) PROVE Pushed(q) /\ message'[q] = message[q]
    <2>1. p # q
      BY <1>3, Zenon DEF Number
    <2> QED
      BY <1>3, <2>1 DEF Number
  <1>4. ASSUME NEW p \in Producers, ClockFails(p) \/ PushRejected(p)
        PROVE  Pushed(q) /\ message'[q] = message[q]
    BY <1>4 DEF ClockFails, PushRejected
  <1>5. ASSUME NEW p \in Producers, Push(p), p # q PROVE Pushed(q) /\ message'[q] = message[q]
    BY <1>5 DEF Push
  <1>6. ASSUME NEW p \in Producers, CountAccepted(p) \/ WaitDurable(p)
        PROVE  Pushed(q) /\ message'[q] = message[q]
    BY <1>6 DEF CountAccepted, WaitDurable
  <1> QED
    BY <1>1, <1>2, <1>3, <1>4, <1>5, <1>6, Callers, Zenon DEF Log

\* What a step does to the queue, the file and the message in the writer's hand.
LEMMA Moves ==
    ASSUME Stages, [Next]_vars
    PROVE  \/ \E p \in Producers : Push(p)
           \/ Pop \/ WriteOne \/ WriteFails
           \/ /\ UNCHANGED <<queue, lines, current>>
              /\ writer = "write" => writer' = "write"
  <1>1. ASSUME NEW r, Make(r) PROVE UNCHANGED <<queue, lines, current>> /\ writer = "none"
    BY <1>1, Zenon DEF Make, Stages, queue_vars
  <1> QED
    BY <1>1, Zenon DEF Next, Log, Writer, vars, state, queue_vars, output, LogBegin, Number,
       ClockFails, PushRejected, CountAccepted, WaitDurable, InitFails, PublishWritten,
       SyncAtEnd, MarkError, CloseAfterError, Shutdown, ShutdownJoin, Destroy

\* Nothing that was pushed is lost while there is no error: it goes from the
\* queue to the writer and from there to the file.
LEMMA KeptStep == Types /\ Stages /\ Kept /\ [Next]_vars => Kept'
  <1> SUFFICES ASSUME Types, Stages, Kept, [Next]_vars, ~write_error', writer' # "mark_error",
                      NEW q \in Producers, Pushed(q)'
               PROVE  (Queued(message[q]) \/ InHand(message[q]) \/ Written(message[q]))'
    BY DEF Kept
  <1>1. ~write_error /\ writer # "mark_error"
    BY Zenon DEF Next, Log, Writer, vars, state, durable, LogBegin, Number, ClockFails, Push,
       PushRejected, CountAccepted, WaitDurable, InitFails, Pop, WriteOne, WriteFails,
       PublishWritten, SyncAtEnd, MarkError, CloseAfterError, Shutdown, ShutdownJoin, Destroy,
       Make, Stages
  <1>2. CASE Push(q)
    <2>1. queue' = Append(queue, message[q]) /\ message' = message
      BY <1>2, Zenon DEF Push
    <2>2. queue \in Seq(Nat) /\ message[q] \in Nat
      BY DEF Types
    <2> QED
      BY <2>1, <2>2, AppendLast, Zenon DEF Queued
  <1>3. ASSUME Pushed(q), message'[q] = message[q]
        PROVE  (Queued(message[q]) \/ InHand(message[q]) \/ Written(message[q]))'
    <2> DEFINE m == message[q]
    <2>0. m' = m
      BY <1>3
    <2>1. Queued(m) \/ InHand(m) \/ Written(m)
      BY <1>1, <1>3 DEF Kept
    <2>2. CASE \E p \in Producers : Push(p)
      <3>1. PICK p \in Producers : Push(p)
        BY <2>2
      <3>2. queue' = Append(queue, message[p]) /\ UNCHANGED <<lines, writer, current>>
        BY <3>1, Zenon DEF Push, output
      <3>3. /\ queue \in Seq(Nat) /\ message[p] \in Nat
            /\ Len(queue) \in Nat /\ Len(queue) <= Len(queue)
        BY DEF Types
      <3>4. Queued(m) => Queued(m)'
        BY <2>0, <3>2, <3>3, AppendKeeps, Zenon DEF Queued
      <3> QED
        BY <2>0, <2>1, <3>2, <3>4, Zenon DEF InHand, Written
    <2>3. CASE Pop
      <3>1. UNCHANGED lines /\ writer = "pop"
        BY <2>3, Zenon DEF Pop, output
      <3>2. CASE queue # <<>> /\ current' = Head(queue) /\ queue' = Tail(queue) /\ writer' = "write"
        <4>1. queue \in Seq(Nat)
          BY DEF Types
        <4>2. Queued(m) => m = Head(queue) \/ Queued(m)'
          BY <2>0, <3>2, <4>1, TailAmong, Zenon DEF Queued
        <4> QED
          BY <2>0, <2>1, <3>1, <3>2, <4>2, Zenon DEF InHand, Written
      <3>3. CASE UNCHANGED queue
        BY <2>0, <2>1, <3>1, <3>3, Zenon DEF Queued, InHand, Written
      <3> QED
        BY <2>3, <3>2, <3>3, Zenon DEF Pop
    <2>4. CASE WriteOne
      <3>1. lines' = Append(lines, current) /\ UNCHANGED queue
        BY <2>4, Zenon DEF WriteOne, queue_vars
      <3>2. lines \in Seq(Nat) /\ current \in Nat /\ Len(lines) \in Nat /\ Len(lines) <= Len(lines)
        BY DEF Types
      <3>3. (Written(m) => Written(m)') /\ (current = m => Written(m)')
        BY <2>0, <3>1, <3>2, AppendLast, AppendKeeps, Zenon DEF Written
      <3> QED
        BY <2>0, <2>1, <3>1, <3>3, Zenon DEF Queued, InHand
    <2>5. CASE UNCHANGED <<queue, lines, current>> /\ (writer = "write" => writer' = "write")
      BY <2>0, <2>1, <2>5, Zenon DEF Queued, InHand, Written
    <2>6. ~WriteFails
      BY Zenon DEF WriteFails
    <2> QED
      BY <2>2, <2>3, <2>4, <2>5, <2>6, Moves, Zenon
  <1> QED
    BY <1>2, <1>3, PushedBefore, Zenon

\* In the durable mode at most one producer is between its number and the push.
LEMMA OneSubmitsStep == Types /\ durable_mode /\ OneSubmits /\ [Next]_vars => OneSubmits'
  <1> SUFFICES ASSUME Types, durable_mode, OneSubmits, [Next]_vars,
                      NEW q \in Producers, pc'[q] \in {"number", "push", "count"}
               PROVE  submit_mutex' = q
    BY DEF OneSubmits
  <1> USE DEF Types, OneSubmits, Goto, Return, UnlockSubmit
  <1>1. CASE UNCHANGED producers /\ UNCHANGED <<submit_mutex, next_sequence>>
    BY <1>1 DEF producers
  <1>2. ASSUME NEW p \in Producers, LogBegin(p) PROVE submit_mutex' = q
    BY <1>2, ProducersAssumption DEF LogBegin
  <1>3. ASSUME NEW p \in Producers, Number(p) \/ Push(p) PROVE submit_mutex' = q
    BY <1>3 DEF Number, Push
  <1>4. ASSUME NEW p \in Producers, ClockFails(p) \/ PushRejected(p) PROVE submit_mutex' = q
    BY <1>4, Zenon DEF ClockFails, PushRejected
  <1>5. ASSUME NEW p \in Producers, CountAccepted(p) PROVE submit_mutex' = q
    BY <1>5 DEF CountAccepted
  <1>6. ASSUME NEW p \in Producers, WaitDurable(p) PROVE submit_mutex' = q
    BY <1>6 DEF WaitDurable, producers
  <1> QED
    BY <1>1, <1>2, <1>3, <1>4, <1>5, <1>6, Callers, Zenon DEF Log

\* In the durable mode the numbers go through the queue and the writer in their
\* order.
LEMMA SortedStep ==
    ASSUME Types, durable_mode, OneSubmits, Sorted, Stages, [Next]_vars
    PROVE  Sorted'
  <1> USE DEF Types, Sorted, stats, durable, producers, output, life, queue_vars
  <1>1. CASE UNCHANGED vars
    BY <1>1 DEF vars, state
  <1>2. ASSUME NEW p \in Producers, LogBegin(p) \/ CountAccepted(p) \/ WaitDurable(p)
        PROVE  Sorted'
    <2>1. /\ \A q \in Producers : pc'[q] = "push" => pc[q] = "push" /\ message'[q] = message[q]
          /\ UNCHANGED <<queue, next_sequence, current, durable_sequence, writer>>
      BY <1>2 DEF LogBegin, CountAccepted, WaitDurable, Goto, Return
    <2> QED
      BY <2>1
  <1>3. ASSUME NEW p \in Producers, ClockFails(p) \/ PushRejected(p) PROVE Sorted'
    <2>1. /\ \A q \in Producers : pc'[q] = "push" => pc[q] = "push"
          /\ UNCHANGED <<message, queue, current, durable_sequence, writer>>
          /\ next_sequence' >= next_sequence /\ next_sequence' \in Nat
      BY <1>3 DEF ClockFails, PushRejected, Goto, Return
    <2>2. Increasing(queue, current, next_sequence')
      BY <2>1, WiderIncreasing
    <2> QED
      BY <2>1, <2>2
  <1>4. ASSUME NEW p \in Producers, Number(p) PROVE Sorted'
    <2>1. \A q \in Producers : pc'[q] = "push" => q = p
      BY <1>4 DEF Number, Goto, OneSubmits
    <2>2. /\ message'[p] = next_sequence /\ next_sequence' = next_sequence + 1
          /\ UNCHANGED <<queue, current, durable_sequence, writer>>
      BY <1>4 DEF Number
    <2>3. Increasing(queue, current, next_sequence')
      BY <2>2, WiderIncreasing
    <2> QED
      BY <2>1, <2>2, <2>3
  <1>5. ASSUME NEW p \in Producers, Push(p) PROVE Sorted'
    <2>1. \A q \in Producers : pc'[q] # "push"
      BY <1>5 DEF Push, Goto, OneSubmits
    <2>2. /\ queue' = Append(queue, message[p]) /\ pc[p] = "push"
          /\ UNCHANGED <<current, next_sequence, durable_sequence, writer>>
      BY <1>5, Zenon DEF Push
    <2>3. Increasing(queue', current, next_sequence)
      BY <2>2, AppendIncreasing
    <2> QED
      BY <2>1, <2>2, <2>3
  <1>6. CASE Pop
    <2>1. CASE queue # <<>> /\ current' = Head(queue) /\ queue' = Tail(queue) /\ writer' = "write"
      <3>1. UNCHANGED <<pc, message, next_sequence, durable_sequence>>
        BY <1>6, Zenon DEF Pop
      <3>2. /\ Increasing(queue', current', next_sequence)
            /\ current < current' /\ current' < next_sequence /\ current' \in Nat
        BY <2>1, TailIncreasing, TailFacts
      <3>3. \A q \in Producers : pc[q] = "push" => /\ Increasing(queue', current', message[q])
                                                   /\ current' < message[q]
        BY <2>1, TailIncreasing
      <3> QED
        BY <2>1, <3>1, <3>2, <3>3
    <2>2. CASE UNCHANGED <<current, queue>> /\ writer' = "sync"
      BY <1>6, <2>2 DEF Pop
    <2> QED
      BY <1>6, <2>1, <2>2 DEF Pop
  <1>7. CASE WriteOne
    BY <1>7 DEF WriteOne
  <1>8. CASE PublishWritten
    BY <1>8 DEF PublishWritten
  <1>9. ASSUME UNCHANGED <<queue, next_sequence, current, durable_sequence, pc, message>>,
               writer' \notin {"write", "publish"} \/ writer' = writer
        PROVE  Sorted'
    BY <1>9
  <1>10. CASE \E r : Make(r)
    <2>1. UNCHANGED <<queue, next_sequence, current, durable_sequence, pc, message>>
      BY <1>10, Zenon DEF Make
    <2>2. writer' = "pop" \/ writer' = writer
      BY <1>10, Zenon DEF Make
    <2> QED
      BY <1>9, <2>1, <2>2
  <1>11. CASE \/ InitFails \/ WriteFails \/ SyncAtEnd \/ MarkError \/ CloseAfterError
              \/ Shutdown \/ ShutdownJoin \/ Destroy
    <2>1. UNCHANGED <<queue, next_sequence, current, durable_sequence, pc, message>>
      BY <1>11, Zenon DEF InitFails, WriteFails, SyncAtEnd, MarkError, CloseAfterError,
         Shutdown, ShutdownJoin, Destroy
    <2>2. writer' \in {"done", "mark_error", "close"} \/ writer' = writer
      BY <1>11, Zenon DEF InitFails, WriteFails, SyncAtEnd, MarkError, CloseAfterError,
         Shutdown, ShutdownJoin, Destroy
    <2> QED
      BY <1>9, <2>1, <2>2
  <1> QED
    BY <1>1, <1>2, <1>3, <1>4, <1>5, <1>6, <1>7, <1>8, <1>10, <1>11, Zenon DEF Next, Log, Writer

\* In the durable mode the writer confirms only what is in the file and synced,
\* and a producer that waits is answered by its own message or by the error.
LEMMA ConfirmedStep ==
    ASSUME Types, durable_mode, Stages, Sorted, Confirmed, [Next]_vars
    PROVE  Confirmed'
  <1> DEFINE Failed(m) == /\ m = current /\ durable_sequence < current
                          /\ writer \in {"write", "mark_error", "close", "done"}
             OnTheWay(m) == Queued(m) \/ Synced(m) \/ Failed(m)
  <1>1. \A m \in Nat : Synced(m) => Synced(m)'
    <2> SUFFICES ASSUME NEW m \in Nat, Synced(m) PROVE Synced(m)'
      OBVIOUS
    <2>1. \/ UNCHANGED <<lines, synced>>
          \/ lines' \in {lines, Append(lines, current)} /\ synced' = synced
          \/ lines' = lines /\ synced' = Len(lines)
          \/ lines' = Append(lines, current) /\ synced' = Len(lines')
      BY Zenon DEF Next, Log, Writer, vars, state, output, LogBegin, Number, ClockFails, Push,
         PushRejected, CountAccepted, WaitDurable, Make, InitFails, Pop, WriteOne, WriteFails,
         PublishWritten, SyncAtEnd, MarkError, CloseAfterError, Shutdown, ShutdownJoin,
         Destroy, durable_mode
    <2>2. /\ lines \in Seq(Nat) /\ current \in Nat /\ synced \in Nat /\ synced <= Len(lines)
          /\ Len(lines) \in Nat
      BY DEF Types
    <2>3. Among(m, lines, Len(lines))
      BY <2>2 DEF Synced, Among
    <2> QED
      BY <2>1, <2>2, <2>3, AppendKeeps, Zenon DEF Synced
  <1>2. \A m \in Nat : OnTheWay(m) => OnTheWay(m)'
    <2> SUFFICES ASSUME NEW m \in Nat, OnTheWay(m), ~Synced(m)' PROVE OnTheWay(m)'
      OBVIOUS
    <2>1. CASE Queued(m)
      <3>0. queue \in Seq(Nat) /\ Len(queue) \in Nat /\ Len(queue) <= Len(queue)
        BY DEF Types
      <3>1. CASE \E p \in Producers : Push(p)
        <4>1. PICK p \in Producers : Push(p)
          BY <3>1
        <4>2. queue' = Append(queue, message[p]) /\ message[p] \in Nat
          BY <4>1 DEF Push, Types
        <4> QED
          BY <2>1, <3>0, <4>2, AppendKeeps, Zenon DEF Queued
      <3>2. CASE Pop
        <4>1. CASE /\ queue # <<>> /\ current' = Head(queue)
                   /\ queue' = Tail(queue) /\ writer' = "write"
          <5>1. durable_sequence' = durable_sequence
            BY <3>2, Zenon DEF Pop, durable
          <5>2. durable_sequence < Head(queue)
            <6>1. current < Head(queue) /\ Head(queue) \in Nat
              BY <4>1, TailIncreasing, TailFacts DEF Sorted, Types
            <6> QED
              BY <6>1 DEF Sorted, Types
          <5>3. m = Head(queue) \/ Queued(m)'
            BY <2>1, <3>0, <4>1, TailAmong, Zenon DEF Queued
          <5> QED
            BY <4>1, <5>1, <5>2, <5>3, Zenon
        <4>2. CASE UNCHANGED queue
          BY <2>1, <4>2, Zenon DEF Queued
        <4> QED
          BY <3>2, <4>1, <4>2, Zenon DEF Pop
      <3>3. CASE UNCHANGED queue
        BY <2>1, <3>3, Zenon DEF Queued
      <3>4. WriteOne \/ WriteFails => UNCHANGED queue
        BY Zenon DEF WriteOne, WriteFails, queue_vars
      <3> QED
        BY <3>1, <3>2, <3>3, <3>4, Moves, Zenon
    <2>2. CASE Failed(m)
      <3>1. CASE WriteOne
        <4>1. lines' = Append(lines, current) /\ synced' = Len(lines')
          BY <3>1, Zenon DEF WriteOne
        <4>2. Among(current, lines', Len(lines'))
          BY <4>1, AppendLast DEF Types
        <4> QED
          BY <2>2, <4>1, <4>2, Zenon DEF Synced
      <3>2. CASE ~WriteOne
        <4>1. /\ UNCHANGED <<current, durable_sequence>>
              /\ writer' \in {"write", "mark_error", "close", "done"}
          BY <2>2, <3>2, Zenon DEF Next, Log, Writer, vars, state, durable, LogBegin, Number,
             ClockFails, Push, PushRejected, CountAccepted, WaitDurable, Make, InitFails, Pop,
             WriteFails, PublishWritten, SyncAtEnd, MarkError, CloseAfterError, Shutdown,
             ShutdownJoin, Destroy, Stages
        <4> QED
          BY <2>2, <4>1, Zenon
      <3> QED
        BY <3>1, <3>2
    <2> QED
      BY <1>1, <2>1, <2>2, Zenon
  <1>3. \A q \in Producers : Pushed(q) => OnTheWay(message[q])
    BY Zenon DEF Pushed, Confirmed
  <1>4. ASSUME NEW q \in Producers, result'[q] = "ok"
        PROVE  result[q] = "ok" \/ (WaitDurable(q) /\ ~(durable_sequence < message[q]))
    <2> USE DEF Types, Goto, Return
    <2>1. CASE UNCHANGED producers
      BY <1>4, <2>1 DEF producers
    <2>2. ASSUME NEW p \in Producers,
                 LogBegin(p) \/ Number(p) \/ ClockFails(p) \/ Push(p) \/ PushRejected(p)
          PROVE  result[q] = "ok"
      BY <1>4, <2>2 DEF LogBegin, Number, ClockFails, Push, PushRejected
    <2>3. ASSUME NEW p \in Producers, CountAccepted(p) PROVE result[q] = "ok"
      BY <1>4, <2>3 DEF CountAccepted
    <2>4. ASSUME NEW p \in Producers, WaitDurable(p), result[q] # "ok"
          PROVE  p = q /\ ~(durable_sequence < message[q])
      BY <1>4, <2>4 DEF WaitDurable, producers
    <2> QED
      BY <2>1, <2>2, <2>3, <2>4, Callers, Zenon DEF Log
  <1>5. ASSUME NEW q \in Producers, ~(durable_sequence < message[q]), OnTheWay(message[q])
        PROVE  Synced(message[q])
    <2>1. ~Queued(message[q])
      BY <1>5 DEF Queued, Among, Sorted, Increasing, Types
    <2>2. ~Failed(message[q])
      BY <1>5, Zenon
    <2> QED
      BY <1>5, <2>1, <2>2, Zenon
  <1> HIDE DEF OnTheWay
  <1>6. ASSUME NEW q \in Producers, Pushed(q)' PROVE OnTheWay(message[q])'
    <2>1. CASE Push(q)
      <3>1. queue' = Append(queue, message[q]) /\ message' = message
        BY <2>1, Zenon DEF Push
      <3>2. queue \in Seq(Nat) /\ message[q] \in Nat
        BY DEF Types
      <3> QED
        BY <3>1, <3>2, AppendLast, Zenon DEF Queued, OnTheWay
    <2>2. CASE Pushed(q) /\ message'[q] = message[q]
      <3>1. message[q] \in Nat
        BY DEF Types
      <3> QED
        BY <1>2, <1>3, <2>2, <3>1, Zenon
    <2> QED
      BY <1>6, <2>1, <2>2, PushedBefore, Zenon
  <1>7. ASSUME NEW q \in Producers, result'[q] = "ok" PROVE Synced(message[q])'
    <2>1. Pushed(q)'
      BY <1>7, Zenon DEF Pushed
    <2>2. ~Push(q)
      BY <1>7 DEF Push, Stages
    <2>3. Pushed(q) /\ message'[q] = message[q]
      BY <2>1, <2>2, PushedBefore, Zenon
    <2>4. Synced(message[q])
      BY <1>3, <1>4, <1>5, <1>7, <2>3, Zenon DEF Confirmed
    <2>5. message[q] \in Nat
      BY DEF Types
    <2> QED
      BY <1>1, <2>3, <2>4, <2>5, Zenon
  <1> QED
    BY <1>6, <1>7, Zenon DEF Confirmed, Pushed, OnTheWay

\* The inductive invariant of the logger.
THEOREM LoggerInvariant == Spec => []LoggerInv
  <1>1. LoggerInv /\ [Next]_vars => LoggerInv'
    <2> SUFFICES ASSUME LoggerInv, [Next]_vars PROVE LoggerInv'
      OBVIOUS
    <2>1. Types /\ Stages /\ Kept /\ (durable_mode => OneSubmits /\ Sorted /\ Confirmed)
      BY Zenon DEF LoggerInv
    <2>2. Types' /\ Stages' /\ Kept'
      BY <2>1, TypesStep, StagesStep, KeptStep, Zenon
    <2>3. durable_mode' = durable_mode
      BY Zenon DEF durable_mode, vars, Next, config
    <2>4. durable_mode => OneSubmits' /\ Sorted' /\ Confirmed'
      BY <2>1, OneSubmitsStep, SortedStep, ConfirmedStep, Zenon
    <2> QED
      BY <2>2, <2>3, <2>4, Zenon DEF LoggerInv
  <1> QED
    BY <1>1, LoggerInit, PTL DEF Spec

\* What is among the first n lines is in the range of this part of the file.
LEMMA AmongRange ==
    ASSUME NEW s \in Seq(Nat), NEW n \in Nat, n <= Len(s), NEW m, Among(m, s, n)
    PROVE  m \in Range(SubSeq(s, 1, n)) /\ m \in Range(s)
  <1>1. PICK i \in 1..n : s[i] = m
    BY Zenon DEF Among
  <1>2. i \in DOMAIN s
    BY <1>1
  <1>3. i \in DOMAIN SubSeq(s, 1, n) /\ SubSeq(s, 1, n)[i] = m
    BY <1>1
  <1> QED
    BY <1>1, <1>2, <1>3, Zenon DEF Range

\* In the durable mode, whoever else logs and whatever fails, a call of
\* async_logger_log that returned 0 has its own line in the synced part of the
\* file.
THEOREM DurableCalls == Spec => []OkMeansDurable
  <1>1. LoggerInv => OkMeansDurable
    <2> SUFFICES ASSUME LoggerInv, durable_mode, NEW p \in Producers, result[p] = "ok"
                 PROVE  message[p] \in Range(SubSeq(lines, 1, synced))
      BY DEF OkMeansDurable
    <2>1. Among(message[p], lines, synced)
      BY Zenon DEF LoggerInv, Confirmed, Synced
    <2>2. lines \in Seq(Nat) /\ synced \in Nat /\ synced <= Len(lines)
      BY Zenon DEF LoggerInv, Types
    <2> QED
      BY <2>1, <2>2, AmongRange, Zenon
  <1> QED
    BY <1>1, LoggerInvariant, PTL

\* In both modes, a shutdown that returned 0 has written and synced every message
\* that a call of async_logger_log had pushed into the queue.
THEOREM ShutdownIsComplete == Spec => []ShutdownWroteAll
  <1>1. LoggerInv => ShutdownWroteAll
    <2> SUFFICES ASSUME LoggerInv, status = "ok" PROVE ShutdownWroteAll
      BY DEF ShutdownWroteAll
    <2>1. /\ lines \in Seq(Nat) /\ writer = "done" /\ ~write_error
          /\ queue = <<>> /\ synced = Len(lines)
      BY Zenon DEF LoggerInv, Types, Stages
    <2>2. ASSUME NEW p \in Producers, Pushed(p) PROVE message[p] \in Range(lines)
      <3>1. Queued(message[p]) \/ InHand(message[p]) \/ Written(message[p])
        BY <2>1, <2>2, Zenon DEF LoggerInv, Kept
      <3>2. ~Queued(message[p]) /\ ~InHand(message[p])
        BY <2>1 DEF Queued, Among, InHand
      <3>3. Among(message[p], lines, Len(lines)) /\ Len(lines) \in Nat /\ Len(lines) <= Len(lines)
        BY <2>1, <3>1, <3>2 DEF Written
      <3> QED
        BY <2>1, <3>3, AmongRange, Zenon
    <2> QED
      BY <2>1, <2>2, Zenon DEF ShutdownWroteAll, Pushed
  <1> QED
    BY <1>1, LoggerInvariant, PTL
=============================================================================
