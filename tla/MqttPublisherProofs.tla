------------------------- MODULE MqttPublisherProofs --------------------------
(***************************************************************************)
(* PublisherInv is an invariant of MqttPublisher for any number of calling *)
(* threads and messages, and the publisher implements PublishService.      *)
(***************************************************************************)
EXTENDS MqttPublisher, TLAPS

\* FINISH: what every way out of mqtt_publisher_publish_json leaves behind.
LEMMA FinishFacts ==
    ASSUME PublisherInv, NEW c \in Callers, NEW r \in {"OK", "FAILED"}, Finish(c, r)
    PROVE  /\ expected_mid' = -1 /\ publish_mutex' = Nobody
           /\ asleep' \subseteq asleep /\ c \notin asleep'
           /\ outcome' \in [Callers -> {"none", "OK", "FAILED"}]
           /\ pc' \in [Callers -> {"idle", "enter", "locked", "waiting", "wait_connected"}]
           /\ pc'[c] = "idle"
           /\ \A d \in Callers : d # c => pc'[d] = pc[d]
  BY DEF Finish, PublisherInv, TypeOK

\* The start, the stop and the network thread do not touch a caller's locals.
LEMMA CallersFrame ==
    Start \/ Stop \/ Network \/ Callback =>
        UNCHANGED <<expected_mid, publish_mutex, pc, mid, outcome, last_mid>>
  BY Zenon DEF Start, Stop, StopBegin, StopDisconnect, StopJoin, StopFinal, Network,
       NetworkConnect, NetworkDrop, NetworkDeliver, NetworkPuback, Callback, on_connect,
       on_disconnect, on_publish, publisher, callers, library

\* A caller leaves the state, the network thread, the wire and the callback alone.
LEMMA LibraryFrame ==
    ASSUME NEW c \in Callers, Caller(c)
    PROVE  UNCHANGED <<state, loop_started, control, loop, callback, link, disconnecting,
                       pubacks, received>>
  BY Zenon DEF Caller, PublishCall, PublishRefused, LockPublish, Submit, WokenInPublish,
       TimedOutInPublish, WaitConnected, TimedOutInWait, SpuriousWakeup, publisher, library

\* What a step of a caller does to its position and its message: it stays, moves on
\* to the next position of its call, or finishes.
LEMMA CallerMoves ==
    ASSUME PublisherInv, NEW c \in Callers, Caller(c)
    PROVE  \/ PublishCall(c) \/ PublishRefused(c) \/ LockPublish(c)
           \/ /\ pc[c] = "locked" /\ state = "CONNECTED" /\ last_mid < MaxMid
              /\ publish_completed' = FALSE
              /\ last_mid' = last_mid + 1 /\ mid' = [mid EXCEPT ![c] = last_mid + 1]
              /\ queued' = queued \cup {last_mid + 1}
              /\ \/ /\ expected_mid' = last_mid + 1
                    /\ pc' = [pc EXCEPT ![c] = "waiting"]
                    /\ asleep' = asleep \cup {c}
                    /\ UNCHANGED <<publish_mutex, outcome>>
                 \/ Finish(c, "FAILED")
           \/ /\ pc[c] \in {"locked", "waiting"} /\ Finish(c, "FAILED")
              /\ UNCHANGED <<mid, queued, last_mid>>
              /\ publish_completed' \in BOOLEAN
           \/ /\ pc[c] = "waiting" /\ publish_completed /\ Finish(c, "OK")
              /\ UNCHANGED <<publish_completed, mid, queued, last_mid>>
           \/ /\ pc[c] = "waiting" /\ ~publish_completed /\ state = "CONNECTED"
              /\ asleep' = asleep \cup {c}
              /\ UNCHANGED <<expected_mid, publish_mutex, pc, mid, outcome,
                             publish_completed, queued, last_mid>>
           \/ WaitConnected(c) \/ TimedOutInWait(c) \/ SpuriousWakeup(c)
<1>1. publish_completed \in BOOLEAN
  BY DEF PublisherInv, TypeOK
<1>2. CASE Submit(c)
  BY <1>1, <1>2, Zenon DEF Submit
<1>3. CASE WokenInPublish(c)
  BY <1>1, <1>3, Zenon DEF WokenInPublish, library
<1>4. CASE TimedOutInPublish(c)
  BY <1>1, <1>4, Zenon DEF TimedOutInPublish, library
<1> QED
  BY <1>2, <1>3, <1>4, Zenon DEF Caller

\* Every step keeps the types of the publisher, the callers and the library.
LEMMA TypeStep ==
    ASSUME PublisherInv, Next
    PROVE  TypeOK' /\ callback' \in Callbacks
<1> USE MaxMidAssumption
<1>1. TypeOK /\ callback \in Callbacks /\ AckedWasReceived
  BY DEF PublisherInv
<1>2. CASE Start \/ Stop
  <2>1. UNCHANGED callback
    BY <1>2 DEF Start, Stop, StopBegin, StopDisconnect, StopJoin, StopFinal, library
  <2>2. UNCHANGED <<expected_mid, publish_completed, publish_mutex, pc, mid, outcome, queued,
                    received, last_mid>>
    BY <1>2, CallersFrame, Zenon DEF Start, Stop, StopBegin, StopDisconnect, StopJoin,
         StopFinal, library, publisher
  <2>3. /\ loop_started' \in BOOLEAN /\ loop' \in BOOLEAN /\ disconnecting' \in BOOLEAN
        /\ asleep' \subseteq Callers /\ link' \in {"down", "refused", "up"}
        /\ pubacks' \subseteq 1 .. MaxMid
    BY <1>1, <1>2, Zenon DEF TypeOK, Start, Stop, StopBegin, StopDisconnect, StopJoin,
         StopFinal, Broadcast, library, publisher, callers
  <2>4. /\ state' \in {state, "CONNECTING", "DISCONNECTED", "STOPPING", "STOPPED"}
        /\ control' \in {control, "disconnect", "join", "final", "idle"}
    BY <1>2, Zenon DEF Start, Stop, StopBegin, StopDisconnect, StopJoin, StopFinal, publisher
  <2> QED
    BY <1>1, <2>1, <2>2, <2>3, <2>4 DEF TypeOK
<1>3. CASE Network
  <2>1. callback' \in Callbacks
    BY <1>1, <1>3 DEF Network, NetworkConnect, NetworkDrop, NetworkDeliver, NetworkPuback,
         Report, Callbacks
  <2>2. UNCHANGED <<publisher, callers, control, loop, disconnecting, last_mid>>
    BY <1>3, Zenon DEF Network, NetworkConnect, NetworkDrop, NetworkDeliver, NetworkPuback
  <2>3. /\ link' \in {"down", "refused", "up"}
        /\ queued' \subseteq 1 .. MaxMid /\ pubacks' \subseteq 1 .. MaxMid
        /\ received' \subseteq 1 .. MaxMid
    BY <1>1, <1>3, Zenon DEF TypeOK, Network, NetworkConnect, NetworkDrop, NetworkDeliver,
         NetworkPuback
  <2> QED
    BY <1>1, <2>1, <2>2, <2>3 DEF TypeOK, publisher, callers
<1>4. CASE Callback
  <2>1. callback' \in Callbacks
    BY <1>4 DEF Callback, on_connect, on_disconnect, on_publish, Callbacks
  <2>2. /\ UNCHANGED <<expected_mid, loop_started, publish_mutex, pc, mid, outcome, control,
                       loop, link, disconnecting, queued, pubacks, received, last_mid>>
        /\ asleep' = asleep \/ asleep' = {}
        /\ publish_completed' = publish_completed \/ publish_completed' = TRUE
        /\ state' \in {state, "CONNECTED", "DISCONNECTED", "STOPPED"}
    BY <1>4 DEF Callback, on_connect, on_disconnect, on_publish, Broadcast
  <2>3. publish_completed' \in BOOLEAN
    BY <1>1, <2>2, Zenon DEF TypeOK
  <2> QED
    BY <1>1, <2>1, <2>2, <2>3 DEF TypeOK
<1>5. ASSUME NEW c \in Callers, Caller(c)
      PROVE  TypeOK' /\ callback' \in Callbacks
  <2>1. UNCHANGED <<state, loop_started, control, loop, callback, link, disconnecting,
                    pubacks, received>>
    BY <1>5, LibraryFrame
  <2>2. publish_completed' \in BOOLEAN
    BY <1>1, <1>5, CallerMoves, Zenon DEF TypeOK, PublishCall, PublishRefused, LockPublish,
         WaitConnected, TimedOutInWait, SpuriousWakeup, publisher, library
  <2>3. /\ publish_mutex' \in Callers \cup {Nobody} /\ asleep' \subseteq Callers
    BY <1>1, <1>5, CallerMoves, Zenon DEF TypeOK, PublishCall, PublishRefused, LockPublish, Finish,
         WaitConnected, TimedOutInWait, SpuriousWakeup, publisher, library
  <2>6. /\ expected_mid' \in {-1} \cup 1 .. MaxMid
        /\ queued' \subseteq 1 .. MaxMid /\ last_mid' \in 0 .. MaxMid
    <3>1. \/ UNCHANGED <<queued, last_mid>> /\ expected_mid' \in {expected_mid, -1}
          \/ /\ last_mid < MaxMid /\ last_mid' = last_mid + 1
             /\ queued' = queued \cup {last_mid + 1} /\ expected_mid' \in {-1, last_mid + 1}
      BY <1>5, CallerMoves, Zenon DEF PublishCall, PublishRefused, LockPublish, Finish, WaitConnected,
           TimedOutInWait, SpuriousWakeup, publisher, library
    <3>2. /\ expected_mid \in {-1} \cup 1 .. MaxMid
          /\ queued \subseteq 1 .. MaxMid /\ last_mid \in 0 .. MaxMid
      BY <1>1 DEF TypeOK
    <3>3. CASE UNCHANGED <<queued, last_mid>> /\ expected_mid' \in {expected_mid, -1}
      BY <3>2, <3>3
    <3>4. CASE /\ last_mid < MaxMid /\ last_mid' = last_mid + 1
               /\ queued' = queued \cup {last_mid + 1} /\ expected_mid' \in {-1, last_mid + 1}
      <4>1. last_mid + 1 \in 1 .. MaxMid
        BY <3>2, <3>4
      <4> QED
        BY <3>2, <3>4, <4>1
    <3> QED
      BY <3>1, <3>3, <3>4
  <2>4. pc' \in [Callers -> {"idle", "enter", "locked", "waiting", "wait_connected"}]
    BY <1>1, <1>5, CallerMoves, Zenon DEF TypeOK, PublishCall, PublishRefused, LockPublish, Finish,
         WaitConnected, TimedOutInWait, SpuriousWakeup, publisher, library
  <2>5. mid' \in [Callers -> 0 .. MaxMid] /\ outcome' \in [Callers -> {"none", "OK", "FAILED"}]
    <3>1. \/ UNCHANGED mid \/ mid' = [mid EXCEPT ![c] = 0]
          \/ last_mid < MaxMid /\ mid' = [mid EXCEPT ![c] = last_mid + 1]
      BY <1>5, CallerMoves, Zenon DEF PublishCall, PublishRefused, LockPublish,
           WaitConnected, TimedOutInWait, SpuriousWakeup
    <3>2. \/ UNCHANGED outcome
          \/ \E r \in {"none", "OK", "FAILED"} : outcome' = [outcome EXCEPT ![c] = r]
      BY <1>5, CallerMoves, Zenon DEF PublishCall, PublishRefused, LockPublish, Finish, WaitConnected,
           TimedOutInWait, SpuriousWakeup
    <3> QED
      BY <1>1, <3>1, <3>2 DEF TypeOK
  <2> QED
    BY <1>1, <2>1, <2>2, <2>3, <2>4, <2>5, <2>6 DEF TypeOK
<1> QED
  BY <1>2, <1>3, <1>4, <1>5 DEF Next

\* Every step keeps publish_mutex with the one caller between lock and FINISH, and
\* expected_mid with the caller that waits.
LEMMA OwnershipStep ==
    ASSUME PublisherInv, Next
    PROVE  LockHeld' /\ ExpectedIsOwn'
<1>1. /\ LockHeld /\ ExpectedIsOwn /\ Nobody \notin Callers /\ last_mid \in Nat
      /\ pc \in [Callers -> {"idle", "enter", "locked", "waiting", "wait_connected"}]
      /\ mid \in [Callers -> 0 .. MaxMid]
  BY MaxMidAssumption, CallersAssumption DEF PublisherInv, TypeOK
<1>2. CASE Start \/ Stop \/ Network \/ Callback
  BY <1>1, <1>2, CallersFrame DEF LockHeld, ExpectedIsOwn
<1>3. ASSUME NEW c \in Callers, Caller(c)
      PROVE  LockHeld' /\ ExpectedIsOwn'
  <2>1. LockHeld'
    BY <1>1, <1>3, CallerMoves, Zenon DEF LockHeld, PublishCall, PublishRefused, LockPublish, Finish,
         WaitConnected, TimedOutInWait, SpuriousWakeup, publisher, library
  <2>2. ExpectedIsOwn'
    <3>1. \A d \in Callers : d # c => pc'[d] = pc[d] /\ mid'[d] = mid[d]
      BY <1>1, <1>3, CallerMoves, Zenon DEF PublishCall, PublishRefused, LockPublish, Finish,
           WaitConnected, TimedOutInWait, SpuriousWakeup, publisher, library
    <3>2. /\ pc'[c] = "waiting" => expected_mid' = mid'[c]
          /\ pc'[c] \in {"enter", "locked"} => mid'[c] = 0
      BY <1>1, <1>3, CallerMoves, Zenon DEF ExpectedIsOwn, PublishCall, PublishRefused, LockPublish,
           Finish, WaitConnected, TimedOutInWait, SpuriousWakeup, publisher, library
    <3>3. \/ UNCHANGED expected_mid /\ (pc'[c] = "waiting" <=> pc[c] = "waiting")
          \/ /\ pc[c] \in {"locked", "waiting"}
             /\ expected_mid' = -1 \/ pc'[c] = "waiting"
      BY <1>1, <1>3, CallerMoves, Zenon DEF PublishCall, PublishRefused, LockPublish, Finish,
           WaitConnected, TimedOutInWait, SpuriousWakeup, publisher, library
    <3> QED
      BY <1>1, <3>1, <3>2, <3>3 DEF ExpectedIsOwn, LockHeld
  <2> QED
    BY <2>1, <2>2
<1> QED
  BY <1>2, <1>3 DEF Next

\* Every step keeps the trail from publish_completed back to the broker: a PUBACK of
\* an earlier publish never completes a later one.
LEMMA AckedStep ==
    ASSUME PublisherInv, Next
    PROVE  AckedWasReceived'
<1>1. /\ LockHeld /\ ExpectedIsOwn /\ AckedWasReceived /\ Nobody \notin Callers
      /\ last_mid \in Nat
      /\ pc \in [Callers -> {"idle", "enter", "locked", "waiting", "wait_connected"}]
      /\ mid \in [Callers -> 0 .. MaxMid]
  BY MaxMidAssumption, CallersAssumption DEF PublisherInv, TypeOK
<1>2. CASE Start \/ Stop
  <2>1. UNCHANGED <<publish_completed, pc, mid, last_mid, queued, received, callback>>
    BY <1>2, CallersFrame, Zenon DEF Start, Stop, StopBegin, StopDisconnect, StopJoin,
         StopFinal, library, publisher
  <2>2. pubacks' = pubacks \/ pubacks' = {}
    BY <1>2, Zenon DEF Start, Stop, StopBegin, StopDisconnect, StopJoin, StopFinal, library
  <2> QED
    BY <1>1, <2>1, <2>2, Zenon DEF AckedWasReceived
<1>3. CASE Network
  <2>1. UNCHANGED <<publish_completed, pc, mid, last_mid>>
    BY <1>3, Zenon DEF Network, NetworkConnect, NetworkDrop, NetworkDeliver, NetworkPuback,
         publisher, callers
  <2>2. received \subseteq received'
    BY <1>3 DEF Network, NetworkConnect, NetworkDrop, NetworkDeliver, NetworkPuback
  <2>3. /\ queued' \subseteq 1 .. last_mid /\ received' \subseteq 1 .. last_mid
        /\ pubacks' \subseteq received'
    BY <1>1, <1>3, Zenon DEF AckedWasReceived, Network, NetworkConnect, NetworkDrop, NetworkDeliver,
         NetworkPuback
  <2>4. callback'[1] = "on_publish" => callback'[2] \in received'
    BY <1>1, <1>3 DEF AckedWasReceived, Network, NetworkConnect, NetworkDrop, NetworkDeliver,
         NetworkPuback, Report
  <2> QED
    BY <1>1, <2>1, <2>2, <2>3, <2>4 DEF AckedWasReceived
<1>4. CASE Callback
  <2>1. UNCHANGED <<pc, mid, queued, pubacks, received, last_mid>>
    BY <1>4 DEF Callback, on_connect, on_disconnect, on_publish
  <2>2. callback'[1] # "on_publish"
    BY <1>4 DEF Callback, on_connect, on_disconnect, on_publish, NoCallback
  <2>3. \/ UNCHANGED publish_completed
        \/ callback[1] = "on_publish" /\ callback[2] = expected_mid
    BY <1>4 DEF Callback, on_connect, on_disconnect, on_publish
  <2> QED
    BY <1>1, <2>1, <2>2, <2>3 DEF AckedWasReceived, ExpectedIsOwn
<1>5. ASSUME NEW c \in Callers, Caller(c)
      PROVE  AckedWasReceived'
  <2>1. UNCHANGED <<callback, pubacks, received>>
    BY <1>5, LibraryFrame
  <2>2. queued' \subseteq 1 .. last_mid' /\ received' \subseteq 1 .. last_mid'
    <3>1. \/ UNCHANGED <<queued, last_mid>>
          \/ last_mid' = last_mid + 1 /\ queued' = queued \cup {last_mid + 1}
      BY <1>5, CallerMoves, Zenon DEF PublishCall, PublishRefused, LockPublish, WaitConnected,
           TimedOutInWait, SpuriousWakeup, library
    <3>2. queued \subseteq 1 .. last_mid /\ received \subseteq 1 .. last_mid /\ last_mid \in Nat
      BY <1>1 DEF AckedWasReceived
    <3>3. CASE last_mid' = last_mid + 1 /\ queued' = queued \cup {last_mid + 1}
      <4>1. 1 .. last_mid \subseteq 1 .. last_mid + 1 /\ last_mid + 1 \in 1 .. last_mid + 1
        BY <3>2
      <4> QED
        BY <2>1, <3>2, <3>3, <4>1
    <3> QED
      BY <2>1, <3>1, <3>2, <3>3, Zenon
  <2>3. \A d \in Callers : pc'[d] = "waiting" /\ publish_completed' => mid'[d] \in received
    BY <1>1, <1>5, CallerMoves, Zenon DEF AckedWasReceived, LockHeld, PublishCall, PublishRefused,
         LockPublish, Finish, WaitConnected, TimedOutInWait, SpuriousWakeup, publisher, library
  <2> QED
    BY <1>1, <2>1, <2>2, <2>3 DEF AckedWasReceived
<1> QED
  BY <1>2, <1>3, <1>4, <1>5 DEF Next

\* Every step keeps the state in line with the network thread, through a stop that
\* races with the callbacks.
LEMMA LoopStep ==
    ASSUME PublisherInv, Next
    PROVE  LoopKnown' /\ StateMatchesLoop'
<1>1. LoopKnown /\ StateMatchesLoop /\ TypeOK /\ callback \in Callbacks
  BY DEF PublisherInv
<1>2. CASE Start \/ Stop
  <2>1. CASE Start
    BY <1>1, <2>1, Zenon DEF LoopKnown, StateMatchesLoop, Start
  <2>2. CASE StopBegin
    BY <1>1, <2>2 DEF LoopKnown, StateMatchesLoop, StopBegin, library
  <2>3. CASE StopDisconnect
    BY <1>1, <2>3 DEF LoopKnown, StateMatchesLoop, StopDisconnect, publisher
  <2>4. CASE StopJoin
    BY <1>1, <2>4 DEF LoopKnown, StateMatchesLoop, StopJoin, publisher
  <2>5. CASE StopFinal
    BY <1>1, <2>5, Zenon DEF LoopKnown, StateMatchesLoop, StopFinal, library, TypeOK
  <2> QED
    BY <1>2, <2>1, <2>2, <2>3, <2>4, <2>5 DEF Stop
<1>3. CASE Network
  <2>1. loop /\ UNCHANGED <<state, loop_started, control, loop>>
    BY <1>3 DEF Network, NetworkConnect, NetworkDrop, NetworkDeliver, NetworkPuback, publisher
  <2> QED
    BY <1>1, <2>1, Zenon DEF LoopKnown, StateMatchesLoop
<1>4. CASE Callback
  BY <1>1, <1>4 DEF LoopKnown, StateMatchesLoop, TypeOK, Callback, on_connect, on_disconnect,
       on_publish, NoCallback
<1>5. ASSUME NEW c \in Callers, Caller(c)
      PROVE  LoopKnown' /\ StateMatchesLoop'
  BY <1>1, <1>5, LibraryFrame DEF LoopKnown, StateMatchesLoop
<1> QED
  BY <1>2, <1>3, <1>4, <1>5 DEF Next

\* No step changes what a sleeping caller waits for without waking it.
LEMMA SleepStep ==
    ASSUME PublisherInv, Next
    PROVE  OnlyWaitersSleep' /\ NobodySleepsThrough'
<1>1. /\ OnlyWaitersSleep /\ NobodySleepsThrough /\ LockHeld /\ Nobody \notin Callers
      /\ publish_completed \in BOOLEAN /\ asleep \subseteq Callers
      /\ pc \in [Callers -> {"idle", "enter", "locked", "waiting", "wait_connected"}]
  BY CallersAssumption DEF PublisherInv, TypeOK, OnlyWaitersSleep
<1>2. CASE Start \/ Stop
  BY <1>1, <1>2, CallersFrame DEF OnlyWaitersSleep, NobodySleepsThrough, Start, Stop,
       StopBegin, StopDisconnect, StopJoin, StopFinal, Broadcast, publisher, callers
<1>3. CASE Network
  BY <1>1, <1>3 DEF OnlyWaitersSleep, NobodySleepsThrough, Network, NetworkConnect,
       NetworkDrop, NetworkDeliver, NetworkPuback, publisher, callers
<1>4. CASE Callback
  BY <1>1, <1>4 DEF OnlyWaitersSleep, NobodySleepsThrough, Callback, on_connect,
       on_disconnect, on_publish, Broadcast
<1>5. ASSUME NEW c \in Callers, Caller(c)
      PROVE  OnlyWaitersSleep' /\ NobodySleepsThrough'
  <2>1. OnlyWaitersSleep'
    <3>1. \A d \in Callers : d # c => pc'[d] = pc[d]
      BY <1>1, <1>5, CallerMoves, Zenon DEF PublishCall, PublishRefused, LockPublish, Finish,
           WaitConnected, TimedOutInWait, SpuriousWakeup, publisher, library
    <3>2. asleep' \subseteq asleep \cup {c}
      BY <1>5, CallerMoves, Zenon DEF PublishCall, PublishRefused, LockPublish, Finish,
           WaitConnected, TimedOutInWait, SpuriousWakeup, publisher, library
    <3>3. c \in asleep' => pc'[c] \in {"waiting", "wait_connected"}
      BY <1>1, <1>5, CallerMoves, Zenon DEF OnlyWaitersSleep, PublishCall, PublishRefused,
           LockPublish, Finish, WaitConnected, TimedOutInWait, SpuriousWakeup, publisher, library
    <3> QED
      BY <1>1, <3>1, <3>2, <3>3 DEF OnlyWaitersSleep
  <2>2. NobodySleepsThrough'
    BY <1>1, <1>5, LibraryFrame, CallerMoves, Zenon DEF OnlyWaitersSleep, NobodySleepsThrough,
         LockHeld, PublishCall, PublishRefused, LockPublish, Finish, WaitConnected,
         TimedOutInWait, SpuriousWakeup, publisher, library
  <2> QED
    BY <2>1, <2>2
<1> QED
  BY <1>2, <1>3, <1>4, <1>5 DEF Next

\* mqtt_publisher_create establishes the invariant.
LEMMA InvariantInit == Init => PublisherInv
<1> SUFFICES ASSUME Init PROVE PublisherInv
  OBVIOUS
<1> USE MaxMidAssumption, CallersAssumption DEF Init
<1>1. TypeOK
  <2>1. 0 \in 0 .. MaxMid /\ {} \subseteq 1 .. MaxMid
    OBVIOUS
  <2> QED
    BY <2>1, Zenon DEF TypeOK
<1>4. callback \in Callbacks
  BY DEF Callbacks
<1>2. LockHeld /\ ExpectedIsOwn /\ OnlyWaitersSleep /\ NobodySleepsThrough
  BY DEF LockHeld, ExpectedIsOwn, OnlyWaitersSleep, NobodySleepsThrough
<1>3. AckedWasReceived /\ LoopKnown /\ StateMatchesLoop
  BY Zenon DEF AckedWasReceived, LoopKnown, StateMatchesLoop, NoCallback
<1> QED
  BY <1>1, <1>2, <1>3, <1>4 DEF PublisherInv

\* Every step of a caller, of the network thread and of start and stop preserves
\* the invariant.
LEMMA InvariantStep == PublisherInv /\ [Next]_vars => PublisherInv'
<1> SUFFICES ASSUME PublisherInv, [Next]_vars PROVE PublisherInv'
  OBVIOUS
<1>1. CASE Next
  BY <1>1, TypeStep, OwnershipStep, AckedStep, LoopStep, SleepStep DEF PublisherInv
<1>2. CASE UNCHANGED vars
  <2>1. TypeOK'
    BY <1>2 DEF vars, publisher, callers, library, PublisherInv, TypeOK
  <2>2. callback' \in Callbacks
    BY <1>2 DEF vars, library, PublisherInv, Callbacks
  <2> QED
    BY <1>2, <2>1, <2>2 DEF vars, publisher, callers, library, PublisherInv, LockHeld, ExpectedIsOwn,
         AckedWasReceived, LoopKnown, OnlyWaitersSleep, NobodySleepsThrough, StateMatchesLoop
<1> QED
  BY <1>1, <1>2

\* PublisherInv holds in every reachable state, for any callers and any MaxMid.
THEOREM PublisherInvariant == Spec => []PublisherInv
  BY InvariantInit, InvariantStep, PTL DEF Spec

\* No wake-up is lost: a thread that sleeps in mqtt_publisher.c sleeps for an event
\* that has not happened yet.
THEOREM NoMissedEvent == Spec => []NobodySleepsThrough
<1>1. PublisherInv => NobodySleepsThrough
  BY DEF PublisherInv
<1> QED
  BY <1>1, PublisherInvariant, PTL

\* Between start and stop, state and loop_started say whether the network thread
\* runs; a stop ends in STOPPED whatever callbacks it raced with.
THEOREM StateTracksLoop == Spec => []StateMatchesLoop
<1>1. PublisherInv => StateMatchesLoop
  BY DEF PublisherInv
<1> QED
  BY <1>1, PublisherInvariant, PTL

\* A step of start, stop, the network thread or a callback is a step of the broker
\* receiving a message, or changes nothing the service shows.
LEMMA LibraryRefines ==
    ASSUME PublisherInv, Start \/ Stop \/ Network \/ Callback
    PROVE  [Service!Next]_Service!vars
<1>1. UNCHANGED <<pc, mid, outcome, last_mid>>
  BY CallersFrame
<1>2. UNCHANGED Calling
  BY <1>1 DEF Calling
<1>3. UNCHANGED received \/ \E m \in queued : received' = received \cup {m}
  BY Zenon DEF Start, Stop, StopBegin, StopDisconnect, StopJoin, StopFinal, Network,
       NetworkConnect, NetworkDrop, NetworkDeliver, NetworkPuback, Callback, on_connect,
       on_disconnect, on_publish, library
<1>4. queued \subseteq 1 .. last_mid
  BY DEF PublisherInv, AckedWasReceived
<1>5. CASE UNCHANGED received
  BY <1>1, <1>2, <1>5 DEF Service!vars
<1>6. CASE \E m \in queued : received' = received \cup {m}
  <2>1. Service!Receive
    BY <1>1, <1>2, <1>4, <1>6 DEF Service!Receive
  <2> QED
    BY <2>1 DEF Service!Next
<1> QED
  BY <1>3, <1>5, <1>6

\* A step of a caller is a step of its call of the service: it begins, is refused,
\* hands its message over, returns OK for a message the broker has, or fails.
LEMMA CallerRefines ==
    ASSUME PublisherInv, NEW c \in Callers, Caller(c)
    PROVE  [Service!Next]_Service!vars
<1>1. /\ pc \in [Callers -> {"idle", "enter", "locked", "waiting", "wait_connected"}]
      /\ mid \in [Callers -> 0 .. MaxMid] /\ last_mid \in Nat
      /\ LockHeld /\ ExpectedIsOwn /\ AckedWasReceived
  BY MaxMidAssumption DEF PublisherInv, TypeOK
<1>2. UNCHANGED received
  BY LibraryFrame
<1>3. CASE PublishCall(c)
  <2>1. Calling' = Calling \cup {c} /\ c \notin Calling
    BY <1>1, <1>3 DEF PublishCall, Calling
  <2>2. Service!Call(c)
    BY <1>2, <1>3, <2>1 DEF PublishCall, Service!Call, Service!NoMessage, library
  <2> QED
    BY <2>2 DEF Service!Next
<1>4. CASE PublishRefused(c)
  <2>1. Calling' = Calling /\ c \notin Calling
    BY <1>1, <1>4 DEF PublishRefused, Calling
  <2>2. Service!Refuse(c)
    BY <1>2, <1>4, <2>1 DEF PublishRefused, Service!Refuse, Service!NoMessage, library
  <2> QED
    BY <2>2 DEF Service!Next
<1>5. CASE LockPublish(c) \/ WaitConnected(c) \/ TimedOutInWait(c) \/ SpuriousWakeup(c)
  <2>1. Calling' = Calling
    BY <1>1, <1>5 DEF LockPublish, WaitConnected, TimedOutInWait, SpuriousWakeup, Calling
  <2>2. UNCHANGED <<mid, outcome, last_mid>>
    BY <1>5 DEF LockPublish, WaitConnected, TimedOutInWait, SpuriousWakeup, library
  <2> QED
    BY <1>2, <2>1, <2>2 DEF Service!vars
<1>6. CASE /\ pc[c] = "locked" /\ last_mid < MaxMid
           /\ last_mid' = last_mid + 1 /\ mid' = [mid EXCEPT ![c] = last_mid + 1]
           /\ \/ pc' = [pc EXCEPT ![c] = "waiting"] /\ UNCHANGED outcome
              \/ Finish(c, "FAILED")
  <2>1. last_mid + 1 \in (1 .. MaxMid) \ (1 .. last_mid)
    BY <1>1, <1>6, MaxMidAssumption
  <2>2. 1 .. last_mid' = (1 .. last_mid) \cup {last_mid + 1}
    BY <1>1, <1>6
  <2>3. c \in Calling /\ mid[c] = 0
    BY <1>1, <1>6 DEF Calling, ExpectedIsOwn
  <2>4. CASE pc' = [pc EXCEPT ![c] = "waiting"] /\ UNCHANGED outcome
    <3>1. Calling' = Calling
      BY <1>1, <1>6, <2>4 DEF Calling
    <3>2. Service!HandOver(c)
      BY <1>2, <1>6, <2>1, <2>2, <2>3, <2>4, <3>1, Zenon DEF Service!HandOver, Service!NoMessage
    <3> QED
      BY <3>2 DEF Service!Next
  <2>5. CASE Finish(c, "FAILED")
    <3>1. Calling' = Calling \ {c} /\ outcome' = [outcome EXCEPT ![c] = "FAILED"]
      BY <1>1, <1>6, <2>5 DEF Calling, Finish
    <3>2. Service!ReturnFailed(c)
      BY <1>2, <1>6, <2>1, <2>2, <2>3, <3>1, Zenon DEF Service!ReturnFailed, Service!NoMessage
    <3> QED
      BY <3>2 DEF Service!Next
  <2> QED
    BY <1>6, <2>4, <2>5
<1>7. CASE /\ pc[c] \in {"locked", "waiting"} /\ Finish(c, "FAILED")
           /\ UNCHANGED <<mid, last_mid>>
  <2>1. /\ Calling' = Calling \ {c} /\ c \in Calling
        /\ outcome' = [outcome EXCEPT ![c] = "FAILED"]
    BY <1>1, <1>7 DEF Calling, Finish
  <2>2. Service!ReturnFailed(c)
    BY <1>2, <1>7, <2>1 DEF Service!ReturnFailed
  <2> QED
    BY <2>2 DEF Service!Next
<1>8. CASE /\ pc[c] = "waiting" /\ publish_completed /\ Finish(c, "OK")
           /\ UNCHANGED <<mid, last_mid>>
  <2>1. /\ Calling' = Calling \ {c} /\ c \in Calling
        /\ outcome' = [outcome EXCEPT ![c] = "OK"]
    BY <1>1, <1>8 DEF Calling, Finish
  <2>2. mid[c] \in received
    BY <1>1, <1>8 DEF AckedWasReceived
  <2>3. Service!ReturnOk(c)
    BY <1>2, <1>8, <2>1, <2>2 DEF Service!ReturnOk
  <2> QED
    BY <2>3 DEF Service!Next
<1>9. CASE UNCHANGED <<pc, mid, outcome, last_mid>>
  <2>1. Calling' = Calling
    BY <1>9 DEF Calling
  <2> QED
    BY <1>2, <1>9, <2>1 DEF Service!vars
<1> QED
  BY <1>3, <1>4, <1>5, <1>6, <1>7, <1>8, <1>9, CallerMoves, Zenon

\* The publisher implements the service its header promises: an OK is returned only
\* for a message the broker has received, over late and stray PUBACKs, time-outs,
\* disconnects, stops and any interleaving of the calling threads.
THEOREM RefinesPublishService == Spec => ImplementsPublishService
<1>1. Init => Service!Init
  <2> SUFFICES ASSUME Init PROVE Service!Init
    OBVIOUS
  <2>1. Calling = {} /\ 1 .. last_mid = {}
    BY DEF Init, Calling
  <2> QED
    BY <2>1 DEF Init, Service!Init, Service!NoMessage
<1>2. PublisherInv /\ [Next]_vars => [Service!Next]_Service!vars
  <2> SUFFICES ASSUME PublisherInv, [Next]_vars PROVE [Service!Next]_Service!vars
    OBVIOUS
  <2>1. CASE UNCHANGED vars
    BY <2>1 DEF vars, callers, library, Service!vars, Calling
  <2> QED
    BY <2>1, LibraryRefines, CallerRefines DEF Next
<1> QED
  BY <1>1, <1>2, PublisherInvariant, PTL DEF Spec, ImplementsPublishService, Service!Spec
=============================================================================
