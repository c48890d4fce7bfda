----------------------------- MODULE NetworkClient -----------------------------
(***************************************************************************)
(* The TCP client (modules/net/network_client.c): the thread that connects,*)
(* serves the connection and backs off, and the caller that creates,       *)
(* starts, stops, joins and destroys it.                                   *)
(*                                                                         *)
(* A step of the thread goes from one poll to the next.  What the network  *)
(* and the clock do is chosen: a poll may time out whenever its timeout is *)
(* finite.  Unsigned values have Width bits and int has one less.          *)
(***************************************************************************)
EXTENDS Integers, FiniteSets, Functions

CONSTANTS Width,        \* bits of uint32_t
          Delays,       \* the back-off bases and limits to configure
          MaxAttempt,   \* UINT32_MAX, where the attempt counter stays
          MaxStops      \* bound on the stop requests

VARIABLES config,         \* backoff_base_ms, backoff_max_ms, heartbeat
          client,         \* "none", "created" or "freed"
          thread_started,
          caller,         \* where the caller is in network_client_destroy
          wake,           \* the counter of wake_fd
          stops,          \* stop requests made
          worker,         \* where the thread is
          state, attempt,
          timeout,        \* of the back-off poll
          fd, sockets,    \* whether a socket is held; how many are open
          due,            \* next_heartbeat has passed
          pending         \* there is data to read

caller_vars == <<client, thread_started, caller, stops>>
connection == <<state, attempt, timeout, fd, sockets>>
traffic == <<due, pending>>
vars == <<config, caller_vars, wake, worker, connection, traffic>>

Modulus == 2^Width

\* validate_config.
Valid(c) == c.base > 0 /\ c.max >= c.base

Init ==
    /\ config \in {c \in [base : Delays, max : Delays, heartbeat : BOOLEAN] : Valid(c)}
    /\ client = "none" /\ thread_started = FALSE /\ caller = "idle" /\ wake = 0 /\ stops = 0
    /\ worker = "none" /\ state = "STOPPED" /\ attempt = 0 /\ timeout = 0
    /\ fd = FALSE /\ sockets = 0 /\ due = FALSE /\ pending = FALSE
-----------------------------------------------------------------------------

\* delay[i] is the value after i rounds of the loop.
backoff_base_delay(n, base, max) ==
    LET delay[i \in 0..MaxAttempt] ==
            IF i = 0 THEN base
            ELSE IF delay[i-1] >= max THEN delay[i-1]
            ELSE IF delay[i-1] > max \div 2 THEN max
            ELSE (delay[i-1] * 2) % Modulus
        d == delay[n - 1]
    IN  IF d > max THEN max ELSE d

\* rand_r(...) % (window + 1): any value of the window.
backoff_jitter(delay) == 0..(delay \div 4)

\* The conversion to int: what does not fit is negative.
ToInt(n) == LET m == n % Modulus IN IF m >= Modulus \div 2 THEN m - Modulus ELSE m
-----------------------------------------------------------------------------
(* The thread. *)
Close == fd' = FALSE /\ sockets' = IF fd THEN sockets - 1 ELSE sockets

Quiet == UNCHANGED <<config, caller_vars, traffic>>

\* socket() or fcntl() fails: the state is not touched.
SocketFails ==
    /\ worker = "begin" /\ worker' = "failed"
    /\ Quiet /\ UNCHANGED <<wake, connection>>

\* connect_begin: refused at once, pending, or connected at once.
ConnectBegin ==
    /\ worker = "begin"
    /\ \/ /\ worker' = "failed" /\ state' = "CONNECTING"
          /\ UNCHANGED <<fd, sockets>>
       \/ /\ worker' = "connecting" /\ state' = "CONNECTING"
          /\ fd' = TRUE /\ sockets' = sockets + 1
       \/ /\ worker' = "connected" /\ state' = "CONNECTED"
          /\ fd' = TRUE /\ sockets' = sockets + 1
    /\ attempt' = IF worker' = "connected" THEN 0 ELSE attempt
    /\ Quiet /\ UNCHANGED <<wake, timeout>>

\* A poll that finds wake_fd readable consumes the event.
StopSeen ==
    /\ worker \in {"connecting", "connected", "backoff"} /\ wake > 0
    /\ wake' = 0 /\ worker' = "exit"
    /\ pending' = FALSE /\ due' = FALSE
    /\ UNCHANGED <<config, caller_vars, connection>>

\* The deadline has passed: tested before the poll, with or without an event.
ConnectTimeout ==
    /\ worker = "connecting" /\ worker' = "failed"
    /\ Quiet /\ UNCHANGED <<wake, connection>>

\* SO_ERROR gives the result.
ConnectResult ==
    /\ worker = "connecting" /\ wake = 0
    /\ \/ worker' = "failed" /\ UNCHANGED <<state, attempt>>
       \/ worker' = "connected" /\ state' = "CONNECTED" /\ attempt' = 0
    /\ Quiet /\ UNCHANGED <<wake, timeout, fd, sockets>>

\* The network and the clock, while connected.
Arrive ==
    /\ worker = "connected" /\ ~pending /\ pending' = TRUE
    /\ UNCHANGED <<config, caller_vars, wake, worker, connection, due>>

HeartbeatDue ==
    /\ worker = "connected" /\ config.heartbeat /\ ~due /\ due' = TRUE
    /\ UNCHANGED <<config, caller_vars, wake, worker, connection, pending>>

\* A round of connected_loop: data goes to on_data, then a heartbeat that is
\* due is sent, or skipped because the send buffer is full.
Served ==
    /\ worker = "connected" /\ wake = 0 /\ (pending \/ due)
    /\ pending' = FALSE /\ due' = FALSE
    /\ UNCHANGED <<config, caller_vars, wake, worker, connection>>

\* The peer closes, hangs up, or an operation fails (a heartbeat sent in
\* part is a failure); what was pending is read first or gone.
ConnectionLost ==
    /\ worker = "connected" /\ wake = 0
    /\ worker' = "failed"
    /\ pending' = FALSE /\ due' = FALSE
    /\ UNCHANGED <<config, caller_vars, wake, connection>>

\* close_socket, the attempt counter, and backoff_wait up to its poll.
BackoffBegin ==
    /\ worker = "failed" /\ worker' = "backoff"
    /\ Close
    /\ attempt' = IF attempt < MaxAttempt THEN attempt + 1 ELSE attempt
    /\ LET delay == backoff_base_delay(attempt', config.base, config.max)
       IN  \E jitter \in backoff_jitter(delay) : timeout' = ToInt(delay + jitter)
    /\ state' = "BACKOFF"
    /\ Quiet /\ UNCHANGED wake

\* Mutant of BackoffOver: the poll does not watch wake_fd.
BackoffDeaf ==
    /\ worker = "backoff" /\ timeout >= 0
    /\ worker' = "begin" /\ timeout' = 0
    /\ Quiet /\ UNCHANGED <<wake, state, attempt, fd, sockets>>

\* The poll times out; a negative timeout never does.
BackoffOver ==
    /\ worker = "backoff" /\ timeout >= 0 /\ wake = 0
    /\ worker' = "begin" /\ timeout' = 0
    /\ Quiet /\ UNCHANGED <<wake, state, attempt, fd, sockets>>

\* The poll itself fails: the thread gives up.
BackoffFails ==
    /\ worker = "backoff" /\ worker' = "exit"
    /\ Quiet /\ UNCHANGED <<wake, connection>>

Exit ==
    /\ worker = "exit" /\ worker' = "done"
    /\ Close /\ state' = "STOPPED"
    /\ timeout' = 0
    /\ Quiet /\ UNCHANGED <<wake, attempt>>
-----------------------------------------------------------------------------
(* The caller. *)
Create ==
    /\ client = "none" /\ client' = "created"
    /\ UNCHANGED <<config, thread_started, caller, stops, wake, worker, connection, traffic>>

Start ==
    /\ client = "created" /\ caller = "idle" /\ worker = "none"
    /\ worker' = "begin" /\ thread_started' = TRUE
    /\ UNCHANGED <<config, client, caller, stops, wake, connection, traffic>>

\* The write to wake_fd.
Signal == wake' = wake + 1

request_stop ==
    /\ client = "created" /\ thread_started /\ caller = "idle" /\ stops < MaxStops
    /\ Signal /\ stops' = stops + 1
    /\ UNCHANGED <<config, client, thread_started, caller, worker, connection, traffic>>

Join ==
    /\ client = "created" /\ thread_started /\ caller = "idle" /\ worker = "done"
    /\ thread_started' = FALSE
    /\ UNCHANGED <<config, client, caller, stops, wake, worker, connection, traffic>>

\* network_client_destroy: a thread that was not joined is stopped ...
DestroyStops ==
    /\ client = "created" /\ caller = "idle" /\ thread_started
    /\ Signal /\ caller' = "joining"
    /\ UNCHANGED <<config, client, thread_started, stops, worker, connection, traffic>>

\* ... and joined ...
DestroyJoins ==
    /\ caller = "joining" /\ worker = "done"
    /\ thread_started' = FALSE /\ caller' = "idle"
    /\ UNCHANGED <<config, client, stops, wake, worker, connection, traffic>>

\* ... before the client is freed.
Destroy ==
    /\ client = "created" /\ caller = "idle" /\ ~thread_started
    /\ Close /\ client' = "freed"
    /\ UNCHANGED <<config, thread_started, caller, stops, wake, worker, state, attempt, timeout, traffic>>

Worker ==
    \/ SocketFails \/ ConnectBegin \/ StopSeen \/ ConnectTimeout \/ ConnectResult
    \/ ConnectionLost \/ BackoffBegin \/ BackoffOver \/ BackoffFails \/ Exit

Caller ==
    Create \/ Start \/ request_stop \/ Join \/ DestroyStops \/ DestroyJoins \/ Destroy

Next == Worker \/ Served \/ Arrive \/ HeartbeatDue \/ Caller

Spec == Init /\ [][Next]_vars

\* The thread goes on when it can, whatever the network does; a poll that
\* has a finite timeout ends.
FairSpec ==
    /\ Spec
    /\ WF_vars(BackoffBegin) /\ WF_vars(BackoffOver \/ StopSeen) /\ WF_vars(Exit)
    /\ WF_vars(SocketFails \/ ConnectBegin)
    /\ WF_vars(ConnectTimeout \/ ConnectResult \/ StopSeen)
    /\ WF_vars(Served)
    /\ WF_vars(DestroyJoins)
-----------------------------------------------------------------------------
TypeOK ==
    /\ client \in {"none", "created", "freed"} /\ thread_started \in BOOLEAN
    /\ caller \in {"idle", "joining"} /\ wake \in 0..(MaxStops + 1) /\ stops \in 0..MaxStops
    /\ worker \in {"none", "begin", "connecting", "connected", "failed", "backoff", "exit", "done"}
    /\ state \in {"STOPPED", "CONNECTING", "CONNECTED", "BACKOFF"}
    /\ due \in BOOLEAN /\ pending \in BOOLEAN
    /\ attempt \in 0..MaxAttempt /\ fd \in BOOLEAN /\ sockets \in Nat


\* A stop request ends the thread, whichever of its waits it meets, and every
\* socket it has opened is closed then.
StopEnds == (stops > 0 \/ caller = "joining") ~> worker = "done" /\ sockets = 0
=============================================================================
