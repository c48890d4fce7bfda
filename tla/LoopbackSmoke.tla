----------------------------- MODULE LoopbackSmoke -----------------------------
(***************************************************************************)
(* run_network_smoke of core/gateway.c: one thread is both ends of a TCP   *)
(* connection.  It sends every measurement, then receives and acknowledges *)
(* each, then receives the acknowledgements.  All calls block, so the test *)
(* ends only if the kernel takes a whole phase while nobody reads.         *)
(*                                                                         *)
(* A frame is Size bytes <<i, part>>; the parser finds it once all of its  *)
(* bytes are there, however they were received (ChunkIndependent of module *)
(* MCGatewayRun).  Module GatewayRun calls this one.                       *)
(***************************************************************************)
EXTENDS Integers, Sequences

CONSTANTS Count,       \* GATEWAY_SMOKE_MEASUREMENT_COUNT
          Size,        \* bytes of a frame
          RecvSize,    \* sizeof(recv_buffer)
          Pipe,        \* bytes the kernel holds in one direction
          MaxFaults

VARIABLES pc, fds,
          index,       \* of the loop that runs
          part,        \* bytes of the current frame that net_send_all has sent
          up, down,    \* bytes in the kernel, towards the gateway and back
          parsed,      \* bytes in the parser of each side
          frame_ok,    \* frames each parser has returned
          result, faults

Init ==
    /\ pc = "listen" /\ fds = {} /\ index = 1 /\ part = 0 /\ up = <<>> /\ down = <<>>
    /\ parsed = [gateway |-> <<>>, client |-> <<>>]
    /\ frame_ok = [gateway |-> 0, client |-> 0] /\ result = -1 /\ faults = 0

\* net_tcp_socket, net_bind, net_listen; then the client; then net_accept.
SetUp ==
    /\ \/ pc = "listen" /\ pc' = "connect" /\ fds' = fds \cup {"listen"}
       \/ pc = "connect" /\ pc' = "accept" /\ fds' = fds \cup {"client"}
       \/ pc = "accept" /\ pc' = "send" /\ fds' = fds \cup {"accepted"}
    /\ UNCHANGED <<index, part, up, down, parsed, frame_ok, result, faults>>

\* The loop goes to its next turn, or the next loop begins.
Turn(loop, next) ==
    IF index = Count THEN pc' = next /\ index' = 1 ELSE pc' = loop /\ index' = index + 1

\* send_frame: net_send_all puts another byte into the kernel, once there is
\* room.
SendByte(pipe) == Len(pipe) < Pipe /\ part < Size /\ part' = part + 1

Send ==
    /\ pc = "send"
    /\ \/ /\ SendByte(up) /\ up' = Append(up, <<index, part + 1>>)
          /\ UNCHANGED <<pc, index>>
       \/ part = Size /\ part' = 0 /\ Turn("send", "serve") /\ UNCHANGED up
    /\ UNCHANGED <<fds, down, parsed, frame_ok, result, faults>>

\* net_recv: some of the bytes that are there.
Taken(pipe) == {n \in 1..RecvSize : n <= Len(pipe)}

\* gateway_connection_recv_frame: recv while the parser has no whole frame, ...
Feed(side, pipe, n) ==
    /\ Len(parsed[side]) < Size
    /\ parsed' = [parsed EXCEPT ![side] = @ \o SubSeq(pipe, 1, n)]

\* ... then take it out; it must be the one of this turn.
TakeFrame(side) ==
    /\ Len(parsed[side]) >= Size
    /\ parsed' = [parsed EXCEPT ![side] = SubSeq(@, Size + 1, Len(@))]
    /\ frame_ok' = [frame_ok EXCEPT ![side] = @ + 1]

FrameOf(side) == [p \in 1..Size |-> <<index, p>>] = SubSeq(parsed[side], 1, Size)

Serve ==
    /\ pc = "serve"
    /\ \/ /\ \E n \in Taken(up) : Feed("gateway", up, n) /\ up' = SubSeq(up, n + 1, Len(up))
          /\ UNCHANGED <<pc, frame_ok>>
       \/ /\ TakeFrame("gateway") /\ UNCHANGED up
          /\ pc' = IF FrameOf("gateway") THEN "ack" ELSE "done"
    /\ UNCHANGED <<fds, index, part, down, result, faults>>

Ack ==
    /\ pc = "ack"
    /\ \/ /\ SendByte(down) /\ down' = Append(down, <<index, part + 1>>)
          /\ UNCHANGED <<pc, index>>
       \/ part = Size /\ part' = 0 /\ Turn("serve", "collect") /\ UNCHANGED down
    /\ UNCHANGED <<fds, up, parsed, frame_ok, result, faults>>

CollectTurn == Turn("collect", "count")

Collect ==
    /\ pc = "collect"
    /\ \/ /\ \E n \in Taken(down) : Feed("client", down, n) /\ down' = SubSeq(down, n + 1, Len(down))
          /\ UNCHANGED <<pc, index, frame_ok>>
       \/ /\ TakeFrame("client") /\ UNCHANGED down
          /\ IF FrameOf("client") THEN CollectTurn ELSE pc' = "done" /\ UNCHANGED index
    /\ UNCHANGED <<fds, part, up, result, faults>>

\* The frame counts, and the log record of the success.
CountFrames ==
    /\ pc = "count" /\ pc' = "done"
    /\ result' = IF frame_ok = [gateway |-> Count, client |-> Count] THEN 0 ELSE -1
    /\ UNCHANGED <<fds, index, part, up, down, parsed, frame_ok, faults>>

\* The socket that the calls before "connect" and "accept" open first.
Opening == CASE pc = "listen" -> {"listen"} [] pc = "connect" -> {"client"} [] OTHER -> {}

\* Any call fails, the one that opens a socket or one after it.
Fail ==
    /\ pc \notin {"done", "returned"} /\ faults < MaxFaults /\ faults' = faults + 1
    /\ pc' = "done" /\ fds' \in {fds, fds \cup Opening}
    /\ UNCHANGED <<index, part, up, down, parsed, frame_ok, result>>

Done ==
    /\ pc = "done" /\ pc' = "returned" /\ fds' = {}
    /\ UNCHANGED <<index, part, up, down, parsed, frame_ok, result, faults>>

Progress == SetUp \/ Send \/ Serve \/ Ack \/ Collect \/ CountFrames \/ Done
=============================================================================
