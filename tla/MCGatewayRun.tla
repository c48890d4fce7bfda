----------------------------- MODULE MCGatewayRun -----------------------------
(***************************************************************************)
(* gateway_run together with the parser of the frames that its network     *)
(* smoke test exchanges (module FrameParser).                              *)
(***************************************************************************)
EXTENDS GatewayRun, FrameParser

CONSTANT MaxPieces   \* bound on the pieces of a stream of frames and noise

\* Before the network smoke test sends its frames (the parser is the same in
\* every build): a stream that recv cuts into any number of pieces, with noise,
\* damaged frames and false headers between the frames, is parsed by
\* gateway_connection_recv_frame as if it were not cut: what is received after
\* any part of it leaves the parser as the two together would.  It returns the
\* payloads that a decoder of the whole stream finds and keeps the same rest,
\* which is shorter than a frame (so that it never overflows); its statistics
\* account for every byte.
ChunkIndependent ==
    mode = "SMOKE" /\ build = "plain" /\ pc = "install" => \A s \in Streams(MaxPieces) :
        LET upTo == [k \in DOMAIN s |-> Parsed(Nothing, SubSeq(s, 1, k))]
            whole == upTo[Len(s)]
            stats == whole.parser.stats
        IN  /\ whole.payloads = Decode(s)
            /\ Len(whole.parser.buffer) < FRAME_MAX_SIZE /\ stats.buffer_overflows = 0
            /\ stats.frame_ok = Len(whole.payloads)
            /\ Len(s) = Len(whole.parser.buffer) + stats.noise_bytes + stats.bad_crc
                        + stats.invalid_lengths
                        + Len(FlattenSeq([i \in DOMAIN whole.payloads |-> Frame(whole.payloads[i])]))
            /\ \A k \in DOMAIN s : \A last \in k + 1 .. Len(s) :
                  Parsed(upTo[k], SubSeq(s, k + 1, last)) = upTo[last]
=============================================================================
