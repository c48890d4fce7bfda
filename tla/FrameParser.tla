------------------------------ MODULE FrameParser ------------------------------
(***************************************************************************)
(* The TCP frame of modules/protocol/frame.c,                              *)
(*    MAGIC(A5 5A) LEN PAYLOAD CRC16(LEN, PAYLOAD)                         *)
(* its encoder and its incremental parser, as operators: a parser is a     *)
(* record of its buffer and its statistics.                                *)
(***************************************************************************)
EXTENDS ProtocolCodec

CONSTANTS FRAME_MAX_PAYLOAD, FRAME_BUFFER_CAPACITY

FRAME_MAGIC == <<165, 90>>
FRAME_HEADER_SIZE == 3
FRAME_CRC_SIZE == 2
FRAME_MAX_SIZE == FRAME_HEADER_SIZE + FRAME_MAX_PAYLOAD + FRAME_CRC_SIZE

\* frame_encode: the frame, or <<>> for FRAME_INVALID.
frame_encode(payload, capacity) ==
    LET body == <<Len(payload)>> \o payload
        frame == FRAME_MAGIC \o body \o CrcBytes(body)
    IN  IF Len(payload) > FRAME_MAX_PAYLOAD \/ Len(frame) > capacity THEN <<>> ELSE frame

Frame(payload) == frame_encode(payload, FRAME_MAX_SIZE)

\* frame_parser_init.
EmptyParser ==
    [buffer |-> <<>>,
     stats |-> [frame_ok |-> 0, bad_crc |-> 0, invalid_lengths |-> 0,
                noise_bytes |-> 0, buffer_overflows |-> 0]]
-----------------------------------------------------------------------------
\* Mutant of frame_find_magic: half a MAGIC at the end is thrown away.
frame_find_magic_whole(buffer) ==
    LET At == {i \in 1..(Len(buffer) - 1) : SubSeq(buffer, i, i + 1) = FRAME_MAGIC}
    IN  IF At # {}
        THEN [found |-> TRUE, discard |-> (CHOOSE i \in At : \A j \in At : i <= j) - 1]
        ELSE [found |-> FALSE, discard |-> Len(buffer)]

frame_find_magic(buffer) ==
    LET At == {i \in 1..(Len(buffer) - 1) : SubSeq(buffer, i, i + 1) = FRAME_MAGIC}
    IN  IF At # {}
        THEN [found |-> TRUE, discard |-> (CHOOSE i \in At : \A j \in At : i <= j) - 1]
        ELSE [found |-> FALSE,
              discard |-> IF buffer # <<>> /\ Last(buffer) = 165
                          THEN Len(buffer) - 1 ELSE Len(buffer)]

frame_check_size(buffer) ==
    IF Len(buffer) < FRAME_HEADER_SIZE THEN "NEED_MORE"
    ELSE IF buffer[3] > FRAME_MAX_PAYLOAD THEN "INVALID"
    ELSE IF Len(buffer) < FRAME_HEADER_SIZE + buffer[3] + FRAME_CRC_SIZE
    THEN "NEED_MORE" ELSE "READY"

frame_check_crc(frame) ==
    CrcBytes(SubSeq(frame, 3, Len(frame) - FRAME_CRC_SIZE)) =
        SubSeq(frame, Len(frame) - 1, Len(frame))

frame_discard_prefix(buffer, n) == SubSeq(buffer, n + 1, Len(buffer))

Counted(stats, field, n) == [stats EXCEPT ![field] = @ + n]

\* A candidate that is refused loses one byte and counts under `field`.
Refused(buffer, stats, field) ==
    [parser |-> [buffer |-> frame_discard_prefix(buffer, 1),
                 stats |-> Counted(stats, field, 1)],
     result |-> "INVALID", payload |-> <<>>]

\* frame_parser_next: the parser after the call, its result and the payload.
frame_parser_next(p) ==
    LET magic == frame_find_magic(p.buffer)
        buffer == frame_discard_prefix(p.buffer, magic.discard)
        stats == Counted(p.stats, "noise_bytes", magic.discard)
        size == frame_check_size(buffer)
        frame == SubSeq(buffer, 1, FRAME_HEADER_SIZE + buffer[3] + FRAME_CRC_SIZE)
    IN  IF ~magic.found \/ size = "NEED_MORE"
        THEN [parser |-> [buffer |-> buffer, stats |-> stats],
              result |-> "NEED_MORE", payload |-> <<>>]
        ELSE IF size = "INVALID" THEN Refused(buffer, stats, "invalid_lengths")
        ELSE IF ~frame_check_crc(frame) THEN Refused(buffer, stats, "bad_crc")
        ELSE [parser |-> [buffer |-> frame_discard_prefix(buffer, Len(frame)),
                          stats |-> Counted(stats, "frame_ok", 1)],
              result |-> "READY",
              payload |-> SubSeq(frame, FRAME_HEADER_SIZE + 1, Len(frame) - FRAME_CRC_SIZE)]

\* frame_parser_feed: FRAME_INVALID leaves the buffer as it is.
Fits(p, bytes) == Len(bytes) <= FRAME_BUFFER_CAPACITY - Len(p.buffer)

frame_parser_feed(p, bytes) ==
    IF Fits(p, bytes) THEN [p EXCEPT !.buffer = @ \o bytes]
                      ELSE [p EXCEPT !.stats.buffer_overflows = @ + 1]
-----------------------------------------------------------------------------
(* The parser against a decoder that sees the whole stream. *)
\* The payloads of s when all of it is there at once: the next frame is at the
\* first header from where a frame with the right CRC follows, and a header
\* whose frame is not complete ends the search.
Decode(s) ==
    LET Candidate(at) ==
            SubSeq(s, at, at + 1) = FRAME_MAGIC /\ s[at + 2] <= FRAME_MAX_PAYLOAD
        Length(at) == FRAME_HEADER_SIZE + s[at + 2] + FRAME_CRC_SIZE
        Payload(at) == SubSeq(s, at + 3, at + 2 + s[at + 2])
        Complete(at) == at + Length(at) <= Len(s) + 1
        Intact(at) == Frame(Payload(at)) = SubSeq(s, at, at + Length(at) - 1)
        From[i \in 1..(Len(s) + 1)] ==
            LET starts == {at \in i..(Len(s) - 2) :
                              Candidate(at) /\ (Complete(at) => Intact(at))}
                first == CHOOSE at \in starts : \A other \in starts : at <= other
            IN  IF starts = {} \/ ~Complete(first) THEN <<>>
                ELSE <<Payload(first)>> \o From[first + Length(first)]
    IN  From[1]

Nothing == [parser |-> EmptyParser, payloads |-> <<>>]

\* gateway_connection_recv_frame, for a caller that asks for frame after frame:
\* every frame is taken out of the buffer before the next recv.
RECURSIVE Drained(_)

Drained(c) ==
    LET call == frame_parser_next(c.parser)
    IN  IF call.result = "NEED_MORE" THEN [c EXCEPT !.parser = call.parser]
        ELSE Drained([parser |-> call.parser,
                      payloads |-> IF call.result = "READY"
                                   THEN Append(c.payloads, call.payload) ELSE c.payloads])

Parsed(before, bytes) ==
    Drained([before EXCEPT !.parser = frame_parser_feed(@, bytes)])

Damaged(frame) == [frame EXCEPT ![Len(frame)] = (@ + 1) % 256]

\* A short frame, an empty one, one whose payload is MAGIC; half a MAGIC,
\* noise, a header with a length out of range, a header of no frame, and
\* frames with a wrong CRC.
Good == {Frame(<<>>), Frame(<<1>>), Frame(FRAME_MAGIC)}

Junk == {<<165>>, <<7>>, FRAME_MAGIC \o <<200>>, FRAME_MAGIC \o <<2>>,
         Damaged(Frame(<<1>>)), Damaged(Frame(FRAME_MAGIC))}

Streams(n) == {FlattenSeq(pieces) : pieces \in UNION {[1..k -> Good \cup Junk] : k \in 1..n}}
=============================================================================
