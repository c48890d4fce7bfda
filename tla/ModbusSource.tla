----------------------------- MODULE ModbusSource -----------------------------
(***************************************************************************)
(* The STM32 source (modules/source/stm32_modbus_source.c) over the raw    *)
(* serial source, the half-duplex RS485 port and its direction line        *)
(* (real_serial_source.c, rs485_serial.c, rse_control.c), against a device *)
(* that answers late, with an exception, out of range or not at all, and a *)
(* line that loses and damages bytes.                                      *)
(*                                                                         *)
(* Bytes and CRCs are real.  The device samples the value k for the k-th   *)
(* request it sees, so a measurement tells which request it answers.       *)
(***************************************************************************)
EXTENDS ProtocolCodec, FiniteSets

CONSTANTS Timeout,       \* serial.timeout_ms, in ticks
          MaxRequests,   \* bound on the requests sent
          MaxFaults,     \* bound on line faults and failing calls
          SeqMaxima,     \* values for UINT32_MAX, small
          Fifo,          \* bytes the UART hands to the kernel at a time
          None

VARIABLES pc,            \* where open, stm32_next or close is; "idle" between calls
          result,        \* of the last stm32_next
          fds,           \* descriptors held: serial, chip, line
          rse,           \* level of the direction line
          rx_failed,     \* the last attempt to set RX failed
          rx,            \* bytes in the kernel's receive queue
          response, want,\* serial.buffer[0..received), and the length of this read
          clock, deadline,  \* time since the read began; deadline_ns
          next_sequence, pending,
          delivered,     \* measurements that next() returned
          stop,          \* graceful_shutdown_requested
          SeqMax,        \* UINT32_MAX, one of SeqMaxima
          asked,         \* requests the device has seen
          unanswered,    \* those it has not answered yet
          line,          \* bytes of answers on the line
          faults

port == <<fds, rse, rx_failed>>
buffer == <<response, want, clock, deadline>>
sequence == <<next_sequence, pending, delivered>>
device == <<asked, unanswered, line>>
vars == <<pc, result, port, rx, buffer, sequence, stop, SeqMax, device, faults>>

Init ==
    /\ pc = "new" /\ result = "none" /\ fds = {} /\ rse = "RX" /\ rx_failed = FALSE
    /\ rx = <<>> /\ response = <<>> /\ want = 0 /\ clock = 0 /\ deadline = 0
    /\ next_sequence = 1 /\ pending = None /\ delivered = <<>> /\ stop = FALSE
    /\ SeqMax \in SeqMaxima
    /\ asked = 0 /\ unanswered = <<>> /\ line = <<>> /\ faults = 0

Goto(from, to) == pc = from /\ pc' = to
Fault == faults < MaxFaults /\ faults' = faults + 1
-----------------------------------------------------------------------------
(* The device and the line, as long as the source is open. *)
WithCrc(body) == body \o CrcBytes(body)
Sample == [k \in 1..MaxRequests |-> WithCrc(<<1, 4, 4, 0, k, 0, k>>)]
OutOfRange == [k \in 1..MaxRequests |-> WithCrc(<<1, 4, 4, 3, 233, 0, k>>)]   \* 1001 in register 0
Exception == WithCrc(<<1, 132, 4>>)

Answer ==
    /\ pc # "closed" /\ unanswered # <<>> /\ unanswered' = Tail(unanswered)
    /\ \/ line' = line \o Sample[Head(unanswered)] /\ UNCHANGED faults
       \/ \E bytes \in {<<>>, Exception, OutOfRange[Head(unanswered)]} :
             Fault /\ line' = line \o bytes
    /\ UNCHANGED <<pc, result, port, rx, buffer, sequence, stop, SeqMax, asked>>

\* Bytes come in; while the transceiver drives the line it hears nothing.
Arrive ==
    /\ pc # "closed" /\ line # <<>>
    /\ LET n == IF Len(line) < Fifo THEN Len(line) ELSE Fifo IN
       /\ line' = SubSeq(line, n + 1, Len(line))
       /\ rx' = IF rse = "RX" THEN rx \o SubSeq(line, 1, n) ELSE rx
    /\ UNCHANGED <<pc, result, port, buffer, sequence, stop, SeqMax, asked, unanswered, faults>>

LineFault ==
    /\ pc # "closed" /\ line # <<>> /\ Fault
    /\ line' \in {Tail(line), [line EXCEPT ![1] = (@ + 1) % 256]}
    /\ UNCHANGED <<pc, result, port, rx, buffer, sequence, stop, SeqMax, asked, unanswered>>

RequestStop ==
    /\ pc # "closed" /\ ~stop /\ stop' = TRUE
    /\ UNCHANGED <<pc, result, port, rx, buffer, sequence, SeqMax, device, faults>>
-----------------------------------------------------------------------------
(* stm32_modbus_source_open, down to rse_control_open, and close. *)
Opening(from, fd, to) ==
    /\ Goto(from, to) /\ fds' = fds \cup {fd}
    /\ UNCHANGED <<result, rse, rx_failed, rx, buffer, sequence, stop, SeqMax, device, faults>>

OpenSerial == Opening("new", "serial", "open_chip")

OpenChip == Opening("open_chip", "chip", "open_line")

\* The line is requested as an output that is low: RX.
OpenLine == Opening("open_line", "line", "idle")

\* serial_configure or a step of rse_control_open fails: rs485_port_close.
OpenFails ==
    /\ pc \in {"open_chip", "open_line"} /\ Fault
    /\ pc' = "closed" /\ fds' = {}
    /\ UNCHANGED <<result, rse, rx_failed, rx, buffer, sequence, stop, SeqMax, device>>

SetRx(ok) == rse' = (IF ok THEN "RX" ELSE rse) /\ rx_failed' = ~ok

Close ==
    /\ Goto("idle", "closed") /\ (stop \/ result = "ERROR")
    /\ \/ SetRx(TRUE) /\ UNCHANGED faults
       \/ SetRx(FALSE) /\ Fault
    /\ fds' = {} /\ response' = <<>> /\ want' = 0 /\ clock' = 0 /\ deadline' = 0
    /\ next_sequence' = 1 /\ pending' = None /\ result' = "none" /\ rx' = <<>>
    /\ UNCHANGED <<delivered, stop, SeqMax, device>>
-----------------------------------------------------------------------------
(* stm32_next. *)
Returns(r) == pc' = "idle" /\ result' = r

\* What map_measurements builds from registers and hands over in one go.
Measurement(k, n) == [sequence |-> n, value |-> k, request |-> asked]

\* The second measurement of an answer is returned without a query.
NextPending ==
    /\ pc = "idle" /\ result # "ERROR" /\ pending # None
    /\ Returns("OK") /\ pending' = None /\ delivered' = Append(delivered, pending)
    /\ UNCHANGED <<port, rx, buffer, next_sequence, stop, SeqMax, device, faults>>

NextStopped ==
    /\ pc = "idle" /\ result # "ERROR" /\ pending = None /\ stop
    /\ Returns("NO_DATA") /\ response' = <<>>
    /\ UNCHANGED <<port, rx, want, clock, deadline, sequence, stop, SeqMax, device, faults>>

\* query_registers up to the first wait of rs485_send_frame.
NextQuery ==
    /\ result # "ERROR" /\ pending = None /\ ~stop /\ asked < MaxRequests
    /\ Goto("idle", "set_tx") /\ response' = <<>>
    /\ UNCHANGED <<result, port, rx, want, clock, deadline, sequence, stop, SeqMax, device, faults>>

(* rs485_send_frame: wait until nothing is sent, drive the line, write, wait *)
(* until the last bit is out, listen. *)
SetTx ==
    /\ Goto("set_tx", "write") /\ rse' = "TX"
    /\ UNCHANGED <<result, fds, rx_failed, rx, buffer, sequence, stop, SeqMax, device, faults>>

\* The device counts the requests it understands.
Request == modbus_rtu_build_read_registers(1, 4, 1, 2)

Sent ==
    IF Request = WithCrc(<<1, 4, 0, 1, 0, 2>>)
    THEN asked' = asked + 1 /\ unanswered' = Append(unanswered, asked + 1)
    ELSE UNCHANGED <<asked, unanswered>>

\* serial_write_full and serial_wait_tx_complete.
Write ==
    /\ Goto("write", "set_rx") /\ Sent
    /\ UNCHANGED <<result, port, rx, buffer, sequence, stop, SeqMax, line, faults>>

\* One of the calls before set_rx failed or timed out; the request may be out.
SendFails ==
    /\ pc \in {"set_tx", "write"} /\ Fault /\ pc' = "restore"
    /\ \/ pc = "write" /\ Sent
       \/ UNCHANGED <<asked, unanswered>>
    /\ UNCHANGED <<result, port, rx, buffer, sequence, stop, SeqMax, line>>

\* Mutant of Restore: an error leaves the line driven.
RestoreNothing ==
    /\ pc = "restore" /\ Returns("ERROR") /\ UNCHANGED <<rse, rx_failed, faults>>
    /\ UNCHANGED <<fds, rx, buffer, sequence, stop, SeqMax, device>>

\* restore_after_error: TCOFLUSH, then RX as far as possible.
Restore ==
    /\ pc = "restore" /\ Returns("ERROR")
    /\ \/ SetRx(TRUE) /\ UNCHANGED faults
       \/ SetRx(FALSE) /\ Fault
    /\ UNCHANGED <<fds, rx, buffer, sequence, stop, SeqMax, device>>

\* The request is out: release the line and start the one deadline.
Listen ==
    /\ Goto("set_rx", "read") /\ SetRx(TRUE)
    /\ want' = 3 /\ clock' = 0 /\ deadline' = Timeout
    /\ UNCHANGED <<result, fds, rx, response, sequence, stop, SeqMax, device, faults>>

ListenFails ==
    /\ pc = "set_rx" /\ Fault /\ SetRx(FALSE) /\ Returns("ERROR")
    /\ UNCHANGED <<fds, rx, buffer, sequence, stop, SeqMax, device>>
-----------------------------------------------------------------------------
(* serial_read_exact_until_stop: "read" is the top of its loop, "got" the    *)
(* place after poll found the port readable. *)
Tick ==
    /\ pc \in {"read", "got"} /\ clock < deadline /\ clock' = clock + 1
    /\ UNCHANGED <<pc, result, port, rx, response, want, deadline, sequence, stop, SeqMax, device, faults>>

Reading == pc \in {"read", "got"}

ReadStopped ==
    /\ Reading /\ stop /\ Returns("NO_DATA")
    /\ UNCHANGED <<port, rx, buffer, sequence, stop, SeqMax, device, faults>>

\* Mutant of ReadTimedOut: the time is only looked at when bytes are there.
ReadTimedOutLate ==
    /\ pc = "got" /\ ~stop /\ clock >= deadline /\ Returns("NO_DATA")
    /\ UNCHANGED <<port, rx, buffer, sequence, stop, SeqMax, device, faults>>

ReadTimedOut ==
    /\ Reading /\ ~stop /\ clock >= deadline /\ Returns("NO_DATA")
    /\ UNCHANGED <<port, rx, buffer, sequence, stop, SeqMax, device, faults>>

Readable ==
    /\ ~stop /\ clock < deadline /\ rx # <<>> /\ Goto("read", "got")
    /\ UNCHANGED <<result, port, rx, buffer, sequence, stop, SeqMax, device, faults>>

\* poll or read fails, or the port hangs up.
ReadFails ==
    /\ Reading /\ ~stop /\ clock < deadline /\ Fault /\ Returns("ERROR")
    /\ UNCHANGED <<port, rx, buffer, sequence, stop, SeqMax, device>>

\* serial_read_append_once: as many bytes as are there and still wanted.
ReadBytes ==
    /\ pc = "got" /\ ~stop /\ clock < deadline
    /\ LET room == want - Len(response)
           n == IF Len(rx) < room THEN Len(rx) ELSE room
       IN  /\ response' = response \o SubSeq(rx, 1, n)
           /\ rx' = SubSeq(rx, n + 1, Len(rx))
           /\ pc' = IF n = room THEN "segment" ELSE "read"
    /\ UNCHANGED <<result, port, want, clock, deadline, sequence, stop, SeqMax, device, faults>>

\* The bytes after the header: of a sample, of an exception, or 0 if neither.
Remaining(header) ==
    IF header = <<1, 4, 4>> THEN 6
    ELSE IF header[1] = 1 /\ header[2] = 132 THEN 2 ELSE 0

Header ==
    /\ pc = "segment" /\ want = 3
    /\ IF Remaining(response) > 0
       THEN pc' = "read" /\ want' = 3 + Remaining(response) /\ UNCHANGED result
       ELSE Returns("NO_DATA") /\ UNCHANGED want
    /\ UNCHANGED <<port, rx, response, clock, deadline, sequence, stop, SeqMax, device, faults>>

Registers == <<256 * response[4] + response[5], 256 * response[6] + response[7]>>

\* modbus_rtu_check_read_registers and the length of a sample.
Checked ==
    /\ modbus_rtu_check_read_registers(response, 1, 4, 2) = "NORMAL"
    /\ Len(response) = 9

\* map_measurements: both values in range, and two sequence numbers left.
Mappable ==
    /\ \A i \in 1..2 : Registers[i] <= 1000
    /\ next_sequence # 0 /\ next_sequence # SeqMax

\* Mutant of Accept: the header stands for the CRC.
AcceptUnchecked ==
    /\ pc = "segment" /\ want = 9
    /\ IF Mappable
       THEN /\ Returns("OK")
            /\ delivered' = Append(delivered, Measurement(Registers[1], next_sequence))
            /\ pending' = Measurement(Registers[2], (next_sequence + 1) % (SeqMax + 1))
            /\ next_sequence' = (next_sequence + 2) % (SeqMax + 1)
       ELSE Returns("NO_DATA") /\ UNCHANGED sequence
    /\ UNCHANGED <<port, rx, buffer, stop, SeqMax, device, faults>>

Accept ==
    /\ pc = "segment" /\ want # 3
    /\ IF Checked /\ Mappable
       THEN /\ Returns("OK")
            /\ delivered' = Append(delivered, Measurement(Registers[1], next_sequence))
            /\ pending' = Measurement(Registers[2], (next_sequence + 1) % (SeqMax + 1))
            /\ next_sequence' = (next_sequence + 2) % (SeqMax + 1)
       ELSE Returns("NO_DATA") /\ UNCHANGED sequence
    /\ UNCHANGED <<port, rx, buffer, stop, SeqMax, device, faults>>

Source ==
    \/ OpenSerial \/ OpenChip \/ OpenLine \/ Close
    \/ NextPending \/ NextStopped \/ NextQuery
    \/ SetTx \/ Write \/ Restore \/ Listen
    \/ ReadStopped \/ ReadTimedOut \/ Readable \/ ReadBytes \/ Header \/ Accept

SourceFails == OpenFails \/ SendFails \/ ListenFails \/ ReadFails

Next == Source \/ SourceFails \/ Tick \/ Answer \/ Arrive \/ LineFault \/ RequestStop

Spec == Init /\ [][Next]_vars

\* The thread runs and time passes; calls need not fail, the device need not
\* answer, the caller need not call.
FairSpec ==
    /\ Spec /\ WF_vars(Tick)
    /\ WF_vars(SetTx \/ Write \/ Restore \/ Listen \/ ReadStopped \/ ReadTimedOut
               \/ Readable \/ ReadBytes \/ Header \/ Accept)
-----------------------------------------------------------------------------
TypeOK ==
    /\ pc \in {"new", "open_chip", "open_line", "idle", "set_tx", "write", "set_rx",
               "restore", "read", "got", "segment", "closed"}
    /\ result \in {"none", "OK", "NO_DATA", "ERROR"}
    /\ fds \subseteq {"serial", "chip", "line"} /\ rse \in {"RX", "TX"}
    /\ rx_failed \in BOOLEAN /\ stop \in BOOLEAN
    /\ want \in {0, 3, 5, 9} /\ Len(response) <= want
    /\ next_sequence \in 1..SeqMax /\ (pending = None \/ pending.sequence \in 1..SeqMax)

\* The line is not left driven: outside rs485_send_frame, on every path out of
\* it and after close, it is on RX unless the ioctl that sets RX failed itself.
LineReleased == pc \notin {"write", "set_rx", "restore"} => rse = "RX" \/ rx_failed

\* What next() returned is numbered 1, 2, 3, ... and each answer gives both of
\* its measurements or none: numbers 2i-1 and 2i carry the two registers of
\* one sample of the device, and no sample is returned twice.  Nothing is
\* made of an exception, of a damaged answer or of parts of two answers.
PairsAreSamples ==
    LET all == IF pending = None THEN delivered ELSE Append(delivered, pending)
    IN  /\ \A n \in DOMAIN all : all[n].sequence = n /\ n < SeqMax
        /\ \A n \in DOMAIN all : all[n].value \in 1..asked
        /\ \A n, m \in DOMAIN all :
              /\ all[n].value = all[m].value <=> (n + 1) \div 2 = (m + 1) \div 2
              /\ n < m => all[n].value <= all[m].value

\* A call of next() returns, whatever the device and the line do.
NextReturns == (pc \notin {"new", "open_chip", "open_line", "closed"}) ~> (pc \in {"idle", "closed"})
=============================================================================
