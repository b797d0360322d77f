------------------------------- MODULE FwLog -------------------------------
(***************************************************************************)
(* Reading the firmware's log (common/fw_operation.c): a ring in the       *)
(* device's memory that the firmware fills at chip_offset while the driver *)
(* reads it from host_offset, in up to two pieces and without a lock the   *)
(* firmware knows. Reads take the board mutex: there is one at a time.     *)
(*                                                                         *)
(* The bytes of the log are numbered modulo twice the ring, enough to tell *)
(* what is in it from what was there a lap ago; offsets count from the     *)
(* data, behind the header.                                                *)
(***************************************************************************)
EXTENDS Integers, Sequences

CONSTANTS
  LogSize,        \* DEBUG_BUFFER_DATA_SIZE
  LogBufferSizes  \* buffer_size of the reads

ASSUME LogAssumption == LogSize \in Nat \ {0, 1} /\ LogBufferSizes \subseteq Nat

VARIABLES
  chip_offset, host_offset,  \* in the header, in the device
  log_data,                  \* the bytes of the ring
  log_next,                  \* number of the byte the firmware writes next
  log_read,                  \* number of the byte the client gets next
  log_reader                 \* the read under way: where it is, what it knows and has

logVars == <<chip_offset, host_offset, log_data, log_next, log_read, log_reader>>

Bytes == 0 .. 2 * LogSize - 1
Offsets == 0 .. LogSize - 1
NoReader == [at |-> "idle", host |-> 0, ready |-> 0, buffer |-> <<>>]

LogTypeOK ==
  /\ chip_offset \in Offsets /\ host_offset \in Offsets
  /\ log_data \in [Offsets -> Bytes]
  /\ log_next \in Bytes /\ log_read \in Bytes
  /\ log_reader \in [at : {"idle", "first", "second", "advance"}, host : Offsets,
                     ready : 0 .. LogSize - 1, buffer : Seq(Bytes)]

LogInit ==
  /\ chip_offset = 0 /\ host_offset = 0
  /\ log_data = [o \in Offsets |-> 0]
  /\ log_next = 0 /\ log_read = 0
  /\ log_reader = NoReader

(* The firmware logs a byte, and drops what would make the ring look empty.*)
FwLogWrite ==
  /\ (chip_offset + 1) % LogSize # host_offset
  /\ log_data' = [log_data EXCEPT ![chip_offset] = log_next]
  /\ chip_offset' = (chip_offset + 1) % LogSize
  /\ log_next' = (log_next + 1) % (2 * LogSize)
  /\ UNCHANGED <<host_offset, log_read, log_reader>>

----------------------------------------------------------------------------
(* calculate_log_ready_to_read                                             *)
LogReadyToRead ==
  IF chip_offset >= host_offset
  THEN chip_offset - host_offset
  ELSE LogSize - (host_offset - chip_offset)

AtMost(n, bound) == IF n <= bound THEN n ELSE bound

(* Mutant: a read that ends with the ring does not cycle back.             *)
LateWrap(host, ready) == LogSize < host + ready

(* The read reaches the end of the ring.                                   *)
Wraps(host, ready) == LogSize <= host + ready

(* hailo_read_firmware_log takes both offsets from the header; with none   *)
(* to read, or a buffer of no size, it is done.                            *)
ReadLogHeader(buffer_size) ==
  LET ready == AtMost(LogReadyToRead, buffer_size) IN
  /\ log_reader.at = "idle" /\ ready > 0
  /\ log_reader' = [at |-> IF Wraps(host_offset, ready) THEN "first" ELSE "second",
                    host |-> host_offset, ready |-> ready, buffer |-> <<>>]
  /\ UNCHANGED <<chip_offset, host_offset, log_data, log_next, log_read>>

Piece(from, size) == [i \in 1 .. size |-> log_data[from + i - 1]]

(* The piece up to the end of the ring.                                    *)
ReadLogFirst ==
  /\ log_reader.at = "first"
  /\ log_reader' = [log_reader EXCEPT !.at = "second",
                      !.buffer = Piece(log_reader.host, LogSize - log_reader.host)]
  /\ UNCHANGED <<chip_offset, host_offset, log_data, log_next, log_read>>

(* Where the last piece, which may be empty, begins and its size.          *)
SecondFrom == IF Wraps(log_reader.host, log_reader.ready) THEN 0 ELSE log_reader.host
SecondSize == log_reader.ready - Len(log_reader.buffer)

ReadLogSecond ==
  /\ log_reader.at = "second"
  /\ log_reader' = [log_reader EXCEPT !.at = "advance",
                      !.host = SecondFrom + SecondSize,
                      !.buffer = @ \o Piece(SecondFrom, SecondSize)]
  /\ UNCHANGED <<chip_offset, host_offset, log_data, log_next, log_read>>

(* host_offset is written back and the client gets the bytes.              *)
AdvanceHostOffset ==
  /\ log_reader.at = "advance"
  /\ host_offset' = log_reader.host
  /\ log_read' = (log_read + log_reader.ready) % (2 * LogSize)
  /\ log_reader' = NoReader
  /\ UNCHANGED <<chip_offset, log_data, log_next>>

LogNext ==
  \/ FwLogWrite
  \/ \E buffer_size \in LogBufferSizes : ReadLogHeader(buffer_size)
  \/ ReadLogFirst
  \/ ReadLogSecond
  \/ AdvanceHostOffset

LogSpec == LogInit /\ [][LogNext]_logVars

----------------------------------------------------------------------------
(* Properties.                                                             *)

(* The client reads the log: what a read returns are the bytes that follow *)
(* the last read's, in the order the firmware wrote them, none twice and   *)
(* none overwritten while it was being read, wherever the read cycles back *)
(* and whatever the firmware adds meanwhile. The offset written back is    *)
(* one in the ring.                                                        *)
LogReadInOrder ==
  /\ LogTypeOK
  /\ \A i \in 1 .. Len(log_reader.buffer) :
       log_reader.buffer[i] = (log_read + i - 1) % (2 * LogSize)
  /\ (log_next - log_read) % (2 * LogSize) = LogReadyToRead
=============================================================================
