--------------------------- MODULE VdmaTimestamps ---------------------------
(***************************************************************************)
(* The interrupt timestamps of one channel (common/vdma_common.c): a ring  *)
(* that the interrupt handler fills without a lock while an ioctl, under   *)
(* the board mutex, empties it. Enabling a channel resets the ring, also   *)
(* under the mutex, which the handler does not know.                       *)
(*                                                                         *)
(* Each interrupt reports one descriptor, so the device's counter after    *)
(* interrupt n is ((n - 1) % TsDescCount) + 1: it reads desc_count, not    *)
(* zero, after the last descriptor. `x & mask' is x % mask, and NoMask,    *)
(* which changes none of these values, stands for the mask U32_MAX of a    *)
(* channel without a list.                                                 *)
(***************************************************************************)
EXTENDS Integers, Sequences

CONSTANTS
  TsSize,       \* CHANNEL_IRQ_TIMESTAMPS_SIZE, entries of the ring and of a result
  TsDescCount,  \* descriptors of the list the channel uses
  MaxInterrupts,
  TsContract    \* which of TsClauses hold

(* What nothing in the code ensures:                                       *)
(*   quiet    a channel is not enabled while the handler handles it        *)
(*   paced    at most one interrupt of the channel comes during a read     *)
(*   attached timestamps are not read between a disable and a launch       *)
(*   ordered  the handler's stores become visible in program order         *)
TsClauses == {"quiet", "paced", "attached", "ordered"}

ASSUME TimestampsAssumption ==
  /\ TsSize \in {2^k : k \in 1 .. 16} /\ TsSize \in Nat /\ TsSize >= 2 /\ TsDescCount \in Nat \ {0}
  /\ MaxInterrupts \in Nat /\ TsContract \subseteq TsClauses

VARIABLES
  measured,     \* timestamp_measure_enabled
  head, tail,   \* of timestamp_list
  timestamps,   \* timestamp_list.timestamps
  mask,         \* state.desc_count_mask
  clock,        \* number of the last interrupt, what ktime_get_ns tells apart
  stores,       \* what the handler still has to store of a timestamp
  reader,       \* where the read ioctl is
  result,       \* params->timestamps
  pushed        \* interrupts during this read

tsVars == <<measured, head, tail, timestamps, mask, clock, stores, reader, result, pushed>>

Stamp == [id : 0 .. MaxInterrupts, desc : 0 .. TsDescCount]
Indices == 0 .. TsSize - 1
NoMask == TsDescCount + 1

(* CIRC_CNT and CIRC_SPACE of linux/circ_buf.h.                            *)
CircCnt == (head - tail) % TsSize
(* Mutant: every slot is used.                                             *)
CircSpaceAll == TsSize - CircCnt
CircSpace == (tail - head - 1) % TsSize

TsTypeOK ==
  /\ measured \in BOOLEAN
  /\ head \in Indices /\ tail \in Indices
  /\ timestamps \in [Indices -> Stamp]
  /\ mask \in {NoMask, TsDescCount}
  /\ clock \in 0 .. MaxInterrupts
  /\ stores \subseteq {"slot", "head"}
  /\ reader \in {"idle", "pop", "copied"}
  /\ result \in Seq(Stamp)
  /\ pushed \in Nat

TsInit ==
  /\ measured = FALSE /\ head = 0 /\ tail = 0
  /\ timestamps = [i \in Indices |-> [id |-> 0, desc |-> 0]]
  /\ mask = NoMask /\ clock = 0
  /\ stores = {} /\ reader = "idle" /\ result = <<>> /\ pushed = 0

----------------------------------------------------------------------------
(* hailo_vdma_push_timestamp, in the interrupt handler: the test for space *)
(* and, if there is some, two stores.                                      *)
PushTimestamp ==
  /\ measured /\ stores = {} /\ clock < MaxInterrupts
  /\ "paced" \in TsContract /\ reader # "idle" => pushed = 0
  /\ pushed' = IF reader # "idle" THEN pushed + 1 ELSE 0
  /\ IF CircSpace # 0
     THEN stores' = {"slot", "head"} /\ UNCHANGED clock
     ELSE clock' = clock + 1 /\ UNCHANGED stores
  /\ UNCHANGED <<measured, head, tail, timestamps, mask, reader, result>>

StoreSlot ==
  LET early == IF "head" \in stores THEN 0 ELSE 1  \* the other store is done
      n == clock + 1 - early
  IN
  /\ "slot" \in stores
  /\ timestamps' = [timestamps EXCEPT ![(head - early) % TsSize] =
                      [id |-> n, desc |-> ((n - 1) % TsDescCount) + 1]]
  /\ UNCHANGED <<head, clock>>

StoreHead ==
  /\ "head" \in stores
  /\ "ordered" \in TsContract => stores = {"head"}
  /\ head' = (head + 1) % TsSize
  /\ clock' = clock + 1
  /\ UNCHANGED timestamps

Store ==
  /\ \/ StoreSlot /\ stores' = stores \ {"slot"}
     \/ StoreHead /\ stores' = stores \ {"head"}
  /\ UNCHANGED <<measured, tail, mask, reader, result, pushed>>

----------------------------------------------------------------------------
(* The read ioctl: copy_from_user and the checks, then the loop of         *)
(* hailo_vdma_pop_timestamps_to_response.                                  *)
ReadTimestamps ==
  /\ reader = "idle"
  /\ "attached" \in TsContract => mask # NoMask
  /\ reader' = "pop"
  /\ pushed' = IF stores = {} THEN 0 ELSE 1
  /\ UNCHANGED <<measured, head, tail, timestamps, mask, clock, stores, result>>

Masked(stamp) == [stamp EXCEPT !.desc = @ % mask]

(* hailo_vdma_pop_timestamp copies to timestamps[i], before i is compared  *)
(* with the size of the array.                                             *)
PopTimestamp ==
  /\ reader = "pop" /\ CircCnt # 0
  /\ result' = Append(result, Masked(timestamps[tail]))
  /\ reader' = "copied"
  /\ UNCHANGED <<measured, head, tail, timestamps, mask, clock, stores, pushed>>

(* Mutant: the tail does not wrap.                                         *)
AdvanceTailNoWrap ==
  /\ reader = "copied"
  /\ tail' = tail + 1
  /\ reader' = "pop"
  /\ UNCHANGED <<measured, head, timestamps, mask, clock, stores, result, pushed>>

(* What was copied past the array is not counted, and the loop ends.       *)
AdvanceTail ==
  /\ reader = "copied"
  /\ tail' = (tail + 1) % TsSize
  /\ IF Len(result) <= TsSize
     THEN reader' = "pop" /\ UNCHANGED result
     ELSE reader' = "idle" /\ result' = <<>>
  /\ UNCHANGED <<measured, head, timestamps, mask, clock, stores, pushed>>

(* The ring is empty; the result goes to the client (or, if copy_to_user   *)
(* fails, nowhere).                                                        *)
ReadReturn ==
  /\ reader = "pop" /\ CircCnt = 0
  /\ reader' = "idle"
  /\ result' = <<>>
  /\ pushed' = 0
  /\ UNCHANGED <<measured, head, tail, timestamps, mask, clock, stores>>

----------------------------------------------------------------------------
(* hailo_vdma_engine_enable_channels, under the board mutex as the read.   *)
EnableMeasure(measure_timestamp) ==
  /\ reader = "idle"
  /\ "quiet" \in TsContract => stores = {}
  /\ measured' = measure_timestamp
  /\ head' = 0 /\ tail' = 0
  /\ UNCHANGED <<timestamps, mask, clock, stores, reader, result, pushed>>

(* hailo_vdma_engine_disable_channels resets the counters and the mask and *)
(* leaves the measurement on.                                              *)
DisableMeasured ==
  /\ reader = "idle"
  /\ mask' = NoMask
  /\ UNCHANGED <<measured, head, tail, timestamps, clock, stores, reader, result, pushed>>

(* hailo_vdma_launch_transfer                                              *)
AttachList ==
  /\ reader = "idle"
  /\ mask' = TsDescCount
  /\ UNCHANGED <<measured, head, tail, timestamps, clock, stores, reader, result, pushed>>

TsNext ==
  \/ PushTimestamp
  \/ Store
  \/ ReadTimestamps
  \/ PopTimestamp
  \/ AdvanceTail
  \/ ReadReturn
  \/ \E measure_timestamp \in BOOLEAN : EnableMeasure(measure_timestamp)
  \/ DisableMeasured
  \/ AttachList

TsSpec == TsInit /\ [][TsNext]_tsVars

----------------------------------------------------------------------------
(* Properties.                                                             *)

(* A read never leaves the ring, nor params->timestamps. That array has an *)
(* entry more than the ring holds, which is all the room there is for what *)
(* the handler pushes while the loop empties the ring.                     *)
ReadInBounds == TsTypeOK /\ Len(result) <= TsSize

(* The ring as a FIFO: the entries from tail to head.                      *)
TsFifo ==
  INSTANCE TimestampQueue WITH
    Capacity <- TsSize - 1,
    DescCount <- TsDescCount,
    queue <- [i \in 1 .. CircCnt |-> timestamps[(tail + i - 1) % TsSize].id],
    taken <- IF reader = "copied" THEN SubSeq(result, 1, Len(result) - 1) ELSE result

(* Handler and ioctl, whose steps interleave without a lock, implement     *)
(* that FIFO: no timestamp is read before it is written, read twice, lost  *)
(* or left over from before the channel was enabled, and none is dropped   *)
(* while there was room. Its descriptor is "a number between 0 and         *)
(* desc_count-1" (the comment in hailo_vdma_pop_timestamps_to_response).   *)
TimestampsInOrder == TsFifo!Spec

=============================================================================
