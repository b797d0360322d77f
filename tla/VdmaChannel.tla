---------------------------- MODULE VdmaChannel ----------------------------
(***************************************************************************)
(* One vDMA channel of an engine, as common/vdma_common.c drives it: the   *)
(* host launches transfers on a circular descriptor list, the device walks *)
(* the list from num_proc up to num_avail, and the host reaps completed    *)
(* transfers when it reads the channel's interrupts.                       *)
(*                                                                         *)
(* All operations run under the board mutex, so each is one atomic step;   *)
(* the device (HwStart, HwStop, HwProcess) interleaves with them freely.   *)
(* The ring of ongoing transfers has RingSize slots and keeps one free to  *)
(* tell full from empty: it is a sequence of at most RingSize - 1.         *)
(*                                                                         *)
(* Lists are circular, hence of a power-of-two length, so the C expression *)
(* `x & (desc_count - 1)' is x % desc_count; desc_count_mask holds that    *)
(* modulus, and U16 (which masks nothing) stands for its value U32_MAX.    *)
(***************************************************************************)
EXTENDS Integers, Sequences, FiniteSets

CONSTANTS
  Lists,        \* descriptor lists the client has created
  DescCount,    \* DescCount[l]: number of descriptors of list l
  RingSize,     \* HAILO_VDMA_MAX_ONGOING_TRANSFERS (128 in the code)
  MaxBuffers,   \* HAILO_MAX_BUFFERS_PER_SINGLE_TRANSFER (8 in the code)
  BufferSizes,  \* descriptors a buffer needs; < 0: the errno of a bad buffer
  BindModes,    \* values the client uses for should_bind
  DebugModes,   \* values the client uses for is_debug
  Contract,     \* which of the client's obligations (see Clauses) it keeps
  U16,          \* number of values of a 16 bit register (2^16 in the device)
  NoList

PowersOfTwo == {2^k : k \in 0 .. 16}

(* What hailo_vdma_launch_transfer leaves to its caller:                   *)
(*   room    at most desc_count - 1 descriptors are ever in flight         *)
(*   slots   no launch when every slot of the ongoing ring is taken        *)
(*   counts  a wrong list has as many descriptors as the attached one      *)
(*   session no launch between a disable and the restart of the device     *)
(*   buffers there is a buffer, and every buffer can be programmed         *)
Clauses == {"room", "slots", "counts", "session", "buffers"}

ASSUME ListsAssumption ==
  /\ NoList \notin Lists
  /\ DescCount \in [Lists -> Nat \ {0}]
  /\ \A l \in Lists : DescCount[l] <= U16
ASSUME PowerOfTwoAssumption == \A l \in Lists : DescCount[l] \in PowersOfTwo
ASSUME SizesAssumption ==
  RingSize \in 1 .. 254 /\ MaxBuffers \in Nat /\ U16 \in Nat \ {0}
ASSUME InputsAssumption ==
  /\ BufferSizes \subseteq Int
  /\ BindModes \subseteq BOOLEAN /\ DebugModes \subseteq BOOLEAN
  /\ Contract \subseteq Clauses

VARIABLES
  enabled,           \* bit of engine->enabled_channels
  num_avail,         \* channel->state
  num_proc,
  desc_count_mask,
  last_desc_list,    \* channel->last_desc_list
  ongoing_transfers, \* channel->ongoing_transfers, oldest first
  dirty,             \* dirty[l]: descriptors whose control is not the default
  status,            \* status[l][d]: status bits the device wrote back
  ret,               \* result of the last launch
  irq_data,          \* data of the channel in the last interrupts read
  host_regs,         \* the channel's registers and the list it walks
  posted             \* posted[l]: descriptors launched, not yet processed

vars == <<enabled, num_avail, num_proc, desc_count_mask, last_desc_list,
          ongoing_transfers, dirty, status, ret, irq_data, host_regs, posted>>

----------------------------------------------------------------------------
Descs(l) == 0 .. DescCount[l] - 1
Statuses == {"none", "done", "error"}

ENONE == 0
EFAULT == -14
EINVAL == -22
ERANGE == -34
ECONNRESET == -104

(* Values of hailo_vdma_interrupts_channel_data.data besides a count.      *)
NOT_ACTIVE == 255
WITH_ERROR == 254

Transfers ==
  [first : Nat, last_desc : Nat, dirty_descs : SUBSET Nat, is_debug : BOOLEAN]

HostRegs ==
  [active : BOOLEAN, session : BOOLEAN, list : Lists,
   num_avail : 0 .. U16 - 1, num_proc : 0 .. U16 - 1]

ScalarsOK ==
  /\ enabled \in BOOLEAN
  /\ num_avail \in 0 .. U16 - 1 /\ num_proc \in 0 .. U16 - 1
  /\ desc_count_mask \in {U16} \union {DescCount[l] : l \in Lists}
  /\ last_desc_list \in Lists \union {NoList}
  /\ ret \in Int
  /\ irq_data \in 0 .. 255

TransfersOK ==
  ongoing_transfers \in Seq(Transfers) /\ Len(ongoing_transfers) < RingSize

DescsOK ==
  /\ dirty \in [Lists -> SUBSET Nat] /\ \A l \in Lists : dirty[l] \subseteq Descs(l)
  /\ posted \in [Lists -> SUBSET Nat] /\ \A l \in Lists : posted[l] \subseteq Descs(l)
  /\ status \in [Lists -> [0 .. U16 - 1 -> Statuses]]

TypeOK == ScalarsOK /\ TransfersOK /\ DescsOK /\ host_regs \in HostRegs

----------------------------------------------------------------------------
(* Arithmetic on a circular list of n descriptors.                         *)

(* How far b lies ahead of a.                                              *)
Dist(n, a, b) == IF a <= b THEN b - a ELSE b - a + n

(* The k descriptors from a on.                                            *)
Arc(n, a, k) == {d \in 0 .. n - 1 : Dist(n, a, d) < k}

(* Mutant: the end of the interval taken for a part of it.                 *)
is_desc_between_closed(begin, end, desc) ==
  IF begin < end THEN begin <= desc /\ desc <= end
                 ELSE begin # end /\ (desc <= end \/ begin <= desc)

is_desc_between(begin, end, desc) ==
  IF begin < end THEN begin <= desc /\ desc < end
                 ELSE begin # end /\ (desc < end \/ begin <= desc)

is_transfer_complete(avail, proc, hw_num_proc, last_desc) ==
  \/ avail = hw_num_proc
  \/ is_desc_between(proc, hw_num_proc, last_desc)

InFlight(l) == Dist(DescCount[l], num_proc, num_avail)

----------------------------------------------------------------------------
(* hailo_vdma_program_descriptors_list: how many descriptors a buffer      *)
(* takes, or an errno. Only binding checks the range.                      *)
program_descriptors_list(l, size, should_bind) ==
  IF should_bind /\ size > DescCount[l] THEN ERANGE ELSE size

(* Sum of the results of the first i buffers.                              *)
Programmed(l, buffers, should_bind) ==
  LET total[i \in 0 .. Len(buffers)] ==
        IF i = 0 THEN 0
        ELSE total[i - 1] + program_descriptors_list(l, buffers[i], should_bind)
  IN  total

TotalDescs(l, buffers, should_bind) ==
  Programmed(l, buffers, should_bind)[Len(buffers)]

(* last_desc stays U32_MAX, 2^16 - 1 once narrowed, when there is no       *)
(* buffer at all; the loop does not look at the sign of a buffer's result. *)
LastDesc(l, s, buffers, should_bind) ==
  IF buffers = <<>> THEN U16 - 1
  ELSE (s + TotalDescs(l, buffers, should_bind) - 1) % DescCount[l]

(* Mutant: no wrap at the end of the list.                                 *)
DirtyDescsNoWrap(l, s, buffers, should_bind) ==
  {s} \union {s + Programmed(l, buffers, should_bind)[i] - 1 : i \in 1 .. Len(buffers)}

DirtyDescs(l, s, buffers, should_bind) ==
  {s} \union {(s + Programmed(l, buffers, should_bind)[i] - 1) % DescCount[l] :
                 i \in 1 .. Len(buffers)}

NewNumAvail(l, s, buffers, should_bind) ==
  IF buffers = <<>> THEN 0
  ELSE (LastDesc(l, s, buffers, should_bind) + 1) % DescCount[l]

(* The descriptors the launch hands to the device.                         *)
LaunchedDescs(l, s, buffers, should_bind) ==
  Arc(DescCount[l], s, TotalDescs(l, buffers, should_bind))

NewTransfer(l, s, buffers, should_bind, is_debug) ==
  [first |-> s,
   last_desc |-> LastDesc(l, s, buffers, should_bind),
   dirty_descs |-> DirtyDescs(l, s, buffers, should_bind),
   is_debug |-> is_debug]

(* validate_channel_state                                                  *)
validate_channel_state ==
  IF ~host_regs.active THEN ECONNRESET
  ELSE IF host_regs.num_avail # num_avail THEN EFAULT
  ELSE ENONE

(* The checks before anything is programmed, in the code's order.          *)
LaunchCheck(l, s, buffers) ==
  IF last_desc_list \notin {NoList, l} THEN EINVAL
  ELSE IF validate_channel_state # ENONE THEN validate_channel_state
  ELSE IF num_avail # s THEN EFAULT
  ELSE IF Len(buffers) > MaxBuffers THEN EINVAL
  ELSE ENONE

(* What the client promises of a launch.                                   *)
ClientKeeps(l, s, buffers, should_bind) ==
  /\ "counts" \in Contract =>
       (last_desc_list # NoList => DescCount[l] = DescCount[last_desc_list])
  /\ "session" \in Contract =>
       (host_regs.active /\ last_desc_list = NoList =>
          host_regs.session /\ l = host_regs.list)
  /\ "slots" \in Contract => Len(ongoing_transfers) < RingSize - 1
  /\ "buffers" \in Contract =>
       /\ buffers # <<>>
       /\ LET total == Programmed(l, buffers, should_bind) IN
          \A i \in 1 .. Len(buffers) :
            total[i] \in total[i - 1] + 1 .. total[Len(buffers)]
  /\ "room" \in Contract =>
       TotalDescs(l, buffers, should_bind) \in 1 .. DescCount[l] - 1 - InFlight(l)

(* Common to every call: the mask is replaced before the list is checked,  *)
(* and the first list seen by an inactive channel is attached for good.    *)
AttachList(l) ==
  /\ desc_count_mask' = DescCount[l]
  /\ last_desc_list' = IF last_desc_list = NoList THEN l ELSE last_desc_list

LaunchRejected(l, s, buffers) ==
  /\ LaunchCheck(l, s, buffers) # ENONE
  /\ AttachList(l)
  /\ ret' = LaunchCheck(l, s, buffers)
  /\ UNCHANGED <<enabled, num_avail, num_proc, ongoing_transfers, dirty, status,
                 irq_data, host_regs, posted>>

(* Programming the descriptors: sizes and interrupts of the dirty ones.    *)
(* Only binding writes the others, to their defaults, and clears statuses. *)
ProgramTransfer(l, s, buffers, should_bind) ==
  LET bound == IF should_bind THEN LaunchedDescs(l, s, buffers, should_bind) ELSE {} IN
  /\ dirty' = [dirty EXCEPT ![l] = (@ \ bound) \union DirtyDescs(l, s, buffers, should_bind)]
  /\ status' = [status EXCEPT ![l] =
       [d \in 0 .. U16 - 1 |-> IF d \in bound THEN "none" ELSE @[d]]]

(* ongoing_transfer_push fails: the descriptors stay programmed.           *)
LaunchRingFull(l, s, buffers, should_bind) ==
  /\ LaunchCheck(l, s, buffers) = ENONE
  /\ Len(ongoing_transfers) = RingSize - 1
  /\ AttachList(l)
  /\ ProgramTransfer(l, s, buffers, should_bind)
  /\ ret' = EFAULT
  /\ UNCHANGED <<enabled, num_avail, num_proc, ongoing_transfers, irq_data,
                 host_regs, posted>>

(* Mutant: the device is not told.                                         *)
SetNumAvailHostOnly(n) ==
  /\ num_avail' = n
  /\ UNCHANGED host_regs

(* hailo_vdma_set_num_avail and the host's copy.                           *)
SetNumAvail(n) ==
  /\ num_avail' = n
  /\ host_regs' = [host_regs EXCEPT !.num_avail = n]

LaunchAccepted(l, s, buffers, should_bind, is_debug) ==
  /\ LaunchCheck(l, s, buffers) = ENONE
  /\ Len(ongoing_transfers) < RingSize - 1
  /\ AttachList(l)
  /\ ProgramTransfer(l, s, buffers, should_bind)
  /\ ongoing_transfers' =
       Append(ongoing_transfers, NewTransfer(l, s, buffers, should_bind, is_debug))
  /\ SetNumAvail(NewNumAvail(l, s, buffers, should_bind))
  /\ posted' = [posted EXCEPT ![l] = @ \union LaunchedDescs(l, s, buffers, should_bind)]
  /\ ret' = TotalDescs(l, buffers, should_bind)
  /\ UNCHANGED <<enabled, num_proc, irq_data>>

(* hailo_vdma_launch_transfer. It does not ask whether the channel is      *)
(* enabled.                                                                *)
LaunchTransfer(l, s, buffers, should_bind, is_debug) ==
  /\ ClientKeeps(l, s, buffers, should_bind)
  /\ \/ LaunchRejected(l, s, buffers)
     \/ LaunchRingFull(l, s, buffers, should_bind)
     \/ LaunchAccepted(l, s, buffers, should_bind, is_debug)

----------------------------------------------------------------------------
(* hailo_vdma_engine_enable_channels, for a channel not enabled yet.       *)
EnableChannel ==
  /\ ~enabled
  /\ enabled' = TRUE
  /\ UNCHANGED <<num_avail, num_proc, desc_count_mask, last_desc_list,
                 ongoing_transfers, dirty, status, ret, irq_data, host_regs, posted>>

DirtyOf(transfers) ==
  UNION {transfers[i].dirty_descs : i \in 1 .. Len(transfers)}

(* Mutant: only the last descriptor of each transfer is cleaned.           *)
clear_last_descs(transfers) ==
  IF last_desc_list = NoList THEN dirty
  ELSE [dirty EXCEPT ![last_desc_list] =
          @ \ {transfers[i].last_desc : i \in 1 .. Len(transfers)}]

(* clear_dirty_descs, for each of the transfers.                           *)
clear_dirty_descs(transfers) ==
  IF last_desc_list = NoList THEN dirty
  ELSE [dirty EXCEPT ![last_desc_list] = @ \ DirtyOf(transfers)]

(* Mutant: num_proc is not reset.                                          *)
channel_state_init_avail ==
  num_avail' = 0 /\ UNCHANGED num_proc /\ desc_count_mask' = U16

channel_state_init ==
  num_avail' = 0 /\ num_proc' = 0 /\ desc_count_mask' = U16

(* hailo_vdma_engine_disable_channels: all transfers are dropped and their *)
(* descriptors cleaned; the device is not told and keeps its registers.    *)
DisableChannel ==
  /\ enabled' = FALSE
  /\ channel_state_init
  /\ ongoing_transfers' = <<>>
  /\ dirty' = clear_dirty_descs(ongoing_transfers)
  /\ last_desc_list' = NoList
  /\ host_regs' = [host_regs EXCEPT !.session = FALSE]
  /\ UNCHANGED <<status, ret, irq_data, posted>>

----------------------------------------------------------------------------
(* num_proc when the loop of fill_channel_irq_data looks at transfer i.    *)
ProcBefore(i) ==
  IF i = 1 THEN num_proc
  ELSE (ongoing_transfers[i - 1].last_desc + 1) % desc_count_mask

(* Mutant: the counter as it was read.                                     *)
HwNumProcRaw == host_regs.num_proc

(* The device's counter can read desc_count, which is position zero.       *)
HwNumProc == host_regs.num_proc % desc_count_mask

Complete(i) ==
  is_transfer_complete(num_avail, ProcBefore(i), HwNumProc,
                       ongoing_transfers[i].last_desc)

(* Transfers reaped: the loop stops at the first that is not complete.     *)
Reaped ==
  CHOOSE n \in 0 .. Len(ongoing_transfers) :
    /\ \A j \in 1 .. n : Complete(j)
    /\ n < Len(ongoing_transfers) => ~Complete(n + 1)

(* validate_last_desc_status                                               *)
FailsValidation(i) ==
  /\ ongoing_transfers[i].is_debug
  /\ status[last_desc_list][ongoing_transfers[i].last_desc] # "done"

(* fill_channel_irq_data, the channel's part of the interrupts-wait ioctl. *)
(* Interrupts may be spurious or coalesced, so it can run at any time.     *)
FillChannelIrqData ==
  LET n == Reaped IN
  /\ enabled /\ last_desc_list # NoList
  /\ ongoing_transfers' = SubSeq(ongoing_transfers, n + 1, Len(ongoing_transfers))
  /\ num_proc' = IF n = 0 THEN num_proc
                 ELSE (ongoing_transfers[n].last_desc + 1) % desc_count_mask
  /\ dirty' = clear_dirty_descs(SubSeq(ongoing_transfers, 1, n))
  /\ irq_data' = IF ~host_regs.active THEN NOT_ACTIVE
                 ELSE IF \E i \in 1 .. n : FailsValidation(i) THEN WITH_ERROR
                 ELSE n
  /\ UNCHANGED <<enabled, num_avail, desc_count_mask, last_desc_list, status, ret,
                 host_regs, posted>>

----------------------------------------------------------------------------
(* The device. It is started by the firmware on a list, by then unused by  *)
(* the driver, and stops at any time.                                      *)
HwStart(l) ==
  /\ ~host_regs.active
  /\ ongoing_transfers = <<>> /\ num_avail = 0 /\ num_proc = 0
  /\ last_desc_list \in {NoList, l}
  /\ host_regs' = [active |-> TRUE, session |-> TRUE, list |-> l,
                   num_avail |-> 0, num_proc |-> 0]
  /\ posted' = [posted EXCEPT ![l] = {}]
  /\ UNCHANGED <<enabled, num_avail, num_proc, desc_count_mask, last_desc_list,
                 ongoing_transfers, dirty, status, ret, irq_data>>

HwStop ==
  /\ host_regs.active
  /\ host_regs' = [host_regs EXCEPT !.active = FALSE]
  /\ UNCHANGED <<enabled, num_avail, num_proc, desc_count_mask, last_desc_list,
                 ongoing_transfers, dirty, status, ret, irq_data, posted>>

NextDesc == host_regs.num_proc % DescCount[host_regs.list]

StatusRequested(d) ==
  \E i \in 1 .. Len(ongoing_transfers) :
    ongoing_transfers[i].is_debug /\ ongoing_transfers[i].last_desc = d

(* The device processes one descriptor. Its counter goes to d + 1, so it   *)
(* reads desc_count after the last one, unless 16 bits make that zero.     *)
HwProcess ==
  LET l == host_regs.list
      d == NextDesc
  IN
  /\ host_regs.active
  /\ d # host_regs.num_avail
  /\ posted' = [posted EXCEPT ![l] = @ \ {d}]
  /\ host_regs' = [host_regs EXCEPT !.num_proc = (d + 1) % U16]
  /\ IF last_desc_list = l /\ StatusRequested(d)
     THEN \E st \in {"done", "error"} : status' = [status EXCEPT ![l][d] = st]
     ELSE UNCHANGED status
  /\ UNCHANGED <<enabled, num_avail, num_proc, desc_count_mask, last_desc_list,
                 ongoing_transfers, dirty, ret, irq_data>>

----------------------------------------------------------------------------
Init ==
  /\ enabled = FALSE
  /\ num_avail = 0 /\ num_proc = 0 /\ desc_count_mask = U16
  /\ last_desc_list = NoList
  /\ ongoing_transfers = <<>>
  /\ dirty = [l \in Lists |-> {}]
  /\ status = [l \in Lists |-> [d \in 0 .. U16 - 1 |-> "none"]]
  /\ ret = 0 /\ irq_data = 0
  /\ \E l \in Lists :
       host_regs = [active |-> FALSE, session |-> FALSE, list |-> l,
                    num_avail |-> 0, num_proc |-> 0]
  /\ posted = [l \in Lists |-> {}]

BufferSeqs == UNION {[1 .. n -> BufferSizes] : n \in 0 .. MaxBuffers + 1}

Next ==
  \/ \E l \in Lists, buffers \in BufferSeqs, bind \in BindModes, dbg \in DebugModes :
       \E s \in Descs(l) : LaunchTransfer(l, s, buffers, bind, dbg)
  \/ EnableChannel
  \/ DisableChannel
  \/ FillChannelIrqData
  \/ \E l \in Lists : HwStart(l)
  \/ HwStop
  \/ HwProcess

Spec == Init /\ [][Next]_vars

----------------------------------------------------------------------------
(* Properties.                                                             *)

(* Reading interrupts completes transfer i exactly when the device is done *)
(* with its last descriptor: no transfer is completed early (its buffer    *)
(* would be handed back while the device still uses it) and none the       *)
(* device finished is passed over. is_transfer_complete decides this from  *)
(* three counters that all wrap around.                                    *)
CompletionExact ==
  last_desc_list # NoList =>
    \A i \in 1 .. Len(ongoing_transfers) :
      (\A j \in 1 .. i - 1 : Complete(j)) =>
        (Complete(i) <=> ongoing_transfers[i].last_desc \notin posted[last_desc_list])

(* Half of it, as validate_last_desc_status asserts it of debug transfers  *)
(* ("Expecting desc %d to be done"): what is completed was processed. A    *)
(* transfer that takes the whole list breaks it, and so does a launch that *)
(* is refused for its list, but only after the mask with which num_proc is *)
(* read and moved on became that of the other list.                        *)
CompletedIsDone ==
  last_desc_list # NoList =>
    \A i \in 1 .. Reaped : ongoing_transfers[i].last_desc \notin posted[last_desc_list]

(* The host's num_avail is the device's, as the comment on                 *)
(* hailo_vdma_channel_state asks, whenever the device runs a session of    *)
(* this client: validate_channel_state never finds them out of step.       *)
NumAvailInSync ==
  host_regs.active /\ host_regs.session => host_regs.num_avail = num_avail

(* The descriptors with a control word other than the default are the ones *)
(* the ongoing transfers recorded in dirty_descs: none is left behind when *)
(* its transfer is gone, and reaping a transfer never wipes the interrupt  *)
(* or the residue size a later transfer still needs.                       *)
DirtyExact ==
  \A l \in Lists :
    dirty[l] = IF l = last_desc_list THEN DirtyOf(ongoing_transfers) ELSE {}

(* The channel seen as a FIFO of transfers: what is left of a transfer is  *)
(* what the device has not processed of its descriptors.                   *)
TransferDescs(t) ==
  LET n == DescCount[last_desc_list]
  IN  Arc(n, t.first, Dist(n, t.first, t.last_desc) + 1)

Left(t) == Cardinality(TransferDescs(t) \intersect posted[last_desc_list])

Item(t) ==
  [left |-> Left(t),
   bad |-> Left(t) = 0 /\ t.is_debug /\ status[last_desc_list][t.last_desc] # "done"]

ItemsInFlight == [i \in 1 .. Len(ongoing_transfers) |-> Item(ongoing_transfers[i])]

Queue ==
  INSTANCE TransferQueue WITH
    Capacity <- RingSize - 1,
    queue <- ItemsInFlight,
    active <- host_regs.active

(* Why CompletionExact holds. Positions are compared by how far they lie   *)
(* ahead of num_proc: there they do not wrap.                              *)
Off(n, d) == Dist(n, num_proc, d)

(* The transfers in flight tile the descriptors from num_proc to num_avail.*)
TransfersInOrder ==
  last_desc_list # NoList =>
    LET n == DescCount[last_desc_list]
        q == ongoing_transfers
    IN
    /\ desc_count_mask = n
    /\ num_avail < n /\ num_proc < n
    /\ \A i \in 1 .. Len(q) : q[i].last_desc < n
    /\ \A i, j \in 1 .. Len(q) :
         i < j => Off(n, q[i].last_desc) < Off(n, q[j].last_desc)
    /\ q = <<>> => num_avail = num_proc
    /\ q # <<>> => num_avail = (q[Len(q)].last_desc + 1) % n
                    /\ Off(n, q[Len(q)].last_desc) + 1 = Off(n, num_avail)

NothingUnattached ==
  last_desc_list = NoList => ongoing_transfers = <<>> /\ num_avail = 0 /\ num_proc = 0

(* The device is between num_proc and num_avail of the list it was given,  *)
(* and what it still has to do lies between it and num_avail.              *)
DeviceInStep ==
  /\ ongoing_transfers # <<>> => host_regs.session
  /\ host_regs.active /\ last_desc_list # NoList => host_regs.session
  /\ host_regs.session /\ (host_regs.active \/ ongoing_transfers # <<>>) =>
       LET l == host_regs.list
           n == DescCount[l]
           h == host_regs.num_proc % n
       IN
       /\ last_desc_list \in {NoList, l}
       /\ host_regs.num_avail = num_avail
       /\ Off(n, h) <= Off(n, num_avail)
       /\ posted[l] = {d \in Descs(l) : Off(n, h) <= Off(n, d)
                                          /\ Off(n, d) < Off(n, num_avail)}

(* The inductive invariant of the proofs.                                  *)
IndInv == TypeOK /\ NothingUnattached /\ TransfersInOrder /\ DeviceInStep

(* What a transfer made dirty lies in its own stretch of the list, behind  *)
(* the transfers before it: no two transfers share a dirty descriptor.     *)
DirtyInOrder ==
  last_desc_list # NoList =>
    LET n == DescCount[last_desc_list]
        q == ongoing_transfers
    IN
    \A i \in 1 .. Len(q) : \A d \in q[i].dirty_descs :
      /\ d \in 0 .. n - 1
      /\ Off(n, d) <= Off(n, q[i].last_desc)
      /\ \A j \in 1 .. i - 1 : Off(n, q[j].last_desc) < Off(n, d)

DirtyInv == IndInv /\ DirtyInOrder /\ DirtyExact

(* Each transfer begins where the one before it ends.                      *)
FirstsFollow ==
  last_desc_list # NoList =>
    LET n == DescCount[last_desc_list]
        q == ongoing_transfers
    IN
    \A i \in 1 .. Len(q) :
      /\ q[i].first \in 0 .. n - 1
      /\ Off(n, q[i].first) = IF i = 1 THEN 0 ELSE Off(n, q[i - 1].last_desc) + 1

QueueInv == IndInv /\ FirstsFollow

(* The driver implements that FIFO: errors leave it alone, a success       *)
(* appends exactly what was asked for, completions come in launch order,   *)
(* each once, with the count reported to the client.                       *)
ImplementsQueue == Queue!Spec

=============================================================================
