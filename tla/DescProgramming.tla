-------------------------- MODULE DescProgramming --------------------------
(***************************************************************************)
(* The programming of a descriptor list (common/vdma_common.c): a buffer,  *)
(* scattered over memory, is cut into descriptors of at most a page each   *)
(* (bind_and_program_descriptors_list), or a list bound before is used     *)
(* again and only its last descriptor changes (program_last_desc).         *)
(*                                                                         *)
(* A scatter table is the sequence of the lengths of its entries; entry i  *)
(* begins at address SgGap * i, so no two are adjacent. A descriptor is an *)
(* address, the bytes the device moves there and whether it interrupts.    *)
(***************************************************************************)
EXTENDS Rounding, Integers, Sequences, SequencesExt

CONSTANTS
  ListKinds,    \* the lists: [count, is_circular]
  Page,         \* desc_page_size
  SgGap,
  Calls,        \* inputs of hailo_vdma_program_descriptors_list_batch that bind
  LastSizes,    \* sizes of the transfers that do not bind
  MaxCalls      \* calls on one list

EINVAL == -22
ERANGE == -34
EFAULT == -14

NextPowerOfTwo(n) == CHOOSE p \in {2^k : k \in 0 .. 16} : p >= n /\ p < 2 * n

ASSUME PageAssumption ==
  Page \in Nat \ {0} /\ SgGap \in Nat /\ LastSizes \subseteq Nat \ {0}

(* What desc_list_create_ioctl lets pass; counts up to 2^16.               *)
ASSUME ListKindsAssumption ==
  \A k \in ListKinds :
    /\ k.count \in Nat \ {0} /\ NextPowerOfTwo(k.count) \in Nat
    /\ k.is_circular \in BOOLEAN
    /\ NextPowerOfTwo(k.count) >= k.count
    /\ k.is_circular => k.count = NextPowerOfTwo(k.count)
(* Entries that do not overlap, buffers that are not empty.                *)
ASSUME CallsAssumption ==
  \A c \in Calls :
    /\ c.sg \in Seq(0 .. SgGap - 1)
    /\ c.size \in Nat \ {0} /\ c.batch \in Nat \ {0}
    /\ c.offset \in Nat /\ c.start \in Nat /\ c.stride \in Nat /\ c.irq \in BOOLEAN

VARIABLES
  kind,       \* the list's count and is_circular
  desc_list,  \* its descriptors
  programmed, \* what the last call says it programmed
  calls       \* calls so far

dpVars == <<kind, desc_list, programmed, calls>>

BlankDesc == [addr |-> 0, size |-> 0, irq |-> FALSE]
Nothing == [start |-> 0, descs |-> 0, bytes |-> <<>>, irq |-> FALSE, first |-> FALSE,
            launched |-> FALSE, before |-> <<>>]

DpInit ==
  /\ kind \in ListKinds
  /\ desc_list = [d \in 0 .. kind.count - 1 |-> BlankDesc]
  /\ programmed = Nothing
  /\ calls = 0

----------------------------------------------------------------------------
(* Mutant: a short page is moved as a whole.                               *)
ChunkDescNoResidue(addr, size, stride, k) ==
  [addr |-> addr + k * Page, size |-> stride, irq |-> FALSE]

(* The k-th descriptor of a chunk; the last one may be short.              *)
ChunkDesc(addr, size, stride, k) ==
  [addr |-> addr + k * Page,
   size |-> IF k = DivRoundUp(size, Page) - 1 /\ size % Page # 0
            THEN size % Page ELSE stride,
   irq |-> FALSE]

(* hailo_vdma_program_descriptors_in_chunk: the list with the chunk at     *)
(* desc_index, where `& desc_count_mask' wraps, and the descriptors it     *)
(* took, or an error.                                                      *)
ProgramInChunk(list, addr, size, desc_index, max_desc_index, stride) ==
  LET n == DivRoundUp(size, Page)
      mask == NextPowerOfTwo(kind.count)
      At(d) == {k \in 0 .. n - 1 : (desc_index + k) % mask = d}
  IN
  IF desc_index + n > max_desc_index + 1
  THEN [ret |-> ERANGE, list |-> list]
  ELSE [ret |-> n,
        list |-> [d \in DOMAIN list |->
                    IF At(d) = {} THEN list[d]
                    ELSE ChunkDesc(addr, size, stride, CHOOSE k \in At(d) : TRUE)]]

(* The stride a descriptor ends up with, or an error.                      *)
Stride(stride, size) ==
  IF stride % Page = 0 THEN Page
  ELSE IF size % Page # 0 \/ stride > Page THEN EINVAL
  ELSE stride

(* A turn of the loop over the scatter table in                            *)
(* bind_and_program_descriptors_list: entries before the offset are        *)
(* skipped, then each gives a chunk, until the size is used up.            *)
BindEntry(acc, len, addr, offset, max_desc_index, stride) ==
  LET skip == IF acc.pos < offset THEN offset - acc.pos ELSE 0
      chunk == Lesser(acc.left, len - skip)
      r == ProgramInChunk(acc.list, addr + skip, chunk, acc.next, max_desc_index, stride)
  IN
  IF acc.err < 0 \/ acc.left = 0 THEN acc
  ELSE IF len <= skip THEN [acc EXCEPT !.pos = @ + len]
  ELSE IF r.ret < 0 THEN [acc EXCEPT !.err = r.ret]
  ELSE [list |-> r.list, next |-> acc.next + r.ret, left |-> acc.left - chunk,
        pos |-> acc.pos + len, err |-> 0]

(* The loop: where it is after each entry.                                 *)
BindEntries(list, starting_desc, sg, offset, size, stride) ==
  LET max_desc_index == (IF kind.is_circular THEN starting_desc ELSE 0) + kind.count - 1
      acc[i \in 0 .. Len(sg)] ==
        IF i = 0
        THEN [list |-> list, next |-> starting_desc, left |-> size, pos |-> 0, err |-> 0]
        ELSE BindEntry(acc[i - 1], sg[i], SgGap * i, offset, max_desc_index, stride)
  IN  acc

(* The last descriptor interrupts, if the transfer has an interrupt domain.*)
RequestIrq(list, next, irq) ==
  [list EXCEPT ![(next - 1) % kind.count].irq = @ \/ irq]

Bind(list, starting_desc, call, offset, irq) ==
  LET stride == Stride(call.stride, call.size)
      end == BindEntries(list, starting_desc, call.sg, offset, call.size, stride)[Len(call.sg)]
  IN
  IF offset % Page # 0 \/ starting_desc >= kind.count \/ stride < 0
  THEN [ret |-> EINVAL, list |-> list]
  ELSE IF end.err < 0 THEN [ret |-> end.err, list |-> end.list]
  ELSE IF end.left # 0 THEN [ret |-> EFAULT, list |-> end.list]
  ELSE [ret |-> end.next - starting_desc, list |-> RequestIrq(end.list, end.next, irq)]

(* A transfer of hailo_vdma_program_descriptors_list_batch.                *)
BatchTransfer(acc, call, irq) ==
  LET r == Bind(acc.list, acc.next, call, acc.offset, irq) IN
  IF acc.ret < 0 THEN acc
  ELSE IF r.ret < 0 THEN [acc EXCEPT !.ret = r.ret, !.list = r.list]
  ELSE [ret |-> acc.ret + r.ret, list |-> r.list, offset |-> acc.offset + r.ret * Page,
        next |-> IF kind.is_circular THEN (acc.next + r.ret) % kind.count
                 ELSE acc.next + r.ret]

(* The transfers one after another, each on pages of its own; only the     *)
(* last one interrupts.                                                    *)
Batch(call) ==
  LET acc[i \in 0 .. call.batch] ==
        IF i = 0 THEN [ret |-> 0, list |-> desc_list, offset |-> call.offset, next |-> call.start]
        ELSE BatchTransfer(acc[i - 1], call, call.irq /\ i = call.batch)
  IN  acc

----------------------------------------------------------------------------
(* The bytes of a scatter table in order, by their addresses.              *)
SgBytes(sg) ==
  FlattenSeq([i \in 1 .. Len(sg) |-> [j \in 1 .. sg[i] |-> SgGap * i + j - 1]])

(* What a call asks for: per transfer its bytes, of each page only the     *)
(* stride, where the next transfer begins on a page of its own.            *)
Asked(call) ==
  LET stride == Stride(call.stride, call.size)
      kept == (call.size \div Page) * stride + Lesser(call.size % Page, stride)
      Position(t, r) == call.offset + t * DivRoundUp(call.size, Page) * Page
                          + (r \div stride) * Page + (r % stride)
  IN [i \in 1 .. call.batch * kept |->
        SgBytes(call.sg)[Position((i - 1) \div kept, (i - 1) % kept) + 1]]

(* In a launch the first descriptor interrupts, too, if the transfer has   *)
(* an interrupt domain for it.                                             *)
RequestFirst(list, start, first) ==
  IF first THEN [list EXCEPT ![start].irq = TRUE] ELSE list

(* A call that binds. One that fails may have changed descriptors.         *)
Program(call, launched, first) ==
  LET r == Batch(call)[call.batch] IN
  /\ calls < MaxCalls /\ calls' = calls + 1
  /\ desc_list' = RequestFirst(r.list, call.start, first)
  /\ programmed' = IF r.ret < 0 THEN Nothing
                   ELSE [start |-> call.start, descs |-> r.ret, bytes |-> Asked(call),
                         irq |-> call.irq, first |-> first, launched |-> launched,
                         before |-> desc_list]
  /\ UNCHANGED kind

(* HAILO_DESC_LIST_PROGRAM.                                                *)
ProgramList(call) == Program(call, FALSE, FALSE)

(* hailo_vdma_launch_transfer of one buffer, which binds it.               *)
LaunchBind(call, first) ==
  /\ call.batch = 1 /\ call.stride = 0 /\ call.start < kind.count
  /\ Program(call, TRUE, first)

(* The whole list is bound, page by page, and nothing is in flight on it.  *)
BoundByPages ==
  \A d \in DOMAIN desc_list : desc_list[d].size = Page /\ ~desc_list[d].irq

PageBytes(d) == [j \in 1 .. Page |-> desc_list[d].addr + j - 1]

LastSize(size) == size - (DivRoundUp(size, Page) - 1) * Page

(* The same for a buffer that is bound: program_last_desc.                 *)
ProgramLast(start, size, irq, first) ==
  LET total_descs == DivRoundUp(size, Page)
      last_desc == (start + total_descs - 1) % kind.count
      list == [desc_list EXCEPT ![last_desc].size = LastSize(size), ![last_desc].irq = irq]
  IN
  /\ calls < MaxCalls /\ calls' = calls + 1
  /\ kind.is_circular /\ BoundByPages
  /\ start < kind.count /\ total_descs <= kind.count
  /\ desc_list' = RequestFirst(list, start, first)
  /\ programmed' = [start |-> start, descs |-> total_descs, irq |-> irq, first |-> first,
                    launched |-> TRUE, before |-> desc_list,
                    bytes |-> SubSeq(FlattenSeq([k \in 1 .. total_descs |->
                                       PageBytes((start + k - 1) % kind.count)]), 1, size)]
  /\ UNCHANGED kind

CleanDesc(list, desc) == [list EXCEPT ![desc].size = Page, ![desc].irq = FALSE]

(* clear_dirty_descs, when the transfer is over: its first descriptor and  *)
(* its last one.                                                           *)
ClearDirtyDescs ==
  LET last_desc == (programmed.start + programmed.descs - 1) % kind.count IN
  /\ programmed.launched
  /\ desc_list' = CleanDesc(CleanDesc(desc_list, programmed.start), last_desc)
  /\ programmed' = Nothing
  /\ UNCHANGED <<kind, calls>>

DpNext ==
  \/ \E call \in Calls : ProgramList(call)
  \/ \E call \in Calls, first \in BOOLEAN : LaunchBind(call, first)
  \/ \E start \in 0 .. kind.count - 1, size \in LastSizes, irq \in BOOLEAN, first \in BOOLEAN :
       ProgramLast(start, size, irq, first)
  \/ ClearDirtyDescs

DpSpec == DpInit /\ [][DpNext]_dpVars

----------------------------------------------------------------------------
(* Properties.                                                             *)

(* What the device moves when it processes n descriptors from start on.    *)
Moved(start, n) ==
  FlattenSeq([k \in 1 .. n |->
    LET desc == desc_list[(start + k - 1) % kind.count] IN
    [j \in 1 .. desc.size |-> desc.addr + j - 1]])

(* What a client keeps to that has several transfers share a list, or      *)
(* strides through pages: the entries are whole pages, so that no entry    *)
(* ends a descriptor early, and a batch does not lap the list.             *)
Tidy(call) ==
  /\ call.batch > 1 \/ call.stride % Page # 0 =>
       \A i \in 1 .. Len(call.sg) : call.sg[i] % Page = 0
  /\ call.batch > 1 =>
       \A k \in ListKinds : k.is_circular => Len(SgBytes(call.sg)) <= k.count * Page

(* The descriptors a call says it programmed move exactly the bytes of the *)
(* buffer, in order, wherever the scatter table, the offset, the pages and *)
(* the end of the circular list cut them; the last of them interrupts, and *)
(* the first of a launch, if asked to, and no other; the descriptors of    *)
(* other transfers on the list are left alone.                             *)
ListMovesBuffer ==
  programmed # Nothing =>
    LET n == programmed.descs
        own == {(programmed.start + k) % kind.count : k \in 0 .. n - 1}
        last == (programmed.start + n - 1) % kind.count
    IN
    /\ n \in 1 .. kind.count
    /\ Moved(programmed.start, n) = programmed.bytes
    /\ \A d \in own :
         desc_list[d].irq <=> \/ d = last /\ programmed.irq
                              \/ d = programmed.start /\ programmed.first
    /\ \A d \in DOMAIN desc_list \ own : desc_list[d] = programmed.before[d]
=============================================================================
