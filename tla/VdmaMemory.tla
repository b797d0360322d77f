----------------------------- MODULE VdmaMemory -----------------------------
(***************************************************************************)
(* The memory of open files (linux/vdma/memory.c and the ioctls on it in   *)
(* linux/vdma/ioctl.c): mapped buffers, descriptor lists, low-memory and   *)
(* continuous buffers, and the pointers to them that ongoing transfers and *)
(* channels keep. A transfer holds its buffers and a channel its list      *)
(* without a reference: they must not be freed before the transfer is      *)
(* reaped or dropped.                                                      *)
(*                                                                         *)
(* Every operation runs under the board mutex and is one step. A buffer is *)
(* a range of user addresses, or a file descriptor, and what backs it: the *)
(* user's pages, a dmabuf, or the pages of a low-memory buffer. A          *)
(* descriptor list is known to channels by its address, which the next     *)
(* list may get again. The lists of a file are newest first (list_add).    *)
(***************************************************************************)
EXTENDS Integers, Sequences, FiniteSets

CONSTANTS
  Files,          \* files, each opened once
  Channels,       \* channels of the (only) engine
  SrcChannels,    \* hw->src_channels_bitmask: channels to the device
  Slots,          \* addresses descriptor lists are allocated at
  MapRequests,    \* arguments of the map ioctl
  LaunchBuffers,  \* buffers clients name in the launch ioctl
  MaxBuffers,     \* HAILO_MAX_BUFFERS_PER_SINGLE_TRANSFER (8 in the code)
  MaxOngoing,     \* bound: transfers of a channel
  MaxHandles,     \* bound: MaxHandles[f] handles of either counter of file f
  MaxFailures,    \* bound: failures that leak, of dmabufs or of the sg tables
                  \* of one low-memory buffer; none comes after that many
  Contract,       \* which of the clients' obligations (see Clauses) they keep
  NoList, NoBuffer

(* What the driver leaves to its clients:                                  *)
(*   idle    no buffer or list is released while a transfer uses it        *)
(*   owned   a file launches on, and disables, channels it has enabled     *)
Clauses == {"idle", "owned"}

BufferTypes == {"ptr", "fd"}
Directions == {"to", "from", "both"}

ASSUME RequestsAssumption ==
  /\ MapRequests \subseteq [addr : Nat, size : Nat, type : BufferTypes, dir : Directions,
                            vma : {"pages", "dmabuf"}]
  /\ LaunchBuffers \subseteq [addr : Nat, size : Nat, type : BufferTypes]
ASSUME ObjectsAssumption ==
  /\ SrcChannels \subseteq Channels
  /\ NoList \notin Slots
  /\ MaxHandles \in [Files -> Nat] /\ MaxFailures \in Nat
  /\ Contract \subseteq Clauses

VARIABLES
  open,                         \* files not closed yet
  last_vdma_user_buffer_handle, \* per file, as the ones below
  last_vdma_handle,
  mapped,                       \* mapped_user_buffer_list
  desc_lists,                   \* descriptors_buffer_list
  low_memory,                   \* handles in vdma_low_memory_buffer_list
  continuous,                   \* handles in continuous_buffer_list
  structs,                      \* hailo_vdma_buffers allocated and not freed
  refs,                         \* references held on what backs buffers
  enabled_channels,             \* engine->enabled_channels
  context_channels,             \* context->enabled_channels_bitmap, per file
  last_desc_list,               \* channel->last_desc_list, an address
  ongoing_transfers,            \* per channel, oldest first
  dmabuf_failures,              \* dmabufs that could not be mapped
  fds,                          \* descriptors installed for them and left open
  sg_failures                   \* sg tables of low memory not allocated

handleVars == <<last_vdma_user_buffer_handle, last_vdma_handle>>
bufferVars == <<mapped, structs, refs, dmabuf_failures, fds, sg_failures>>
driverVars == <<desc_lists, low_memory, continuous>>
channelVars == <<enabled_channels, context_channels, last_desc_list, ongoing_transfers>>
vars == <<open, handleVars, bufferVars, driverVars, channelVars>>

----------------------------------------------------------------------------
Handles == UNION {1 .. MaxHandles[f] : f \in Files}
LowPages == UNION {{<<f, h>> : h \in 1 .. MaxHandles[f]} : f \in Files}
(* What can back a buffer.                                                 *)
Backings == {<<"user">>, <<"dmabuf">>} \union LowPages

Buffers ==
  [handle : Handles, addr : Nat, size : Nat, type : BufferTypes, dir : Directions,
   backing : Backings]
DescLists == [handle : Handles, at : Slots]
Transfers == [file : Files, list : Handles, buffers : SUBSET Handles]

TypeOK ==
  /\ open \subseteq Files
  /\ last_vdma_user_buffer_handle \in [Files -> Handles \union {0}]
  /\ last_vdma_handle \in [Files -> Handles \union {0}]
  /\ mapped \in [Files -> Seq(Buffers)]
  /\ desc_lists \in [Files -> SUBSET DescLists]
  /\ low_memory \in [Files -> SUBSET Handles]
  /\ continuous \in [Files -> SUBSET Handles]
  /\ structs \in Nat
  /\ refs \in [Backings -> Nat]
  /\ enabled_channels \subseteq Channels
  /\ context_channels \in [Files -> SUBSET Channels]
  /\ last_desc_list \in [Channels -> Slots \union {NoList}]
  /\ ongoing_transfers \in [Channels -> Seq(Transfers)]
  /\ dmabuf_failures \in 0 .. MaxFailures
  /\ fds \in 0 .. dmabuf_failures
  /\ sg_failures \in [LowPages -> 0 .. MaxFailures]

Init ==
  /\ open = Files
  /\ last_vdma_user_buffer_handle = [f \in Files |-> 0]
  /\ last_vdma_handle = [f \in Files |-> 0]
  /\ mapped = [f \in Files |-> <<>>]
  /\ desc_lists = [f \in Files |-> {}]
  /\ low_memory = [f \in Files |-> {}]
  /\ continuous = [f \in Files |-> {}]
  /\ structs = 0
  /\ refs = [b \in Backings |-> 0]
  /\ enabled_channels = {}
  /\ context_channels = [f \in Files |-> {}]
  /\ last_desc_list = [c \in Channels |-> NoList]
  /\ ongoing_transfers = [c \in Channels |-> <<>>]
  /\ dmabuf_failures = 0
  /\ fds = 0
  /\ sg_failures = [p \in LowPages |-> 0]

----------------------------------------------------------------------------
(* Handles: counters of a file, never reset.                               *)

(* hailo_get_next_vdma_handle                                              *)
next_vdma_handle(f) ==
  /\ last_vdma_handle[f] < MaxHandles[f]
  /\ last_vdma_handle' = [last_vdma_handle EXCEPT ![f] = @ + 1]

(* atomic_inc_return(&context->last_vdma_user_buffer_handle)               *)
next_buffer_handle(f) ==
  /\ last_vdma_user_buffer_handle[f] < MaxHandles[f]
  /\ last_vdma_user_buffer_handle' = [last_vdma_user_buffer_handle EXCEPT ![f] = @ + 1]

----------------------------------------------------------------------------
(* Looking things up: the newest that fits.                                *)

DirectionEquals(a, b) == a = "both" \/ b = "both" \/ a = b

(* hailo_vdma_find_mapped_buffer_by_fd and _by_address                     *)
Fits(b, wanted, dir) ==
  /\ b.type = wanted.type
  /\ DirectionEquals(b.dir, dir)
  /\ \/ /\ wanted.type = "fd"
        /\ b.addr = wanted.addr /\ b.size >= wanted.size
     \/ /\ wanted.type = "ptr"
        /\ b.addr <= wanted.addr /\ b.addr + b.size >= wanted.addr + wanted.size

FindMapped(f, wanted, dir) ==
  LET fitting == {i \in 1 .. Len(mapped[f]) : Fits(mapped[f][i], wanted, dir)} IN
  IF fitting = {} THEN NoBuffer
  ELSE mapped[f][CHOOSE i \in fitting : \A j \in fitting : i <= j].handle

(* hailo_vdma_find_descriptors_buffer                                      *)
FindDescLists(f, h) == {d \in desc_lists[f] : d.handle = h}

(* Lists allocated at the address, of any file.                            *)
ListsAt(slot) ==
  {l \in UNION {{<<f, d>> : d \in desc_lists[f]} : f \in Files} : l[2].at = slot}

(* A transfer that has not been reaped uses the object.                    *)
Ongoing(c) == {ongoing_transfers[c][i] : i \in 1 .. Len(ongoing_transfers[c])}
AllOngoing == UNION {Ongoing(c) : c \in Channels}
BufferInUse(f, h) == \E t \in AllOngoing : t.file = f /\ h \in t.buffers
ListInUse(f, h) == \E t \in AllOngoing : t.file = f /\ t.list = h

----------------------------------------------------------------------------
(* hailo_vdma_buffer_map_ioctl                                             *)

(* A pointer into a mapping of a dmabuf is mapped as one. The low-memory   *)
(* buffer counts only for plain memory; an unknown handle means none.      *)
BackingOf(f, request, low) ==
  IF request.type = "fd" \/ request.vma = "dmabuf" THEN <<"dmabuf">>
  ELSE IF low \in low_memory[f] THEN <<f, low>> ELSE <<"user">>

MapBuffer(f, request, low) ==
  LET backing == BackingOf(f, request, low) IN
  /\ f \in open
  /\ next_buffer_handle(f)
  /\ mapped' = [mapped EXCEPT ![f] =
       <<[handle |-> last_vdma_user_buffer_handle'[f], addr |-> request.addr,
          size |-> request.size, type |-> request.type, dir |-> request.dir,
          backing |-> backing]>> \o @]
  /\ structs' = structs + 1
  /\ refs' = [refs EXCEPT ![backing] = @ + 1]
  /\ UNCHANGED <<open, last_vdma_handle, dmabuf_failures, fds, sg_failures, driverVars,
                 channelVars>>

(* Mutant: the mapping is left to nobody.                                  *)
MapCopyFailsKeeps(f, request, low) ==
  /\ f \in open
  /\ next_buffer_handle(f)
  /\ structs' = structs + 1
  /\ refs' = [refs EXCEPT ![BackingOf(f, request, low)] = @ + 1]
  /\ UNCHANGED <<open, last_vdma_handle, mapped, dmabuf_failures, fds, sg_failures,
                 driverVars, channelVars>>

(* The handle cannot be returned: all that was mapped is unmapped again.   *)
MapCopyFails(f, request, low) ==
  /\ f \in open
  /\ next_buffer_handle(f)
  /\ UNCHANGED <<open, last_vdma_handle, bufferVars, driverVars, channelVars>>

(* The bound on failures that leak is not reached.                         *)
MayLeak ==
  /\ dmabuf_failures < MaxFailures
  /\ \A p \in LowPages : sg_failures[p] < MaxFailures

(* A dmabuf cannot be mapped: `goto cleanup' passes by the kfree of the    *)
(* buffer's struct. For a pointer, create_fd_from_vma has installed a      *)
(* descriptor, with a reference to the dmabuf's file, unless none was to   *)
(* be had; `goto cleanup' passes by its close_fd too.                      *)
MapDmabufFails(f, request) ==
  /\ f \in open
  /\ request.type = "fd" \/ request.vma = "dmabuf"
  /\ MayLeak
  /\ dmabuf_failures' = dmabuf_failures + 1
  /\ structs' = structs + 1
  /\ \/ UNCHANGED <<fds, refs>>
     \/ /\ request.type = "ptr"
        /\ fds' = fds + 1
        /\ refs' = [refs EXCEPT ![<<"dmabuf">>] = @ + 1]
  /\ UNCHANGED <<open, handleVars, mapped, sg_failures, driverVars, channelVars>>

(* No sg table for the pages of a low-memory buffer: release_pages puts    *)
(* pinned_pages of them, which counts only those of the user.              *)
MapSgFails(f, request, low) ==
  LET backing == BackingOf(f, request, low) IN
  /\ f \in open
  /\ backing \in LowPages
  /\ MayLeak
  /\ sg_failures' = [sg_failures EXCEPT ![backing] = @ + 1]
  /\ refs' = [refs EXCEPT ![backing] = @ + 1]
  /\ UNCHANGED <<open, handleVars, mapped, structs, dmabuf_failures, fds, driverVars,
                 channelVars>>

(* Every other failure (no memory, pages that cannot be pinned or mapped)  *)
(* changes nothing. HAILO_SUPPORT_MMIO_DMA_MAPPING, an option, is off.     *)

(* hailo_vdma_buffer_unmap_ioctl; the struct's count is always one.        *)
UnmapBuffer(f, h) ==
  /\ f \in open
  /\ "idle" \in Contract => ~BufferInUse(f, h)
  /\ \E i \in 1 .. Len(mapped[f]) :
       /\ mapped[f][i].handle = h
       /\ mapped' = [mapped EXCEPT ![f] =
            SubSeq(@, 1, i - 1) \o SubSeq(@, i + 1, Len(@))]
       /\ refs' = [refs EXCEPT ![mapped[f][i].backing] = @ - 1]
  /\ structs' = structs - 1
  /\ UNCHANGED <<open, handleVars, dmabuf_failures, fds, sg_failures, driverVars,
                 channelVars>>

----------------------------------------------------------------------------
(* hailo_desc_list_create_ioctl; the handle is used up if it fails.        *)
CreateDescList(f, slot) ==
  /\ f \in open
  /\ ListsAt(slot) = {}
  /\ next_vdma_handle(f)
  /\ desc_lists' = [desc_lists EXCEPT ![f] =
       @ \union {[handle |-> last_vdma_handle'[f], at |-> slot]}]
  /\ UNCHANGED <<open, last_vdma_user_buffer_handle, bufferVars, low_memory, continuous,
                 channelVars>>

(* No memory for the descriptors, or the handle of a list, a low-memory or *)
(* a continuous buffer cannot be returned.                                 *)
CreateFails(f) ==
  /\ f \in open
  /\ next_vdma_handle(f)
  /\ UNCHANGED <<open, last_vdma_user_buffer_handle, bufferVars, driverVars, channelVars>>

(* hailo_desc_list_release_ioctl: a channel may go on naming the address.  *)
ReleaseDescList(f, h) ==
  /\ f \in open
  /\ "idle" \in Contract => ~ListInUse(f, h)
  /\ FindDescLists(f, h) # {}
  /\ desc_lists' = [desc_lists EXCEPT ![f] = @ \ FindDescLists(f, h)]
  /\ UNCHANGED <<open, handleVars, bufferVars, low_memory, continuous, channelVars>>

(* hailo_vdma_low_memory_buffer_alloc takes all pages or none.             *)
low_memory_buffer_alloc(f, h) == refs' = [refs EXCEPT ![<<f, h>>] = @ + 1]

(* hailo_vdma_low_memory_buffer_free: pages that are mapped stay.          *)
low_memory_buffer_free(f, h) == refs' = [refs EXCEPT ![<<f, h>>] = @ - 1]

(* hailo_vdma_low_memory_buffer_alloc_ioctl                                *)
AllocLowMemory(f) ==
  /\ f \in open
  /\ next_vdma_handle(f)
  /\ low_memory' = [low_memory EXCEPT ![f] = @ \union {last_vdma_handle'[f]}]
  /\ low_memory_buffer_alloc(f, last_vdma_handle'[f])
  /\ UNCHANGED <<open, last_vdma_user_buffer_handle, mapped, structs, dmabuf_failures,
                 fds, sg_failures, desc_lists, continuous, channelVars>>

(* hailo_vdma_low_memory_buffer_free_ioctl                                 *)
FreeLowMemory(f, h) ==
  /\ f \in open
  /\ h \in low_memory[f]
  /\ low_memory' = [low_memory EXCEPT ![f] = @ \ {h}]
  /\ low_memory_buffer_free(f, h)
  /\ UNCHANGED <<open, handleVars, mapped, structs, dmabuf_failures, fds, sg_failures,
                 desc_lists, continuous, channelVars>>

(* hailo_vdma_continuous_buffer_alloc_ioctl                                *)
AllocContinuous(f) ==
  /\ f \in open
  /\ next_vdma_handle(f)
  /\ continuous' = [continuous EXCEPT ![f] = @ \union {last_vdma_handle'[f]}]
  /\ UNCHANGED <<open, last_vdma_user_buffer_handle, bufferVars, desc_lists, low_memory,
                 channelVars>>

(* hailo_vdma_continuous_buffer_free_ioctl                                 *)
FreeContinuous(f, h) ==
  /\ f \in open
  /\ h \in continuous[f]
  /\ continuous' = [continuous EXCEPT ![f] = @ \ {h}]
  /\ UNCHANGED <<open, handleVars, bufferVars, desc_lists, low_memory, channelVars>>

----------------------------------------------------------------------------
(* Channels, as far as they point to memory.                               *)

(* hailo_vdma_enable_channels_ioctl                                        *)
EnableChannel(f, c) ==
  /\ f \in open /\ c \notin enabled_channels
  /\ enabled_channels' = enabled_channels \union {c}
  /\ context_channels' = [context_channels EXCEPT ![f] = @ \union {c}]
  /\ UNCHANGED <<open, handleVars, bufferVars, driverVars, last_desc_list, ongoing_transfers>>

(* Mutant: the channel stays attached to its list.                         *)
DropTransfersOnly(channels) ==
  /\ enabled_channels' = enabled_channels \ channels
  /\ ongoing_transfers' =
       [c \in Channels |-> IF c \in channels THEN <<>> ELSE ongoing_transfers[c]]
  /\ UNCHANGED last_desc_list

(* hailo_vdma_engine_disable_channels                                      *)
DropTransfers(channels) ==
  /\ enabled_channels' = enabled_channels \ channels
  /\ ongoing_transfers' =
       [c \in Channels |-> IF c \in channels THEN <<>> ELSE ongoing_transfers[c]]
  /\ last_desc_list' =
       [c \in Channels |-> IF c \in channels THEN NoList ELSE last_desc_list[c]]

(* hailo_vdma_disable_channels_ioctl                                       *)
DisableChannel(f, c) ==
  /\ f \in open
  /\ "owned" \in Contract => c \in context_channels[f]
  /\ DropTransfers({c})
  /\ context_channels' = [context_channels EXCEPT ![f] = @ \ {c}]
  /\ UNCHANGED <<open, handleVars, bufferVars, driverVars>>

ChannelDirection(c) == IF c \in SrcChannels THEN "to" ELSE "from"

(* hailo_vdma_launch_transfer_ioctl, once the list and all buffers were    *)
(* found: the channel takes the first list it sees and refuses another, or *)
(* refuses for reasons of its own (VdmaChannel), or takes the transfer.    *)
Launch(f, c, d, handles) ==
  /\ f \in open
  /\ "owned" \in Contract => c \in context_channels[f]
  /\ last_desc_list' = [last_desc_list EXCEPT ![c] = IF @ = NoList THEN d.at ELSE @]
  /\ \/ UNCHANGED ongoing_transfers
     \/ /\ last_desc_list[c] \in {NoList, d.at}
        /\ Len(ongoing_transfers[c]) < MaxOngoing
        /\ ongoing_transfers' = [ongoing_transfers EXCEPT ![c] =
             Append(@, [file |-> f, list |-> d.handle, buffers |-> handles])]
  /\ UNCHANGED <<open, handleVars, bufferVars, driverVars, enabled_channels,
                 context_channels>>

(* A buffer that is not found, or a list, refuses the launch untouched.    *)
LaunchTransfer(f, c, h, wanted) ==
  LET handles == {FindMapped(f, w, ChannelDirection(c)) : w \in wanted} IN
  /\ Cardinality(wanted) <= MaxBuffers
  /\ \E d \in FindDescLists(f, h) : NoBuffer \notin handles /\ Launch(f, c, d, handles)

(* hailo_vdma_engine_fill_irq_data, for whoever waits: cleans descriptors  *)
(* of the list and syncs the buffers of the n transfers that are done.     *)
ReapTransfers(c, n) ==
  /\ last_desc_list[c] # NoList
  /\ n <= Len(ongoing_transfers[c])
  /\ ongoing_transfers' = [ongoing_transfers EXCEPT ![c] = SubSeq(@, n + 1, Len(@))]
  /\ UNCHANGED <<open, handleVars, bufferVars, driverVars, enabled_channels,
                 context_channels, last_desc_list>>

----------------------------------------------------------------------------
BackedBy(f, b) == {i \in 1 .. Len(mapped[f]) : mapped[f][i].backing = b}

(* Mutant: the channels are left alone.                                    *)
FinalizeChannelsOnly(f) ==
  /\ context_channels' = [context_channels EXCEPT ![f] = {}]
  /\ UNCHANGED <<enabled_channels, last_desc_list, ongoing_transfers>>

(* The first half of hailo_vdma_file_context_finalize.                     *)
FinalizeChannels(f) ==
  /\ DropTransfers(context_channels[f])
  /\ context_channels' = [context_channels EXCEPT ![f] = {}]

(* The second half: all that is on the lists of the file.                  *)
ClearLists(f) ==
  /\ mapped' = [mapped EXCEPT ![f] = <<>>]
  /\ structs' = structs - Len(mapped[f])
  /\ refs' = [b \in Backings |->
       refs[b] - Cardinality(BackedBy(f, b))
               - (IF b \in LowPages /\ b[1] = f /\ b[2] \in low_memory[f] THEN 1 ELSE 0)]
  /\ desc_lists' = [desc_lists EXCEPT ![f] = {}]
  /\ low_memory' = [low_memory EXCEPT ![f] = {}]
  /\ continuous' = [continuous EXCEPT ![f] = {}]

(* hailo_pcie_fops_release                                                 *)
Close(f) ==
  /\ f \in open
  /\ FinalizeChannels(f)
  /\ ClearLists(f)
  /\ open' = open \ {f}
  /\ UNCHANGED <<handleVars, dmabuf_failures, fds, sg_failures>>

----------------------------------------------------------------------------
BufferOps(f) ==
  \/ \E request \in MapRequests, low \in low_memory[f] \union {0} :
       \/ MapBuffer(f, request, low)
       \/ MapCopyFails(f, request, low)
       \/ MapSgFails(f, request, low)
  \/ \E request \in MapRequests : MapDmabufFails(f, request)
  \/ \E h \in Handles : UnmapBuffer(f, h)

DriverOps(f) ==
  \/ \E slot \in Slots : CreateDescList(f, slot)
  \/ AllocLowMemory(f) \/ AllocContinuous(f)
  \/ CreateFails(f)
  \/ \E h \in Handles : ReleaseDescList(f, h) \/ FreeLowMemory(f, h) \/ FreeContinuous(f, h)

ChannelOps(f) ==
  \E c \in Channels :
    \/ EnableChannel(f, c) \/ DisableChannel(f, c)
    \/ \E h \in Handles, wanted \in SUBSET LaunchBuffers : LaunchTransfer(f, c, h, wanted)

Next ==
  \/ \E f \in Files : BufferOps(f) \/ DriverOps(f) \/ ChannelOps(f) \/ Close(f)
  \/ \E c \in Channels, n \in 1 .. MaxOngoing : ReapTransfers(c, n)

Spec == Init /\ [][Next]_vars

----------------------------------------------------------------------------
(* Properties.                                                             *)

(* Whoever reaps or drops a transfer (another file's wait, a disable, a    *)
(* close) syncs its buffers and cleans descriptors of the list its channel *)
(* points to: both still exist, and the list at that address is the one    *)
(* the transfer was launched on, not a later one in its place.             *)
TransfersFindMemory ==
  \A c \in Channels : \A t \in Ongoing(c) :
    /\ \A h \in t.buffers : \E i \in 1 .. Len(mapped[t.file]) : mapped[t.file][i].handle = h
    /\ [handle |-> t.list, at |-> last_desc_list[c]] \in desc_lists[t.file]

(* "desc list may change only after channel deactivation": a channel that  *)
(* nobody has enabled remembers no list and no transfer, whichever files   *)
(* used it before, so its next user can attach a list of its own.          *)
DetachedWhenDisabled ==
  \A c \in Channels \ enabled_channels :
    last_desc_list[c] = NoList /\ ongoing_transfers[c] = <<>>

(* The names of a file's lists, low-memory and continuous buffers differ.  *)
HandlesDistinct(f) ==
  LET lists == {d.handle : d \in desc_lists[f]} IN
  /\ low_memory[f] \intersect continuous[f] = {}
  /\ lists \intersect (low_memory[f] \union continuous[f]) = {}
  /\ Cardinality(lists) = Cardinality(desc_lists[f])

Mapped(b) == UNION {{<<f, i>> : i \in BackedBy(f, b)} : f \in Files}

(* All that mapping takes is given back, except what leaks: structs belong *)
(* to mapped buffers or to dmabufs that failed, and references to mapped   *)
(* buffers, to low-memory buffers not freed yet, to sg tables that failed, *)
(* or to descriptors left open for dmabufs that failed, at most one each.  *)
(* So pages outlive the buffers mapped on them, and with all files closed  *)
(* only these leaks are left. Handles name one object each, so that mmap   *)
(* and map, which try one kind after the other, find what the client       *)
(* means.                                                                  *)
ResourcesAccounted ==
  /\ TypeOK
  /\ \A f \in Files : HandlesDistinct(f)
  /\ structs = Cardinality(UNION {Mapped(b) : b \in Backings}) + dmabuf_failures
  /\ refs[<<"user">>] = Cardinality(Mapped(<<"user">>))
  /\ refs[<<"dmabuf">>] = Cardinality(Mapped(<<"dmabuf">>)) + fds
  /\ \A p \in LowPages :
       refs[p] = Cardinality(Mapped(p)) + sg_failures[p]
                 + (IF p[2] \in low_memory[p[1]] THEN 1 ELSE 0)

=============================================================================
