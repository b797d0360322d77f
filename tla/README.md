# Verification of the Hailo PCIe driver

TLA+ modules of the Linux driver for Hailo accelerators (`common/`, `linux/`):
what can be checked of its concurrency, its protocols with the device and its
bookkeeping, model-checked with TLC on small instances and, for nearly all of
the safety properties, proved with TLAPS for every instance.

## 1. The system

| part | source | state | operations |
|---|---|---|---|
| vDMA channel | `common/vdma_common.c` | `num_avail`, `num_proc`, mask, attached descriptor list, ring of ongoing transfers, descriptors, ring of timestamps | launch, enable, disable, fill interrupt data, push and read timestamps |
| descriptor programming | `common/vdma_common.c` | descriptors | bind a scatter list, program the last descriptor, batch |
| vDMA interrupts | `linux/vdma/ioctl.c`, `vdma.c`, `fops.c` | `enabled_channels`, `interrupted_channels`, wait queue, per-file bitmaps | interrupt handler, wait, enable, disable, release |
| vDMA memory | `linux/vdma/memory.c`, `ioctl.c` | per-file lists of mapped buffers, descriptor lists, low-memory and continuous buffers | map, unmap, sync, create, release, mmap |
| board lifecycle | `linux/pcie/src/fops.c`, `pcie.c` | `ref_count`, open files, `pDev`, power, interrupts | open, ioctl, release, remove, suspend, resume |
| NNC services | `linux/pcie/src/nnc.c`, `fw_operation.c` | control mutex and completion, notification cache and wait list | control, read and disable notifications, driver down, log |
| SOC services | `linux/pcie/src/soc.c` | control completion, used channels | connect, close, power off |
| firmware boot | `pcie.c`, `pcie_common.c`, `fw_validation.c` | boot completions, channel bitmap, boot status | soft reset, load over BAR, load over vDMA |
| firmware log | `common/fw_operation.c` | ring in the device, two offsets | read |
| register access | `pcie_common.c`, `hailo_resource.c` | ATR window | read and write device memory in chunks |
| boards | `linux/pcie/src/pcie.c` | list of boards, its mutex, device nodes, class | load, unload, probe, remove |

**How they interact.** Every system call takes the board mutex (a semaphore).
Three give it up in the middle: the wait for interrupts and for notifications
take it again after their sleep, a control goes on without it under a mutex of
its own. The interrupt handler takes no lock that a thread holds while it waits:
it shares `interrupted_channels` under a spinlock, the notification cache under
another, the notification wait list under RCU, and completions. The removal of
the device takes the board mutex but reads the reference count after it. The
device and its firmware run on their own and share registers, descriptors and a
mailbox with the driver.

**What is hard.** Counters of the channel that wrap (three of them, in two
places, at different values), interrupts that arrive between any two steps of a
sleeper, a mutex that is given up inside a call, answers that come after their
timeout, and files that outlive the device. `PROJECT.json` lists each of these
hazards at its line.

**What makes it correct.** A channel is a FIFO: transfers complete in order,
once, when the device is done with them. Nobody sleeps while there is work for
it. The mutex is balanced. The board is freed once, by the last to leave, and a
file with a valid context finds the device on. A control gets its own answer. A
file's release stops and closes what the file used, and nothing else. What a
buffer, a log or an image is cut into adds up to it again.

## 2. The modules

### `VdmaChannel`, and `TransferQueue`, what it promises

One channel of an engine. All its operations run under the board mutex, so each
is one step: `LaunchTransfer` (`hailo_vdma_launch_transfer`, with its three
outcomes `LaunchRejected`, `LaunchRingFull`, `LaunchAccepted`), `EnableChannel`,
`DisableChannel` and `FillChannelIrqData` (`fill_channel_irq_data` with its loop
over the complete transfers). `HwStart`, `HwStop` and `HwProcess` are the
device. The state has the names of the C structures. A buffer is the number of
descriptors it takes, or the errno of one that cannot be programmed; the rings
are sequences; `x & (desc_count - 1)` is `x % desc_count`, since circular lists
have a power of two of descriptors (`desc_list_create` checks this), and the
mask's special value `U32_MAX` is `U16`, which masks nothing.

`hailo_vdma_launch_transfer` trusts its caller, the user library. What it relies
on is the constant `Contract`, a set of clauses, each of which some property
needs:

- `room`: at most `desc_count - 1` descriptors are in flight. Without it a full
  ring looks empty (run `channel_full_list`).
- `counts`: a wrong list has the length of the attached one. A launch that names
  another list is refused, but only after the mask was overwritten with that
  list's; a shorter list makes the channel report transfers the device has not
  touched (run `channel_wrong_list`).
- `buffers`: there is a buffer and each can be programmed. The loop adds up
  negative results, so a launch with a bad buffer would succeed and post
  descriptors of an earlier transfer.
- `slots`: no launch when the ring is full. It is refused, but its descriptors
  stay dirty. Only `DirtyExact` needs this clause; the run `channel` drops it.
- `session`: no launch between a disable and the restart of the device, whose
  counters a disable leaves alone.

`TransferQueue` has no descriptors, counters or rings. `VdmaChannel` implements
it under the mapping `Queue`: what is left of a transfer is the number of its
descriptors that the device has not processed.

### `VdmaInterrupts`

Completions on their way from the device to threads: `HwComplete`, the handler
(`IrqRead`, `IrqSet`, `IrqWake`), the wait ioctl step by step (`WaitInterrupts`,
`Prepare`, `CheckInterrupted`, `CheckEnabled`, `Schedule`, `Redown`,
`ReadInterrupts`, `FillIrqData`), the disable ioctl in its three visible steps,
enable, launch, and the release of a file. `wait_event_interruptible` is
modelled by what it does: queue up, test, sleep, test again. The condition reads
two words without a lock, in two steps. A signal can end either sleep. A
transfer is just ongoing, done, or reaped. The ioctl ends with a copy to the
client; when that fails, transfers the driver has forgotten are never reported.
`FillIrqData` is where the driver forgets them, and no property speaks of what
the client learns.

The files share the engine's bitmap of enabled channels, and each keeps its own.
Any file may disable any channel; the driver warns, and the other file's bitmap
keeps it. What holds then is `EnabledInSomeContext`: nothing stays enabled that
no file will disable.

### `VdmaTimestamps`, and `TimestampQueue`, what it promises

The ring of interrupt timestamps of a channel. The interrupt handler pushes
(`PushTimestamp`, then the two stores of `StoreSlot` and `StoreHead`, in either
order), the ioctl pops one after the other (`PopTimestamp`, `AdvanceTail`)
without a common lock. Enabling resets the ring; disabling resets the mask that
the positions are reported with. `TimestampQueue` is a bounded FIFO that drops
the newest, and `VdmaTimestamps` implements it while the clauses of `TsContract`
hold; dropping any of them breaks one of the two properties:

- `quiet`: a channel is not enabled while the handler handles it. The reset and
  the push take no common lock, so a push can survive the reset.
- `paced`: at most one interrupt of the channel comes during a read. The result
  has one entry more than the ring holds, and the loop tests its bound after the
  pop that may write behind it.
- `attached`: timestamps are not read between a disable and the next launch,
  when the mask masks nothing and `desc_count` is reported for zero.
- `ordered`: the handler's stores become visible in program order. There is no
  barrier between the entry and `head`.

### `DescProgramming`, `Rounding`

How a buffer that is scattered over memory becomes descriptors: binding with a
batch, a stride and an offset (`hailo_vdma_program_descriptors_list_batch` and
what it calls: `ProgramList`), the launch of a buffer that binds it (`LaunchBind`)
or of one that is bound (`ProgramLast`, `program_last_desc`), either with an
interrupt at its first descriptor, at its last, or none, and the cleaning of both
when the transfer is over (`ClearDirtyDescs`), on circular and plain lists. A
launch has one buffer here; several are in `VdmaChannel`. `Rounding` is the
arithmetic this module shares with `FwBoot`. The reference is the buffer itself: the bytes the device
moves when it follows the descriptors are the buffer's, in order. A buffer of no
size, whose "last" descriptor is the one before its first, is left out
(`CallsAssumption`). What else the property needs of a client is `Tidy`, which the
run's calls keep:

- Where several transfers share a list, or a stride takes a part of each page, the
  entries of the scatter table are whole pages. A batch counts the offset of its
  next transfer in descriptors, which skips the rest of a page; and an entry that
  ends inside a page ends a descriptor there, so that the strides behind it begin
  elsewhere.
- A batch does not lap a circular list: only a single transfer is checked against
  `max_desc_index`.

### `BoardLifecycle`

Files on a board: open in its steps (the reference, then the mutex, then on a
failure the reference again), ioctls that look at `pDev` before they take the
mutex, release, removal in the steps that others can see between, suspend and
resume. Three conditions are left to luck by the driver; they are the clauses
`opens`, `closes` and `last` of `Contract`, and dropping any of them breaks
`FreedExactlyOnce` or `DeviceFollowsFiles`.

### `SocBoard`, which implements `BoardLifecycle`

The services of a SOC (`soc.c`) inside the calls of a board. `Connect`, `Close`
and `PowerOff` are ioctls, `Finalize` is the release of a file with channels,
`ResetPrepare` and `SocSuspend` close everything. Each sends a request and waits
for the answer with the board mutex taken (`SocControl`, `ControlReturns`); the
SOC answers in its own time (`SocAnswer`, external), and what it was asked for
happens even if nobody waits for it any more. The state is the bitmap of each
file, what the host channels run on, what the SOC has connected for whom, and
the mailbox. Under the mapping `Board`, in which a control counts as an
operation inside the mutex, every step is one of `BoardLifecycle`. `SocContract`
has what the services leave to luck; dropping any clause breaks
`HostChannelsTracked` or `ClosesOnlyOwn`:

- `late`: no control begins before the SOC is done with the last one. A late
  answer to a connect is taken for the next connect's.
- `own`: a file closes only channels it has connected. The ioctl checks that
  they are an input and an output, not whose they are.
- `close`: the close ioctl is not given up. When it is, the bits stay while the
  SOC has closed the channels, and may have connected them for another file.
- `stale`: after a suspend or a reset, the files that had channels are closed
  before another one connects. Their bitmaps survive `hailo_soc_driver_down`.
- `marked`: a suspend finds the device marked as in use, if it is. Nothing makes
  a file of a SOC mark it, and an unmarked device is not told.

### `BoardList`

The module and the devices it finds: loading and unloading, probes and removals
in threads of their own, the list of boards and its mutex, numbers and device
nodes, and opens through them. `ListContract` has `class` (`class_create`
succeeds; otherwise `hailo_pcie_insert_board` keeps the mutex and leaves an
error pointer), `serial` (no probe while another device is being removed, whose
number is free before its node is gone) and `probed` (the module is not given up
before it found a device: without a class the character device stays
registered). Each is needed.

### `Nnc`

Controls (`hailo_fw_control` from taking its mutex to the answer, with timeouts
and signals) and notifications (cache, wait list, completions that count), with
the firmware and the interrupt handler as processes. `Contract` has `late` (no
control before the late answer to one that timed out is in: the answer carries
nothing the driver checks, so it would be taken for the next one's), `cancel` (a
cancelled reader does not read again: its entry stays disabled and nothing
completes it), `signal` (no signal between the two waits of a reader: the
first has used up the completion, and the restarted call waits for the next) and
`copy` (the reader's buffer can be written: when the copy fails, the completion
is used up all the same). The firmware may raise a notification that is longer
than the driver's buffer; `IrqCache` refuses it and leaves its area in use, as
`hailo_read_firmware_notification` does, and the firmware, which waits for its
area, raises none after it.

### `NncShutdown`

The handshake that stops the firmware's vDMA when the user of the device closes
its file, and before a reset or a sleep (`hailo_nnc_driver_down`): the
completion is reset, the firmware told, and the thread waits for a bounded time.
`late` (no shutdown before the answer to one that timed out is in) is needed for
`ShutdownStopsVdma`. A release goes on after a timeout too and frees the memory,
so the property is about shutdowns that succeed.

### `VdmaMemory`

What open files own (`memory.c` and its ioctls) and who points to it. Every
operation runs under the board mutex: `MapBuffer` and its failures
(`MapCopyFails` undoes everything; `MapDmabufFails` leaks the buffer's struct and,
for a pointer into the mapping of a dmabuf, the descriptor that
`create_fd_from_vma` installed and the reference it took, since the `goto
cleanup` skips `close_fd`; `MapSgFails` leaks references on low-memory pages),
`UnmapBuffer`, descriptor lists, low-memory and continuous buffers with the
handles they share, enable, disable, launch (which looks buffers up by address
or descriptor, newest first, and keeps pointers without references),
`ReapTransfers` (done for whoever waits) and `Close`. Lists have addresses that
are reused, since a channel compares them. `Contract` has `idle` (nothing is
released while a transfer uses it) and `owned` (a file launches on and disables
only channels it has enabled; neither ioctl checks this). Reference counts of
buffers are always one (`hailo_vdma_buffer_get` has no caller).
`HAILO_SUPPORT_MMIO_DMA_MAPPING` is defined nowhere, so that path is left out; so
are the sync and program ioctls and `mmap`, which change nothing here.

### `FwBoot`

The activation of a board, by its probe and by every resume, as three processes:
the thread (`load_soc_firmware`, `load_nnc_firmware`, and what they call, in the
steps between which an interrupt or the device matters), the interrupt handler
(`IrqRead`, `IrqHandle`), and the device (`HwProcess`, `FwUp`, `FwReset`). Every
wait may time out and every allocation or file may fail. Data counts in units,
of which `PageSize` fill a descriptor, so `ProgramChunk` cuts files as
`pcie_vdma_program_one_file` does, last partial descriptor included; each
descriptor says which part of which file it carries and whether it raises an
interrupt. Pointers keep their value after a free (`"freed"`), since
`pcie_vdme_release_boot_resources` goes by them. A file fails at its start
(`ProgramFails`) or at any of its chunks (`ChunkFails`), after the channel index
and the bitmap have moved. What the firmware does with the
image is external. `Contract` has what the boot relies on; dropping any clause
breaks a property:

- `power`: a SOC keeps its firmware while the system sleeps. Without it the
  second boot starts from the counters of the first (run `boot_resume`).
- `memory`: boot memory that was allocated can be mapped. Without it
  `BootMemoryReleased` fails: the error path frees the buffer but not its
  pointer.
- `stuck`: a transfer that timed out does not go on. Without it `DmaFindsMemory`
  fails: the descriptor lists are freed before the channels are stopped.
- `reset`: a soft reset is not answered between its write and the
  `reinit_completion` after it. Without it `NoLostSignal` fails.
- `whole`: a file, unless it is the last, does not end inside the last
  descriptor of a channel. Without it `NoLostSignal` fails: the test for the
  last chunk of a channel rounds down, so the channel never raises its
  interrupt.

### `FwImage`, `AtrAccess`, `FwLog`

`FwImage` is the check of a firmware file before it is written: headers, with
sizes that may be anything, offsets of `Word` bits, and the order in which the
pieces are written afterwards. `ImageInBounds` needs that two sizes that pass do
not wrap an offset, which `ImageAssumption` says of the limits in
`fw_validation.h`.

`AtrAccess` is `write_memory` and `read_memory`: the translation entry is saved,
the window moved along chunk by chunk, and the entry restored. The write that
starts the firmware is one of them; `slow` (the firmware does not place the
window for itself before the entry is restored) is needed for
`WindowAccessExact`.

`FwLog` is the log of the firmware: a ring that the firmware fills (external; it
drops what does not fit) while a read takes the offsets, one or two pieces, and
writes its own offset back, in separate steps.

## 3. The runs

| run | bounds | shows |
|---|---|---|
| `channel` | 2 lists of 4 descriptors, 2 transfers in flight, wrong lists, full ring | `IndInv`, `NumAvailInSync`, refinement of `TransferQueue` |
| `channel_buffers` | 1 list of 4 descriptors with counters modulo 4, debug transfers of 1 or 2 buffers, device errors | `TypeOK`, `CompletionExact`, `DirtyExact` |
| `channel_full_list` | transfers of up to 4 descriptors on a list of 4, no `room` | **violation** of `CompletedIsDone` |
| `channel_wrong_list` | a list of 4 and one of 2 descriptors, no `counts` | **violation** of `CompletedIsDone` |
| `interrupts` | 3 threads, 2 files, 2 channels, of which both files enable and disable one, a transfer each, a signal | `MutexHeldOnce`, `NoLostWakeup`, `CompletionTracked`, `EnabledInSomeContext` |
| `interrupts_live` | 2 threads of a file, no close by others | `CompletionReported`, `DisabledWaitExits` |
| `board` | 2 files, 2 pairs of channels, 2 unanswered requests, removal, suspend, resume and reset any number of times | `OpenFilesCounted`, `FreedExactlyOnce`, `DeviceFollowsFiles`, `HostChannelsTracked`, `ClosesOnlyOwn`, refinement of `BoardLifecycle` |
| `board_hotplug` | 2 files, removal at any time | **violation** of `OperationsFindDevice` |
| `nnc` | 2 threads, 2 files, 2 requests, 2 notifications | the three invariants and `CancelledReaderReturns` |
| `memory` | 2 files (one with 2 handles of each counter, one with 1), buffers of pages, of a descriptor and of a dmabuf's mapping, 1 channel with 2 transfers, 2 list addresses, a failure that leaks | `TransfersFindMemory`, `DetachedWhenDisabled`, `ResourcesAccounted` |
| `boot_resume` | 2 files on 2 of 3 channels, 2 activations, no `power` | **violation** of `StageTwoHasImage` |
| `structures` | ring of 4 timestamps and 8 interrupts; log of 4 bytes, reads of 1 to 4; circular list of 4 and plain list of 3 descriptors of 2 bytes, 2 calls; 3 boards; 12 bytes of memory behind a window of 4, 2 accesses; images of up to 16 bytes with 5 bit offsets; 2 files that use the device; boot: 3 channels of 2 descriptors of 2 units, all batches of up to 3 files of up to 5 units that fit, 3 activations | `ActiveMeansLoaded`, `StageTwoHasImage`, `NoLostSignal`, `BootMemoryReleased`, `DmaFindsMemory`, `ReadInBounds`, `TimestampsInOrder`, `LogReadInOrder`, `ListMovesBuffer`, `BoardsNumbered`, `NothingDangles`, `WindowAccessExact`, `ImageInBounds`, `ShutdownStopsVdma` |

Why these bounds are enough for the cases to happen: four descriptors let
transfers of one and two wrap at every position with another in flight, and the
counters meet both of their ends (`desc_count` with counters wider than the
list, zero with counters as wide). Two lists make a wrong one. Two threads of a
file that wait for one channel, one of which controls it, and a second file that
contends for the other make every pair of wait, disable, close and interrupt, and
a channel that is enabled by one file and disabled by another. Two files
allow a failing open next to the close of a user, and a file that outlives a
suspend next to one that connects after it. Two requests make a late answer and
its victim, two pairs of channels make one that changes hands next to one that
does not. Two files on a channel, one of them with two lists and two buffers,
make a channel change hands and an address be reused; the addresses are
symmetric. Two descriptors of two units make files that end inside and at the
end of a descriptor and of a channel, in every position; three channels make one
that is neither the first nor the last.

The parts of `structures` share no state, so one run explores them side by side
and not their product: its first state picks one. Their rings fill, wrap and are
reused, buffers and accesses begin and end at each position of a page or a
window, and three boards leave a gap between two.

The deadlock check is off where the system may stop: the device is removed and
all files are closed (`board`, `nnc`, `memory`), or a bound is reached
(`structures`).

**Fairness.** The interrupt handler and runnable threads make progress (weak
fairness of `Isr`, `Kernel`, `ReadKernel`). A thread that waits for the board
mutex gets it if it is free again and again (strong fairness of `Redown` and of
`CallWait`): Linux semaphores hand over first come, first served.
`CompletionReported` also needs a client that goes on waiting; nothing is
assumed of launches, signals, disables or the device.

## 4. What is proved

Every theorem below holds for every value of the constants: any number of files,
threads, channels, boards and objects, any length of a list, a ring, a window or
an image. Assumptions are the named `ASSUME`s of the modules, which TLC evaluates
in the runs. A clause of a contract appears in a theorem as a hypothesis, only
where its proof needs it: often the theorem asks for less than the run, which
takes the whole contract. Where the invariant of a proof is not itself a property
of a run, TLC has checked it on the instance of that run before it was proved.

### `VdmaChannelProofs`

For a client that keeps the whole contract (`FullContract`): `InvariantHolds`
(`IndInv`), `TypeCorrect`, `CompletionCorrect`, `NumAvailCorrect` (`TypeOK`,
`CompletionExact`, `NumAvailInSync`) and `DirtyCorrect` (`DirtyExact`), and `QueueCorrect` (`ImplementsQueue`): the channel
implements `TransferQueue`.

`CompletionExact` is not inductive: nothing in it relates the transfers to each
other or to the device. `IndInv` does, by measuring every position by how far it
lies ahead of `num_proc` (`Off`), where nothing wraps: the last descriptors of
the transfers grow strictly and end right before `num_avail`
(`TransfersInOrder`); the device's counter lies between them and the descriptors
it still has to process are exactly those from it to `num_avail`
(`DeviceInStep`); a channel without a list is at zero (`NothingUnattached`). The
lemmas move offsets along: advancing `num_proc` by `k` lowers every offset not
passed by `k` (reaping), appending a transfer of `T` descriptors raises that of
`num_avail` by `T` (launching), the device's step removes the first offset. That
lists have a power of two of descriptors is not needed.

`DirtyExact` takes one part more (`DirtyInv`): what a transfer made dirty lies
between the transfer before it and its own last descriptor (`DirtyInOrder`).
Then no two transfers share a dirty descriptor, so cleaning up after the reaped
ones leaves the others' alone, and binding a new transfer cleans nothing that is
in use. That the ends of the buffers lie within the transfer rests on the running
sum `Programmed` being the function its recursion describes; that such a function
exists is shown by the least length at which none does (`ProgrammedRecursion`).

The refinement adds that each transfer begins where the one before it ends
(`FirstsFollow`, in `QueueInv`). A transfer is then a window of offsets; nothing
is left of it exactly when the device has passed its last descriptor
(`LeftFacts`), so the transfers `fill_channel_irq_data` reaps are the finished
ones (`FinishedIsReaped`). A descriptor the device processes lies in the window
of the first unfinished transfer and in no other (`ProcessedTransfer`); a launch
that reports `T` descriptors posts an arc of `T` (`ArcSize`), behind all others.
The run `channel` checks the refinement also for a client that overfills the
ring; the theorem asks for the whole contract.

### `VdmaInterruptsProofs`

`MutexCorrect`, `CompletionCorrect` and `EnabledCorrect` (`MutexHeldOnce`,
`CompletionTracked`, `EnabledInSomeContext`) ask nothing of the clients: files
may enable and disable each other's channels. `WakeupCorrect` (`NoLostWakeup`)
asks that no thread waits for a channel that threads of another file enable or
disable (`WaitsKeptApart`), because the release of a file wakes nobody; about all
other channels files may contend, as they do in the run.
`WaitInv` says who holds the mutex (`OneHolder`), what the locals of a wait are
good for (`Locals`), that what a thread found before it slept still holds or a
wake-up is coming (`SleepersChecked`), and that a context has only what threads of
its file may enable (`ContextsNamed`).

The timestamps (`VdmaTimestamps`), where handler and ioctl share a ring:

- `ReadCorrect` (`ReadInBounds`) needs "paced" only: what a read has taken, what
  is in the ring and what is on its way into it exceed the ring's capacity by at
  most the interrupts since the read began.
- `TimestampsCorrect` (`TimestampsInOrder`), for all four clauses: handler and
  ioctl implement `TimestampQueue`. The refinement mapping reads the queue off
  the ring; the invariant says that every entry between tail and head was
  written (`StampOf`), that the slot is written before the head moves, and that
  the last entry of a result is the first of the ring until the tail moves.

### `BoardProofs`

`ReferencesCorrect`, `FreeCorrect`, `DeviceCorrect` (`OpenFilesCounted`,
`FreedExactlyOnce`, `DeviceFollowsFiles`), under the whole contract of
`BoardLifecycle`. `BoardInv` adds what the properties leave out: the count is
that of the files that have the board (`FilesCounted`), how far the removal has
come says what is left of the device and who may still be about
(`RemovalOrder`), and interrupts are on for somebody (`InterruptsOwned`).

For a SOC, under both contracts: `SocRefinesBoard` (`SocImplementsBoard`: every
step of `SocBoard` is a step of `BoardLifecycle` or changes none of its
variables), `SocBoardCorrect` (the three properties again), `HostChannelsCorrect`
and `CloseCorrect` (`HostChannelsTracked`, `ClosesOnlyOwn`). `SocInv` says that
the removal and a control exclude each other (`SocMutex`), that there is at most
one request (`OneRequest`), so that an answer somebody waits for is to his
(`AnswerMatches`), and whose the bits of each bitmap are (`BitsOwned`).

The list of boards (`BoardList`):

- `BoardsCorrect` (`BoardsNumbered`, for "class"): the list is ordered as a
  whole, its boards are those between insertion and removal, and a node belongs
  to the board that made it. That the first gap is below the number of boards
  takes a least element twice (there is a gap; all numbers before it are taken)
  and an injection of the list into the other boards.
- `DanglingCorrect` (`NothingDangles`, for all three clauses): no board is about
  to get a node while one that was taken off the list still has its own, so an
  open finds a board whose probe is over.

### `NncProofs`

`AnswerNotLost` (`NoLostAnswer`) asks for nothing; `AnswerCorrect`
(`AnswerIsOwn`) for the clause "late", `NotificationCorrect`
(`NoLostNotification`) for "signal" and "copy". In `ControlInv` the places of a request (the
mailbox, the firmware, its interrupt, the completion) exclude each other
(`OneAnswer`), which is what a late answer would break, and the handler forgets
no bit of the status it has read (`SourceHandled`).

### `VdmaMemoryProofs`

`ResourcesCorrect` (`ResourcesAccounted`: structs, references and descriptors are
those of mapped buffers and what the counted failures leak) asks for nothing,
`DetachedCorrect`
(`DetachedWhenDisabled`) for "owned", `TransfersCorrect` (`TransfersFindMemory`)
for the whole contract. `MemoryInv` counts structs and references by what they
belong to (`Accounted`) and keeps handles of different kinds apart by the
counters they come from (`HandlesIssued`, `HandlesApart`); the steps are lemmas
on cardinalities. `TransferInv` adds that files enable channels apart from each
other and that the file which launched a transfer has its channel enabled: it
drops the transfer before its memory goes.

### `FwBootProofs`

`ActiveCorrect` (`ActiveMeansLoaded`) asks for nothing, and neither does
`BootSignalCorrect`, of the part `BootSignalKept` of `NoLostSignal`: the boot
interrupt and its completion are one token, which only a firmware that comes up
makes and which is never left over from the stage or the boot before
(`SignalInv`). `ResetSignalCorrect` proves the part `ResetSignalKept` for
"reset". `ReleaseCorrect` (`BootMemoryReleased`, for "power" and "memory") and
`DmaCorrect` (the action property `DmaFindsMemory`, for "power" and "stuck") rest
on a boot over vDMA happening once (`OnceInv`), so that what it finds is what
this boot wrote (`MemoryInv`) and nothing that is still to be released was freed
(`FreeInv`).

`ImageCorrect` (`StageTwoHasImage`, for "power" and "whole") and `SignalsCorrect`
(all of `NoLostSignal`, for "reset" besides) are about what the second stage is
made of. The pages of all files stand in one row, `DescsOf` of the files before
giving the place of each file's first; the descriptors of the channels are that
row cut at every `Usable` (`Layout`), and the thread's place in a file is one in
the row (`Cursor`). When the last file is through the row is complete, and a unit
of a file lies in exactly one descriptor (`CompleteCarries`). A channel raises an
interrupt at its last descriptor only (`IrqsPlaced`): this is what "whole" is
for, since a file that ends inside the last descriptor of a channel leaves it
without one. Then a channel is out of the bitmap exactly when it is done or its
interrupt is on its way (`Reported`), whatever order they come in, so the
completion means all of them, and it is not missed.

### `DeviceProofs`

- `ShutdownCorrect` (`ShutdownStopsVdma`, for "late"): a request is in one place.
- `ImageCorrect` (`ImageInBounds`), for every image and every width of the
  addition: what was consumed is a prefix of the file, which the pieces found so
  far cover, although the sums wrap.
- `LogCorrect` (`LogReadInOrder`): the ring holds the bytes from the reader's to
  the firmware's, counted modulo twice its size, and a read under way has the
  first of them.
- `WindowCorrect` (`WindowAccessExact`, for "slow"): the bytes in front of the
  offset of an access are done and no others, and behind its first chunk an
  access is at the begin of a window.

### `DescProofs`

`ListCorrect` (`ListMovesBuffer`) has one hypothesis, `Tidy` of every call; pages,
lists, scatter tables, offsets, strides and batches are of any size, and a launch
interrupts at its first descriptor, its last, both or none. What a range
of descriptors moves is a concatenation (`Flat`), of which the proof needs that
one descriptor more appends its bytes (`FlatStep`); where a byte of the buffer
lies in the scatter table is the same question (`SgLayout`). Both come from the
recursion of `FlattenSeq`, and that such a function exists from the least length
at which it would not. The argument then follows the code from the inside out,
with one predicate for how far it is: the descriptors so far carry the first `y`
bytes asked for (`Carries`).

- `ChunkCarries`: a chunk's descriptors cut it at the pages, and its last one is
  what is left of it.
- `BindEntryInv`: an entry of the scatter table adds the part of it behind the
  offset and within the size (`EntryInv`). How many bytes of the transfer its
  descriptors stand for follows from their number if entries are whole pages; else
  the transfer is alone and no page is cut short by a stride (`Place`). This is
  where `Tidy` comes in.
- `BindTransfers`, `BatchInv`: a transfer begins behind the descriptors of those
  before it, which do not interrupt; only the last descriptor of the last one does
  (`Done`). No descriptor is written twice, since what is bound fits the list.
- `ListLast`, `ListClear`: on a list bound by pages the last descriptor is cut to
  what remains of the transfer, and put back.

The invariant itself (`DpInv`) adds only types: a call takes a copy of the list as
it finds it, whatever is on it.

### Only model-checked

The liveness properties (`CompletionReported`, `DisabledWaitExits`), which are out
of the prover's reach, and the refinement of `TransferQueue` for a client that
overfills the ring, of which `QueueCorrect` proves the case of one that does not.

## 5. What the runs found

- A launch may take all `desc_count` descriptors of a circular list
  (`vdma_common.c:262` says so), but then `num_avail` equals the device's
  `num_proc` and `is_transfer_complete` reports it done at once.
- A launch that is refused because it names another list
  (`vdma_common.c:464`) has stored that list's mask (line 458). If the list is
  shorter, the device's counter is cut down and transfers in flight are reported
  complete.
- A removal does not synchronize with an open that has counted its reference and
  waits for the mutex, nor with an ioctl that has passed its look at `pDev`.
- The state of a SOC boot over vDMA is cleared by the probe only. If a resume
  has to boot it again, descriptors that nobody wrote are given to the device,
  the bitmap of used channels is empty, and the second stage is triggered
  although "the vDMA boot data" was not "transferred completely on all used
  channels".

What the clauses of the contracts stand for was met in the same way: each was
introduced for a counterexample, and each property that needs one fails without
it. What is worth a look at the code, of these and of what was seen on the way:

- The release of a file disables its channels and wakes nobody
  (`linux/vdma/vdma.c:133`): a thread that waits on one of them through another
  file sleeps on, although "It us ok to wait on a disabled channel - the wait
  will just exit." The run `interrupts_live` has waits through the same file
  only.
- Channels are not anyone's: the disable ioctl takes channels of other files
  (`linux/vdma/ioctl.c:65` warns of one that is not enabled, not of one that is
  another's), and then the other file's bitmap keeps them. If file 1 enables a
  channel and file 2 disables it and enables it for itself, the release of file 1
  disables it under file 2. `EnabledInSomeContext` is what is left to say.
- When a pointer into a dmabuf's mapping cannot be mapped, the descriptor
  installed for it, its file reference and the buffer's struct are lost
  (`linux/vdma/memory.c:217` goes past the `close_fd` of line 221).
- A notification longer than the driver's buffer is refused with its area still
  in use (`common/fw_operation.c:29`): a firmware that waits for its area raises
  none from then on.
- A copy to the user that fails at the end of a wait (`linux/vdma/ioctl.c:182`) or
  of a read of a notification (`linux/pcie/src/nnc.c:207`) comes after what it
  reports was taken off the driver's lists.
- A file that was open during a suspend keeps its bitmap of SOC channels, so
  that its release may close channels that another file has connected since,
  although `linux/pcie/src/soc.c:257` says "close only channels connected by
  this".
- `hailo_vdma_pop_timestamps_to_response` pops before it tests its bound
  (`common/vdma_common.c:553`), `hailo_pcie_insert_board` returns with the
  list's mutex taken (`linux/pcie/src/pcie.c:264`),
  `hailo_pcie_unregister_chrdev` does nothing without a class
  (`linux/pcie/src/pcie.c:1493`).
- In the tables of `common/pcie_common.c`, the place of `u-boot.dtb.signed` with
  its largest size overlaps that of the certificate (lines 125 to 141); the
  tables are data and not part of any module.

## 6. Not modelled, and the plan

To be proved next: of `VdmaChannel`, the refinement for a client that overfills
the ring.

Not modelled:

- `hailo_fw_control_preprocess` (`nnc.c:70`), which walks the file's descriptor
  lists after the board mutex was given up. It changes nothing; that a client
  must not release a list meanwhile would be a clause and, restated, its only
  property.
- The sync ioctl and `mmap`, which change no state of the driver, and plain
  register access (`hailo_resource.c`, the choice of a BAR in
  `hailo_pcie_memory_transfer`).
- The set-up of BARs, DMA masks, ASPM and page sizes in the probe: one call to
  the PCI core after the other.
- The layout of registers, descriptors and protocol messages
  (`control_protocol.h`, `hailo_ioctl_common.h`), logging and sysfs.
- The utilities for integrated devices, whose driver is not in this repository.

Out of the prover's reach, and left to TLC: liveness and `ENABLED`, and the
library's induction theorems. What a recursive function computes is proved by a
least counterexample instead (`ProgrammedRecursion`, `FlattenRecursion`,
`BindRecursion`, `BatchRecursion`).
