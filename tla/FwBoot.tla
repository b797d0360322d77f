------------------------------- MODULE FwBoot -------------------------------
(***************************************************************************)
(* Loading the firmware when a board is activated, by its probe and after  *)
(* every sleep (hailo_activate_board and what it calls in                  *)
(* linux/pcie/src/pcie.c, boot_irq_handler in linux/pcie/src/fops.c).      *)
(*                                                                         *)
(* An NNC gets its files through the BAR, after a soft reset if a firmware *)
(* runs. A SOC gets its first stage through the BAR, which then takes the  *)
(* second over the vDMA channels: each file is cut into descriptors, which *)
(* fill one channel after the other. The thread, the interrupt handler and *)
(* the device take their steps in any order, and every wait may time out.  *)
(*                                                                         *)
(* The boot sends data in units; PageSize of them fill a descriptor.       *)
(***************************************************************************)
EXTENDS Rounding, Integers, Sequences, FiniteSets

CONSTANTS
  Accelerators,  \* kinds of board: "SOC", "NNC"
  NumChannels,   \* HAILO_PCI_OVER_VDMA_NUM_CHANNELS
  DescsCount,    \* MAX_SG_DESCS_COUNT, of which one is never used
  PageSize,      \* HAILO_PCI_OVER_VDMA_PAGE_SIZE
  Batches,       \* the second stage: the sizes of its files
  SoftReset,     \* support_soft_reset
  MaxBoots,      \* bound on activations
  NoDesc,        \* content of a descriptor nobody wrote
  Contract       \* which of Clauses the environment keeps

(* What the boot leaves to luck:                                           *)
(*   power   a SOC keeps its firmware while the system sleeps              *)
(*   memory  boot memory that was allocated can be mapped                  *)
(*   stuck   a transfer that has timed out is never resumed                *)
(*   reset   a soft reset is not answered before the driver waits for it   *)
(*   whole   a file that ends with a channel ends with a full descriptor,  *)
(*           unless it is the last                                         *)
Clauses == {"power", "memory", "stuck", "reset", "whole"}

Channels == 0 .. NumChannels - 1
Usable == DescsCount - 1

ASSUME SizesAssumption ==
  /\ NumChannels \in Nat \ {0} /\ DescsCount \in Nat \ {0, 1} /\ PageSize \in Nat \ {0}
  /\ MaxBoots \in Nat \ {0}
ASSUME KindsAssumption ==
  Accelerators \subseteq {"SOC", "NNC"} /\ SoftReset \in BOOLEAN /\ Contract \subseteq Clauses

(* How many descriptors the first files of sizes take.                     *)
DescsOf(sizes) ==
  LET sum[f \in 0 .. Len(sizes)] ==
        IF f = 0 THEN 0 ELSE sum[f - 1] + DivRoundUp(sizes[f], PageSize)
  IN  sum

(* No file is empty, and the channels take them all: nothing in the code   *)
(* stops curr_channel_index at the last one.                               *)
ASSUME BatchesAssumption ==
  \A sizes \in Batches :
    /\ sizes \in Seq(Nat \ {0}) /\ sizes # << >>
    /\ DescsOf(sizes)[Len(sizes)] <= NumChannels * Usable

(* The clause "whole".                                                     *)
EndsWhole(sizes) ==
  \A f \in 1 .. Len(sizes) - 1 :
    DescsOf(sizes)[f] % Usable = 0 => sizes[f] % PageSize = 0

VARIABLES
  accelerator_type, batch,   \* chosen at the start
  pc, ch, err,               \* the thread: place, loop index, result so far
  file_index, data_offset,   \* the file being programmed, what is done of it
  boots, board,              \* activations, and how the last one ended
  interrupts_enabled, is_in_boot,
  fw_loaded_completion, vdma_boot_completion, soft_reset_completed,
  soft_reset_failed,         \* hailo_pcie_soft_reset has failed in this boot
  boot_used_channel_bitmap, curr_channel_index, desc_program_num,
  descs,                     \* content of the descriptors of each channel
  res, freed_twice,          \* the lists and buffers of each channel
  started, num_avail, num_proc,  \* registers of the channels
  istatus, irq_source,       \* raised by the device, read by the handler
  fw                         \* the firmware

threadVars == <<pc, ch, err, file_index, data_offset>>
boardVars == <<accelerator_type, batch, boots, board>>
flagVars == <<interrupts_enabled, is_in_boot>>
completionVars == <<fw_loaded_completion, vdma_boot_completion, soft_reset_completed>>
programVars == <<boot_used_channel_bitmap, curr_channel_index, desc_program_num, descs>>
memoryVars == <<res, freed_twice>>
hwVars == <<started, num_avail, num_proc>>
irqVars == <<istatus, irq_source>>
vars == <<threadVars, boardVars, flagVars, completionVars, soft_reset_failed, programVars,
          memoryVars, hwVars, irqVars, fw>>

----------------------------------------------------------------------------
(* A channel has two descriptor lists and a buffer, allocated in this      *)
(* order. A pointer stays after it was freed.                              *)
Host == 1
Device == 2
Memory == 3
Parts == {Host, Device, Memory}
Places == {"idle", "boot", "reset_write", "reset_reinit", "reset_wait", "reset_boot",
           "init", "write", "wait1", "allocate", "reinit", "program", "avail", "wait_vdma",
           "trigger", "release_lists", "release", "wait2", "done", "info", "off"}
Releasing == {"release_lists", "release"}
(* The interrupts of HAILO_PCIE_BOOT_IRQ and HAILO_PCIE_BOOT_SOFT_RESET_IRQ *)
(* share a word with those of the channels.                                *)
BootIrq == -1
SoftResetIrq == -2
Sources == Channels \union {BootIrq, SoftResetIrq}
Desc == [file : Nat, offset : Nat, size : Nat, irq : BOOLEAN]

ASSUME NoDescAssumption == NoDesc \notin Desc

TypeOK ==
  /\ accelerator_type \in Accelerators /\ batch \in Batches
  /\ pc \in Places /\ ch \in Channels /\ err \in BOOLEAN
  /\ file_index \in 1 .. Len(batch) + 1 /\ data_offset \in Nat
  /\ boots \in 0 .. MaxBoots
  /\ board \in {"new", "active", "failed", "gone", "suspended"}
  /\ interrupts_enabled \in BOOLEAN /\ is_in_boot \in BOOLEAN
  /\ fw_loaded_completion \in BOOLEAN /\ vdma_boot_completion \in BOOLEAN
  /\ soft_reset_completed \in Nat /\ soft_reset_failed \in BOOLEAN
  /\ boot_used_channel_bitmap \subseteq Channels
  /\ curr_channel_index \in Channels
  /\ desc_program_num \in [Channels -> 0 .. Usable]
  /\ DOMAIN descs = Channels
  /\ \A c \in Channels : /\ DOMAIN descs[c] = 1 .. Usable
                         /\ \A d \in 1 .. Usable : descs[c][d] \in Desc \union {NoDesc}
  /\ res \in [Channels -> [Parts -> {"null", "live", "freed"}]] /\ freed_twice \in BOOLEAN
  /\ started \subseteq Channels
  /\ num_avail \in [Channels -> 0 .. Usable]
  /\ DOMAIN num_proc = Channels /\ \A c \in Channels : num_proc[c] \in 0 .. num_avail[c]
  /\ istatus \subseteq Sources /\ irq_source \subseteq Sources
  /\ fw \in {"rom", "stage1", "first_up", "stage2", "running", "resetting"}

Blank == [d \in 1 .. Usable |-> NoDesc]

(* hailo_pcie_probe up to the activation: channel 0 is always used. The    *)
(* device starts from its ROM, or runs the firmware of an earlier driver.  *)
Init ==
  /\ accelerator_type \in Accelerators /\ batch \in Batches
  /\ "whole" \in Contract => EndsWhole(batch)
  /\ pc = "idle" /\ ch = 0 /\ err = FALSE /\ file_index = 1 /\ data_offset = 0
  /\ boots = 0 /\ board = "new"
  /\ interrupts_enabled = FALSE /\ is_in_boot = FALSE
  /\ fw_loaded_completion = FALSE /\ vdma_boot_completion = FALSE /\ soft_reset_completed = 0
  /\ soft_reset_failed = FALSE
  /\ boot_used_channel_bitmap = {0} /\ curr_channel_index = 0
  /\ desc_program_num = [c \in Channels |-> 0] /\ descs = [c \in Channels |-> Blank]
  /\ res = [c \in Channels |-> [p \in Parts |-> "null"]] /\ freed_twice = FALSE
  /\ started = {} /\ num_avail = [c \in Channels |-> 0] /\ num_proc = num_avail
  /\ istatus = {} /\ irq_source = {} /\ fw \in {"rom", "running"}

Goto(place) == pc' = place
(* The thread goes on; nothing but its place changes.                      *)
Step(from, to) ==
  /\ pc = from /\ Goto(to)
  /\ UNCHANGED <<ch, err, file_index, data_offset>>
(* The load fails.                                                         *)
Fail(from, to) ==
  /\ pc = from /\ Goto(to) /\ err' = TRUE /\ ch' = 0
  /\ UNCHANGED <<file_index, data_offset>>

----------------------------------------------------------------------------
(* hailo_activate_board: interrupts on, which clears what is pending.      *)
Activate ==
  /\ board \in {"new", "suspended"} /\ boots < MaxBoots
  /\ Step("idle", "boot")
  /\ boots' = boots + 1
  /\ interrupts_enabled' = TRUE /\ istatus' = {}
  /\ UNCHANGED <<accelerator_type, batch, board, is_in_boot, completionVars,
                 soft_reset_failed, programVars, memoryVars, hwVars, irq_source, fw>>

(* MSI or the handler cannot be had. A probe that fails frees the board, a *)
(* resume only prints.                                                     *)
ActivateFails ==
  /\ board \in {"new", "suspended"} /\ boots < MaxBoots
  /\ pc = "idle"
  /\ boots' = boots + 1
  /\ board' = IF boots = 0 THEN "gone" ELSE "failed"
  /\ UNCHANGED <<accelerator_type, batch, threadVars, flagVars, completionVars,
                 soft_reset_failed, programVars, memoryVars, hwVars, irqVars, fw>>

(* hailo_pcie_is_firmware_loaded: an address the firmware configures.      *)
IsFirmwareLoaded == fw = "running"

(* is_in_boot is set and load_firmware looks for a firmware that runs.     *)
LoadFirmware ==
  /\ pc = "boot"
  /\ is_in_boot' = TRUE /\ err' = FALSE /\ ch' = 0 /\ soft_reset_failed' = FALSE
  /\ Goto(IF ~IsFirmwareLoaded THEN "init"
          ELSE IF accelerator_type = "NNC" /\ SoftReset THEN "reset_write" ELSE "done")
  /\ UNCHANGED <<file_index, data_offset, boardVars, interrupts_enabled, completionVars,
                 programVars, memoryVars, hwVars, irqVars, fw>>

(* The end of activation: the interrupts that come now are not the boot's. *)
LeaveBoot ==
  /\ Step("done", IF accelerator_type = "SOC" /\ ~err THEN "info" ELSE "off")
  /\ is_in_boot' = FALSE
  /\ UNCHANGED <<boardVars, interrupts_enabled, completionVars, soft_reset_failed,
                 programVars, memoryVars, hwVars, irqVars, fw>>

(* hailo_soc_get_driver_info: a control, whose failure is printed.         *)
GetDriverInfo ==
  /\ Step("info", "off")
  /\ UNCHANGED <<boardVars, flagVars, completionVars, soft_reset_failed, programVars,
                 memoryVars, hwVars, irqVars, fw>>

(* hailo_disable_interrupts waits for the handler. Putting the device to   *)
(* sleep may fail a load that went well.                                   *)
Deactivate ==
  /\ irq_source = {}
  /\ Step("off", "idle")
  /\ interrupts_enabled' = FALSE
  /\ \E failed \in {err, TRUE} :
       board' = IF ~failed THEN "active" ELSE IF boots = 1 THEN "gone" ELSE "failed"
  /\ UNCHANGED <<accelerator_type, batch, boots, is_in_boot, completionVars,
                 soft_reset_failed, programVars, memoryVars, hwVars, irqVars, fw>>

(* The system sleeps; a firmware that runs may go on or be lost, any other *)
(* state of the device is lost.                                            *)
Sleep ==
  /\ pc = "idle" /\ board \in {"active", "failed"}
  /\ board' = "suspended"
  /\ fw' \in {"rom", IF fw = "running" THEN fw ELSE "rom"}
  /\ "power" \in Contract /\ accelerator_type = "SOC" => fw' = fw
  /\ started' = {} /\ istatus' = {}
  /\ UNCHANGED <<accelerator_type, batch, boots, threadVars, flagVars, completionVars,
                 soft_reset_failed, programVars, memoryVars, num_avail, num_proc,
                 irq_source>>

----------------------------------------------------------------------------
(* hailo_pcie_soft_reset asks for the reset, and only then clears the      *)
(* completion.                                                             *)
ResetWrite ==
  /\ Step("reset_write", "reset_reinit")
  /\ fw' = "resetting"
  /\ UNCHANGED <<boardVars, flagVars, completionVars, soft_reset_failed, programVars,
                 memoryVars, hwVars, irqVars>>

ResetReinit ==
  /\ Step("reset_reinit", "reset_wait")
  /\ soft_reset_completed' = 0
  /\ UNCHANGED <<boardVars, flagVars, fw_loaded_completion, vdma_boot_completion,
                 soft_reset_failed, programVars, memoryVars, hwVars, irqVars, fw>>

ResetWaited ==
  /\ soft_reset_completed > 0
  /\ Step("reset_wait", "reset_boot")
  /\ soft_reset_completed' = soft_reset_completed - 1
  /\ UNCHANGED <<boardVars, flagVars, fw_loaded_completion, vdma_boot_completion,
                 soft_reset_failed, programVars, memoryVars, hwVars, irqVars, fw>>

(* hailo_pcie_wait_for_boot: the boot status is that of the bootloader.    *)
ResetBooted ==
  /\ fw = "rom"
  /\ Step("reset_boot", "init")
  /\ UNCHANGED <<boardVars, flagVars, completionVars, soft_reset_failed, programVars,
                 memoryVars, hwVars, irqVars, fw>>

(* Either wait times out. load_nnc_firmware then returns 0.                *)
ResetTimeout ==
  /\ \/ soft_reset_completed = 0 /\ Step("reset_wait", "done")
     \/ fw # "rom" /\ Step("reset_boot", "done")
  /\ soft_reset_failed' = TRUE
  /\ UNCHANGED <<boardVars, flagVars, completionVars, programVars, memoryVars, hwVars,
                 irqVars, fw>>

----------------------------------------------------------------------------
(* Mutant: the completion is left as the last boot left it.                *)
InitNothing ==
  /\ Step("init", "write")
  /\ UNCHANGED <<boardVars, flagVars, completionVars, soft_reset_failed, programVars,
                 memoryVars, hwVars, irqVars, fw>>

InitCompletions ==
  /\ Step("init", "write")
  /\ fw_loaded_completion' = FALSE
  /\ vdma_boot_completion' = (vdma_boot_completion /\ accelerator_type = "NNC")
  /\ UNCHANGED <<boardVars, flagVars, soft_reset_completed, soft_reset_failed, programVars,
                 memoryVars, hwVars, irqVars, fw>>

(* hailo_pcie_write_firmware_batch of the first stage, which ends with its *)
(* trigger.                                                                *)
WriteFirstStage ==
  /\ Step("write", "wait1")
  /\ fw' = "stage1"
  /\ UNCHANGED <<boardVars, flagVars, completionVars, soft_reset_failed, programVars,
                 memoryVars, hwVars, irqVars>>

(* A mandatory file is missing, too large, or not valid.                   *)
WriteFails ==
  /\ Fail("write", "done")
  /\ UNCHANGED <<boardVars, flagVars, completionVars, soft_reset_failed, programVars,
                 memoryVars, hwVars, irqVars, fw>>

(* The first stage is up. For an NNC that is all.                          *)
FirstStageWaited ==
  /\ fw_loaded_completion
  /\ Step("wait1", IF accelerator_type = "SOC" THEN "allocate" ELSE "done")
  /\ fw_loaded_completion' = (accelerator_type = "NNC")
  /\ UNCHANGED <<boardVars, flagVars, vdma_boot_completion, soft_reset_completed,
                 soft_reset_failed, programVars, memoryVars, hwVars, irqVars, fw>>

WaitTimeout ==
  /\ ~fw_loaded_completion
  /\ Fail("wait1", "done") \/ Fail("wait2", "done")
  /\ UNCHANGED <<boardVars, flagVars, completionVars, soft_reset_failed, programVars,
                 memoryVars, hwVars, irqVars, fw>>

----------------------------------------------------------------------------
(* pcie_vdme_allocate_boot_resources. Channels start with new lists, whose *)
(* descriptors nobody has written; desc_program_num is not touched.        *)
Allocate ==
  /\ Step("allocate", "reinit")
  /\ res' = [c \in Channels |-> [p \in Parts |-> "live"]]
  /\ descs' = [c \in Channels |-> Blank]
  /\ started' = Channels
  /\ num_avail' = [c \in Channels |-> 0] /\ num_proc' = num_avail'
  /\ UNCHANGED <<boardVars, flagVars, completionVars, soft_reset_failed,
                 boot_used_channel_bitmap, curr_channel_index, desc_program_num, freed_twice,
                 irqVars, fw>>

Before(c1, p1, c2, p2) == c1 < c2 \/ (c1 = c2 /\ p1 < p2)

(* Part p of channel c cannot be had: everything is released. What fails   *)
(* after the vmalloc of a buffer frees it, but leaves kernel_addrs.        *)
AllocateFails ==
  /\ Fail("allocate", "release_lists")
  /\ \E c \in Channels, p \in Parts :
       /\ started' = {k \in Channels : Before(k, Memory, c, p) \/ (k = c /\ p = Memory)}
       /\ \E left \in {"null", "freed"} :
            /\ left = "freed" => p = Memory /\ "memory" \notin Contract
            /\ res' = [k \in Channels |-> [q \in Parts |->
                        IF Before(k, q, c, p) THEN "live"
                        ELSE IF <<k, q>> = <<c, p>> THEN left
                        ELSE res[k][q]]]
  /\ UNCHANGED <<boardVars, flagVars, completionVars, soft_reset_failed, programVars,
                 freed_twice, num_avail, num_proc, irqVars, fw>>

(* reinit_completion(vdma_boot_completion), then the first file.           *)
ReinitVdma ==
  /\ pc = "reinit" /\ Goto("program")
  /\ file_index' = 1 /\ data_offset' = 0
  /\ vdma_boot_completion' = FALSE
  /\ UNCHANGED <<ch, err, boardVars, flagVars, fw_loaded_completion, soft_reset_completed,
                 soft_reset_failed, programVars, memoryVars, hwVars, irqVars, fw>>

(* request_firmware_direct fails.                                          *)
ProgramFails ==
  /\ data_offset = 0
  /\ Fail("program", "release_lists")
  /\ UNCHANGED <<boardVars, flagVars, completionVars, soft_reset_failed, programVars,
                 memoryVars, hwVars, irqVars, fw>>

(* The channel that the rest of a file goes to: the next when one is full. *)
NextChannel(full) == curr_channel_index + (IF full THEN 1 ELSE 0)

(* How much of a file goes to channel c at once.                           *)
ChunkSize(c, remaining_size) ==
  Lesser(remaining_size, (Usable - desc_program_num[c]) * PageSize)

(* Mutant: only the last descriptor of the boot raises an interrupt.       *)
RaiseAtEnd(c, size, ends) == ends /\ file_index = Len(batch)

(* Whether the last descriptor of size units that go to channel c raises   *)
(* an interrupt: it is the last of the channel or of the boot.             *)
RaiseInterrupt(c, size, ends) ==
  \/ size \div PageSize + desc_program_num[c] = Usable
  \/ ends /\ file_index = Len(batch)

(* Mutant: the bitmap is not told.                                         *)
UseFirstChannel(c, full) == boot_used_channel_bitmap

(* The bitmap when the boot has come to channel c.                         *)
UseChannel(c, full) == boot_used_channel_bitmap \union (IF full THEN {c} ELSE {})

(* A turn of the loop in pcie_vdma_program_one_file. Past the last channel *)
(* there is no next state.                                                 *)
ProgramChunk ==
  LET remaining_size == batch[file_index] - data_offset
      full == desc_program_num[curr_channel_index] = Usable
      c == NextChannel(full)
      first == desc_program_num[c]
      size == ChunkSize(c, remaining_size)
      programmed == DivRoundUp(size, PageSize)
      ends == size = remaining_size
      raise == RaiseInterrupt(c, size, ends)
  IN
  /\ pc = "program" /\ c \in Channels
  /\ curr_channel_index' = c
  /\ boot_used_channel_bitmap' = UseChannel(c, full)
  /\ descs' = [descs EXCEPT ![c] = [d \in 1 .. Usable |->
        IF d \in first + 1 .. first + programmed
        THEN LET at == (d - first - 1) * PageSize
             IN  [file |-> file_index, offset |-> data_offset + at,
                  size |-> Lesser(PageSize, size - at), irq |-> raise /\ d = first + programmed]
        ELSE @[d]]]
  /\ desc_program_num' = [desc_program_num EXCEPT ![c] = first + programmed]
  /\ data_offset' = IF ends THEN 0 ELSE data_offset + size
  /\ file_index' = IF ends THEN file_index + 1 ELSE file_index
  /\ Goto(IF ends /\ file_index = Len(batch) THEN "avail" ELSE "program")
  /\ UNCHANGED <<ch, err, boardVars, flagVars, completionVars, soft_reset_failed, memoryVars,
                 hwVars, irqVars, fw>>

(* The copy to the buffer or the programming of a list fails. What it has  *)
(* left in the lists, which are freed before the device reads them, is     *)
(* left out.                                                               *)
ChunkFails ==
  LET full == desc_program_num[curr_channel_index] = Usable
      c == NextChannel(full)
  IN
  /\ c \in Channels
  /\ Fail("program", "release_lists")
  /\ curr_channel_index' = c
  /\ boot_used_channel_bitmap' = UseChannel(c, full)
  /\ UNCHANGED <<boardVars, flagVars, completionVars, soft_reset_failed, desc_program_num,
                 descs, memoryVars, hwVars, irqVars, fw>>

(* The channels are given their descriptors one after the other.           *)
SetNumAvail ==
  /\ pc = "avail"
  /\ num_avail' = [num_avail EXCEPT ![ch] = desc_program_num[ch]]
  /\ IF ch = NumChannels - 1 THEN Goto("wait_vdma") /\ ch' = 0
                             ELSE Goto("avail") /\ ch' = ch + 1
  /\ UNCHANGED <<err, file_index, data_offset, boardVars, flagVars, completionVars,
                 soft_reset_failed, programVars, memoryVars, started, num_proc, irqVars, fw>>

VdmaWaited ==
  /\ vdma_boot_completion
  /\ Step("wait_vdma", "trigger")
  /\ UNCHANGED <<boardVars, flagVars, completionVars, soft_reset_failed, programVars,
                 memoryVars, hwVars, irqVars, fw>>

(* Mutant: the error path forgets the release.                             *)
VdmaTimeoutReturns ==
  /\ ~vdma_boot_completion
  /\ Fail("wait_vdma", "done")
  /\ UNCHANGED <<boardVars, flagVars, completionVars, soft_reset_failed, programVars,
                 memoryVars, hwVars, irqVars, fw>>

VdmaTimeout ==
  /\ ~vdma_boot_completion
  /\ Fail("wait_vdma", "release_lists")
  /\ UNCHANGED <<boardVars, flagVars, completionVars, soft_reset_failed, programVars,
                 memoryVars, hwVars, irqVars, fw>>

TriggerSecondStage ==
  /\ Step("trigger", "release_lists")
  /\ fw_loaded_completion' = FALSE
  /\ fw' = "stage2"
  /\ UNCHANGED <<boardVars, flagVars, vdma_boot_completion, soft_reset_completed,
                 soft_reset_failed, programVars, memoryVars, hwVars, irqVars>>

----------------------------------------------------------------------------
Free(parts) ==
  /\ res' = [res EXCEPT ![ch] = [p \in Parts |->
                IF p \in parts /\ @[p] # "null" THEN "freed" ELSE @[p]]]
  /\ freed_twice' = (freed_twice \/ \E p \in parts : res[ch][p] = "freed")

(* pcie_vdme_release_boot_resources, for each channel: first its lists ... *)
ReleaseLists ==
  /\ Step("release_lists", "release")
  /\ Free({Host, Device})
  /\ UNCHANGED <<boardVars, flagVars, completionVars, soft_reset_failed, programVars, hwVars,
                 irqVars, fw>>

(* Mutant: nothing stops the channel.                                      *)
StopNothing == started

StopChannel == started \ {ch}

(* ... then the channel is stopped, and its buffer is freed.               *)
ReleaseMemory ==
  /\ pc = "release"
  /\ started' = StopChannel
  /\ Free({Memory})
  /\ IF ch < NumChannels - 1 THEN Goto("release_lists") /\ ch' = ch + 1
                             ELSE Goto(IF err THEN "done" ELSE "wait2") /\ ch' = 0
  /\ UNCHANGED <<err, file_index, data_offset, boardVars, flagVars, completionVars,
                 soft_reset_failed, programVars, num_avail, num_proc, irqVars, fw>>

(* The second stage is up.                                                 *)
SecondStageWaited ==
  /\ fw_loaded_completion
  /\ Step("wait2", "done")
  /\ fw_loaded_completion' = FALSE /\ vdma_boot_completion' = FALSE
  /\ UNCHANGED <<boardVars, flagVars, soft_reset_completed, soft_reset_failed, programVars,
                 memoryVars, hwVars, irqVars, fw>>

----------------------------------------------------------------------------
(* The handler reads and clears what is raised ...                         *)
IrqRead ==
  /\ interrupts_enabled /\ irq_source = {} /\ istatus # {}
  /\ irq_source' = istatus /\ istatus' = {}
  /\ UNCHANGED <<threadVars, boardVars, flagVars, completionVars, soft_reset_failed,
                 programVars, memoryVars, hwVars, fw>>

(* ... and handles it, in boot_irq_handler if the board is in boot.        *)
IrqHandle ==
  /\ irq_source # {}
  /\ irq_source' = {}
  /\ IF ~is_in_boot
     THEN UNCHANGED <<completionVars, boot_used_channel_bitmap>>
     ELSE /\ soft_reset_completed' =
               soft_reset_completed + (IF SoftResetIrq \in irq_source THEN 1 ELSE 0)
          /\ IF BootIrq \in irq_source
             THEN /\ fw_loaded_completion' = TRUE
                  /\ UNCHANGED <<boot_used_channel_bitmap, vdma_boot_completion>>
             ELSE /\ boot_used_channel_bitmap' = boot_used_channel_bitmap \ irq_source
                  /\ vdma_boot_completion' =
                       (vdma_boot_completion \/ boot_used_channel_bitmap' = {})
                  /\ UNCHANGED fw_loaded_completion
  /\ UNCHANGED <<threadVars, boardVars, flagVars, soft_reset_failed, curr_channel_index,
                 desc_program_num, descs, memoryVars, hwVars, istatus, fw>>

(* A channel transfers the data of its next descriptor.                    *)
HwProcess(c) ==
  /\ c \in started /\ num_proc[c] < num_avail[c]
  /\ "stuck" \in Contract => pc \notin Releasing
  /\ num_proc' = [num_proc EXCEPT ![c] = @ + 1]
  /\ LET desc == descs[c][num_proc[c] + 1] IN
     istatus' = istatus \union (IF desc # NoDesc /\ desc.irq THEN {c} ELSE {})
  /\ UNCHANGED <<threadVars, boardVars, flagVars, completionVars, soft_reset_failed,
                 programVars, memoryVars, started, num_avail, irq_source, fw>>

(* The firmware comes up, and says so.                                     *)
FwUp ==
  /\ fw \in {"stage1", "stage2"}
  /\ fw' = IF fw = "stage1" /\ accelerator_type = "SOC" THEN "first_up" ELSE "running"
  /\ istatus' = istatus \union {BootIrq}
  /\ UNCHANGED <<threadVars, boardVars, flagVars, completionVars, soft_reset_failed,
                 programVars, memoryVars, hwVars, irq_source>>

(* The firmware answers a soft reset and returns to its bootloader.        *)
FwReset ==
  /\ fw = "resetting"
  /\ "reset" \in Contract => pc # "reset_reinit"
  /\ fw' = "rom"
  /\ istatus' = istatus \union {SoftResetIrq}
  /\ UNCHANGED <<threadVars, boardVars, flagVars, completionVars, soft_reset_failed,
                 programVars, memoryVars, hwVars, irq_source>>

Thread ==
  \/ Activate \/ ActivateFails \/ LoadFirmware \/ LeaveBoot \/ GetDriverInfo \/ Deactivate
  \/ Sleep
  \/ ResetWrite \/ ResetReinit \/ ResetWaited \/ ResetBooted \/ ResetTimeout
  \/ InitCompletions \/ WriteFirstStage \/ WriteFails \/ FirstStageWaited \/ WaitTimeout
  \/ Allocate \/ AllocateFails \/ ReinitVdma \/ ProgramFails \/ ProgramChunk \/ ChunkFails
  \/ SetNumAvail \/ VdmaWaited \/ VdmaTimeout \/ TriggerSecondStage
  \/ ReleaseLists \/ ReleaseMemory \/ SecondStageWaited

Hardware == FwUp \/ FwReset \/ \E c \in Channels : HwProcess(c)

Next == Thread \/ IrqRead \/ IrqHandle \/ Hardware

Spec == Init /\ [][Next]_vars

----------------------------------------------------------------------------
(* A board is active only with a firmware that runs, whatever completions  *)
(* an earlier boot or an earlier stage left behind and however late its    *)
(* interrupt is handled. The one exception is a soft reset that failed:    *)
(* load_nnc_firmware reports success for it.                               *)
ActiveMeansLoaded ==
  board = "active" => IsFirmwareLoaded \/ soft_reset_failed

(* The descriptors that the device has processed carry unit u of file f.   *)
Carriers(f, u) ==
  {cd \in Channels \X (1 .. Usable) :
     LET desc == descs[cd[1]][cd[2]] IN
     /\ cd[2] <= num_proc[cd[1]] /\ desc # NoDesc
     /\ desc.file = f /\ u \in desc.offset .. desc.offset + desc.size - 1}

(* When the second stage is triggered, every unit of every file has been   *)
(* transferred, once: vdma_boot_completion means that all used channels    *)
(* are done, although they are started one by one, end in any order, and   *)
(* the handler may see several or one at a time.                           *)
StageTwoHasImage ==
  fw = "stage2" =>
    \A f \in 1 .. Len(batch) : \A u \in 0 .. batch[f] - 1 : Cardinality(Carriers(f, u)) = 1

(* What the thread waits for when it waits: the firmware, the transfers,   *)
(* the answer to a soft reset.                                             *)
Settled == istatus = {} /\ irq_source = {}
BootSignalKept ==
  Settled => /\ pc = "wait1" /\ fw \in {"first_up", "running"} => fw_loaded_completion
             /\ pc = "wait2" /\ fw = "running" => fw_loaded_completion
VdmaSignalKept ==
  Settled /\ pc = "wait_vdma" /\ num_proc = desc_program_num => vdma_boot_completion
ResetSignalKept ==
  Settled /\ pc = "reset_wait" /\ fw = "rom" => soft_reset_completed > 0

(* No interrupt of the boot is lost: when the device has done what the     *)
(* thread waits for, and no interrupt is raised or being handled, the      *)
(* completion is there. The completions are cleared in the middle of the   *)
(* boot, and boot_irq_handler ignores channels that come with a boot       *)
(* interrupt.                                                              *)
NoLostSignal == BootSignalKept /\ VdmaSignalKept /\ ResetSignalKept

(* Outside of a boot no list and no buffer of it is left, whichever step   *)
(* of it failed, and pcie_vdme_release_boot_resources has freed none that  *)
(* was freed before, though it goes by pointers that stay.                 *)
BootMemoryReleased ==
  /\ TypeOK
  /\ ~freed_twice
  /\ ~is_in_boot => \A c \in Channels, p \in Parts : res[c][p] # "live"

(* The device reads only descriptors that were written in this boot, and   *)
(* only while they and the data are allocated: desc_program_num counts     *)
(* what is in the lists, and no channel runs on when a boot gives up.      *)
DmaFindsMemory ==
  [][\A c \in Channels : num_proc'[c] > num_proc[c] =>
       /\ \A p \in Parts : res[c][p] = "live"
       /\ descs[c][num_proc'[c]] # NoDesc]_vars

=============================================================================
