---------------------------- MODULE FwBootProofs ----------------------------
(***************************************************************************)
(* Proofs about FwBoot, for boards with any number of channels, lists of   *)
(* any length and any number of activations.                               *)
(***************************************************************************)
EXTENDS FwBoot, FiniteSetTheorems, WellFoundedInduction, TLAPS

----------------------------------------------------------------------------
(* The inductive invariants.                                               *)

ResetPlaces == {"reset_write", "reset_reinit", "reset_wait", "reset_boot"}
(* What load_soc_firmware does between its two stages.                     *)
VdmaPlaces == {"reinit", "program", "avail", "wait_vdma", "trigger"}
SocPlaces == VdmaPlaces \union Releasing \union {"allocate", "wait2", "info"}
OutOfBoot == {"idle", "boot", "info", "off"}

(* Where the thread is, and what it has done.                              *)
ThreadInv ==
  /\ pc = "program" => file_index \in 1 .. Len(batch) /\ data_offset < batch[file_index]
  /\ ch # 0 => pc \in Releasing \union {"avail"}
  /\ pc \in {"reinit", "program"} => \A c \in Channels : num_avail[c] = 0
  /\ pc = "avail" => \A c \in Channels : c >= ch => num_avail[c] = 0
  /\ is_in_boot <=> pc \notin OutOfBoot
  /\ pc \in ResetPlaces => accelerator_type = "NNC"
  /\ pc \in SocPlaces => accelerator_type = "SOC"
  /\ pc # "idle" => board \in {"new", "suspended"}
  /\ board = "new" => boots = (IF pc = "idle" THEN 0 ELSE 1)
  /\ board = "suspended" => boots >= (IF pc = "idle" THEN 1 ELSE 2)
  /\ board \in {"active", "failed"} => boots >= 1

(* A boot interrupt is on its way.                                         *)
Raised == BootIrq \in istatus \/ BootIrq \in irq_source
(* No boot interrupt has been raised that the thread has not waited for.   *)
Quiet == ~Raised /\ ~fw_loaded_completion

(* The boot interrupt and its completion are one token, which only the     *)
(* firmware that comes up makes; none is lost while the thread needs it,   *)
(* and none is left over from the stage or the boot before.                *)
SignalInv ==
  /\ pc = "idle" => ~interrupts_enabled /\ irq_source = {}
  /\ pc = "idle" /\ board \in {"new", "suspended"} => fw \in {"rom", "running"}
  /\ pc = "boot" => fw \in {"rom", "running"} /\ ~Raised
  /\ pc = "reset_write" => fw = "running" /\ ~Raised
  /\ pc \in {"reset_reinit", "reset_wait", "reset_boot"} =>
       fw \in {"resetting", "rom"} /\ ~Raised
  /\ pc = "init" => fw = "rom" /\ ~Raised
  /\ pc = "write" => fw = "rom" /\ Quiet
  /\ pc = "wait1" =>
       /\ fw \in {"stage1", IF accelerator_type = "SOC" THEN "first_up" ELSE "running"}
       /\ fw = "stage1" => Quiet
       /\ fw # "stage1" => Raised \/ fw_loaded_completion
       /\ fw_loaded_completion => ~Raised
       /\ BootIrq \in istatus => BootIrq \notin irq_source
  /\ pc \in ResetPlaces \union {"init", "write", "wait1"} => ~err
  /\ pc \in VdmaPlaces \union {"allocate"} => fw = "first_up" /\ Quiet /\ ~err
  /\ pc \in Releasing /\ err => fw = "first_up"
  /\ (pc \in Releasing /\ ~err) \/ pc = "wait2" =>
       /\ fw \in {"stage2", "running"}
       /\ fw = "stage2" => Quiet
       /\ fw = "running" => Raised \/ fw_loaded_completion
  /\ pc \in {"done", "info", "off"} /\ ~err => fw = "running" \/ soft_reset_failed
  /\ board = "active" => fw = "running" \/ soft_reset_failed

(* The answer to a soft reset, of a device that is not too quick.          *)
ResetInv ==
  /\ pc = "reset_reinit" => fw = "resetting"
  /\ pc = "reset_wait" /\ fw = "rom" =>
       SoftResetIrq \in istatus \/ SoftResetIrq \in irq_source \/ soft_reset_completed > 0

(* Nothing has been allocated yet.                                         *)
Untouched ==
  /\ \A c \in Channels : /\ \A p \in Parts : res[c][p] = "null"
                         /\ desc_program_num[c] = 0 /\ num_avail[c] = 0
  /\ started = {}

(* A SOC that keeps its firmware is booted once, ...                       *)
OnceInv ==
  /\ accelerator_type = "SOC" => ~soft_reset_failed
  /\ accelerator_type = "SOC" /\ board \in {"active", "failed", "suspended"} =>
       fw = "running" /\ pc \in {"idle", "boot", "done", "info", "off"}
  /\ accelerator_type = "NNC" => Untouched
  /\ board = "new" /\ pc \in {"idle", "boot", "init", "write", "wait1", "allocate"} =>
       Untouched

(* ... so that its lists are those that were written in this boot.         *)
MemoryInv ==
  /\ \A c \in Channels :
       /\ num_avail[c] <= desc_program_num[c]
       /\ \A d \in 1 .. desc_program_num[c] : descs[c][d] # NoDesc
  /\ pc \in VdmaPlaces => \A c \in Channels, p \in Parts : res[c][p] = "live"
  /\ pc \in Releasing =>
       \A c \in Channels : c < ch => c \notin started /\ \A p \in Parts : res[c][p] # "live"
  /\ pc = "release" => res[ch][Host] # "live" /\ res[ch][Device] # "live"
  /\ pc \notin VdmaPlaces \union Releasing =>
       started = {} /\ \A c \in Channels, p \in Parts : res[c][p] # "live"

(* Nothing that is still to be released has been freed.                    *)
FreeInv ==
  /\ ~freed_twice
  /\ pc \in Releasing => \A c \in Channels :
       /\ c > ch => \A p \in Parts : res[c][p] # "freed"
       /\ c = ch => res[c][Memory] # "freed"
       /\ c = ch /\ pc = "release_lists" => res[c][Host] # "freed" /\ res[c][Device] # "freed"

BootInv == TypeOK /\ ThreadInv /\ SignalInv
PowerInv == BootInv /\ OnceInv /\ MemoryInv

----------------------------------------------------------------------------
(* Arithmetic of the descriptors.                                          *)

LEMMA Rounded ==
  ASSUME NEW size \in Nat, NEW room \in Nat, size <= room * PageSize
  PROVE  /\ DivRoundUp(size, PageSize) \in 0 .. room
         /\ (DivRoundUp(size, PageSize) - 1) * PageSize < size
<1>1. PageSize \in Nat /\ PageSize >= 1
  BY SizesAssumption
<1> DEFINE q == (size + PageSize - 1) \div PageSize
<1>2. /\ q \in Int /\ size + PageSize - 1 \in Nat
      /\ PageSize * q <= size + PageSize - 1
      /\ size + PageSize - 1 < PageSize * q + PageSize
  BY <1>1
<1>3. DivRoundUp(size, PageSize) = q
  BY DEF DivRoundUp
<1> HIDE DEF q
<1>4. q >= 0
  <2> SUFFICES ASSUME q <= -1 PROVE FALSE
    BY <1>2
  <2>1. PageSize * q + PageSize <= 0
    BY <1>1, <1>2
  <2> QED
    BY <1>1, <1>2, <2>1
<1>5. q <= room
  <2> SUFFICES ASSUME q >= room + 1 PROVE FALSE
    BY <1>2
  <2>1. PageSize * q >= PageSize * (room + 1)
    BY <1>1, <1>2
  <2>2. PageSize * (room + 1) = room * PageSize + PageSize
    BY <1>1
  <2> QED
    BY <1>1, <1>2, <2>1, <2>2
<1>6. (q - 1) * PageSize < size
  BY <1>1, <1>2
<1> QED
  BY <1>2, <1>3, <1>4, <1>5, <1>6

(* What a turn of pcie_vdma_program_one_file does: n more descriptors of   *)
(* channel c are written.                                                  *)
Programs(c, n) ==
  /\ c \in Channels /\ n \in Nat /\ desc_program_num[c] + n <= Usable
  /\ curr_channel_index' = c
  /\ desc_program_num' = [desc_program_num EXCEPT ![c] = desc_program_num[c] + n]
  /\ DOMAIN descs' = Channels
  /\ \A k \in Channels : k # c => descs'[k] = descs[k]
  /\ DOMAIN descs'[c] = 1 .. Usable
  /\ \A d \in 1 .. Usable :
       IF d \in desc_program_num[c] + 1 .. desc_program_num[c] + n
       THEN descs'[c][d] \in Desc ELSE descs'[c][d] = descs[c][d]
  /\ boot_used_channel_bitmap' \subseteq Channels
  /\ file_index' \in 1 .. Len(batch) + 1 /\ data_offset' \in Nat
  /\ \/ pc' = "avail"
     \/ pc' = "program" /\ file_index' \in 1 .. Len(batch) /\ data_offset' < batch[file_index']

LEMMA ProgramChunkPrograms ==
  ASSUME TypeOK, ThreadInv, ProgramChunk
  PROVE  \E c \in Channels, n \in Nat : Programs(c, n)
<1> DEFINE remaining_size == batch[file_index] - data_offset
           full == desc_program_num[curr_channel_index] = Usable
           c == NextChannel(full)
           first == desc_program_num[c]
           size == ChunkSize(c, remaining_size)
           n == DivRoundUp(size, PageSize)
           ends == size = remaining_size
           raise == RaiseInterrupt(c, size, ends)
           At(d) == (d - first - 1) * PageSize
           D(d) == [file |-> file_index, offset |-> data_offset + At(d),
                    size |-> Lesser(PageSize, size - At(d)), irq |-> raise /\ d = first + n]
<1>1. /\ pc = "program" /\ c \in Channels
      /\ curr_channel_index' = c
      /\ boot_used_channel_bitmap' = UseChannel(c, full)
      /\ descs' = [descs EXCEPT ![c] = [d \in 1 .. Usable |->
            IF d \in first + 1 .. first + n THEN D(d) ELSE descs[c][d]]]
      /\ desc_program_num' = [desc_program_num EXCEPT ![c] = first + n]
      /\ data_offset' = IF ends THEN 0 ELSE data_offset + size
      /\ file_index' = IF ends THEN file_index + 1 ELSE file_index
      /\ pc' = IF ends /\ file_index = Len(batch) THEN "avail" ELSE "program"
  BY Zenon DEF ProgramChunk, Goto
<1>2. /\ batch \in Seq(Nat \ {0}) /\ Len(batch) \in Nat
      /\ \A f \in 1 .. Len(batch) : batch[f] \in Nat \ {0}
  BY BatchesAssumption DEF TypeOK
<1>3. /\ file_index \in 1 .. Len(batch) /\ data_offset \in Nat
      /\ remaining_size \in Nat \ {0}
  BY <1>1, <1>2 DEF TypeOK, ThreadInv
<1>4. first \in 0 .. Usable /\ Usable \in Nat /\ Usable >= 1 /\ PageSize \in Nat \ {0}
  BY <1>1, SizesAssumption, SMTT(40) DEF TypeOK, Usable
<1> HIDE DEF c, first, remaining_size
<1>5. /\ size \in 0 .. remaining_size
      /\ size <= (Usable - first) * PageSize
  <2>1. (Usable - first) * PageSize \in Nat
    BY <1>4
  <2>2. size = Lesser(remaining_size, (Usable - first) * PageSize)
    BY DEF ChunkSize, first
  <2> QED
    BY <1>3, <2>1, <2>2 DEF Lesser
<1> HIDE DEF size
<1>6. n \in 0 .. Usable - first /\ (n - 1) * PageSize < size
  <2>1. size \in Nat /\ Usable - first \in Nat
    BY <1>3, <1>4, <1>5
  <2>2. /\ DivRoundUp(size, PageSize) \in 0 .. Usable - first
        /\ (DivRoundUp(size, PageSize) - 1) * PageSize < size
    BY <1>5, <2>1, Rounded
  <2> QED
    BY <2>2
<1> HIDE DEF n
<1>7. raise \in BOOLEAN
  BY DEF RaiseInterrupt
<1> HIDE DEF raise
<1>8. ASSUME NEW d \in first + 1 .. first + n PROVE D(d) \in Desc
  <2>1. d - first - 1 \in 0 .. n - 1
    BY <1>4, <1>6
  <2>2. At(d) \in Nat /\ At(d) <= (n - 1) * PageSize
    BY <1>4, <1>6, <2>1
  <2> HIDE DEF At
  <2>3. size - At(d) \in Nat
    <3>1. (n - 1) * PageSize \in Int /\ size \in Nat
      BY <1>3, <1>4, <1>5, <1>6
    <3>2. (n - 1) * PageSize < size
      BY <1>6
    <3> QED
      BY <2>2, <3>1, <3>2
  <2>4. Lesser(PageSize, size - At(d)) \in Nat
    BY <1>4, <2>3 DEF Lesser
  <2>5. data_offset + At(d) \in Nat /\ (raise /\ d = first + n) \in BOOLEAN /\ file_index \in Nat
    BY <1>3, <2>2
  <2> QED
    BY <2>4, <2>5 DEF Desc
<1> HIDE DEF D
<1>9. DOMAIN descs = Channels
  BY DEF TypeOK
<1>10. /\ DOMAIN descs' = Channels
       /\ \A k \in Channels : k # c => descs'[k] = descs[k]
       /\ descs'[c] = [d \in 1 .. Usable |->
            IF d \in first + 1 .. first + n THEN D(d) ELSE descs[c][d]]
  BY <1>1, <1>9
<1>11. /\ DOMAIN descs'[c] = 1 .. Usable
       /\ \A d \in 1 .. Usable :
            IF d \in first + 1 .. first + n
            THEN descs'[c][d] \in Desc ELSE descs'[c][d] = descs[c][d]
  BY <1>8, <1>10
<1>12. boot_used_channel_bitmap' \subseteq Channels
  BY <1>1 DEF TypeOK, UseChannel
<1>13. /\ file_index' \in 1 .. Len(batch) + 1 /\ data_offset' \in Nat
       /\ \/ pc' = "avail"
          \/ /\ pc' = "program" /\ file_index' \in 1 .. Len(batch)
             /\ data_offset' < batch[file_index']
  <2>1. CASE ends
    BY <1>1, <1>2, <1>3, <2>1
  <2>2. CASE ~ends
    BY <1>1, <1>2, <1>3, <1>5, <2>2 DEF remaining_size
  <2> QED
    BY <2>1, <2>2
<1>14. n \in Nat /\ first + n <= Usable
  BY <1>4, <1>6
<1>15. Programs(c, n)
  BY <1>1, <1>10, <1>11, <1>12, <1>13, <1>14 DEF Programs, first
<1> QED
  BY <1>1, <1>14, <1>15

(* TypeOK in parts.                                                        *)
ThreadTypes ==
  /\ accelerator_type \in Accelerators /\ batch \in Batches
  /\ pc \in Places /\ ch \in Channels
  /\ file_index \in 1 .. Len(batch) + 1 /\ data_offset \in Nat
  /\ boots \in 0 .. MaxBoots
  /\ board \in {"new", "active", "failed", "gone", "suspended"}
  /\ soft_reset_completed \in Nat
  /\ fw \in {"rom", "stage1", "first_up", "stage2", "running", "resetting"}

FlagTypes ==
  /\ err \in BOOLEAN /\ interrupts_enabled \in BOOLEAN /\ is_in_boot \in BOOLEAN
  /\ fw_loaded_completion \in BOOLEAN /\ vdma_boot_completion \in BOOLEAN
  /\ soft_reset_failed \in BOOLEAN /\ freed_twice \in BOOLEAN

SetTypes ==
  /\ boot_used_channel_bitmap \subseteq Channels /\ started \subseteq Channels
  /\ istatus \subseteq Sources /\ irq_source \subseteq Sources

ProgramTypes ==
  /\ curr_channel_index \in Channels
  /\ desc_program_num \in [Channels -> 0 .. Usable]
  /\ DOMAIN descs = Channels
  /\ \A c \in Channels : /\ DOMAIN descs[c] = 1 .. Usable
                         /\ \A d \in 1 .. Usable : descs[c][d] \in Desc \union {NoDesc}

RegisterTypes ==
  /\ num_avail \in [Channels -> 0 .. Usable]
  /\ DOMAIN num_proc = Channels
  /\ \A c \in Channels : num_proc[c] \in 0 .. num_avail[c]

MemoryTypes == res \in [Channels -> [Parts -> {"null", "live", "freed"}]]

LEMMA TypeParts ==
  TypeOK <=> /\ ThreadTypes /\ FlagTypes /\ SetTypes
             /\ ProgramTypes /\ RegisterTypes /\ MemoryTypes
BY DEF TypeOK, ThreadTypes, FlagTypes, SetTypes, ProgramTypes, RegisterTypes,
   MemoryTypes

LEMMA Sizes ==
  /\ Channels \subseteq Nat /\ 0 \in Channels /\ NumChannels - 1 \in Channels
  /\ Usable \in Nat /\ Usable >= 1 /\ MaxBoots \in Nat
BY SizesAssumption DEF Channels, Usable

LEMMA InitTypes == Init => TypeOK
<1> SUFFICES ASSUME Init PROVE TypeOK
  OBVIOUS
<1>1. batch \in Seq(Nat \ {0}) /\ Len(batch) \in Nat
  BY BatchesAssumption DEF Init
<1>2. ThreadTypes
  BY <1>1, Sizes DEF Init, ThreadTypes, Places
<1>3. FlagTypes
  BY Zenon DEF Init, FlagTypes
<1>4. SetTypes
  BY Sizes DEF Init, SetTypes
<1>5. ProgramTypes
  BY Sizes DEF Init, ProgramTypes, Blank
<1>6. RegisterTypes
  BY Sizes DEF Init, RegisterTypes
<1>7. MemoryTypes
  BY DEF Init, MemoryTypes
<1> QED
  BY <1>2, <1>3, <1>4, <1>5, <1>6, <1>7, TypeParts

LEMMA NextThreadTypes == TypeOK /\ ThreadInv /\ [Next]_vars => ThreadTypes'
<1> SUFFICES ASSUME TypeOK /\ ThreadInv, [Next]_vars PROVE ThreadTypes'
  OBVIOUS
<1> USE DEF threadVars, boardVars, flagVars, completionVars, programVars,
           memoryVars, hwVars, irqVars, Goto, Step, Fail
<1>1. CASE Activate
  BY <1>1, TypeParts, Sizes DEF Activate, ThreadTypes, Places
<1>2. CASE ActivateFails
  BY <1>2, TypeParts, Sizes DEF ActivateFails, ThreadTypes, Places
<1>3. CASE LoadFirmware
  BY <1>3, TypeParts, Sizes DEF LoadFirmware, ThreadTypes, Places
<1>4. CASE LeaveBoot
  BY <1>4, TypeParts, Sizes DEF LeaveBoot, ThreadTypes, Places
<1>5. CASE GetDriverInfo
  BY <1>5, TypeParts, Sizes DEF GetDriverInfo, ThreadTypes, Places
<1>6. CASE Deactivate
  BY <1>6, TypeParts, Sizes DEF Deactivate, ThreadTypes, Places
<1>7. CASE Sleep
  BY <1>7, TypeParts, Sizes DEF Sleep, ThreadTypes, Places
<1>8. CASE ResetWrite
  BY <1>8, TypeParts, Sizes DEF ResetWrite, ThreadTypes, Places
<1>9. CASE ResetReinit
  BY <1>9, TypeParts, Sizes DEF ResetReinit, ThreadTypes, Places
<1>10. CASE ResetWaited
  BY <1>10, TypeParts, Sizes DEF ResetWaited, ThreadTypes, Places
<1>11. CASE ResetBooted
  BY <1>11, TypeParts, Sizes DEF ResetBooted, ThreadTypes, Places
<1>12. CASE ResetTimeout
  BY <1>12, TypeParts, Sizes DEF ResetTimeout, ThreadTypes, Places
<1>13. CASE InitCompletions
  BY <1>13, TypeParts, Sizes DEF InitCompletions, ThreadTypes, Places
<1>14. CASE WriteFirstStage
  BY <1>14, TypeParts, Sizes DEF WriteFirstStage, ThreadTypes, Places
<1>15. CASE WriteFails
  BY <1>15, TypeParts, Sizes DEF WriteFails, ThreadTypes, Places
<1>16. CASE FirstStageWaited
  BY <1>16, TypeParts, Sizes DEF FirstStageWaited, ThreadTypes, Places
<1>17. CASE WaitTimeout
  BY <1>17, TypeParts, Sizes DEF WaitTimeout, ThreadTypes, Places
<1>18. CASE Allocate
  BY <1>18, TypeParts, Sizes DEF Allocate, ThreadTypes, Places
<1>19. CASE AllocateFails
  BY <1>19, TypeParts, Sizes DEF AllocateFails, ThreadTypes, Places
<1>20. CASE ReinitVdma
  <2>1. batch \in Seq(Nat \ {0}) /\ Len(batch) \in Nat
    BY TypeParts, BatchesAssumption DEF ThreadTypes
  <2> QED
    BY <1>20, <2>1, TypeParts, Sizes DEF ReinitVdma, ThreadTypes, Places
<1>21. CASE ProgramFails
  BY <1>21, TypeParts, Sizes DEF ProgramFails, ThreadTypes, Places
<1>22. CASE ProgramChunk
  <2>1. PICK c \in Channels, n \in Nat : Programs(c, n)
    BY <1>22, ProgramChunkPrograms
  <2>2. UNCHANGED <<accelerator_type, batch, ch, boots, board, soft_reset_completed, fw>>
    BY <1>22 DEF ProgramChunk
  <2> QED
    BY <2>1, <2>2, TypeParts DEF Programs, ThreadTypes, Places
<1>23. CASE SetNumAvail
  BY <1>23, TypeParts, Sizes DEF SetNumAvail, ThreadTypes, Places, Channels
<1>24. CASE VdmaWaited
  BY <1>24, TypeParts, Sizes DEF VdmaWaited, ThreadTypes, Places
<1>25. CASE VdmaTimeout
  BY <1>25, TypeParts, Sizes DEF VdmaTimeout, ThreadTypes, Places
<1>26. CASE TriggerSecondStage
  BY <1>26, TypeParts, Sizes DEF TriggerSecondStage, ThreadTypes, Places
<1>27. CASE ReleaseLists
  BY <1>27, TypeParts, Sizes DEF ReleaseLists, ThreadTypes, Places
<1>28. CASE ReleaseMemory
  BY <1>28, TypeParts, Sizes DEF ReleaseMemory, ThreadTypes, Places, Channels
<1>29. CASE SecondStageWaited
  BY <1>29, TypeParts, Sizes DEF SecondStageWaited, ThreadTypes, Places
<1>30. CASE IrqRead
  BY <1>30, TypeParts, Sizes DEF IrqRead, ThreadTypes, Places
<1>31. CASE IrqHandle
  BY <1>31, TypeParts, Sizes DEF IrqHandle, ThreadTypes, Places
<1>32. CASE FwUp
  BY <1>32, TypeParts, Sizes DEF FwUp, ThreadTypes, Places
<1>33. CASE FwReset
  BY <1>33, TypeParts, Sizes DEF FwReset, ThreadTypes, Places
<1>34. ASSUME NEW c \in Channels, HwProcess(c) PROVE ThreadTypes'
  BY <1>34, TypeParts, Sizes DEF HwProcess, ThreadTypes, Places
<1>35. CASE UNCHANGED vars
  BY <1>35, TypeParts, Sizes DEF vars, ThreadTypes, Places
<1>36. CASE ChunkFails
  BY <1>36, TypeParts, Sizes DEF ChunkFails, ThreadTypes, Places
<1> QED
  BY <1>1, <1>2, <1>3, <1>4, <1>5, <1>6, <1>7, <1>8, <1>9, <1>10, <1>11, <1>12, <1>13,
     <1>14, <1>15, <1>16, <1>17, <1>18, <1>19, <1>20, <1>21, <1>22, <1>23, <1>24, <1>25,
     <1>26, <1>27, <1>28, <1>29, <1>30, <1>31, <1>32, <1>33, <1>34, <1>35, <1>36
  DEF Next, Thread, Hardware

LEMMA NextFlagTypes == TypeOK /\ ThreadInv /\ [Next]_vars => FlagTypes'
<1> SUFFICES ASSUME TypeOK /\ ThreadInv, [Next]_vars PROVE FlagTypes'
  OBVIOUS
<1> USE DEF threadVars, boardVars, flagVars, completionVars, programVars,
           memoryVars, hwVars, irqVars, Goto, Step, Fail
<1>1. CASE Activate
  BY <1>1, TypeParts, Zenon DEF Activate, FlagTypes
<1>2. CASE ActivateFails
  BY <1>2, TypeParts, Zenon DEF ActivateFails, FlagTypes
<1>3. CASE LoadFirmware
  BY <1>3, TypeParts, Zenon DEF LoadFirmware, FlagTypes
<1>4. CASE LeaveBoot
  BY <1>4, TypeParts, Zenon DEF LeaveBoot, FlagTypes
<1>5. CASE GetDriverInfo
  BY <1>5, TypeParts, Zenon DEF GetDriverInfo, FlagTypes
<1>6. CASE Deactivate
  BY <1>6, TypeParts, Zenon DEF Deactivate, FlagTypes
<1>7. CASE Sleep
  BY <1>7, TypeParts, Zenon DEF Sleep, FlagTypes
<1>8. CASE ResetWrite
  BY <1>8, TypeParts, Zenon DEF ResetWrite, FlagTypes
<1>9. CASE ResetReinit
  BY <1>9, TypeParts, Zenon DEF ResetReinit, FlagTypes
<1>10. CASE ResetWaited
  BY <1>10, TypeParts, Zenon DEF ResetWaited, FlagTypes
<1>11. CASE ResetBooted
  BY <1>11, TypeParts, Zenon DEF ResetBooted, FlagTypes
<1>12. CASE ResetTimeout
  BY <1>12, TypeParts, Zenon DEF ResetTimeout, FlagTypes
<1>13. CASE InitCompletions
  BY <1>13, TypeParts, Zenon DEF InitCompletions, FlagTypes
<1>14. CASE WriteFirstStage
  BY <1>14, TypeParts, Zenon DEF WriteFirstStage, FlagTypes
<1>15. CASE WriteFails
  BY <1>15, TypeParts, Zenon DEF WriteFails, FlagTypes
<1>16. CASE FirstStageWaited
  BY <1>16, TypeParts, Zenon DEF FirstStageWaited, FlagTypes
<1>17. CASE WaitTimeout
  BY <1>17, TypeParts, Zenon DEF WaitTimeout, FlagTypes
<1>18. CASE Allocate
  BY <1>18, TypeParts, Zenon DEF Allocate, FlagTypes
<1>19. CASE AllocateFails
  BY <1>19, TypeParts, Zenon DEF AllocateFails, FlagTypes
<1>20. CASE ReinitVdma
  BY <1>20, TypeParts, Zenon DEF ReinitVdma, FlagTypes
<1>21. CASE ProgramFails
  BY <1>21, TypeParts, Zenon DEF ProgramFails, FlagTypes
<1>22. CASE ProgramChunk
  BY <1>22, TypeParts, Zenon DEF ProgramChunk, FlagTypes
<1>23. CASE SetNumAvail
  BY <1>23, TypeParts, Zenon DEF SetNumAvail, FlagTypes
<1>24. CASE VdmaWaited
  BY <1>24, TypeParts, Zenon DEF VdmaWaited, FlagTypes
<1>25. CASE VdmaTimeout
  BY <1>25, TypeParts, Zenon DEF VdmaTimeout, FlagTypes
<1>26. CASE TriggerSecondStage
  BY <1>26, TypeParts, Zenon DEF TriggerSecondStage, FlagTypes
<1>27. CASE ReleaseLists
  BY <1>27, TypeParts, Zenon DEF ReleaseLists, FlagTypes, Free
<1>28. CASE ReleaseMemory
  BY <1>28, TypeParts, Zenon DEF ReleaseMemory, FlagTypes, Free
<1>29. CASE SecondStageWaited
  BY <1>29, TypeParts, Zenon DEF SecondStageWaited, FlagTypes
<1>30. CASE IrqRead
  BY <1>30, TypeParts, Zenon DEF IrqRead, FlagTypes
<1>31. CASE IrqHandle
  BY <1>31, TypeParts, Zenon DEF IrqHandle, FlagTypes
<1>32. CASE FwUp
  BY <1>32, TypeParts, Zenon DEF FwUp, FlagTypes
<1>33. CASE FwReset
  BY <1>33, TypeParts, Zenon DEF FwReset, FlagTypes
<1>34. ASSUME NEW c \in Channels, HwProcess(c) PROVE FlagTypes'
  BY <1>34, TypeParts, Zenon DEF HwProcess, FlagTypes
<1>35. CASE UNCHANGED vars
  BY <1>35, TypeParts, Zenon DEF vars, FlagTypes
<1>36. CASE ChunkFails
  BY <1>36, TypeParts, Zenon DEF ChunkFails, FlagTypes
<1> QED
  BY <1>1, <1>2, <1>3, <1>4, <1>5, <1>6, <1>7, <1>8, <1>9, <1>10, <1>11, <1>12, <1>13,
     <1>14, <1>15, <1>16, <1>17, <1>18, <1>19, <1>20, <1>21, <1>22, <1>23, <1>24, <1>25,
     <1>26, <1>27, <1>28, <1>29, <1>30, <1>31, <1>32, <1>33, <1>34, <1>35, <1>36
  DEF Next, Thread, Hardware

LEMMA NextSetTypes == TypeOK /\ ThreadInv /\ [Next]_vars => SetTypes'
<1> SUFFICES ASSUME TypeOK /\ ThreadInv, [Next]_vars PROVE SetTypes'
  OBVIOUS
<1>1. CASE ActivateFails \/ LoadFirmware \/ LeaveBoot \/ GetDriverInfo \/ Deactivate \/
          ResetWrite \/ ResetReinit \/ ResetWaited \/ ResetBooted \/ ResetTimeout \/
          InitCompletions \/ WriteFirstStage \/ WriteFails \/ FirstStageWaited \/ WaitTimeout
          \/ ReinitVdma \/ ProgramFails \/ SetNumAvail \/ VdmaWaited \/ VdmaTimeout \/
          TriggerSecondStage \/ ReleaseLists \/ SecondStageWaited \/ UNCHANGED vars
  <2>1. UNCHANGED <<boot_used_channel_bitmap, started, istatus, irq_source>>
    BY <1>1 DEF ActivateFails, LoadFirmware, LeaveBoot, GetDriverInfo, Deactivate,
       ResetWrite,
         ResetReinit, ResetWaited, ResetBooted, ResetTimeout, InitCompletions,
         WriteFirstStage, WriteFails, FirstStageWaited, WaitTimeout, ReinitVdma,
         ProgramFails, SetNumAvail, VdmaWaited, VdmaTimeout, TriggerSecondStage,
         ReleaseLists, SecondStageWaited, Step, Fail, vars, threadVars, boardVars,
         flagVars, completionVars, programVars, memoryVars, hwVars, irqVars
  <2> QED
    BY <2>1, TypeParts DEF SetTypes
<1>2. CASE Activate
  BY <1>2, TypeParts DEF Activate, SetTypes, programVars, hwVars
<1>3. CASE Sleep
  BY <1>3, TypeParts DEF Sleep, SetTypes, programVars
<1>4. CASE Allocate
  BY <1>4, TypeParts DEF Allocate, SetTypes, irqVars
<1>5. CASE AllocateFails
  BY <1>5, TypeParts DEF AllocateFails, SetTypes, programVars, irqVars
<1>6. CASE ProgramChunk
  <2>1. PICK c \in Channels, n \in Nat : Programs(c, n)
    BY <1>6, ProgramChunkPrograms
  <2>2. UNCHANGED <<started, istatus, irq_source>>
    BY <1>6 DEF ProgramChunk, hwVars, irqVars
  <2> QED
    BY <2>1, <2>2, TypeParts DEF Programs, SetTypes
<1>7. CASE ReleaseMemory
  BY <1>7, TypeParts DEF ReleaseMemory, StopChannel, SetTypes, programVars, irqVars
<1>8. CASE IrqRead
  BY <1>8, TypeParts DEF IrqRead, SetTypes, programVars, hwVars
<1>9. CASE IrqHandle
  BY <1>9, TypeParts DEF IrqHandle, SetTypes, hwVars
<1>10. CASE FwUp
  BY <1>10, TypeParts DEF FwUp, SetTypes, Sources, programVars, hwVars
<1>11. CASE FwReset
  BY <1>11, TypeParts DEF FwReset, SetTypes, Sources, programVars, hwVars
<1>12. ASSUME NEW c \in Channels, HwProcess(c) PROVE SetTypes'
  BY <1>12, TypeParts DEF HwProcess, SetTypes, Sources, programVars
<1>13. CASE ChunkFails
  BY <1>13, TypeParts DEF ChunkFails, UseChannel, SetTypes, hwVars, irqVars
<1> QED
  BY <1>1, <1>2, <1>3, <1>4, <1>5, <1>6, <1>7, <1>8, <1>9, <1>10, <1>11, <1>12, <1>13
  DEF Next, Thread, Hardware

LEMMA NextProgramTypes == TypeOK /\ ThreadInv /\ [Next]_vars => ProgramTypes'
<1> SUFFICES ASSUME TypeOK /\ ThreadInv, [Next]_vars PROVE ProgramTypes'
  OBVIOUS
<1>1. CASE Activate \/ ActivateFails \/ LoadFirmware \/ LeaveBoot \/ GetDriverInfo \/
          Deactivate \/ Sleep \/ ResetWrite \/ ResetReinit \/ ResetWaited \/ ResetBooted \/
          ResetTimeout \/ InitCompletions \/ WriteFirstStage \/ WriteFails \/ FirstStageWaited
          \/ WaitTimeout \/ AllocateFails \/ ReinitVdma \/ ProgramFails \/ SetNumAvail \/
          VdmaWaited \/ VdmaTimeout \/ TriggerSecondStage \/ ReleaseLists \/ ReleaseMemory \/
          SecondStageWaited \/ IrqRead \/ IrqHandle \/ FwUp \/ FwReset \/
          (\E c \in Channels : HwProcess(c)) \/ UNCHANGED vars
  <2>1. UNCHANGED <<curr_channel_index, desc_program_num, descs>>
    BY <1>1 DEF Activate, ActivateFails, LoadFirmware, LeaveBoot, GetDriverInfo,
       Deactivate,
         Sleep, ResetWrite, ResetReinit, ResetWaited, ResetBooted, ResetTimeout,
         InitCompletions, WriteFirstStage, WriteFails, FirstStageWaited, WaitTimeout,
         AllocateFails, ReinitVdma, ProgramFails, SetNumAvail, VdmaWaited, VdmaTimeout,
         TriggerSecondStage, ReleaseLists, ReleaseMemory, SecondStageWaited, IrqRead,
         IrqHandle, FwUp, FwReset, HwProcess, Step, Fail, vars, threadVars, boardVars,
         flagVars, completionVars, programVars, memoryVars, hwVars, irqVars
  <2> QED
    BY <2>1, TypeParts DEF ProgramTypes
<1>2. CASE Allocate
  BY <1>2, TypeParts DEF Allocate, ProgramTypes, Blank
<1>3. CASE ProgramChunk
  <2>1. PICK c \in Channels, n \in Nat : Programs(c, n)
    BY <1>3, ProgramChunkPrograms
  <2>2. desc_program_num[c] \in 0 .. Usable /\ desc_program_num[c] + n \in 0 .. Usable
    BY <2>1, TypeParts, Sizes DEF Programs, ProgramTypes
  <2>3. desc_program_num' \in [Channels -> 0 .. Usable] /\ curr_channel_index' \in Channels
    BY <2>1, <2>2, TypeParts DEF Programs, ProgramTypes
  <2>4. DOMAIN descs' = Channels
    BY <2>1 DEF Programs
  <2>5. ASSUME NEW k \in Channels
        PROVE  /\ DOMAIN descs'[k] = 1 .. Usable
               /\ \A d \in 1 .. Usable : descs'[k][d] \in Desc \union {NoDesc}
    BY <2>1, TypeParts DEF Programs, ProgramTypes
  <2> QED
    BY <2>3, <2>4, <2>5 DEF ProgramTypes
<1>4. CASE ChunkFails
  BY <1>4, TypeParts DEF ChunkFails, ProgramTypes
<1> QED
  BY <1>1, <1>2, <1>3, <1>4 DEF Next, Thread, Hardware

LEMMA NextRegisterTypes == TypeOK /\ ThreadInv /\ [Next]_vars => RegisterTypes'
<1> SUFFICES ASSUME TypeOK /\ ThreadInv, [Next]_vars PROVE RegisterTypes'
  OBVIOUS
<1>1. CASE Activate \/ ActivateFails \/ LoadFirmware \/ LeaveBoot \/ GetDriverInfo \/
          Deactivate \/ Sleep \/ ResetWrite \/ ResetReinit \/ ResetWaited \/ ResetBooted \/
          ResetTimeout \/ InitCompletions \/ WriteFirstStage \/ WriteFails \/ FirstStageWaited
          \/ WaitTimeout \/ AllocateFails \/ ReinitVdma \/ ProgramFails \/ ProgramChunk \/
          ChunkFails \/ VdmaWaited \/ VdmaTimeout \/ TriggerSecondStage \/ ReleaseLists \/
          ReleaseMemory \/ SecondStageWaited \/ IrqRead \/ IrqHandle \/ FwUp \/ FwReset \/
          UNCHANGED vars
  <2>1. UNCHANGED <<num_avail, num_proc>>
    BY <1>1 DEF Activate, ActivateFails, LoadFirmware, LeaveBoot, GetDriverInfo,
       Deactivate,
         Sleep, ResetWrite, ResetReinit, ResetWaited, ResetBooted, ResetTimeout,
         InitCompletions, WriteFirstStage, WriteFails, FirstStageWaited, WaitTimeout,
         AllocateFails, ReinitVdma, ProgramFails, ProgramChunk, ChunkFails, VdmaWaited, VdmaTimeout,
         TriggerSecondStage, ReleaseLists, ReleaseMemory, SecondStageWaited, IrqRead,
         IrqHandle, FwUp, FwReset, Step, Fail, vars, threadVars, boardVars, flagVars,
         completionVars, programVars, memoryVars, hwVars, irqVars
  <2> QED
    BY <2>1, TypeParts DEF RegisterTypes
<1>2. CASE Allocate
  BY <1>2, TypeParts, Sizes DEF Allocate, RegisterTypes
<1>3. CASE SetNumAvail
  <2>1. ch \in Channels /\ desc_program_num[ch] \in 0 .. Usable
    BY TypeParts DEF ThreadTypes, ProgramTypes
  <2>2. num_avail' \in [Channels -> 0 .. Usable]
    BY <1>3, <2>1, TypeParts DEF SetNumAvail, RegisterTypes
  <2>3. num_avail[ch] = 0
    BY <1>3, <2>1, Sizes DEF SetNumAvail, ThreadInv
  <2>4. ASSUME NEW c \in Channels PROVE num_proc'[c] \in 0 .. num_avail'[c]
    BY <1>3, <2>1, <2>3, TypeParts, Sizes DEF SetNumAvail, RegisterTypes
  <2>5. DOMAIN num_proc' = Channels
    BY <1>3, TypeParts DEF SetNumAvail, RegisterTypes
  <2> QED
    BY <2>2, <2>4, <2>5 DEF RegisterTypes
<1>4. ASSUME NEW c \in Channels, HwProcess(c) PROVE RegisterTypes'
  <2>1. num_avail' = num_avail /\ num_proc' = [num_proc EXCEPT ![c] = num_proc[c] + 1]
         /\ num_proc[c] < num_avail[c]
    BY <1>4 DEF HwProcess
  <2>2. ASSUME NEW k \in Channels PROVE num_proc'[k] \in 0 .. num_avail'[k]
    <3>1. num_avail[k] \in Nat /\ num_proc[k] \in 0 .. num_avail[k]
      BY TypeParts, Sizes DEF RegisterTypes
    <3> QED
      BY <2>1, <3>1
  <2> QED
    BY <2>1, <2>2, TypeParts DEF RegisterTypes
<1> QED
  BY <1>1, <1>2, <1>3, <1>4 DEF Next, Thread, Hardware

LEMMA NextMemoryTypes == TypeOK /\ ThreadInv /\ [Next]_vars => MemoryTypes'
<1> SUFFICES ASSUME TypeOK /\ ThreadInv, [Next]_vars PROVE MemoryTypes'
  OBVIOUS
<1>1. CASE Activate \/ ActivateFails \/ LoadFirmware \/ LeaveBoot \/ GetDriverInfo \/
          Deactivate \/ Sleep \/ ResetWrite \/ ResetReinit \/ ResetWaited \/ ResetBooted \/
          ResetTimeout \/ InitCompletions \/ WriteFirstStage \/ WriteFails \/ FirstStageWaited
          \/ WaitTimeout \/ ReinitVdma \/ ProgramFails \/ ProgramChunk \/ ChunkFails \/
          SetNumAvail \/ VdmaWaited \/ VdmaTimeout \/ TriggerSecondStage \/ SecondStageWaited \/
          IrqRead \/ IrqHandle \/ FwUp \/ FwReset \/ (\E c \in Channels : HwProcess(c)) \/
          UNCHANGED vars
  <2>1. UNCHANGED <<res>>
    BY <1>1 DEF Activate, ActivateFails, LoadFirmware, LeaveBoot, GetDriverInfo,
       Deactivate,
         Sleep, ResetWrite, ResetReinit, ResetWaited, ResetBooted, ResetTimeout,
         InitCompletions, WriteFirstStage, WriteFails, FirstStageWaited, WaitTimeout,
         ReinitVdma, ProgramFails, ProgramChunk, ChunkFails, SetNumAvail, VdmaWaited, VdmaTimeout,
         TriggerSecondStage, SecondStageWaited, IrqRead, IrqHandle, FwUp, FwReset,
         HwProcess, Step, Fail, vars, threadVars, boardVars, flagVars, completionVars,
         programVars, memoryVars, hwVars, irqVars
  <2> QED
    BY <2>1, TypeParts DEF MemoryTypes
<1>2. CASE Allocate
  BY <1>2, TypeParts DEF Allocate, MemoryTypes
<1>3. CASE AllocateFails
  <2>1. PICK c \in Channels, p \in Parts, left \in {"null", "freed"} :
          res' = [k \in Channels |-> [q \in Parts |->
                        IF Before(k, q, c, p) THEN "live"
                        ELSE IF <<k, q>> = <<c, p>> THEN left
                        ELSE res[k][q]]]
    BY <1>3 DEF AllocateFails
  <2> QED
    BY <2>1, TypeParts DEF MemoryTypes
<1>4. CASE ReleaseLists
  BY <1>4, TypeParts DEF ReleaseLists, Free, MemoryTypes
<1>5. CASE ReleaseMemory
  BY <1>5, TypeParts DEF ReleaseMemory, Free, MemoryTypes
<1> QED
  BY <1>1, <1>2, <1>3, <1>4, <1>5 DEF Next, Thread, Hardware

LEMMA NextTypes == TypeOK /\ ThreadInv /\ [Next]_vars => TypeOK'
BY NextThreadTypes, NextFlagTypes, NextSetTypes, NextProgramTypes, NextRegisterTypes,
   NextMemoryTypes
DEF TypeOK, ThreadTypes, FlagTypes, SetTypes, ProgramTypes, RegisterTypes, MemoryTypes

----------------------------------------------------------------------------

LEMMA InitThread == Init => ThreadInv
BY Sizes DEF Init, ThreadInv, Releasing, ResetPlaces, SocPlaces, VdmaPlaces, OutOfBoot

LEMMA NextThread == TypeOK /\ ThreadInv /\ [Next]_vars => ThreadInv'
<1> SUFFICES ASSUME TypeOK /\ ThreadInv, [Next]_vars PROVE ThreadInv'
  OBVIOUS
<1> USE DEF threadVars, boardVars, flagVars, completionVars, programVars,
           memoryVars, hwVars, irqVars, Goto, Step, Fail
<1>1. CASE Activate
  BY <1>1, TypeParts, Sizes DEF Activate, ThreadTypes, FlagTypes, ThreadInv,
     Releasing, ResetPlaces, SocPlaces, VdmaPlaces, OutOfBoot
<1>2. CASE ActivateFails
  BY <1>2, TypeParts, Sizes DEF ActivateFails, ThreadTypes, FlagTypes, ThreadInv,
     Releasing, ResetPlaces, SocPlaces, VdmaPlaces, OutOfBoot
<1>3. CASE LoadFirmware
  BY <1>3, TypeParts, Sizes DEF LoadFirmware, ThreadTypes, FlagTypes, ThreadInv,
     Releasing, ResetPlaces, SocPlaces, VdmaPlaces, OutOfBoot
<1>4. CASE LeaveBoot
  BY <1>4, TypeParts, Sizes DEF LeaveBoot, ThreadTypes, FlagTypes, ThreadInv,
     Releasing, ResetPlaces, SocPlaces, VdmaPlaces, OutOfBoot
<1>5. CASE GetDriverInfo
  BY <1>5, TypeParts, Sizes DEF GetDriverInfo, ThreadTypes, FlagTypes, ThreadInv,
     Releasing, ResetPlaces, SocPlaces, VdmaPlaces, OutOfBoot
<1>6. CASE Deactivate
  BY <1>6, TypeParts, Sizes DEF Deactivate, ThreadTypes, FlagTypes, ThreadInv,
     Releasing, ResetPlaces, SocPlaces, VdmaPlaces, OutOfBoot
<1>7. CASE Sleep
  BY <1>7, TypeParts, Sizes DEF Sleep, ThreadTypes, FlagTypes, ThreadInv, Releasing,
     ResetPlaces, SocPlaces, VdmaPlaces, OutOfBoot
<1>8. CASE ResetWrite
  BY <1>8, TypeParts, Sizes DEF ResetWrite, ThreadTypes, FlagTypes, ThreadInv,
     Releasing, ResetPlaces, SocPlaces, VdmaPlaces, OutOfBoot
<1>9. CASE ResetReinit
  BY <1>9, TypeParts, Sizes DEF ResetReinit, ThreadTypes, FlagTypes, ThreadInv,
     Releasing, ResetPlaces, SocPlaces, VdmaPlaces, OutOfBoot
<1>10. CASE ResetWaited
  BY <1>10, TypeParts, Sizes DEF ResetWaited, ThreadTypes, FlagTypes, ThreadInv,
     Releasing, ResetPlaces, SocPlaces, VdmaPlaces, OutOfBoot
<1>11. CASE ResetBooted
  BY <1>11, TypeParts, Sizes DEF ResetBooted, ThreadTypes, FlagTypes, ThreadInv,
     Releasing, ResetPlaces, SocPlaces, VdmaPlaces, OutOfBoot
<1>12. CASE ResetTimeout
  BY <1>12, TypeParts, Sizes DEF ResetTimeout, ThreadTypes, FlagTypes, ThreadInv,
     Releasing, ResetPlaces, SocPlaces, VdmaPlaces, OutOfBoot
<1>13. CASE InitCompletions
  BY <1>13, TypeParts, Sizes DEF InitCompletions, ThreadTypes, FlagTypes, ThreadInv,
     Releasing, ResetPlaces, SocPlaces, VdmaPlaces, OutOfBoot
<1>14. CASE WriteFirstStage
  BY <1>14, TypeParts, Sizes DEF WriteFirstStage, ThreadTypes, FlagTypes, ThreadInv,
     Releasing, ResetPlaces, SocPlaces, VdmaPlaces, OutOfBoot
<1>15. CASE WriteFails
  BY <1>15, TypeParts, Sizes DEF WriteFails, ThreadTypes, FlagTypes, ThreadInv,
     Releasing, ResetPlaces, SocPlaces, VdmaPlaces, OutOfBoot
<1>16. CASE FirstStageWaited
  BY <1>16, TypeParts, Sizes DEF FirstStageWaited, ThreadTypes, FlagTypes, ThreadInv,
     Releasing, ResetPlaces, SocPlaces, VdmaPlaces, OutOfBoot
<1>17. CASE WaitTimeout
  BY <1>17, TypeParts, Sizes DEF WaitTimeout, ThreadTypes, FlagTypes, ThreadInv,
     Releasing, ResetPlaces, SocPlaces, VdmaPlaces, OutOfBoot
<1>18. CASE Allocate
  BY <1>18, TypeParts, Sizes DEF Allocate, ThreadTypes, FlagTypes, ThreadInv,
     Releasing, ResetPlaces, SocPlaces, VdmaPlaces, OutOfBoot
<1>19. CASE AllocateFails
  BY <1>19, TypeParts, Sizes DEF AllocateFails, ThreadTypes, FlagTypes, ThreadInv,
     Releasing, ResetPlaces, SocPlaces, VdmaPlaces, OutOfBoot
<1>20. CASE ReinitVdma
  <2>1. /\ batch \in Seq(Nat \ {0}) /\ batch # << >>
    BY TypeParts, BatchesAssumption DEF ThreadTypes
  <2>2. Len(batch) \in Nat \ {0} /\ batch[1] > 0
    BY <2>1
  <2> QED
    BY <1>20, <2>2, TypeParts, Sizes DEF ReinitVdma, ThreadTypes, FlagTypes,
       ThreadInv, Releasing, ResetPlaces, SocPlaces, VdmaPlaces, OutOfBoot
<1>21. CASE ProgramFails
  BY <1>21, TypeParts, Sizes DEF ProgramFails, ThreadTypes, FlagTypes, ThreadInv,
     Releasing, ResetPlaces, SocPlaces, VdmaPlaces, OutOfBoot
<1>22. CASE ProgramChunk
  <2>1. PICK c \in Channels, n \in Nat : Programs(c, n)
    BY <1>22, ProgramChunkPrograms
  <2>2. /\ pc = "program" /\ pc' \in {"program", "avail"}
        /\ UNCHANGED <<accelerator_type, batch, ch, boots, board, is_in_boot, num_avail>>
    BY <1>22, <2>1 DEF ProgramChunk, Programs
  <2>3. pc' = "program" => file_index' \in 1 .. Len(batch) /\ data_offset' < batch[file_index']
    BY <2>1 DEF Programs
  <2> HIDE DEF Goto, Step, Fail
  <2> QED
    BY <2>2, <2>3, TypeParts, Sizes DEF ThreadTypes, FlagTypes, ThreadInv, Releasing,
       ResetPlaces, SocPlaces, VdmaPlaces, OutOfBoot
<1>23. CASE SetNumAvail
  <2>1. ASSUME pc' = "avail", NEW c \in Channels, c >= ch' PROVE num_avail'[c] = 0
    <3>1. ch' = ch + 1 /\ ch \in Channels /\ pc = "avail"
          /\ num_avail' = [num_avail EXCEPT ![ch] = desc_program_num[ch]]
      BY <1>23, <2>1, TypeParts DEF SetNumAvail, ThreadTypes
    <3>2. c > ch
      BY <2>1, <3>1, Sizes
    <3> QED
      BY <3>1, <3>2, Sizes, TypeParts DEF ThreadInv, RegisterTypes
  <2> QED
    BY <1>23, <2>1, TypeParts, Sizes DEF SetNumAvail, ThreadTypes, FlagTypes,
       ThreadInv, Releasing, ResetPlaces, SocPlaces, VdmaPlaces, OutOfBoot
<1>24. CASE VdmaWaited
  BY <1>24, TypeParts, Sizes DEF VdmaWaited, ThreadTypes, FlagTypes, ThreadInv,
     Releasing, ResetPlaces, SocPlaces, VdmaPlaces, OutOfBoot
<1>25. CASE VdmaTimeout
  BY <1>25, TypeParts, Sizes DEF VdmaTimeout, ThreadTypes, FlagTypes, ThreadInv,
     Releasing, ResetPlaces, SocPlaces, VdmaPlaces, OutOfBoot
<1>26. CASE TriggerSecondStage
  BY <1>26, TypeParts, Sizes DEF TriggerSecondStage, ThreadTypes, FlagTypes,
     ThreadInv, Releasing, ResetPlaces, SocPlaces, VdmaPlaces, OutOfBoot
<1>27. CASE ReleaseLists
  BY <1>27, TypeParts, Sizes DEF ReleaseLists, ThreadTypes, FlagTypes, ThreadInv,
     Releasing, ResetPlaces, SocPlaces, VdmaPlaces, OutOfBoot
<1>28. CASE ReleaseMemory
  BY <1>28, TypeParts, Sizes DEF ReleaseMemory, ThreadTypes, FlagTypes, ThreadInv,
     Releasing, ResetPlaces, SocPlaces, VdmaPlaces, OutOfBoot
<1>29. CASE SecondStageWaited
  BY <1>29, TypeParts, Sizes DEF SecondStageWaited, ThreadTypes, FlagTypes,
     ThreadInv, Releasing, ResetPlaces, SocPlaces, VdmaPlaces, OutOfBoot
<1>30. CASE IrqRead
  BY <1>30, TypeParts, Sizes DEF IrqRead, ThreadTypes, FlagTypes, ThreadInv,
     Releasing, ResetPlaces, SocPlaces, VdmaPlaces, OutOfBoot
<1>31. CASE IrqHandle
  BY <1>31, TypeParts, Sizes DEF IrqHandle, ThreadTypes, FlagTypes, ThreadInv,
     Releasing, ResetPlaces, SocPlaces, VdmaPlaces, OutOfBoot
<1>32. CASE FwUp
  BY <1>32, TypeParts, Sizes DEF FwUp, ThreadTypes, FlagTypes, ThreadInv, Releasing,
     ResetPlaces, SocPlaces, VdmaPlaces, OutOfBoot
<1>33. CASE FwReset
  BY <1>33, TypeParts, Sizes DEF FwReset, ThreadTypes, FlagTypes, ThreadInv,
     Releasing, ResetPlaces, SocPlaces, VdmaPlaces, OutOfBoot
<1>34. ASSUME NEW c \in Channels, HwProcess(c) PROVE ThreadInv'
  BY <1>34, TypeParts, Sizes DEF HwProcess, ThreadTypes, FlagTypes, ThreadInv,
     Releasing, ResetPlaces, SocPlaces, VdmaPlaces, OutOfBoot
<1>35. CASE UNCHANGED vars
  BY <1>35, TypeParts, Sizes DEF vars, ThreadTypes, FlagTypes, ThreadInv, Releasing,
     ResetPlaces, SocPlaces, VdmaPlaces, OutOfBoot
<1>36. CASE ChunkFails
  BY <1>36, TypeParts, Sizes DEF ChunkFails, ThreadTypes, FlagTypes, ThreadInv,
     Releasing, ResetPlaces, SocPlaces, VdmaPlaces, OutOfBoot
<1> QED
  BY <1>1, <1>2, <1>3, <1>4, <1>5, <1>6, <1>7, <1>8, <1>9, <1>10, <1>11, <1>12, <1>13,
     <1>14, <1>15, <1>16, <1>17, <1>18, <1>19, <1>20, <1>21, <1>22, <1>23, <1>24, <1>25,
     <1>26, <1>27, <1>28, <1>29, <1>30, <1>31, <1>32, <1>33, <1>34, <1>35, <1>36
  DEF Next, Thread, Hardware

LEMMA InitSignal == Init => SignalInv
BY DEF Init, SignalInv, Releasing, VdmaPlaces, ResetPlaces

LEMMA NextSignal == TypeOK /\ ThreadInv /\ SignalInv /\ [Next]_vars => SignalInv'
<1> SUFFICES ASSUME TypeOK /\ ThreadInv /\ SignalInv, [Next]_vars PROVE SignalInv'
  OBVIOUS
<1> USE DEF threadVars, boardVars, flagVars, completionVars, programVars,
           memoryVars, hwVars, irqVars, Goto, Step, Fail
<1>1. CASE Activate
  BY <1>1, TypeParts DEF Activate, SignalInv, Raised, Quiet, ThreadTypes, FlagTypes,
     ThreadInv, Releasing, ResetPlaces, SocPlaces, VdmaPlaces, OutOfBoot
<1>2. CASE ActivateFails
  BY <1>2, TypeParts DEF ActivateFails, SignalInv, Raised, Quiet, ThreadTypes,
     FlagTypes, ThreadInv, Releasing, ResetPlaces, SocPlaces, VdmaPlaces, OutOfBoot
<1>3. CASE LoadFirmware
  BY <1>3, TypeParts DEF LoadFirmware, IsFirmwareLoaded, SignalInv, Raised, Quiet,
     ThreadTypes, FlagTypes, ThreadInv, Releasing, ResetPlaces, SocPlaces,
     VdmaPlaces, OutOfBoot
<1>4. CASE LeaveBoot
  BY <1>4, TypeParts DEF LeaveBoot, SignalInv, Raised, Quiet, ThreadTypes, FlagTypes,
     ThreadInv, Releasing, ResetPlaces, SocPlaces, VdmaPlaces, OutOfBoot
<1>5. CASE GetDriverInfo
  BY <1>5, TypeParts DEF GetDriverInfo, SignalInv, Raised, Quiet, ThreadTypes,
     FlagTypes, ThreadInv, Releasing, ResetPlaces, SocPlaces, VdmaPlaces, OutOfBoot
<1>6. CASE Deactivate
  <2>1. board' = "active" => ~err
    BY <1>6, Zenon DEF Deactivate
  <2>2. /\ irq_source = {} /\ pc = "off" /\ pc' = "idle" /\ interrupts_enabled' = FALSE
        /\ board' \in {"active", "gone", "failed"}
        /\ UNCHANGED <<irq_source, fw, soft_reset_failed>>
    BY <1>6, Zenon DEF Deactivate
  <2> HIDE DEF Goto, Step, Fail
  <2> QED
    BY <2>1, <2>2 DEF SignalInv, Releasing, VdmaPlaces, ResetPlaces
<1>7. CASE Sleep
  BY <1>7, TypeParts DEF Sleep, SignalInv, Raised, Quiet, ThreadTypes, FlagTypes,
     ThreadInv, Releasing, ResetPlaces, SocPlaces, VdmaPlaces, OutOfBoot
<1>8. CASE ResetWrite
  BY <1>8, TypeParts DEF ResetWrite, SignalInv, Raised, Quiet, ThreadTypes,
     FlagTypes, ThreadInv, Releasing, ResetPlaces, SocPlaces, VdmaPlaces, OutOfBoot
<1>9. CASE ResetReinit
  BY <1>9, TypeParts DEF ResetReinit, SignalInv, Raised, Quiet, ThreadTypes,
     FlagTypes, ThreadInv, Releasing, ResetPlaces, SocPlaces, VdmaPlaces, OutOfBoot
<1>10. CASE ResetWaited
  BY <1>10, TypeParts DEF ResetWaited, SignalInv, Raised, Quiet, ThreadTypes,
     FlagTypes, ThreadInv, Releasing, ResetPlaces, SocPlaces, VdmaPlaces, OutOfBoot
<1>11. CASE ResetBooted
  BY <1>11, TypeParts DEF ResetBooted, SignalInv, Raised, Quiet, ThreadTypes,
     FlagTypes, ThreadInv, Releasing, ResetPlaces, SocPlaces, VdmaPlaces, OutOfBoot
<1>12. CASE ResetTimeout
  BY <1>12, TypeParts DEF ResetTimeout, SignalInv, Raised, Quiet, ThreadTypes,
     FlagTypes, ThreadInv, Releasing, ResetPlaces, SocPlaces, VdmaPlaces, OutOfBoot
<1>13. CASE InitCompletions
  BY <1>13, TypeParts DEF InitCompletions, SignalInv, Raised, Quiet, ThreadTypes,
     FlagTypes, ThreadInv, Releasing, ResetPlaces, SocPlaces, VdmaPlaces, OutOfBoot
<1>14. CASE WriteFirstStage
  BY <1>14, TypeParts DEF WriteFirstStage, SignalInv, Raised, Quiet, ThreadTypes,
     FlagTypes, ThreadInv, Releasing, ResetPlaces, SocPlaces, VdmaPlaces, OutOfBoot
<1>15. CASE WriteFails
  BY <1>15, TypeParts DEF WriteFails, SignalInv, Raised, Quiet, ThreadTypes,
     FlagTypes, ThreadInv, Releasing, ResetPlaces, SocPlaces, VdmaPlaces, OutOfBoot
<1>16. CASE FirstStageWaited
  <2>1. accelerator_type \in {"SOC", "NNC"}
    BY TypeParts, KindsAssumption DEF ThreadTypes
  <2>2. /\ pc = "wait1" /\ fw_loaded_completion
        /\ pc' = IF accelerator_type = "SOC" THEN "allocate" ELSE "done"
        /\ fw_loaded_completion' <=> accelerator_type = "NNC"
        /\ UNCHANGED <<err, board, fw, soft_reset_failed, istatus, irq_source, interrupts_enabled>>
    BY <1>16, Zenon DEF FirstStageWaited
  <2> HIDE DEF Goto, Step, Fail
  <2>3. err = FALSE
    BY <2>2, TypeParts, Zenon DEF SignalInv, FlagTypes
  <2> QED
    BY <2>1, <2>2, <2>3 DEF SignalInv, Raised, Quiet, Releasing, VdmaPlaces,
       ResetPlaces, ThreadInv
<1>17. CASE WaitTimeout
  BY <1>17, TypeParts DEF WaitTimeout, SignalInv, Raised, Quiet, ThreadTypes,
     FlagTypes, ThreadInv, Releasing, ResetPlaces, SocPlaces, VdmaPlaces, OutOfBoot
<1>18. CASE Allocate
  BY <1>18, TypeParts DEF Allocate, SignalInv, Raised, Quiet, ThreadTypes, FlagTypes,
     ThreadInv, Releasing, ResetPlaces, SocPlaces, VdmaPlaces, OutOfBoot
<1>19. CASE AllocateFails
  BY <1>19, TypeParts DEF AllocateFails, SignalInv, Raised, Quiet, ThreadTypes,
     FlagTypes, ThreadInv, Releasing, ResetPlaces, SocPlaces, VdmaPlaces, OutOfBoot
<1>20. CASE ReinitVdma
  BY <1>20, TypeParts DEF ReinitVdma, SignalInv, Raised, Quiet, ThreadTypes,
     FlagTypes, ThreadInv, Releasing, ResetPlaces, SocPlaces, VdmaPlaces, OutOfBoot
<1>21. CASE ProgramFails
  BY <1>21, TypeParts DEF ProgramFails, SignalInv, Raised, Quiet, ThreadTypes,
     FlagTypes, ThreadInv, Releasing, ResetPlaces, SocPlaces, VdmaPlaces, OutOfBoot
<1>22. CASE ProgramChunk
  BY <1>22, TypeParts DEF ProgramChunk, SignalInv, Raised, Quiet, ThreadTypes,
     FlagTypes, ThreadInv, Releasing, ResetPlaces, SocPlaces, VdmaPlaces, OutOfBoot
<1>23. CASE SetNumAvail
  BY <1>23, TypeParts DEF SetNumAvail, SignalInv, Raised, Quiet, ThreadTypes,
     FlagTypes, ThreadInv, Releasing, ResetPlaces, SocPlaces, VdmaPlaces, OutOfBoot
<1>24. CASE VdmaWaited
  BY <1>24, TypeParts DEF VdmaWaited, SignalInv, Raised, Quiet, ThreadTypes,
     FlagTypes, ThreadInv, Releasing, ResetPlaces, SocPlaces, VdmaPlaces, OutOfBoot
<1>25. CASE VdmaTimeout
  BY <1>25, TypeParts DEF VdmaTimeout, SignalInv, Raised, Quiet, ThreadTypes,
     FlagTypes, ThreadInv, Releasing, ResetPlaces, SocPlaces, VdmaPlaces, OutOfBoot
<1>26. CASE TriggerSecondStage
  BY <1>26, TypeParts DEF TriggerSecondStage, SignalInv, Raised, Quiet, ThreadTypes,
     FlagTypes, ThreadInv, Releasing, ResetPlaces, SocPlaces, VdmaPlaces, OutOfBoot
<1>27. CASE ReleaseLists
  BY <1>27, TypeParts DEF ReleaseLists, SignalInv, Raised, Quiet, ThreadTypes,
     FlagTypes, ThreadInv, Releasing, ResetPlaces, SocPlaces, VdmaPlaces, OutOfBoot
<1>28. CASE ReleaseMemory
  BY <1>28, TypeParts DEF ReleaseMemory, SignalInv, Raised, Quiet, ThreadTypes,
     FlagTypes, ThreadInv, Releasing, ResetPlaces, SocPlaces, VdmaPlaces, OutOfBoot
<1>29. CASE SecondStageWaited
  BY <1>29, TypeParts DEF SecondStageWaited, SignalInv, Raised, Quiet, ThreadTypes,
     FlagTypes, ThreadInv, Releasing, ResetPlaces, SocPlaces, VdmaPlaces, OutOfBoot
<1>30. CASE IrqRead
  BY <1>30, TypeParts DEF IrqRead, SignalInv, Raised, Quiet, ThreadTypes, FlagTypes,
     ThreadInv, Releasing, ResetPlaces, SocPlaces, VdmaPlaces, OutOfBoot
<1>31. CASE IrqHandle
  BY <1>31, TypeParts DEF IrqHandle, SignalInv, Raised, Quiet, ThreadTypes,
     FlagTypes, ThreadInv, Releasing, ResetPlaces, SocPlaces, VdmaPlaces, OutOfBoot
<1>32. CASE FwUp
  BY <1>32, TypeParts DEF FwUp, SignalInv, Raised, Quiet, ThreadTypes, FlagTypes,
     ThreadInv, Releasing, ResetPlaces, SocPlaces, VdmaPlaces, OutOfBoot
<1>33. CASE FwReset
  BY <1>33, TypeParts DEF FwReset, BootIrq, SoftResetIrq, SignalInv, Raised, Quiet,
     ThreadTypes, FlagTypes, ThreadInv, Releasing, ResetPlaces, SocPlaces,
     VdmaPlaces, OutOfBoot
<1>34. ASSUME NEW c \in Channels, HwProcess(c) PROVE SignalInv'
  BY <1>34, TypeParts, Sizes DEF HwProcess, BootIrq, SignalInv, Raised, Quiet,
     ThreadTypes, FlagTypes, ThreadInv, Releasing, ResetPlaces, SocPlaces,
     VdmaPlaces, OutOfBoot
<1>35. CASE UNCHANGED vars
  BY <1>35, TypeParts DEF vars, SignalInv, Raised, Quiet, ThreadTypes, FlagTypes,
     ThreadInv, Releasing, ResetPlaces, SocPlaces, VdmaPlaces, OutOfBoot
<1>36. CASE ChunkFails
  BY <1>36, TypeParts DEF ChunkFails, SignalInv, Raised, Quiet, ThreadTypes,
     FlagTypes, ThreadInv, Releasing, ResetPlaces, SocPlaces, VdmaPlaces, OutOfBoot
<1> QED
  BY <1>1, <1>2, <1>3, <1>4, <1>5, <1>6, <1>7, <1>8, <1>9, <1>10, <1>11, <1>12, <1>13,
     <1>14, <1>15, <1>16, <1>17, <1>18, <1>19, <1>20, <1>21, <1>22, <1>23, <1>24, <1>25,
     <1>26, <1>27, <1>28, <1>29, <1>30, <1>31, <1>32, <1>33, <1>34, <1>35, <1>36
  DEF Next, Thread, Hardware

LEMMA BootInvariant == Spec => []BootInv
<1>1. Init => BootInv
  BY InitTypes, InitThread, InitSignal DEF BootInv
<1>2. BootInv /\ [Next]_vars => BootInv'
  BY NextTypes, NextThread, NextSignal DEF BootInv
<1> QED
  BY <1>1, <1>2, PTL DEF Spec

(* hailo_activate_board reports success only for a device whose firmware   *)
(* runs (or that did not answer its soft reset): for any number of boots,  *)
(* files and channels, and without any clause of the contract, no boot     *)
(* interrupt of an earlier boot or of the first stage is taken for that of *)
(* the last.                                                               *)
THEOREM ActiveCorrect == Spec => []ActiveMeansLoaded
<1>1. BootInv => ActiveMeansLoaded
  BY DEF BootInv, SignalInv, ActiveMeansLoaded, IsFirmwareLoaded
<1> QED
  BY <1>1, BootInvariant, PTL

(* boot_irq_handler loses no boot interrupt: a thread that waits for a     *)
(* stage that is up has its completion or the interrupt still to come,     *)
(* though load_soc_firmware clears fw_loaded_completion in between and the *)
(* handler may read the interrupt at any time. No clause is needed.        *)
THEOREM BootSignalCorrect == Spec => []BootSignalKept
<1>1. BootInv => BootSignalKept
  BY DEF BootInv, SignalInv, BootSignalKept, Settled, Raised
<1> QED
  BY <1>1, BootInvariant, PTL

LEMMA NextReset == "reset" \in Contract /\ BootInv /\ ResetInv /\ [Next]_vars => ResetInv'
<1> SUFFICES ASSUME "reset" \in Contract /\ BootInv /\ ResetInv, [Next]_vars PROVE ResetInv'
  OBVIOUS
<1> USE DEF threadVars, boardVars, flagVars, completionVars, programVars,
           memoryVars, hwVars, irqVars, Goto, Step, Fail
<1>1. CASE Activate
  BY <1>1 DEF Activate, ResetInv, BootInv, ThreadInv, OutOfBoot
<1>2. CASE ActivateFails
  BY <1>2 DEF ActivateFails, ResetInv, BootInv, ThreadInv, OutOfBoot
<1>3. CASE LoadFirmware
  BY <1>3 DEF LoadFirmware, ResetInv, BootInv, ThreadInv, OutOfBoot
<1>4. CASE LeaveBoot
  BY <1>4 DEF LeaveBoot, ResetInv, BootInv, ThreadInv, OutOfBoot
<1>5. CASE GetDriverInfo
  BY <1>5 DEF GetDriverInfo, ResetInv, BootInv, ThreadInv, OutOfBoot
<1>6. CASE Deactivate
  BY <1>6 DEF Deactivate, ResetInv, BootInv, ThreadInv, OutOfBoot
<1>7. CASE Sleep
  BY <1>7 DEF Sleep, ResetInv, BootInv, ThreadInv, OutOfBoot
<1>8. CASE ResetWrite
  BY <1>8 DEF ResetWrite, ResetInv, BootInv, ThreadInv, OutOfBoot
<1>9. CASE ResetReinit
  BY <1>9 DEF ResetReinit, ResetInv, BootInv, ThreadInv, OutOfBoot
<1>10. CASE ResetWaited
  BY <1>10 DEF ResetWaited, ResetInv, BootInv, ThreadInv, OutOfBoot
<1>11. CASE ResetBooted
  BY <1>11 DEF ResetBooted, ResetInv, BootInv, ThreadInv, OutOfBoot
<1>12. CASE ResetTimeout
  BY <1>12 DEF ResetTimeout, ResetInv, BootInv, ThreadInv, OutOfBoot
<1>13. CASE InitCompletions
  BY <1>13 DEF InitCompletions, ResetInv, BootInv, ThreadInv, OutOfBoot
<1>14. CASE WriteFirstStage
  BY <1>14 DEF WriteFirstStage, ResetInv, BootInv, ThreadInv, OutOfBoot
<1>15. CASE WriteFails
  BY <1>15 DEF WriteFails, ResetInv, BootInv, ThreadInv, OutOfBoot
<1>16. CASE FirstStageWaited
  BY <1>16 DEF FirstStageWaited, ResetInv, BootInv, ThreadInv, OutOfBoot
<1>17. CASE WaitTimeout
  BY <1>17 DEF WaitTimeout, ResetInv, BootInv, ThreadInv, OutOfBoot
<1>18. CASE Allocate
  BY <1>18 DEF Allocate, ResetInv, BootInv, ThreadInv, OutOfBoot
<1>19. CASE AllocateFails
  BY <1>19 DEF AllocateFails, ResetInv, BootInv, ThreadInv, OutOfBoot
<1>20. CASE ReinitVdma
  BY <1>20 DEF ReinitVdma, ResetInv, BootInv, ThreadInv, OutOfBoot
<1>21. CASE ProgramFails
  BY <1>21 DEF ProgramFails, ResetInv, BootInv, ThreadInv, OutOfBoot
<1>22. CASE ProgramChunk
  <2>1. pc' \notin {"reset_reinit", "reset_wait"}
    BY <1>22 DEF ProgramChunk
  <2> QED
    BY <2>1 DEF ResetInv
<1>23. CASE SetNumAvail
  BY <1>23 DEF SetNumAvail, ResetInv, BootInv, ThreadInv, OutOfBoot
<1>24. CASE VdmaWaited
  BY <1>24 DEF VdmaWaited, ResetInv, BootInv, ThreadInv, OutOfBoot
<1>25. CASE VdmaTimeout
  BY <1>25 DEF VdmaTimeout, ResetInv, BootInv, ThreadInv, OutOfBoot
<1>26. CASE TriggerSecondStage
  BY <1>26 DEF TriggerSecondStage, ResetInv, BootInv, ThreadInv, OutOfBoot
<1>27. CASE ReleaseLists
  BY <1>27 DEF ReleaseLists, ResetInv, BootInv, ThreadInv, OutOfBoot
<1>28. CASE ReleaseMemory
  BY <1>28 DEF ReleaseMemory, ResetInv, BootInv, ThreadInv, OutOfBoot
<1>29. CASE SecondStageWaited
  BY <1>29 DEF SecondStageWaited, ResetInv, BootInv, ThreadInv, OutOfBoot
<1>30. CASE IrqRead
  BY <1>30 DEF IrqRead, ResetInv, BootInv, ThreadInv, OutOfBoot
<1>31. CASE IrqHandle
  BY <1>31, TypeParts DEF IrqHandle, ResetInv, BootInv, ThreadInv, OutOfBoot,
     ThreadTypes
<1>32. CASE FwUp
  BY <1>32 DEF FwUp, ResetInv, BootInv, ThreadInv, OutOfBoot
<1>33. CASE FwReset
  BY <1>33 DEF FwReset, ResetInv, BootInv, ThreadInv, OutOfBoot
<1>34. ASSUME NEW c \in Channels, HwProcess(c) PROVE ResetInv'
  BY <1>34 DEF HwProcess, ResetInv, BootInv, ThreadInv, OutOfBoot
<1>35. CASE UNCHANGED vars
  BY <1>35 DEF vars, ResetInv, BootInv, ThreadInv, OutOfBoot
<1>36. CASE ChunkFails
  BY <1>36 DEF ChunkFails, ResetInv, BootInv, ThreadInv, OutOfBoot
<1> QED
  BY <1>1, <1>2, <1>3, <1>4, <1>5, <1>6, <1>7, <1>8, <1>9, <1>10, <1>11, <1>12, <1>13,
     <1>14, <1>15, <1>16, <1>17, <1>18, <1>19, <1>20, <1>21, <1>22, <1>23, <1>24, <1>25,
     <1>26, <1>27, <1>28, <1>29, <1>30, <1>31, <1>32, <1>33, <1>34, <1>35, <1>36
  DEF Next, Thread, Hardware

(* The same of the answer to a soft reset, which hailo_pcie_soft_reset     *)
(* clears after it has asked: of a device that does not answer before.     *)
THEOREM ResetSignalCorrect == "reset" \in Contract => (Spec => []ResetSignalKept)
<1> SUFFICES ASSUME "reset" \in Contract PROVE Spec => []ResetSignalKept
  OBVIOUS
<1>1. Init => ResetInv
  BY DEF Init, ResetInv
<1>2. BootInv /\ ResetInv /\ [Next]_vars => ResetInv'
  BY NextReset
<1>3. ResetInv => ResetSignalKept
  BY DEF ResetInv, ResetSignalKept, Settled
<1> QED
  BY <1>1, <1>2, <1>3, BootInvariant, PTL DEF Spec

----------------------------------------------------------------------------
(* The memory of a boot, on boards that keep their power.                  *)

LEMMA InitMemory == Init => OnceInv /\ MemoryInv /\ FreeInv
<1> SUFFICES ASSUME Init PROVE OnceInv /\ MemoryInv /\ FreeInv
  OBVIOUS
<1>1. Untouched
  BY DEF Init, Untouched
<1>2. pc = "idle" /\ board = "new" /\ soft_reset_failed = FALSE /\ freed_twice = FALSE
  BY DEF Init
<1>3. OnceInv
  BY <1>1, <1>2 DEF OnceInv
<1>4. MemoryInv
  BY <1>1, <1>2 DEF MemoryInv, Untouched, VdmaPlaces, Releasing
<1>5. FreeInv
  BY <1>2 DEF FreeInv, Releasing
<1> QED
  BY <1>3, <1>4, <1>5

LEMMA NextOnce == "power" \in Contract /\ BootInv /\ OnceInv /\ [Next]_vars => OnceInv'
<1> SUFFICES ASSUME "power" \in Contract /\ BootInv /\ OnceInv, [Next]_vars PROVE OnceInv'
  OBVIOUS
<1> USE DEF threadVars, boardVars, flagVars, completionVars, programVars,
           memoryVars, hwVars, irqVars, Goto, Step, Fail
<1>1. CASE Activate
  BY <1>1, KindsAssumption, TypeParts DEF Activate, OnceInv, Untouched, BootInv,
     ThreadTypes, ThreadInv, SignalInv, IsFirmwareLoaded, Releasing, ResetPlaces,
     SocPlaces, VdmaPlaces, OutOfBoot
<1>2. CASE ActivateFails
  BY <1>2, KindsAssumption, TypeParts DEF ActivateFails, OnceInv, Untouched, BootInv,
     ThreadTypes, ThreadInv, SignalInv, IsFirmwareLoaded, Releasing, ResetPlaces,
     SocPlaces, VdmaPlaces, OutOfBoot
<1>3. CASE LoadFirmware
  BY <1>3, KindsAssumption, TypeParts DEF LoadFirmware, OnceInv, Untouched, BootInv,
     ThreadTypes, ThreadInv, SignalInv, IsFirmwareLoaded, Releasing, ResetPlaces,
     SocPlaces, VdmaPlaces, OutOfBoot
<1>4. CASE LeaveBoot
  BY <1>4, KindsAssumption, TypeParts DEF LeaveBoot, OnceInv, Untouched, BootInv,
     ThreadTypes, ThreadInv, SignalInv, IsFirmwareLoaded, Releasing, ResetPlaces,
     SocPlaces, VdmaPlaces, OutOfBoot
<1>5. CASE GetDriverInfo
  BY <1>5, KindsAssumption, TypeParts DEF GetDriverInfo, OnceInv, Untouched, BootInv,
     ThreadTypes, ThreadInv, SignalInv, IsFirmwareLoaded, Releasing, ResetPlaces,
     SocPlaces, VdmaPlaces, OutOfBoot
<1>6. CASE Deactivate
  <2>1. board' = "active" => ~err
    BY <1>6, Zenon DEF Deactivate
  <2>2. board' = "failed" => boots # 1
    BY <1>6, Zenon DEF Deactivate
  <2>3. /\ pc = "off" /\ pc' = "idle" /\ board' \in {"active", "gone", "failed"}
        /\ UNCHANGED <<accelerator_type, fw, soft_reset_failed>> /\ (Untouched => Untouched')
    BY <1>6, Zenon DEF Deactivate, Untouched
  <2> HIDE DEF Goto, Step, Fail
  <2> QED
    BY <2>1, <2>2, <2>3 DEF OnceInv, BootInv, ThreadInv, SignalInv
<1>7. CASE Sleep
  BY <1>7, KindsAssumption, TypeParts DEF Sleep, OnceInv, Untouched, BootInv,
     ThreadTypes, ThreadInv, SignalInv, IsFirmwareLoaded, Releasing, ResetPlaces,
     SocPlaces, VdmaPlaces, OutOfBoot
<1>8. CASE ResetWrite
  BY <1>8, KindsAssumption, TypeParts DEF ResetWrite, OnceInv, Untouched, BootInv,
     ThreadTypes, ThreadInv, SignalInv, IsFirmwareLoaded, Releasing, ResetPlaces,
     SocPlaces, VdmaPlaces, OutOfBoot
<1>9. CASE ResetReinit
  BY <1>9, KindsAssumption, TypeParts DEF ResetReinit, OnceInv, Untouched, BootInv,
     ThreadTypes, ThreadInv, SignalInv, IsFirmwareLoaded, Releasing, ResetPlaces,
     SocPlaces, VdmaPlaces, OutOfBoot
<1>10. CASE ResetWaited
  BY <1>10, KindsAssumption, TypeParts DEF ResetWaited, OnceInv, Untouched, BootInv,
     ThreadTypes, ThreadInv, SignalInv, IsFirmwareLoaded, Releasing, ResetPlaces,
     SocPlaces, VdmaPlaces, OutOfBoot
<1>11. CASE ResetBooted
  BY <1>11, KindsAssumption, TypeParts DEF ResetBooted, OnceInv, Untouched, BootInv,
     ThreadTypes, ThreadInv, SignalInv, IsFirmwareLoaded, Releasing, ResetPlaces,
     SocPlaces, VdmaPlaces, OutOfBoot
<1>12. CASE ResetTimeout
  BY <1>12, KindsAssumption, TypeParts DEF ResetTimeout, OnceInv, Untouched, BootInv,
     ThreadTypes, ThreadInv, SignalInv, IsFirmwareLoaded, Releasing, ResetPlaces,
     SocPlaces, VdmaPlaces, OutOfBoot
<1>13. CASE InitCompletions
  BY <1>13, KindsAssumption, TypeParts DEF InitCompletions, OnceInv, Untouched,
     BootInv, ThreadTypes, ThreadInv, SignalInv, IsFirmwareLoaded, Releasing,
     ResetPlaces, SocPlaces, VdmaPlaces, OutOfBoot
<1>14. CASE WriteFirstStage
  BY <1>14, KindsAssumption, TypeParts DEF WriteFirstStage, OnceInv, Untouched,
     BootInv, ThreadTypes, ThreadInv, SignalInv, IsFirmwareLoaded, Releasing,
     ResetPlaces, SocPlaces, VdmaPlaces, OutOfBoot
<1>15. CASE WriteFails
  BY <1>15, KindsAssumption, TypeParts DEF WriteFails, OnceInv, Untouched, BootInv,
     ThreadTypes, ThreadInv, SignalInv, IsFirmwareLoaded, Releasing, ResetPlaces,
     SocPlaces, VdmaPlaces, OutOfBoot
<1>16. CASE FirstStageWaited
  BY <1>16, KindsAssumption, TypeParts DEF FirstStageWaited, OnceInv, Untouched,
     BootInv, ThreadTypes, ThreadInv, SignalInv, IsFirmwareLoaded, Releasing,
     ResetPlaces, SocPlaces, VdmaPlaces, OutOfBoot
<1>17. CASE WaitTimeout
  BY <1>17, KindsAssumption, TypeParts DEF WaitTimeout, OnceInv, Untouched, BootInv,
     ThreadTypes, ThreadInv, SignalInv, IsFirmwareLoaded, Releasing, ResetPlaces,
     SocPlaces, VdmaPlaces, OutOfBoot
<1>18. CASE Allocate
  BY <1>18, KindsAssumption, TypeParts DEF Allocate, OnceInv, Untouched, BootInv,
     ThreadTypes, ThreadInv, SignalInv, IsFirmwareLoaded, Releasing, ResetPlaces,
     SocPlaces, VdmaPlaces, OutOfBoot
<1>19. CASE AllocateFails
  BY <1>19, KindsAssumption, TypeParts DEF AllocateFails, OnceInv, Untouched,
     BootInv, ThreadTypes, ThreadInv, SignalInv, IsFirmwareLoaded, Releasing,
     ResetPlaces, SocPlaces, VdmaPlaces, OutOfBoot
<1>20. CASE ReinitVdma
  BY <1>20, KindsAssumption, TypeParts DEF ReinitVdma, OnceInv, Untouched, BootInv,
     ThreadTypes, ThreadInv, SignalInv, IsFirmwareLoaded, Releasing, ResetPlaces,
     SocPlaces, VdmaPlaces, OutOfBoot
<1>21. CASE ProgramFails
  BY <1>21, KindsAssumption, TypeParts DEF ProgramFails, OnceInv, Untouched, BootInv,
     ThreadTypes, ThreadInv, SignalInv, IsFirmwareLoaded, Releasing, ResetPlaces,
     SocPlaces, VdmaPlaces, OutOfBoot
<1>22. CASE ProgramChunk
  <2>1. accelerator_type = "SOC" /\ board = "new" /\ pc = "program"
    BY <1>22 DEF ProgramChunk, OnceInv, BootInv, ThreadInv, SocPlaces, VdmaPlaces
  <2>2. UNCHANGED <<accelerator_type, board, soft_reset_failed>> /\ pc' \in {"program", "avail"}
    BY <1>22 DEF ProgramChunk
  <2> QED
    BY <2>1, <2>2 DEF OnceInv
<1>23. CASE SetNumAvail
  BY <1>23, KindsAssumption, TypeParts DEF SetNumAvail, OnceInv, Untouched, BootInv,
     ThreadTypes, ThreadInv, SignalInv, IsFirmwareLoaded, Releasing, ResetPlaces,
     SocPlaces, VdmaPlaces, OutOfBoot
<1>24. CASE VdmaWaited
  BY <1>24, KindsAssumption, TypeParts DEF VdmaWaited, OnceInv, Untouched, BootInv,
     ThreadTypes, ThreadInv, SignalInv, IsFirmwareLoaded, Releasing, ResetPlaces,
     SocPlaces, VdmaPlaces, OutOfBoot
<1>25. CASE VdmaTimeout
  BY <1>25, KindsAssumption, TypeParts DEF VdmaTimeout, OnceInv, Untouched, BootInv,
     ThreadTypes, ThreadInv, SignalInv, IsFirmwareLoaded, Releasing, ResetPlaces,
     SocPlaces, VdmaPlaces, OutOfBoot
<1>26. CASE TriggerSecondStage
  BY <1>26, KindsAssumption, TypeParts DEF TriggerSecondStage, OnceInv, Untouched,
     BootInv, ThreadTypes, ThreadInv, SignalInv, IsFirmwareLoaded, Releasing,
     ResetPlaces, SocPlaces, VdmaPlaces, OutOfBoot
<1>27. CASE ReleaseLists
  BY <1>27, KindsAssumption, TypeParts DEF ReleaseLists, OnceInv, Untouched, BootInv,
     ThreadTypes, ThreadInv, SignalInv, IsFirmwareLoaded, Releasing, ResetPlaces,
     SocPlaces, VdmaPlaces, OutOfBoot
<1>28. CASE ReleaseMemory
  BY <1>28, KindsAssumption, TypeParts DEF ReleaseMemory, OnceInv, Untouched,
     BootInv, ThreadTypes, ThreadInv, SignalInv, IsFirmwareLoaded, Releasing,
     ResetPlaces, SocPlaces, VdmaPlaces, OutOfBoot
<1>29. CASE SecondStageWaited
  BY <1>29, KindsAssumption, TypeParts DEF SecondStageWaited, OnceInv, Untouched,
     BootInv, ThreadTypes, ThreadInv, SignalInv, IsFirmwareLoaded, Releasing,
     ResetPlaces, SocPlaces, VdmaPlaces, OutOfBoot
<1>30. CASE IrqRead
  BY <1>30, KindsAssumption, TypeParts DEF IrqRead, OnceInv, Untouched, BootInv,
     ThreadTypes, ThreadInv, SignalInv, IsFirmwareLoaded, Releasing, ResetPlaces,
     SocPlaces, VdmaPlaces, OutOfBoot
<1>31. CASE IrqHandle
  BY <1>31, KindsAssumption, TypeParts DEF IrqHandle, OnceInv, Untouched, BootInv,
     ThreadTypes, ThreadInv, SignalInv, IsFirmwareLoaded, Releasing, ResetPlaces,
     SocPlaces, VdmaPlaces, OutOfBoot
<1>32. CASE FwUp
  BY <1>32, KindsAssumption, TypeParts DEF FwUp, OnceInv, Untouched, BootInv,
     ThreadTypes, ThreadInv, SignalInv, IsFirmwareLoaded, Releasing, ResetPlaces,
     SocPlaces, VdmaPlaces, OutOfBoot
<1>33. CASE FwReset
  BY <1>33, KindsAssumption, TypeParts DEF FwReset, OnceInv, Untouched, BootInv,
     ThreadTypes, ThreadInv, SignalInv, IsFirmwareLoaded, Releasing, ResetPlaces,
     SocPlaces, VdmaPlaces, OutOfBoot
<1>34. ASSUME NEW c \in Channels, HwProcess(c) PROVE OnceInv'
  BY <1>34, KindsAssumption, TypeParts DEF HwProcess, OnceInv, Untouched, BootInv,
     ThreadTypes, ThreadInv, SignalInv, IsFirmwareLoaded, Releasing, ResetPlaces,
     SocPlaces, VdmaPlaces, OutOfBoot
<1>35. CASE UNCHANGED vars
  BY <1>35, KindsAssumption, TypeParts DEF vars, OnceInv, Untouched, BootInv,
     ThreadTypes, ThreadInv, SignalInv, IsFirmwareLoaded, Releasing, ResetPlaces,
     SocPlaces, VdmaPlaces, OutOfBoot
<1>36. CASE ChunkFails
  BY <1>36, KindsAssumption, TypeParts DEF ChunkFails, OnceInv, Untouched, BootInv,
     ThreadTypes, ThreadInv, SignalInv, IsFirmwareLoaded, Releasing, ResetPlaces,
     SocPlaces, VdmaPlaces, OutOfBoot
<1> QED
  BY <1>1, <1>2, <1>3, <1>4, <1>5, <1>6, <1>7, <1>8, <1>9, <1>10, <1>11, <1>12, <1>13,
     <1>14, <1>15, <1>16, <1>17, <1>18, <1>19, <1>20, <1>21, <1>22, <1>23, <1>24, <1>25,
     <1>26, <1>27, <1>28, <1>29, <1>30, <1>31, <1>32, <1>33, <1>34, <1>35, <1>36
  DEF Next, Thread, Hardware

LEMMA NextMemory == BootInv /\ OnceInv /\ MemoryInv /\ [Next]_vars => MemoryInv'
<1> SUFFICES ASSUME BootInv /\ OnceInv /\ MemoryInv, [Next]_vars PROVE MemoryInv'
  OBVIOUS
<1> USE DEF threadVars, boardVars, flagVars, completionVars, programVars,
           memoryVars, hwVars, irqVars, Goto, Step, Fail
<1>1. CASE Activate
  BY <1>1, Sizes DEF Activate, MemoryInv, BootInv, ThreadInv, VdmaPlaces, Releasing
<1>2. CASE ActivateFails
  BY <1>2, Sizes DEF ActivateFails, MemoryInv, BootInv, ThreadInv, VdmaPlaces, Releasing
<1>3. CASE LoadFirmware
  BY <1>3, Sizes DEF LoadFirmware, MemoryInv, BootInv, ThreadInv, VdmaPlaces, Releasing
<1>4. CASE LeaveBoot
  BY <1>4, Sizes DEF LeaveBoot, MemoryInv, BootInv, ThreadInv, VdmaPlaces, Releasing
<1>5. CASE GetDriverInfo
  BY <1>5, Sizes DEF GetDriverInfo, MemoryInv, BootInv, ThreadInv, VdmaPlaces, Releasing
<1>6. CASE Deactivate
  BY <1>6, Sizes DEF Deactivate, MemoryInv, BootInv, ThreadInv, VdmaPlaces, Releasing
<1>7. CASE Sleep
  BY <1>7, Sizes DEF Sleep, MemoryInv, BootInv, ThreadInv, VdmaPlaces, Releasing
<1>8. CASE ResetWrite
  BY <1>8, Sizes DEF ResetWrite, MemoryInv, BootInv, ThreadInv, VdmaPlaces, Releasing
<1>9. CASE ResetReinit
  BY <1>9, Sizes DEF ResetReinit, MemoryInv, BootInv, ThreadInv, VdmaPlaces, Releasing
<1>10. CASE ResetWaited
  BY <1>10, Sizes DEF ResetWaited, MemoryInv, BootInv, ThreadInv, VdmaPlaces, Releasing
<1>11. CASE ResetBooted
  BY <1>11, Sizes DEF ResetBooted, MemoryInv, BootInv, ThreadInv, VdmaPlaces, Releasing
<1>12. CASE ResetTimeout
  BY <1>12, Sizes DEF ResetTimeout, MemoryInv, BootInv, ThreadInv, VdmaPlaces, Releasing
<1>13. CASE InitCompletions
  BY <1>13, Sizes DEF InitCompletions, MemoryInv, BootInv, ThreadInv, VdmaPlaces,
     Releasing
<1>14. CASE WriteFirstStage
  BY <1>14, Sizes DEF WriteFirstStage, MemoryInv, BootInv, ThreadInv, VdmaPlaces,
     Releasing
<1>15. CASE WriteFails
  BY <1>15, Sizes DEF WriteFails, MemoryInv, BootInv, ThreadInv, VdmaPlaces, Releasing
<1>16. CASE FirstStageWaited
  BY <1>16, Sizes DEF FirstStageWaited, MemoryInv, BootInv, ThreadInv, VdmaPlaces,
     Releasing
<1>17. CASE WaitTimeout
  BY <1>17, Sizes DEF WaitTimeout, MemoryInv, BootInv, ThreadInv, VdmaPlaces, Releasing
<1>18. CASE Allocate
  <2>1. accelerator_type = "SOC" /\ board = "new" /\ pc = "allocate" /\ ch = 0
    BY <1>18, Sizes DEF Allocate, OnceInv, BootInv, ThreadInv, SocPlaces, VdmaPlaces,
       Releasing
  <2>2. Untouched
    BY <2>1 DEF OnceInv
  <2>3. /\ pc' = "reinit" /\ \A c \in Channels : num_avail'[c] = 0
        /\ \A c \in Channels, p \in Parts : res'[c][p] = "live"
        /\ UNCHANGED desc_program_num
    BY <1>18 DEF Allocate
  <2> HIDE DEF Goto, Step, Fail
  <2> QED
    BY <2>2, <2>3 DEF Untouched, MemoryInv, VdmaPlaces, Releasing
<1>19. CASE AllocateFails
  <2>1. accelerator_type = "SOC" /\ board = "new" /\ pc = "allocate" /\ ch = 0
    BY <1>19, Sizes DEF AllocateFails, OnceInv, BootInv, ThreadInv, SocPlaces,
       VdmaPlaces, Releasing
  <2>2. Untouched
    BY <2>1 DEF OnceInv
  <2>3. /\ pc' = "release_lists" /\ ch' = 0 /\ UNCHANGED <<desc_program_num, num_avail, descs>>
    BY <1>19 DEF AllocateFails
  <2>4. \A c \in Channels :
          /\ num_avail'[c] <= desc_program_num'[c]
          /\ \A d \in 1 .. desc_program_num'[c] : descs'[c][d] # NoDesc
    BY <2>3 DEF MemoryInv
  <2>5. pc' \notin VdmaPlaces /\ pc' \in Releasing /\ pc' # "release"
    BY <2>3 DEF VdmaPlaces, Releasing
  <2>6. \A c \in Channels : ~(c < ch')
    BY <2>3, Sizes
  <2> HIDE DEF Goto, Step, Fail, VdmaPlaces, Releasing
  <2> QED
    BY <2>4, <2>5, <2>6 DEF MemoryInv
<1>20. CASE ReinitVdma
  BY <1>20, Sizes DEF ReinitVdma, MemoryInv, BootInv, ThreadInv, VdmaPlaces, Releasing
<1>21. CASE ProgramFails
  BY <1>21, Sizes DEF ProgramFails, MemoryInv, BootInv, ThreadInv, VdmaPlaces, Releasing
<1>22. CASE ProgramChunk
  <2>1. PICK c \in Channels, n \in Nat : Programs(c, n)
    BY <1>22, ProgramChunkPrograms DEF BootInv
  <2>2. /\ pc = "program" /\ pc' \in {"program", "avail"} /\ UNCHANGED <<num_avail, res>>
    BY <1>22, <2>1 DEF ProgramChunk, Programs
  <2>3. ASSUME NEW k \in Channels
        PROVE  /\ num_avail'[k] <= desc_program_num'[k]
               /\ \A d \in 1 .. desc_program_num'[k] : descs'[k][d] # NoDesc
    <3>1. num_avail[k] = 0 /\ desc_program_num[k] \in 0 .. Usable
      BY <2>2, TypeParts DEF BootInv, ThreadInv, ProgramTypes
    <3>2. CASE k # c
      BY <2>1, <2>2, <3>1, <3>2, TypeParts, Sizes, SMTT(40) DEF Programs, BootInv,
         ProgramTypes, MemoryInv
    <3>3. CASE k = c
      <4>1. desc_program_num'[c] = desc_program_num[c] + n
        BY <2>1, TypeParts DEF Programs, BootInv, ProgramTypes
      <4>2. ASSUME NEW d \in 1 .. desc_program_num[c] + n PROVE descs'[c][d] # NoDesc
        <5>1. d \in 1 .. Usable
          BY <2>1, <3>1, <3>3, Sizes DEF Programs
        <5>2. CASE d \in desc_program_num[c] + 1 .. desc_program_num[c] + n
          BY <2>1, <5>1, <5>2, NoDescAssumption DEF Programs
        <5>3. CASE d \notin desc_program_num[c] + 1 .. desc_program_num[c] + n
          <6>1. descs'[c][d] = descs[c][d]
            BY <2>1, <5>1, <5>3 DEF Programs
          <6>2. d \in 1 .. desc_program_num[c]
            BY <3>1, <3>3, <5>3, Sizes
          <6> QED
            BY <6>1, <6>2 DEF MemoryInv
        <5> QED
          BY <5>2, <5>3
      <4> QED
        BY <2>2, <3>1, <3>3, <4>1, <4>2, Sizes
    <3> QED
      BY <3>2, <3>3
  <2> HIDE DEF Goto, Step, Fail
  <2> QED
    BY <2>2, <2>3 DEF MemoryInv, VdmaPlaces, Releasing
<1>23. CASE SetNumAvail
  <2>1. /\ pc = "avail" /\ pc' \in {"avail", "wait_vdma"}
        /\ num_avail' = [num_avail EXCEPT ![ch] = desc_program_num[ch]]
        /\ UNCHANGED <<desc_program_num, descs, res>>
    BY <1>23 DEF SetNumAvail
  <2>2. ASSUME NEW c \in Channels PROVE num_avail'[c] <= desc_program_num[c]
    <3>1. desc_program_num[c] \in Nat /\ num_avail \in [Channels -> 0 .. Usable]
      BY TypeParts, Sizes DEF BootInv, ProgramTypes, RegisterTypes
    <3> QED
      BY <2>1, <3>1 DEF MemoryInv
  <2> HIDE DEF Goto, Step, Fail
  <2> QED
    BY <2>1, <2>2 DEF MemoryInv, VdmaPlaces, Releasing
<1>24. CASE VdmaWaited
  BY <1>24, Sizes DEF VdmaWaited, MemoryInv, BootInv, ThreadInv, VdmaPlaces, Releasing
<1>25. CASE VdmaTimeout
  BY <1>25, Sizes DEF VdmaTimeout, MemoryInv, BootInv, ThreadInv, VdmaPlaces, Releasing
<1>26. CASE TriggerSecondStage
  BY <1>26, Sizes DEF TriggerSecondStage, MemoryInv, BootInv, ThreadInv, VdmaPlaces,
     Releasing
<1>27. CASE ReleaseLists
  <2>1. /\ pc = "release_lists" /\ pc' = "release" /\ ch' = ch
        /\ UNCHANGED <<desc_program_num, descs, num_avail, started>>
    BY <1>27 DEF ReleaseLists
  <2>2. ch \in Channels
    BY TypeParts DEF BootInv, ThreadTypes
  <2>3. /\ \A c \in Channels : c # ch => res'[c] = res[c]
        /\ \A p \in {Host, Device} : res'[ch][p] # "live"
    BY <1>27, <2>2, TypeParts DEF ReleaseLists, Free, BootInv, MemoryTypes, Parts
  <2> HIDE DEF Goto, Step, Fail
  <2> QED
    BY <2>1, <2>2, <2>3, Sizes DEF MemoryInv, VdmaPlaces, Releasing
<1>28. CASE ReleaseMemory
  <2>1. /\ pc = "release" /\ started' = started \ {ch}
        /\ UNCHANGED <<desc_program_num, descs, num_avail>>
    BY <1>28 DEF ReleaseMemory, StopChannel
  <2>2. ch \in Channels /\ started \subseteq Channels
    BY TypeParts DEF BootInv, ThreadTypes, SetTypes
  <2>3. /\ \A c \in Channels : c # ch => res'[c] = res[c]
        /\ \A p \in Parts : res'[ch][p] # "live"
    <3>1. \A p \in Parts : res'[ch][p] =
            IF p \in {Memory} /\ res[ch][p] # "null" THEN "freed" ELSE res[ch][p]
      BY <1>28, <2>2, TypeParts DEF ReleaseMemory, Free, BootInv, MemoryTypes
    <3>2. \A c \in Channels : c # ch => res'[c] = res[c]
      BY <1>28, <2>2, TypeParts DEF ReleaseMemory, Free, BootInv, MemoryTypes
    <3>3. res[ch][Host] # "live" /\ res[ch][Device] # "live"
      BY <2>1 DEF MemoryInv
    <3> QED
      BY <3>1, <3>2, <3>3 DEF Parts, Host, Device, Memory
  <2>4. \A c \in Channels : c < ch => c \notin started /\ \A p \in Parts : res[c][p] # "live"
    BY <2>1 DEF MemoryInv, Releasing
  <2>5. \A c \in Channels : c <= ch => c \notin started' /\ \A p \in Parts : res'[c][p] # "live"
    BY <2>1, <2>2, <2>3, <2>4, Sizes
  <2>6. CASE ch < NumChannels - 1
    <3>1. pc' = "release_lists" /\ ch' = ch + 1
      BY <1>28, <2>6 DEF ReleaseMemory
    <3>2. \A c \in Channels : c < ch' => c <= ch
      BY <2>2, <3>1, Sizes
    <3> HIDE DEF Goto, Step, Fail
    <3> QED
      BY <2>1, <2>5, <3>1, <3>2 DEF MemoryInv, VdmaPlaces, Releasing
  <2>7. CASE ~(ch < NumChannels - 1)
    <3>1. pc' \in {"done", "wait2"}
      BY <1>28, <2>7 DEF ReleaseMemory
    <3>2. \A c \in Channels : c <= ch
      BY <2>2, <2>7, SizesAssumption DEF Channels
    <3>3. started' = {}
      BY <2>1, <2>2, <2>5, <3>2
    <3> HIDE DEF Goto, Step, Fail
    <3> QED
      BY <2>1, <2>5, <3>1, <3>2, <3>3 DEF MemoryInv, VdmaPlaces, Releasing
  <2> QED
    BY <2>6, <2>7
<1>29. CASE SecondStageWaited
  BY <1>29, Sizes DEF SecondStageWaited, MemoryInv, BootInv, ThreadInv, VdmaPlaces,
     Releasing
<1>30. CASE IrqRead
  BY <1>30, Sizes DEF IrqRead, MemoryInv, BootInv, ThreadInv, VdmaPlaces, Releasing
<1>31. CASE IrqHandle
  BY <1>31, Sizes DEF IrqHandle, MemoryInv, BootInv, ThreadInv, VdmaPlaces, Releasing
<1>32. CASE FwUp
  BY <1>32, Sizes DEF FwUp, MemoryInv, BootInv, ThreadInv, VdmaPlaces, Releasing
<1>33. CASE FwReset
  BY <1>33, Sizes DEF FwReset, MemoryInv, BootInv, ThreadInv, VdmaPlaces, Releasing
<1>34. ASSUME NEW c \in Channels, HwProcess(c) PROVE MemoryInv'
  BY <1>34, Sizes DEF HwProcess, MemoryInv, BootInv, ThreadInv, VdmaPlaces, Releasing
<1>35. CASE UNCHANGED vars
  BY <1>35, Sizes DEF vars, MemoryInv, BootInv, ThreadInv, VdmaPlaces, Releasing
<1>36. CASE ChunkFails
  BY <1>36, Sizes DEF ChunkFails, MemoryInv, BootInv, ThreadInv, VdmaPlaces, Releasing
<1> QED
  BY <1>1, <1>2, <1>3, <1>4, <1>5, <1>6, <1>7, <1>8, <1>9, <1>10, <1>11, <1>12, <1>13,
     <1>14, <1>15, <1>16, <1>17, <1>18, <1>19, <1>20, <1>21, <1>22, <1>23, <1>24, <1>25,
     <1>26, <1>27, <1>28, <1>29, <1>30, <1>31, <1>32, <1>33, <1>34, <1>35, <1>36
  DEF Next, Thread, Hardware

LEMMA NextFree ==
  "memory" \in Contract /\ BootInv /\ OnceInv /\ MemoryInv /\ FreeInv /\ [Next]_vars => FreeInv'
<1> SUFFICES ASSUME "memory" \in Contract, BootInv, OnceInv, MemoryInv, FreeInv, [Next]_vars
             PROVE  FreeInv'
  OBVIOUS
<1> USE DEF threadVars, boardVars, flagVars, completionVars, programVars,
           memoryVars, hwVars, irqVars, Goto, Step, Fail
<1>1. CASE Activate
  BY <1>1, Sizes DEF Activate, FreeInv, MemoryInv, BootInv, ThreadInv, VdmaPlaces,
     Releasing, Parts
<1>2. CASE ActivateFails
  BY <1>2, Sizes DEF ActivateFails, FreeInv, MemoryInv, BootInv, ThreadInv,
     VdmaPlaces, Releasing, Parts
<1>3. CASE LoadFirmware
  BY <1>3, Sizes DEF LoadFirmware, FreeInv, MemoryInv, BootInv, ThreadInv,
     VdmaPlaces, Releasing, Parts
<1>4. CASE LeaveBoot
  BY <1>4, Sizes DEF LeaveBoot, FreeInv, MemoryInv, BootInv, ThreadInv, VdmaPlaces,
     Releasing, Parts
<1>5. CASE GetDriverInfo
  BY <1>5, Sizes DEF GetDriverInfo, FreeInv, MemoryInv, BootInv, ThreadInv,
     VdmaPlaces, Releasing, Parts
<1>6. CASE Deactivate
  BY <1>6, Sizes DEF Deactivate, FreeInv, MemoryInv, BootInv, ThreadInv, VdmaPlaces,
     Releasing, Parts
<1>7. CASE Sleep
  BY <1>7, Sizes DEF Sleep, FreeInv, MemoryInv, BootInv, ThreadInv, VdmaPlaces,
     Releasing, Parts
<1>8. CASE ResetWrite
  BY <1>8, Sizes DEF ResetWrite, FreeInv, MemoryInv, BootInv, ThreadInv, VdmaPlaces,
     Releasing, Parts
<1>9. CASE ResetReinit
  BY <1>9, Sizes DEF ResetReinit, FreeInv, MemoryInv, BootInv, ThreadInv, VdmaPlaces,
     Releasing, Parts
<1>10. CASE ResetWaited
  BY <1>10, Sizes DEF ResetWaited, FreeInv, MemoryInv, BootInv, ThreadInv,
     VdmaPlaces, Releasing, Parts
<1>11. CASE ResetBooted
  BY <1>11, Sizes DEF ResetBooted, FreeInv, MemoryInv, BootInv, ThreadInv,
     VdmaPlaces, Releasing, Parts
<1>12. CASE ResetTimeout
  BY <1>12, Sizes DEF ResetTimeout, FreeInv, MemoryInv, BootInv, ThreadInv,
     VdmaPlaces, Releasing, Parts
<1>13. CASE InitCompletions
  BY <1>13, Sizes DEF InitCompletions, FreeInv, MemoryInv, BootInv, ThreadInv,
     VdmaPlaces, Releasing, Parts
<1>14. CASE WriteFirstStage
  BY <1>14, Sizes DEF WriteFirstStage, FreeInv, MemoryInv, BootInv, ThreadInv,
     VdmaPlaces, Releasing, Parts
<1>15. CASE WriteFails
  BY <1>15, Sizes DEF WriteFails, FreeInv, MemoryInv, BootInv, ThreadInv, VdmaPlaces,
     Releasing, Parts
<1>16. CASE FirstStageWaited
  BY <1>16, Sizes DEF FirstStageWaited, FreeInv, MemoryInv, BootInv, ThreadInv,
     VdmaPlaces, Releasing, Parts
<1>17. CASE WaitTimeout
  BY <1>17, Sizes DEF WaitTimeout, FreeInv, MemoryInv, BootInv, ThreadInv,
     VdmaPlaces, Releasing, Parts
<1>18. CASE Allocate
  BY <1>18, Sizes DEF Allocate, FreeInv, MemoryInv, BootInv, ThreadInv, VdmaPlaces,
     Releasing, Parts
<1>19. CASE AllocateFails
  <2>1. accelerator_type = "SOC" /\ board = "new" /\ pc = "allocate" /\ ch = 0
    BY <1>19, Sizes DEF AllocateFails, OnceInv, BootInv, ThreadInv, SocPlaces,
       VdmaPlaces, Releasing
  <2>2. Untouched
    BY <2>1 DEF OnceInv
  <2>3. PICK c \in Channels, p \in Parts, left \in {"null", "freed"} :
          /\ left = "freed" => p = Memory /\ "memory" \notin Contract
          /\ res' = [k \in Channels |-> [q \in Parts |->
                        IF Before(k, q, c, p) THEN "live"
                        ELSE IF <<k, q>> = <<c, p>> THEN left
                        ELSE res[k][q]]]
    BY <1>19 DEF AllocateFails
  <2>4. ASSUME NEW k \in Channels, NEW q \in Parts PROVE res'[k][q] # "freed"
    BY <2>2, <2>3 DEF Untouched
  <2>5. pc' = "release_lists" /\ ch' = 0 /\ UNCHANGED freed_twice
    BY <1>19 DEF AllocateFails
  <2> HIDE DEF Goto, Step, Fail
  <2> QED
    BY <2>4, <2>5 DEF FreeInv, Parts
<1>20. CASE ReinitVdma
  BY <1>20, Sizes DEF ReinitVdma, FreeInv, MemoryInv, BootInv, ThreadInv, VdmaPlaces,
     Releasing, Parts
<1>21. CASE ProgramFails
  BY <1>21, Sizes DEF ProgramFails, FreeInv, MemoryInv, BootInv, ThreadInv,
     VdmaPlaces, Releasing, Parts
<1>22. CASE ProgramChunk
  <2>1. pc' \notin Releasing /\ UNCHANGED freed_twice
    BY <1>22 DEF ProgramChunk, Releasing
  <2> QED
    BY <2>1 DEF FreeInv
<1>23. CASE SetNumAvail
  BY <1>23, Sizes DEF SetNumAvail, FreeInv, MemoryInv, BootInv, ThreadInv,
     VdmaPlaces, Releasing, Parts
<1>24. CASE VdmaWaited
  BY <1>24, Sizes DEF VdmaWaited, FreeInv, MemoryInv, BootInv, ThreadInv, VdmaPlaces,
     Releasing, Parts
<1>25. CASE VdmaTimeout
  BY <1>25, Sizes DEF VdmaTimeout, FreeInv, MemoryInv, BootInv, ThreadInv,
     VdmaPlaces, Releasing, Parts
<1>26. CASE TriggerSecondStage
  BY <1>26, Sizes DEF TriggerSecondStage, FreeInv, MemoryInv, BootInv, ThreadInv,
     VdmaPlaces, Releasing, Parts
<1>27. CASE ReleaseLists
  <2>1. /\ pc = "release_lists" /\ pc' = "release" /\ ch' = ch /\ ch \in Channels
        /\ freed_twice' = (freed_twice \/ \E p \in {Host, Device} : res[ch][p] = "freed")
    BY <1>27, TypeParts DEF ReleaseLists, Free, BootInv, ThreadTypes
  <2>2. ~freed_twice'
    BY <2>1, Zenon DEF FreeInv, Releasing
  <2>3. /\ \A c \in Channels : c # ch => res'[c] = res[c]
        /\ res'[ch][Memory] = res[ch][Memory]
    BY <1>27, <2>1, TypeParts DEF ReleaseLists, Free, BootInv, MemoryTypes, Parts,
       Host, Device, Memory
  <2> HIDE DEF Goto, Step, Fail
  <2> QED
    BY <2>1, <2>2, <2>3, Sizes DEF FreeInv, Releasing
<1>28. CASE ReleaseMemory
  <2>1. /\ pc = "release" /\ ch \in Channels
        /\ freed_twice' = (freed_twice \/ \E p \in {Memory} : res[ch][p] = "freed")
        /\ pc' = "release_lists" => ch' = ch + 1
        /\ pc' \in {"release_lists", "done", "wait2"}
    BY <1>28, TypeParts DEF ReleaseMemory, Free, BootInv, ThreadTypes
  <2>2. ~freed_twice'
    BY <2>1, Zenon DEF FreeInv, Releasing
  <2>3. \A c \in Channels : c # ch => res'[c] = res[c]
    BY <1>28, <2>1, TypeParts DEF ReleaseMemory, Free, BootInv, MemoryTypes
  <2>4. pc' = "release_lists" => \A c \in Channels : c >= ch' => c > ch
    BY <2>1, Sizes
  <2>5. \A c \in Channels : c > ch => \A p \in Parts : res[c][p] # "freed"
    BY <2>1 DEF FreeInv, Releasing
  <2>6. pc' = "release_lists" =>
          \A c \in Channels : c >= ch' => \A p \in Parts : res'[c][p] # "freed"
    BY <2>1, <2>3, <2>4, <2>5, Sizes
  <2> HIDE DEF Goto, Step, Fail
  <2>7. pc' = "release_lists" => ch' \in Int
    BY <2>1, Sizes
  <2> QED
    BY <2>1, <2>2, <2>6, <2>7, Sizes DEF FreeInv, Releasing, Parts
<1>29. CASE SecondStageWaited
  BY <1>29, Sizes DEF SecondStageWaited, FreeInv, MemoryInv, BootInv, ThreadInv,
     VdmaPlaces, Releasing, Parts
<1>30. CASE IrqRead
  BY <1>30, Sizes DEF IrqRead, FreeInv, MemoryInv, BootInv, ThreadInv, VdmaPlaces,
     Releasing, Parts
<1>31. CASE IrqHandle
  BY <1>31, Sizes DEF IrqHandle, FreeInv, MemoryInv, BootInv, ThreadInv, VdmaPlaces,
     Releasing, Parts
<1>32. CASE FwUp
  BY <1>32, Sizes DEF FwUp, FreeInv, MemoryInv, BootInv, ThreadInv, VdmaPlaces,
     Releasing, Parts
<1>33. CASE FwReset
  BY <1>33, Sizes DEF FwReset, FreeInv, MemoryInv, BootInv, ThreadInv, VdmaPlaces,
     Releasing, Parts
<1>34. ASSUME NEW c \in Channels, HwProcess(c) PROVE FreeInv'
  BY <1>34, Sizes DEF HwProcess, FreeInv, MemoryInv, BootInv, ThreadInv, VdmaPlaces,
     Releasing, Parts
<1>35. CASE UNCHANGED vars
  BY <1>35, Sizes DEF vars, FreeInv, MemoryInv, BootInv, ThreadInv, VdmaPlaces,
     Releasing, Parts
<1>36. CASE ChunkFails
  BY <1>36, Sizes DEF ChunkFails, FreeInv, MemoryInv, BootInv, ThreadInv,
     VdmaPlaces, Releasing, Parts
<1> QED
  BY <1>1, <1>2, <1>3, <1>4, <1>5, <1>6, <1>7, <1>8, <1>9, <1>10, <1>11, <1>12, <1>13,
     <1>14, <1>15, <1>16, <1>17, <1>18, <1>19, <1>20, <1>21, <1>22, <1>23, <1>24, <1>25,
     <1>26, <1>27, <1>28, <1>29, <1>30, <1>31, <1>32, <1>33, <1>34, <1>35, <1>36
  DEF Next, Thread, Hardware

LEMMA PowerInvariant == "power" \in Contract => (Spec => []PowerInv)
<1> SUFFICES ASSUME "power" \in Contract PROVE Spec => []PowerInv
  OBVIOUS
<1>1. Init => OnceInv /\ MemoryInv
  BY InitMemory
<1>2. BootInv /\ OnceInv /\ MemoryInv /\ [Next]_vars => OnceInv' /\ MemoryInv'
  BY NextOnce, NextMemory
<1> QED
  BY <1>1, <1>2, BootInvariant, PTL DEF Spec, PowerInv

(* pcie_vdme_release_boot_resources leaves nothing behind and frees        *)
(* nothing twice, whichever step of load_soc_firmware failed, for any      *)
(* number of channels, files and boots, of a SOC that keeps its firmware   *)
(* while the system sleeps and whose boot memory can be mapped.            *)
THEOREM ReleaseCorrect ==
  {"power", "memory"} \subseteq Contract => (Spec => []BootMemoryReleased)
<1> SUFFICES ASSUME "power" \in Contract, "memory" \in Contract
             PROVE  Spec => []BootMemoryReleased
  OBVIOUS
<1>1. Init => FreeInv
  BY InitMemory
<1>2. PowerInv /\ FreeInv /\ [Next]_vars => FreeInv'
  BY NextFree DEF PowerInv
<1>3. PowerInv /\ FreeInv => BootMemoryReleased
  BY DEF PowerInv, BootInv, ThreadInv, MemoryInv, FreeInv, BootMemoryReleased,
     OutOfBoot,
         VdmaPlaces, Releasing
<1> QED
  BY <1>1, <1>2, <1>3, PowerInvariant, PTL DEF Spec

(* Every descriptor that a channel of the boot takes was written in this   *)
(* boot, and its lists and its data are still allocated: for any number of *)
(* channels, files and boots, of a SOC that keeps its firmware while the   *)
(* system sleeps and whose transfers that timed out are not resumed.       *)
THEOREM DmaCorrect == {"power", "stuck"} \subseteq Contract => (Spec => DmaFindsMemory)
<1> SUFFICES ASSUME "power" \in Contract, "stuck" \in Contract PROVE Spec => DmaFindsMemory
  OBVIOUS
<1> DEFINE Found ==
      \A c \in Channels : num_proc'[c] > num_proc[c] =>
        /\ \A p \in Parts : res[c][p] = "live"
        /\ descs[c][num_proc'[c]] # NoDesc
<1>1. PowerInv /\ [Next]_vars => [Found]_vars
  <2> SUFFICES ASSUME PowerInv, Next, NEW k \in Channels, num_proc'[k] > num_proc[k]
               PROVE  /\ \A p \in Parts : res[k][p] = "live"
                      /\ descs[k][num_proc'[k]] # NoDesc
    OBVIOUS
  <2>1. num_avail[k] \in Nat /\ num_proc[k] \in 0 .. num_avail[k] /\ started \subseteq Channels
    BY TypeParts, Sizes DEF PowerInv, BootInv, RegisterTypes, SetTypes
  <2>2. num_proc' # num_proc
    BY <2>1
  <2>3. CASE Allocate
    BY <2>1, <2>3 DEF Allocate
  <2>4. ASSUME NEW c \in Channels, HwProcess(c)
        PROVE  /\ \A p \in Parts : res[k][p] = "live"
               /\ descs[k][num_proc'[k]] # NoDesc
    <3>1. /\ c \in started /\ num_proc[c] < num_avail[c] /\ pc \notin Releasing
          /\ num_proc' = [num_proc EXCEPT ![c] = num_proc[c] + 1]
      BY <2>4 DEF HwProcess
    <3>2. k = c /\ num_proc'[k] = num_proc[k] + 1
      BY <2>1, <3>1
    <3>3. pc \in VdmaPlaces
      BY <3>1 DEF PowerInv, MemoryInv
    <3>4. num_proc'[k] \in 1 .. desc_program_num[k]
      <4>1. desc_program_num[k] \in Nat /\ num_avail[k] <= desc_program_num[k]
        BY TypeParts, Sizes DEF PowerInv, BootInv, ProgramTypes, MemoryInv
      <4> QED
        BY <2>1, <3>1, <3>2, <4>1
    <3> QED
      BY <3>3, <3>4 DEF PowerInv, MemoryInv
  <2> QED
    BY <2>2, <2>3, <2>4 DEF Next, Thread, Hardware,
       Activate, ActivateFails, LoadFirmware, LeaveBoot, GetDriverInfo, Deactivate,
       Sleep, ResetWrite, ResetReinit, ResetWaited, ResetBooted, ResetTimeout,
       InitCompletions, WriteFirstStage, WriteFails, FirstStageWaited, WaitTimeout,
       AllocateFails, ReinitVdma, ProgramFails, ProgramChunk, ChunkFails, SetNumAvail, VdmaWaited,
       VdmaTimeout, TriggerSecondStage, ReleaseLists, ReleaseMemory, SecondStageWaited,
       IrqRead, IrqHandle, FwUp, FwReset, hwVars
<1> QED
  BY <1>1, PowerInvariant, PTL DEF Spec, DmaFindsMemory

----------------------------------------------------------------------------
(* Where the units of the files go.                                        *)

(* A non-empty set of naturals has a least element.                        *)
LEMMA LeastNat ==
  ASSUME NEW T \in SUBSET Nat, T # {}
  PROVE  \E m \in T : \A k \in T : m <= k
<1>1. IsWellFoundedOn(OpToRel(<, Nat), Nat)
  BY NatLessThanWellFounded
<1>2. PICK m \in T : \A k \in T : ~(<<k, m>> \in OpToRel(<, Nat))
  BY <1>1, WFMin
<1>3. \A k \in T : ~(k < m)
  BY <1>2 DEF OpToRel
<1> QED
  BY <1>3

(* DescsOf is the function that its recursion describes: there is one for  *)
(* every length, by the least for which there would be none.               *)
LEMMA DescsRecursion ==
  ASSUME NEW sizes, Len(sizes) \in Nat
  PROVE  DescsOf(sizes) = [f \in 0 .. Len(sizes) |->
           IF f = 0 THEN 0 ELSE DescsOf(sizes)[f - 1] + DivRoundUp(sizes[f], PageSize)]
<1> DEFINE m == Len(sizes)
           w(f) == DivRoundUp(sizes[f], PageSize)
           R(k, s) == s = [f \in 0 .. k |-> IF f = 0 THEN 0 ELSE s[f - 1] + w(f)]
           B == {k \in 0 .. m : ~\E s : R(k, s)}
<1>1. DescsOf(sizes) = CHOOSE s : R(m, s)
  BY DEF DescsOf
<1>2. SUFFICES \E s : R(m, s)
  <2> HIDE DEF m, w
  <2>1. ASSUME \E s : R(m, s) PROVE R(m, CHOOSE s : R(m, s))
    BY <2>1
  <2>2. (\E s : R(m, s)) => R(m, DescsOf(sizes))
    BY <1>1, <2>1
  <2> QED
    BY <2>2 DEF m, w
<1>3. m \in Nat
  OBVIOUS
<1> HIDE DEF m, w
<1>4. SUFFICES ASSUME B # {} PROVE FALSE
  BY <1>3
<1>5. B \in SUBSET Nat
  OBVIOUS
<1> HIDE DEF B
<1>6. PICK k \in B : \A j \in B : k <= j
  BY <1>4, <1>5, LeastNat
<1>7. k \in 0 .. m /\ ~\E s : R(k, s)
  BY <1>6 DEF B
<1>8. k # 0
  <2> DEFINE z == [f \in 0 .. 0 |-> 0]
  <2>1. z = [f \in 0 .. 0 |-> IF f = 0 THEN 0 ELSE z[f - 1] + w(f)]
    OBVIOUS
  <2>2. R(0, z)
    BY <2>1
  <2> QED
    BY <1>7, <2>2
<1>9. k - 1 \in 0 .. m /\ ~(k <= k - 1)
  BY <1>3, <1>7, <1>8
<1>10. k - 1 \notin B
  BY <1>6, <1>9
<1>11. PICK s : R(k - 1, s)
  BY <1>9, <1>10 DEF B
<1> DEFINE g == [f \in 0 .. k |-> IF f = k THEN s[k - 1] + w(k) ELSE s[f]]
<1>12. ASSUME NEW f \in 0 .. k
       PROVE  g[f] = IF f = 0 THEN 0 ELSE g[f - 1] + w(f)
  <2>1. CASE f = k
    BY <1>3, <1>7, <1>8, <2>1
  <2>2. CASE f # k
    <3>1. f \in 0 .. k - 1
      BY <1>3, <1>7, <2>2
    <3>2. s[f] = IF f = 0 THEN 0 ELSE s[f - 1] + w(f)
      BY <1>11, <3>1
    <3> QED
      BY <1>3, <1>7, <2>2, <3>1, <3>2
  <2> QED
    BY <2>1, <2>2
<1>13. R(k, g)
  BY <1>12
<1> QED
  BY <1>7, <1>13

(* DivRoundUp(size, PageSize) pages are enough for size units, and one     *)
(* page less is not.                                                       *)
LEMMA RoundedUp ==
  ASSUME NEW size \in Nat
  PROVE  /\ DivRoundUp(size, PageSize) \in Nat
         /\ DivRoundUp(size, PageSize) * PageSize >= size
         /\ (DivRoundUp(size, PageSize) - 1) * PageSize < size
<1>1. PageSize \in Nat /\ PageSize >= 1
  BY SizesAssumption
<1>2. size <= size * PageSize
  BY <1>1
<1>3. DivRoundUp(size, PageSize) \in Nat /\ (DivRoundUp(size, PageSize) - 1) * PageSize < size
  BY <1>2, Rounded
<1> DEFINE q == (size + PageSize - 1) \div PageSize
<1>4. /\ q \in Int /\ size + PageSize - 1 \in Nat
      /\ size + PageSize - 1 < PageSize * q + PageSize
  BY <1>1
<1>5. DivRoundUp(size, PageSize) = q
  BY DEF DivRoundUp
<1> HIDE DEF q
<1>6. q * PageSize >= size
  BY <1>1, <1>4
<1> QED
  BY <1>3, <1>5, <1>6

(* It is the only such number.                                             *)
LEMMA RoundedUnique ==
  ASSUME NEW n \in Nat, NEW size \in Nat, n * PageSize >= size, (n - 1) * PageSize < size
  PROVE  DivRoundUp(size, PageSize) = n
<1>1. PageSize \in Nat /\ PageSize >= 1
  BY SizesAssumption
<1> DEFINE q == DivRoundUp(size, PageSize)
<1>2. q \in Nat /\ q * PageSize >= size /\ (q - 1) * PageSize < size
  BY RoundedUp
<1> HIDE DEF q
<1>3. ~(q <= n - 1)
  <2> SUFFICES ASSUME q <= n - 1 PROVE FALSE
    OBVIOUS
  <2>1. q * PageSize <= (n - 1) * PageSize
    BY <1>1, <1>2
  <2> QED
    BY <1>1, <1>2, <2>1
<1>4. ~(n <= q - 1)
  <2> SUFFICES ASSUME n <= q - 1 PROVE FALSE
    OBVIOUS
  <2>1. n * PageSize <= (q - 1) * PageSize
    BY <1>1, <1>2
  <2> QED
    BY <1>1, <1>2, <2>1
<1> QED
  BY <1>2, <1>3, <1>4 DEF q

(* The places of the descriptors, in the order of the channels.            *)
LEMMA PlaceUnique ==
  ASSUME NEW n \in Nat \ {0}, NEW a \in Int, NEW b \in Int,
         NEW i \in 1 .. n, NEW j \in 1 .. n, a * n + i = b * n + j
  PROVE  a = b /\ i = j
<1>1. ~(a <= b - 1)
  <2> SUFFICES ASSUME a <= b - 1 PROVE FALSE
    OBVIOUS
  <2>1. a * n <= (b - 1) * n
    OBVIOUS
  <2>2. (b - 1) * n = b * n - n
    OBVIOUS
  <2> QED
    BY <2>1, <2>2
<1>2. ~(b <= a - 1)
  <2> SUFFICES ASSUME b <= a - 1 PROVE FALSE
    OBVIOUS
  <2>1. b * n <= (a - 1) * n
    OBVIOUS
  <2>2. (a - 1) * n = a * n - n
    OBVIOUS
  <2> QED
    BY <2>1, <2>2
<1>3. a = b
  BY <1>1, <1>2
<1> QED
  BY <1>3

LEMMA PlaceExists ==
  ASSUME NEW n \in Nat \ {0}, NEW p \in Nat \ {0}
  PROVE  \E a \in Nat, i \in 1 .. n : p = a * n + i
<1> DEFINE a == (p - 1) \div n
           r == (p - 1) % n
<1>1. a \in Int /\ r \in 0 .. n - 1 /\ p - 1 = n * a + r
  OBVIOUS
<1> HIDE DEF a, r
<1>2. a >= 0
  <2> SUFFICES ASSUME a <= -1 PROVE FALSE
    BY <1>1
  <2>1. n * a <= n * (-1)
    BY <1>1
  <2> QED
    BY <1>1, <2>1
<1>3. r + 1 \in 1 .. n /\ a \in Nat /\ p = a * n + (r + 1)
  BY <1>1, <1>2
<1> QED
  BY <1>3

(* The descriptors of the first files add up.                              *)
LEMMA DescsSum ==
  ASSUME NEW sizes \in Batches
  PROVE  /\ DescsOf(sizes)[0] = 0
         /\ \A f \in 0 .. Len(sizes) : DescsOf(sizes)[f] \in Nat
         /\ \A f \in 1 .. Len(sizes) :
              DescsOf(sizes)[f] = DescsOf(sizes)[f - 1] + DivRoundUp(sizes[f], PageSize)
<1> DEFINE m == Len(sizes)
           s == DescsOf(sizes)
           w(f) == DivRoundUp(sizes[f], PageSize)
           B == {f \in 0 .. m : s[f] \notin Nat}
<1>1. m \in Nat /\ \A f \in 1 .. m : sizes[f] \in Nat
  BY BatchesAssumption
<1>2. \A f \in 1 .. m : w(f) \in Nat
  BY <1>1, RoundedUp
<1>3. s = [f \in 0 .. m |-> IF f = 0 THEN 0 ELSE s[f - 1] + w(f)]
  BY <1>1, DescsRecursion
<1> HIDE DEF m, s, w
<1>4. \A f \in 0 .. m : s[f] = IF f = 0 THEN 0 ELSE s[f - 1] + w(f)
  BY <1>3
<1>5. s[0] = 0 /\ \A f \in 1 .. m : s[f] = s[f - 1] + w(f)
  BY <1>1, <1>4
<1>6. B = {}
  <2> SUFFICES ASSUME B # {} PROVE FALSE
    OBVIOUS
  <2>1. B \in SUBSET Nat
    OBVIOUS
  <2>2. PICK k \in B : \A j \in B : k <= j
    BY <2>1, LeastNat
  <2>3. k \in 0 .. m /\ s[k] \notin Nat
    BY <2>2
  <2>4. k \in 1 .. m
    BY <1>1, <1>5, <2>3
  <2>5. k - 1 \in 0 .. m /\ k - 1 \notin B
    BY <1>1, <2>2, <2>4
  <2>6. s[k - 1] \in Nat
    BY <2>5
  <2> QED
    BY <1>2, <1>5, <2>3, <2>4, <2>6
<1> QED
  BY <1>5, <1>6 DEF m, s, w

(* More files take no fewer.                                               *)
LEMMA DescsMonotone ==
  ASSUME NEW sizes \in Batches, NEW a \in 0 .. Len(sizes), NEW b \in 0 .. Len(sizes), a <= b
  PROVE  DescsOf(sizes)[a] <= DescsOf(sizes)[b]
<1> DEFINE m == Len(sizes)
           s == DescsOf(sizes)
           w(f) == DivRoundUp(sizes[f], PageSize)
           B == {f \in a .. m : ~(s[a] <= s[f])}
<1>1. m \in Nat /\ \A f \in 1 .. m : sizes[f] \in Nat
  BY BatchesAssumption
<1>2. \A f \in 1 .. m : w(f) \in Nat
  BY <1>1, RoundedUp
<1>3. /\ \A f \in 0 .. m : s[f] \in Nat
      /\ \A f \in 1 .. m : s[f] = s[f - 1] + w(f)
  BY DescsSum
<1>4. a \in 0 .. m /\ b \in 0 .. m
  OBVIOUS
<1> HIDE DEF m, s, w
<1>5. B = {}
  <2> SUFFICES ASSUME B # {} PROVE FALSE
    OBVIOUS
  <2>1. B \in SUBSET Nat
    BY <1>4
  <2>2. PICK k \in B : \A j \in B : k <= j
    BY <2>1, LeastNat
  <2>3. k \in a .. m /\ ~(s[a] <= s[k])
    BY <2>2
  <2>4. k # a
    BY <1>3, <1>4, <2>3
  <2>5. k \in 1 .. m /\ k - 1 \in a .. m /\ k - 1 \notin B
    BY <1>1, <1>4, <2>2, <2>3, <2>4
  <2>6. s[a] <= s[k - 1]
    BY <2>5
  <2>7. s[k] = s[k - 1] + w(k) /\ w(k) \in Nat
    BY <1>2, <1>3, <2>5
  <2>8. s[a] \in Nat /\ s[k - 1] \in Nat
    BY <1>1, <1>3, <1>4, <2>5
  <2> QED
    BY <2>3, <2>6, <2>7, <2>8
<1>6. b \in a .. m
  BY <1>4
<1> QED
  BY <1>5, <1>6 DEF s

(* Page k of file f has a place among the descriptors that files 1 to f    *)
(* take, and no page of another file has it.                               *)
LEMMA PagePlace ==
  ASSUME NEW sizes \in Batches, NEW f \in 1 .. Len(sizes), NEW k \in Nat,
         k * PageSize < sizes[f]
  PROVE  DescsOf(sizes)[f - 1] + k + 1 <= DescsOf(sizes)[f]
<1>1. PageSize \in Nat /\ PageSize >= 1
  BY SizesAssumption
<1>2. sizes[f] \in Nat /\ Len(sizes) \in Nat
  BY BatchesAssumption
<1> DEFINE q == DivRoundUp(sizes[f], PageSize)
<1>3. q \in Nat /\ q * PageSize >= sizes[f]
  BY <1>2, RoundedUp
<1>4. /\ DescsOf(sizes)[f - 1] \in Nat /\ DescsOf(sizes)[f] \in Nat
      /\ DescsOf(sizes)[f] = DescsOf(sizes)[f - 1] + q
  BY <1>2, DescsSum
<1> HIDE DEF q
<1>5. k + 1 <= q
  <2> SUFFICES ASSUME q <= k PROVE FALSE
    BY <1>3
  <2>1. q * PageSize <= k * PageSize
    BY <1>1, <1>3
  <2> QED
    BY <1>1, <1>2, <1>3, <2>1
<1> QED
  BY <1>3, <1>4, <1>5

LEMMA PageUnique ==
  ASSUME NEW sizes \in Batches, NEW f \in 1 .. Len(sizes), NEW g \in 1 .. Len(sizes),
         NEW j \in Nat, NEW k \in Nat, j * PageSize < sizes[f], k * PageSize < sizes[g],
         DescsOf(sizes)[f - 1] + j + 1 = DescsOf(sizes)[g - 1] + k + 1
  PROVE  f = g /\ j = k
<1> DEFINE s == DescsOf(sizes)
<1>1. Len(sizes) \in Nat
  BY BatchesAssumption
<1>2. /\ s[f - 1] \in Nat /\ s[g - 1] \in Nat /\ s[f] \in Nat /\ s[g] \in Nat
      /\ s[f - 1] + j + 1 <= s[f] /\ s[g - 1] + k + 1 <= s[g]
  BY <1>1, DescsSum, PagePlace
<1>3. ~(f < g)
  <2> SUFFICES ASSUME f < g PROVE FALSE
    OBVIOUS
  <2>1. s[f] <= s[g - 1]
    BY <1>1, DescsMonotone
  <2> QED
    BY <1>2, <2>1, SMTT(40)
<1>4. ~(g < f)
  <2> SUFFICES ASSUME g < f PROVE FALSE
    OBVIOUS
  <2>1. s[g] <= s[f - 1]
    BY <1>1, DescsMonotone
  <2> QED
    BY <1>2, <2>1
<1>5. f = g
  BY <1>3, <1>4
<1> QED
  BY <1>2, <1>5

(* The files are laid out page by page over the lists of the channels, in  *)
(* their order; desc is the p-th of them.                                  *)
Placed(desc, p) ==
  /\ desc.file \in 1 .. Len(batch)
  /\ \E k \in Nat :
       /\ desc.offset = k * PageSize /\ desc.offset < batch[desc.file]
       /\ desc.size = Lesser(PageSize, batch[desc.file] - desc.offset)
       /\ p = DescsOf(batch)[desc.file - 1] + k + 1

(* The channels are filled one after the other.                            *)
Layout ==
  \A c \in Channels :
    /\ c < curr_channel_index => desc_program_num[c] = Usable
    /\ c > curr_channel_index => desc_program_num[c] = 0
    /\ \A d \in 1 .. desc_program_num[c] : Placed(descs[c][d], c * Usable + d)

Total == curr_channel_index * Usable + desc_program_num[curr_channel_index]

(* The whole of every file is in the lists.                                *)
Complete == Layout /\ Total = DescsOf(batch)[Len(batch)]

(* Such lists, when they have been processed, have carried each unit once. *)
LEMMA CompleteCarries ==
  ASSUME TypeOK, MemoryInv, Complete, \A c \in Channels : num_proc[c] = desc_program_num[c],
         NEW f \in 1 .. Len(batch), NEW u \in 0 .. batch[f] - 1
  PROVE  Cardinality(Carriers(f, u)) = 1
<1> DEFINE k == u \div PageSize
           s == DescsOf(batch)
           p == s[f - 1] + k + 1
<1>1. PageSize \in Nat /\ PageSize >= 1 /\ Usable \in Nat \ {0} /\ Channels \subseteq Nat
  BY SizesAssumption, Sizes
<1>2. batch \in Batches /\ Len(batch) \in Nat /\ batch[f] \in Nat
  BY BatchesAssumption DEF TypeOK
<1>3. /\ k \in Nat /\ k * PageSize <= u /\ u < k * PageSize + PageSize /\ u \in Nat
      /\ k * PageSize < batch[f]
  <2>1. k \in Int /\ u \in Nat /\ PageSize * k <= u /\ u < PageSize * k + PageSize
    BY <1>1, <1>2, SMTT(40)
  <2> HIDE DEF k
  <2>2. k >= 0
    <3> SUFFICES ASSUME k <= -1 PROVE FALSE
      BY <2>1
    <3>1. PageSize * k <= PageSize * (-1)
      BY <1>1, <2>1
    <3> QED
      BY <1>1, <2>1, <3>1
  <2>3. PageSize * k = k * PageSize
    BY <1>1, <2>1
  <2> QED
    BY <1>1, <1>2, <2>1, <2>2, <2>3
<1> HIDE DEF k
<1>4. s[f - 1] \in Nat /\ s[f] \in Nat /\ p <= s[f] /\ s[f] <= s[Len(batch)]
  BY <1>2, <1>3, DescsSum, DescsMonotone, PagePlace
<1>5. p \in Nat \ {0} /\ p <= Total
  <2>1. s[Len(batch)] \in Nat
    BY <1>2, DescsSum
  <2>2. Total = s[Len(batch)]
    BY DEF Complete
  <2> QED
    BY <1>3, <1>4, <2>1, <2>2
<1> HIDE DEF p
<1>6. PICK c \in Nat, d \in 1 .. Usable : p = c * Usable + d
  BY <1>1, <1>5, PlaceExists
<1>7. /\ curr_channel_index \in Channels
      /\ \A e \in Channels : desc_program_num[e] \in 0 .. Usable
      /\ curr_channel_index \in Nat /\ desc_program_num[curr_channel_index] \in 0 .. Usable
  BY <1>1 DEF TypeOK
<1>8. c <= curr_channel_index
  <2> SUFFICES ASSUME curr_channel_index + 1 <= c PROVE FALSE
    BY <1>7
  <2>1. (curr_channel_index + 1) * Usable <= c * Usable
    BY <1>1, <1>7
  <2>2. (curr_channel_index + 1) * Usable = curr_channel_index * Usable + Usable
    BY <1>1, <1>7
  <2> DEFINE x == curr_channel_index * Usable
             y == c * Usable
  <2>3. x \in Int /\ y \in Int /\ x + Usable <= y
    BY <1>1, <1>7, <2>1, <2>2
  <2>4. p = y + d /\ p <= x + desc_program_num[curr_channel_index]
    BY <1>5, <1>6 DEF Total
  <2> HIDE DEF x, y
  <2> QED
    BY <1>1, <1>7, <2>3, <2>4
<1>9. c \in Channels
  BY <1>7, <1>8, SizesAssumption DEF Channels
<1>10. d <= desc_program_num[c]
  <2>1. CASE c = curr_channel_index
    BY <1>1, <1>5, <1>6, <1>7, <2>1 DEF Total
  <2>2. CASE c < curr_channel_index
    BY <1>9, <2>2 DEF Complete, Layout
  <2> QED
    BY <1>7, <1>8, <2>1, <2>2
<1>11. ASSUME NEW e \in Channels, NEW i \in 1 .. Usable, i <= desc_program_num[e]
       PROVE  /\ descs[e][i] \in Desc /\ descs[e][i] # NoDesc
              /\ Placed(descs[e][i], e * Usable + i)
  <2>1. i \in 1 .. desc_program_num[e]
    BY <1>7, <1>11
  <2>2. descs[e][i] # NoDesc /\ descs[e][i] \in Desc \union {NoDesc}
    BY <2>1 DEF MemoryInv, TypeOK
  <2> QED
    BY <2>1, <2>2 DEF Complete, Layout
<1>12. <<c, d>> \in Carriers(f, u)
  <2> DEFINE desc == descs[c][d]
  <2>1. desc \in Desc /\ desc # NoDesc /\ Placed(desc, c * Usable + d)
    BY <1>9, <1>10, <1>11
  <2> HIDE DEF desc
  <2>2. desc.file \in 1 .. Len(batch)
    BY <2>1 DEF Placed
  <2>3. PICK j \in Nat :
          /\ desc.offset = j * PageSize /\ desc.offset < batch[desc.file]
          /\ desc.size = Lesser(PageSize, batch[desc.file] - desc.offset)
          /\ p = s[desc.file - 1] + j + 1
    BY <1>6, <2>1 DEF Placed
  <2>4. desc.file = f /\ j = k
    BY <1>2, <1>3, <2>2, <2>3, PageUnique, SMTT(40) DEF p
  <2>5. u \in desc.offset .. desc.offset + desc.size - 1
    <3> DEFINE o == k * PageSize
    <3>1. o \in Nat /\ desc.offset = o /\ desc.size = Lesser(PageSize, batch[f] - o)
      BY <1>1, <1>3, <2>3, <2>4
    <3>2. o <= u /\ u < o + PageSize
      BY <1>3
    <3> HIDE DEF o
    <3> QED
      BY <1>1, <1>2, <1>3, <3>1, <3>2 DEF Lesser
  <2>6. d <= num_proc[c]
    BY <1>9, <1>10
  <2> QED
    BY <1>9, <2>1, <2>4, <2>5, <2>6 DEF Carriers, desc
<1>13. ASSUME NEW cd \in Carriers(f, u) PROVE cd = <<c, d>>
  <2>1. PICK e \in Channels, i \in 1 .. Usable : cd = <<e, i>>
    BY DEF Carriers
  <2> DEFINE desc == descs[e][i]
  <2>2. /\ i <= num_proc[e] /\ desc.file = f
        /\ u \in desc.offset .. desc.offset + desc.size - 1
    BY <2>1 DEF Carriers
  <2>3. desc \in Desc /\ Placed(desc, e * Usable + i)
    BY <1>11, <2>2
  <2> HIDE DEF desc
  <2>4. PICK j \in Nat :
          /\ desc.offset = j * PageSize /\ desc.offset < batch[f]
          /\ desc.size = Lesser(PageSize, batch[f] - desc.offset)
          /\ e * Usable + i = s[f - 1] + j + 1
    BY <2>2, <2>3 DEF Placed
  <2>5. j * PageSize <= u /\ u < j * PageSize + PageSize
    <3> DEFINE o == j * PageSize
    <3>1. o \in Nat /\ desc.offset = o /\ desc.size = Lesser(PageSize, batch[f] - o)
      BY <1>1, <2>4
    <3> HIDE DEF o
    <3>2. u \in o .. o + desc.size - 1 /\ o < batch[f]
      BY <2>2, <2>4, <3>1
    <3> QED
      BY <1>1, <1>2, <3>1, <3>2, SMTT(40) DEF Lesser, o
  <2>6. j = k
    <3>1. ~(j <= k - 1)
      <4> SUFFICES ASSUME j <= k - 1 PROVE FALSE
        OBVIOUS
      <4>1. j * PageSize <= (k - 1) * PageSize
        BY <1>1, <1>3
      <4>2. (k - 1) * PageSize = k * PageSize - PageSize
        BY <1>1, <1>3
      <4> QED
        BY <1>1, <1>3, <2>5, <4>1, <4>2
    <3>2. ~(k <= j - 1)
      <4> SUFFICES ASSUME k <= j - 1 PROVE FALSE
        OBVIOUS
      <4>1. k * PageSize <= (j - 1) * PageSize
        BY <1>1, <1>3
      <4>2. (j - 1) * PageSize = j * PageSize - PageSize
        BY <1>1
      <4> QED
        BY <1>1, <1>3, <2>5, <4>1, <4>2
    <3> QED
      BY <1>3, <3>1, <3>2
  <2>7. e * Usable + i = c * Usable + d
    BY <1>6, <2>4, <2>6 DEF p
  <2>8. e = c /\ i = d
    BY <1>1, <2>7, PlaceUnique
  <2> QED
    BY <2>1, <2>8
<1>14. Carriers(f, u) = {<<c, d>>}
  BY <1>12, <1>13
<1> QED
  BY <1>14, FS_Singleton

LEMMA MultipleMod ==
  ASSUME NEW n \in Nat \ {0}, NEW a \in Nat
  PROVE  (a * n) % n = 0
<1> DEFINE x == a * n
           q == x \div n
           r == x % n
<1>1. x \in Nat
  OBVIOUS
<1> HIDE DEF x
<1>2. q \in Int /\ r \in 0 .. n - 1 /\ x = n * q + r
  BY <1>1
<1> HIDE DEF q, r
<1>3. CASE r = 0
  BY <1>3 DEF r, x
<1>4. CASE r # 0
  <2>1. q * n + r = (a - 1) * n + n
    <3>1. n * q = q * n /\ (a - 1) * n = a * n - n
      BY <1>2
    <3>2. a * n = n * q + r
      BY <1>2 DEF x
    <3>3. q * n \in Int /\ a * n \in Int
      BY <1>2
    <3> QED
      BY <1>2, <3>1, <3>2, <3>3
  <2>2. r \in 1 .. n /\ n \in 1 .. n /\ a - 1 \in Int
    BY <1>2, <1>4
  <2>3. r = n
    BY <1>2, <2>1, <2>2, PlaceUnique
  <2> QED
    BY <1>2, <2>3
<1> QED
  BY <1>3, <1>4

(* What has been placed so far: data_offset units of file_index.           *)
Cursor ==
  \E k \in Nat : /\ data_offset = k * PageSize
                 /\ Total = DescsOf(batch)[file_index - 1] + k

(* What a turn of the loop places: the next n pages, in channel c.         *)
PlacesChunk(c, n) ==
  /\ c = curr_channel_index \/ (c = curr_channel_index + 1
                                /\ desc_program_num[curr_channel_index] = Usable
                                /\ desc_program_num[c] = 0)
  /\ desc_program_num[c] + n <= Usable
  /\ curr_channel_index' = c
  /\ boot_used_channel_bitmap' = boot_used_channel_bitmap \union
                                   (IF c = curr_channel_index THEN {} ELSE {c})
  /\ desc_program_num' = [desc_program_num EXCEPT ![c] = desc_program_num[c] + n]
  /\ \A k \in Channels : k # c => descs'[k] = descs[k]
  /\ \A d \in 1 .. desc_program_num[c] : descs'[c][d] = descs[c][d]
  /\ \A d \in desc_program_num[c] + 1 .. desc_program_num[c] + n :
       /\ Placed(descs'[c][d], c * Usable + d)
       /\ descs'[c][d].irq <=>
            d = Usable \/ (pc' = "avail" /\ d = desc_program_num[c] + n)
  /\ \/ pc' = "program" /\ Cursor'
     \/ pc' = "avail" /\ Total' = DescsOf(batch)[Len(batch)]

(* A file that ends with a channel has its last descriptor full, so that   *)
(* the interrupt is raised there: the one place where the clause "whole"   *)
(* is needed.                                                              *)
LEMMA ProgramChunkPlaces ==
  ASSUME TypeOK, ThreadInv, Layout, Cursor, EndsWhole(batch), ProgramChunk
  PROVE  \E c \in Channels, n \in Nat \ {0} : PlacesChunk(c, n)
<1> DEFINE remaining_size == batch[file_index] - data_offset
           full == desc_program_num[curr_channel_index] = Usable
           c == NextChannel(full)
           first == desc_program_num[c]
           size == ChunkSize(c, remaining_size)
           n == DivRoundUp(size, PageSize)
           ends == size = remaining_size
           raise == RaiseInterrupt(c, size, ends)
           At(d) == (d - first - 1) * PageSize
           D(d) == [file |-> file_index, offset |-> data_offset + At(d),
                    size |-> Lesser(PageSize, size - At(d)), irq |-> raise /\ d = first + n]
           s == DescsOf(batch)
<1>1. /\ pc = "program" /\ c \in Channels
      /\ curr_channel_index' = c
      /\ boot_used_channel_bitmap' = UseChannel(c, full)
      /\ descs' = [descs EXCEPT ![c] = [d \in 1 .. Usable |->
            IF d \in first + 1 .. first + n THEN D(d) ELSE descs[c][d]]]
      /\ desc_program_num' = [desc_program_num EXCEPT ![c] = first + n]
      /\ data_offset' = IF ends THEN 0 ELSE data_offset + size
      /\ file_index' = IF ends THEN file_index + 1 ELSE file_index
      /\ pc' = IF ends /\ file_index = Len(batch) THEN "avail" ELSE "program"
  BY Zenon DEF ProgramChunk, Goto
<1>1a. batch' = batch
  BY DEF ProgramChunk, boardVars
<1>2. /\ batch \in Batches /\ Len(batch) \in Nat
      /\ \A f \in 1 .. Len(batch) : batch[f] \in Nat \ {0}
  <2>1. batch \in Batches
    BY DEF TypeOK
  <2> QED
    BY ONLY <2>1, BatchesAssumption
<1>3. /\ file_index \in 1 .. Len(batch) /\ data_offset \in Nat
      /\ remaining_size \in Nat \ {0}
  BY <1>1, <1>2 DEF TypeOK, ThreadInv
<1>4. /\ first \in 0 .. Usable /\ Usable \in Nat /\ Usable >= 1 /\ PageSize \in Nat \ {0}
      /\ curr_channel_index \in Channels /\ Channels \subseteq Nat
      /\ desc_program_num[curr_channel_index] \in 0 .. Usable
  BY <1>1, SizesAssumption, Sizes DEF TypeOK, Usable
<1>5. PICK k0 \in Nat : data_offset = k0 * PageSize /\ Total = s[file_index - 1] + k0
  BY DEF Cursor
<1>6. /\ full => c = curr_channel_index + 1 /\ first = 0
      /\ ~full => c = curr_channel_index
      /\ first < Usable
  <2>1. /\ full => c = curr_channel_index + 1
        /\ ~full => c = curr_channel_index
    BY <1>4 DEF NextChannel
  <2> HIDE DEF c
  <2>2. full => first = 0
    BY <1>1, <1>4, <2>1 DEF Layout
  <2> QED
    BY <1>4, <2>1, <2>2
<1>7. c * Usable + first = s[file_index - 1] + k0
  <2>1. CASE full
    <3>1. (curr_channel_index + 1) * Usable = curr_channel_index * Usable + Usable
      BY <1>4
    <3>2. c * Usable = curr_channel_index * Usable + Usable
      BY <1>6, <2>1, <3>1
    <3>3. curr_channel_index * Usable + Usable = s[file_index - 1] + k0
      BY <1>5, <2>1 DEF Total
    <3>4. c * Usable \in Int
      BY <1>4, <1>6, <2>1
    <3> QED
      BY <1>6, <2>1, <3>2, <3>3, <3>4
  <2>2. CASE ~full
    BY <1>5, <1>6, <2>2 DEF Total
  <2> QED
    BY <2>1, <2>2
<1>8. boot_used_channel_bitmap' = boot_used_channel_bitmap \union
                                    (IF c = curr_channel_index THEN {} ELSE {c})
  <2>1. c = curr_channel_index <=> ~full
    BY <1>4, <1>6
  <2> HIDE DEF c, full
  <2> QED
    BY <1>1, <2>1 DEF UseChannel
<1>9. \/ c = curr_channel_index
      \/ /\ c = curr_channel_index + 1 /\ desc_program_num[curr_channel_index] = Usable
         /\ first = 0
  BY <1>6
<1>9a. /\ raise <=> \/ size \div PageSize + first = Usable
                    \/ ends /\ file_index = Len(batch)
  BY DEF RaiseInterrupt
<1>9b. c \in Nat /\ s[file_index - 1] \in Nat /\ s[file_index] \in Nat
  <2>1. c \in Nat
    BY <1>1, <1>4
  <2>2. file_index \in 0 .. Len(batch) /\ file_index - 1 \in 0 .. Len(batch)
    BY <1>2, <1>3
  <2>3. s[file_index - 1] \in Nat /\ s[file_index] \in Nat
    BY <1>2, <2>2, DescsSum
  <2> QED
    BY <2>1, <2>3
<1> HIDE DEF c, first, remaining_size, full, raise
<1>10. /\ size \in 1 .. remaining_size
       /\ size <= (Usable - first) * PageSize
       /\ ~ends => size = (Usable - first) * PageSize /\ size < remaining_size
  <2>1. (Usable - first) * PageSize \in Nat /\ (Usable - first) * PageSize >= 1
    <3>1. Usable - first >= 1
      BY <1>4, <1>6
    <3> QED
      BY <1>4, <3>1
  <2>2. size = Lesser(remaining_size, (Usable - first) * PageSize)
    BY DEF ChunkSize, first
  <2> QED
    BY <1>3, <2>1, <2>2 DEF Lesser
<1> HIDE DEF size
<1>11. /\ n \in Nat \ {0} /\ n <= Usable - first
       /\ n * PageSize >= size /\ (n - 1) * PageSize < size
  <2>1. size \in Nat /\ size >= 1 /\ Usable - first \in Nat
    BY <1>3, <1>4, <1>10
  <2>2. DivRoundUp(size, PageSize) \in 0 .. Usable - first
    BY <1>10, <2>1, Rounded
  <2>3. n \in Nat /\ n * PageSize >= size /\ (n - 1) * PageSize < size
    BY <2>1, RoundedUp
  <2> HIDE DEF n
  <2>4. n # 0
    BY <1>4, <2>1, <2>3
  <2> QED
    BY <2>2, <2>3, <2>4 DEF n
<1>12. ~ends => n = Usable - first
  <2> SUFFICES ASSUME ~ends PROVE n = Usable - first
    OBVIOUS
  <2> DEFINE room == Usable - first
  <2>1. room \in Nat /\ size \in Nat /\ size = room * PageSize
    BY <1>3, <1>4, <1>10
  <2> HIDE DEF room
  <2>2. room * PageSize >= size /\ (room - 1) * PageSize < size
    BY <1>4, <2>1
  <2> QED
    BY <2>1, <2>2, RoundedUnique DEF room
<1> HIDE DEF n
<1>13. ends => s[file_index] = c * Usable + first + n
  <2> SUFFICES ASSUME ends PROVE s[file_index] = c * Usable + first + n
    OBVIOUS
  <2>1. s[file_index] = s[file_index - 1] + DivRoundUp(batch[file_index], PageSize)
    BY <1>2, <1>3, DescsSum
  <2>2. batch[file_index] = k0 * PageSize + size /\ batch[file_index] \in Nat
    BY <1>2, <1>3, <1>5, <1>10 DEF remaining_size
  <2>3. /\ (k0 + n) * PageSize = k0 * PageSize + n * PageSize
        /\ (k0 + n - 1) * PageSize = k0 * PageSize + (n - 1) * PageSize
    BY <1>4, <1>5, <1>11
  <2> DEFINE x == k0 * PageSize
             y == n * PageSize
             z == (n - 1) * PageSize
  <2>4. x \in Int /\ y \in Int /\ z \in Int /\ size \in Int
    BY <1>3, <1>4, <1>5, <1>10, <1>11
  <2>5. y >= size /\ z < size /\ batch[file_index] = x + size
    BY <1>11, <2>2
  <2>5a. (k0 + n) * PageSize = x + y /\ (k0 + n - 1) * PageSize = x + z
    BY <2>3
  <2> HIDE DEF x, y, z
  <2>6. (k0 + n) * PageSize >= batch[file_index] /\ (k0 + n - 1) * PageSize < batch[file_index]
    BY <2>4, <2>5, <2>5a
  <2>7. DivRoundUp(batch[file_index], PageSize) = k0 + n
    <3> DEFINE m == k0 + n
               b == batch[file_index]
    <3>1. m \in Nat /\ b \in Nat /\ m * PageSize >= b /\ (m - 1) * PageSize < b
      BY <1>5, <1>11, <2>2, <2>6
    <3> HIDE DEF m, b
    <3>2. DivRoundUp(b, PageSize) = m
      BY <3>1, RoundedUnique
    <3> QED
      BY <3>2 DEF m, b
  <2> QED
    <3> DEFINE v == c * Usable
    <3>1. v \in Int /\ v + first = s[file_index - 1] + k0
      BY <1>4, <1>7, <1>9b
    <3> HIDE DEF v
    <3>2. s[file_index] = v + first + n
      BY <1>4, <1>5, <1>9b, <1>11, <2>1, <2>7, <3>1
    <3> QED
      BY <3>2 DEF v
<1>14. size = n * PageSize => size \div PageSize = n
  <2> SUFFICES ASSUME size = n * PageSize PROVE (n * PageSize) \div PageSize = n
    OBVIOUS
  <2> DEFINE q == (n * PageSize) \div PageSize
             x == n * PageSize
  <2>1. x \in Int /\ q \in Int /\ PageSize * q <= x /\ x < PageSize * q + PageSize
    BY <1>4, <1>11
  <2>2. PageSize * q = q * PageSize
    BY <1>4, <2>1
  <2> HIDE DEF q
  <2>3. ~(q <= n - 1)
    <3> SUFFICES ASSUME q <= n - 1 PROVE FALSE
      OBVIOUS
    <3>1. q * PageSize <= (n - 1) * PageSize
      BY <1>4, <1>11, <2>1
    <3>2. (n - 1) * PageSize = x - PageSize
      BY <1>4, <1>11
    <3> HIDE DEF x
    <3> QED
      BY <1>4, <2>1, <2>2, <3>1, <3>2
  <2>4. ~(n <= q - 1)
    <3> SUFFICES ASSUME n <= q - 1 PROVE FALSE
      OBVIOUS
    <3>1. x <= (q - 1) * PageSize
      BY <1>4, <1>11, <2>1
    <3>2. (q - 1) * PageSize = q * PageSize - PageSize
      BY <1>4, <2>1
    <3> HIDE DEF x
    <3> QED
      BY <1>4, <2>1, <2>2, <3>1, <3>2
  <2> QED
    BY <1>11, <2>1, <2>3, <2>4 DEF q
<1>15. size \div PageSize <= n
  <2> DEFINE q == size \div PageSize
  <2>1. size \in Nat /\ q \in Int /\ PageSize * q <= size
    BY <1>3, <1>4, <1>10
  <2> HIDE DEF q
  <2>2. ~(n <= q - 1)
    <3> SUFFICES ASSUME n <= q - 1 PROVE FALSE
      OBVIOUS
    <3>1. n * PageSize <= (q - 1) * PageSize
      BY <1>4, <1>11, <2>1
    <3>2. (q - 1) * PageSize = PageSize * q - PageSize
      BY <1>4, <2>1
    <3> QED
      BY <1>4, <1>11, <2>1, <3>1, <3>2
  <2> QED
    BY <1>11, <2>1, <2>2 DEF q
<1>16. first + n = Usable /\ ~(ends /\ file_index = Len(batch)) =>
         size \div PageSize + first = Usable
  <2> SUFFICES ASSUME first + n = Usable, ~(ends /\ file_index = Len(batch))
               PROVE  size = n * PageSize
    BY <1>4, <1>11, <1>14
  <2>1. CASE ~ends
    BY <1>4, <1>10, <1>11, <2>1
  <2>2. CASE ends
    <3>1. file_index \in 1 .. Len(batch) - 1
      BY <1>2, <1>3, <2>2
    <3>2. s[file_index] = (c + 1) * Usable
      <4>1. (c + 1) * Usable = c * Usable + Usable
        BY <1>4, <1>9b
      <4>2. c * Usable \in Int
        BY <1>4, <1>9b
      <4>3. s[file_index] = c * Usable + (first + n)
        BY <1>4, <1>11, <1>13, <2>2, <4>2
      <4> QED
        BY <4>1, <4>3
    <3>3. s[file_index] % Usable = 0
      <4>1. c + 1 \in Nat
        BY <1>9b
      <4>2. ((c + 1) * Usable) % Usable = 0
        BY <1>4, <4>1, MultipleMod, SMTT(40)
      <4> QED
        BY <3>2, <4>2
    <3>4. batch[file_index] % PageSize = 0
      BY <3>1, <3>3 DEF EndsWhole
    <3> DEFINE q == batch[file_index] \div PageSize
    <3>5. q \in Int /\ batch[file_index] = PageSize * q
      <4> DEFINE b == batch[file_index]
      <4>1. b \in Nat /\ b % PageSize = 0
        BY <1>2, <1>3, <3>4
      <4> HIDE DEF b
      <4>2. b \div PageSize \in Int /\ b = PageSize * (b \div PageSize) + (b % PageSize)
        BY <1>4, <4>1
      <4> QED
        BY <1>4, <4>1, <4>2 DEF b
    <3> HIDE DEF q
    <3>6. size = (q - k0) * PageSize
      <4>1. size = batch[file_index] - k0 * PageSize
        BY <1>2, <1>3, <1>5, <1>10, <2>2 DEF remaining_size
      <4>2. (q - k0) * PageSize = PageSize * q - k0 * PageSize
        BY <1>4, <1>5, <3>5
      <4> QED
        BY <3>5, <4>1, <4>2
    <3>7. q - k0 >= n
      <4> SUFFICES ASSUME q - k0 <= n - 1 PROVE FALSE
        BY <1>5, <1>11, <3>5
      <4>1. (q - k0) * PageSize <= (n - 1) * PageSize
        BY <1>4, <1>5, <1>11, <3>5
      <4>2. size \in Int /\ (n - 1) * PageSize \in Int
        BY <1>3, <1>4, <1>10, <1>11
      <4> QED
        BY <1>11, <3>6, <4>1, <4>2
    <3>8. n * PageSize <= (q - k0) * PageSize
      BY <1>4, <1>5, <1>11, <3>5, <3>7
    <3>9. size \in Int /\ n * PageSize \in Int
      BY <1>3, <1>4, <1>10, <1>11
    <3> QED
      BY <1>11, <3>6, <3>8, <3>9
  <2> QED
    BY <2>1, <2>2
<1>17. ASSUME NEW d \in first + 1 .. first + n
       PROVE  /\ Placed(D(d), c * Usable + d)
              /\ D(d).irq <=> d = Usable \/ (pc' = "avail" /\ d = first + n)
  <2> DEFINE i == d - first - 1
  <2>1. i \in 0 .. n - 1 /\ d \in Nat
    BY <1>4, <1>11
  <2>2. At(d) = i * PageSize
    OBVIOUS
  <2>3. /\ At(d) \in Nat /\ At(d) <= (n - 1) * PageSize
    BY <1>4, <1>11, <2>1
  <2>4. At(d) < size
    <3>1. (n - 1) * PageSize \in Int /\ size \in Nat
      BY <1>3, <1>4, <1>10, <1>11
    <3> HIDE DEF At
    <3> QED
      BY <1>11, <2>3, <3>1
  <2>5. data_offset + At(d) = (k0 + i) * PageSize
    <3>1. (k0 + i) * PageSize = k0 * PageSize + i * PageSize
      BY <1>4, <1>5, <2>1
    <3> QED
      BY <1>5, <2>2, <3>1
  <2> HIDE DEF i
  <2>6. /\ D(d).file = file_index /\ D(d).offset = data_offset + At(d)
        /\ D(d).size = Lesser(PageSize, size - At(d))
        /\ D(d).irq <=> raise /\ d = first + n
    BY Zenon
  <2>7. data_offset + At(d) < batch[file_index]
    <3> HIDE DEF At
    <3> QED
      BY <1>2, <1>3, <1>10, <2>3, <2>4 DEF remaining_size
  <2>8. Lesser(PageSize, size - At(d)) =
          Lesser(PageSize, batch[file_index] - (data_offset + At(d)))
    <3>1. CASE ends
      <4> HIDE DEF At
      <4>1. size - At(d) = batch[file_index] - (data_offset + At(d))
        BY <1>2, <1>3, <2>3, <3>1 DEF remaining_size
      <4> QED
        BY <4>1
    <3>2. CASE ~ends
      <4>1. size = n * PageSize
        BY <1>10, <1>12, <3>2
      <4>2. (n - 1) * PageSize = n * PageSize - PageSize
        BY <1>4, <1>11
      <4>3. size \in Nat /\ (n - 1) * PageSize = size - PageSize
        BY <1>3, <1>10, <4>1, <4>2
      <4>4. At(d) \in Nat /\ At(d) <= size - PageSize
        BY <2>3, <4>3
      <4> HIDE DEF At
      <4>5. /\ size - At(d) >= PageSize
            /\ batch[file_index] - (data_offset + At(d)) >= size - At(d)
        BY <1>2, <1>3, <1>4, <1>10, <4>3, <4>4, SMTT(40) DEF remaining_size
      <4> QED
        BY <1>2, <1>3, <1>4, <4>3, <4>4, <4>5, SMTT(40) DEF Lesser
    <3> QED
      BY <3>1, <3>2
  <2>9. c * Usable + d = s[file_index - 1] + (k0 + i) + 1
    <3> DEFINE v == c * Usable
    <3>1. v \in Int /\ v + first = s[file_index - 1] + k0
      BY <1>4, <1>7, <1>9b
    <3> HIDE DEF v
    <3>2. v + d = s[file_index - 1] + (k0 + i) + 1
      BY <1>4, <1>5, <1>9b, <2>1, <3>1 DEF i
    <3> QED
      BY <3>2 DEF v
  <2>10. k0 + i \in Nat
    BY <1>5, <2>1
  <2>11. Placed(D(d), c * Usable + d)
    <3> HIDE DEF D, At, s
    <3> QED
      BY <1>3, <2>5, <2>6, <2>7, <2>8, <2>9, <2>10 DEF Placed, s
  <2>12. d = Usable => d = first + n
    BY <1>4, <1>11, <2>1
  <2>13. raise /\ d = first + n <=> d = Usable \/ (pc' = "avail" /\ d = first + n)
    <3>1. pc' = "avail" <=> ends /\ file_index = Len(batch)
      BY <1>1
    <3>2. size \div PageSize \in Int
      BY <1>3, <1>4, <1>10
    <3>3. ASSUME size \div PageSize + first = Usable PROVE first + n = Usable
      BY <1>4, <1>11, <1>15, <3>2, <3>3
    <3> QED
      BY <1>9a, <1>16, <2>12, <3>1, <3>3
  <2> QED
    BY <2>6, <2>11, <2>13
<1> HIDE DEF D
<1>18. DOMAIN descs = Channels
  BY DEF TypeOK
<1>19. /\ \A k \in Channels : k # c => descs'[k] = descs[k]
       /\ descs'[c] = [d \in 1 .. Usable |->
            IF d \in first + 1 .. first + n THEN D(d) ELSE descs[c][d]]
  BY <1>1, <1>18
<1>20. /\ \A d \in 1 .. first : descs'[c][d] = descs[c][d]
       /\ \A d \in first + 1 .. first + n : descs'[c][d] = D(d)
  <2>1. \A d \in 1 .. first : d \in 1 .. Usable /\ d \notin first + 1 .. first + n
    BY <1>4, <1>11
  <2>2. \A d \in first + 1 .. first + n : d \in 1 .. Usable
    BY <1>4, <1>11
  <2> QED
    BY <1>19, <2>1, <2>2
<1>21. Total' = c * Usable + (first + n)
  <2>1. desc_program_num'[c] = first + n
    BY <1>1 DEF TypeOK
  <2> QED
    BY <1>1, <2>1 DEF Total
<1>22. \/ pc' = "program" /\ Cursor'
       \/ pc' = "avail" /\ Total' = s[Len(batch)]
  <2>1. CASE ends
    <3>1. Total' = s[file_index]
      <4>1. c * Usable \in Int
        BY <1>4, <1>9b
      <4> HIDE DEF s
      <4> QED
        BY <1>4, <1>11, <1>13, <1>21, <2>1, <4>1
    <3>2. CASE file_index = Len(batch)
      BY <1>1, <2>1, <3>1, <3>2
    <3>3. CASE file_index # Len(batch)
      <4>1. pc' = "program" /\ data_offset' = 0 * PageSize /\ file_index' - 1 = file_index
        BY <1>1, <1>3, <1>4, <2>1, <3>3
      <4>2. Total' = DescsOf(batch')[file_index' - 1] + 0
        BY <1>1a, <1>9b, <3>1, <4>1
      <4> QED
        BY <4>1, <4>2 DEF Cursor
    <3> QED
      BY <3>2, <3>3
  <2>2. CASE ~ends
    <3>1. pc' = "program" /\ file_index' = file_index
      BY <1>1, <2>2
    <3>2. data_offset' = (k0 + n) * PageSize
      <4>1. (k0 + n) * PageSize = k0 * PageSize + n * PageSize
        BY <1>4, <1>5, <1>11
      <4> QED
        BY <1>1, <1>5, <1>10, <1>12, <2>2, <4>1
    <3>3. Total' = DescsOf(batch')[file_index' - 1] + (k0 + n)
      <4> DEFINE v == c * Usable
      <4>1. v \in Int /\ v + first = s[file_index - 1] + k0 /\ Total' = v + (first + n)
        BY <1>4, <1>7, <1>9b, <1>21
      <4> HIDE DEF v, s
      <4>2. Total' = s[file_index - 1] + (k0 + n)
        BY <1>4, <1>5, <1>9b, <1>11, <4>1
      <4> QED
        BY <1>1a, <3>1, <4>2 DEF s
    <3>4. k0 + n \in Nat
      BY <1>5, <1>11
    <3> QED
      BY <3>1, <3>2, <3>3, <3>4 DEF Cursor
  <2> QED
    BY <2>1, <2>2
<1>23. PlacesChunk(c, n)
  <2>1. first + n <= Usable
    BY <1>4, <1>11
  <2>2. \A d \in first + 1 .. first + n :
          /\ Placed(descs'[c][d], c * Usable + d)
          /\ descs'[c][d].irq <=> d = Usable \/ (pc' = "avail" /\ d = first + n)
    BY <1>17, <1>20
  <2> QED
    BY <1>1, <1>8, <1>9, <1>19, <1>20, <1>22, <2>1, <2>2 DEF PlacesChunk, first
<1> QED
  BY <1>1, <1>11, <1>23

----------------------------------------------------------------------------
(* The transfers of a SOC's second stage.                                  *)

NoneRaised == \A c \in Channels : c \notin istatus /\ c \notin irq_source
FreshPlaces ==
  ResetPlaces \union {"idle", "boot", "init", "write", "wait1", "allocate", "reinit"}

(* Nothing has been programmed yet, and no channel has said anything.      *)
Fresh ==
  /\ curr_channel_index = 0 /\ boot_used_channel_bitmap = {0} /\ NoneRaised
  /\ \A c \in Channels : desc_program_num[c] = 0
FreshInv == board = "new" /\ pc \in FreshPlaces => Fresh

(* Descriptors that raise an interrupt: the last one of a channel, which   *)
(* for the channel used last is where the boot ends.                       *)
IrqsPlaced(over) ==
  \A c \in Channels : \A d \in 1 .. desc_program_num[c] :
    descs[c][d].irq <=>
      d = Usable \/ (over /\ c = curr_channel_index /\ d = desc_program_num[c])

ProgramInv ==
  pc = "program" =>
    /\ Layout /\ Cursor /\ IrqsPlaced(FALSE) /\ NoneRaised
    /\ boot_used_channel_bitmap = 0 .. curr_channel_index /\ ~vdma_boot_completion

(* The channels that are still in the bitmap are those that are not done,  *)
(* or whose interrupt is on its way.                                       *)
Reported ==
  \A c \in 0 .. curr_channel_index :
    num_proc[c] = desc_program_num[c] <=>
      c \notin boot_used_channel_bitmap \/ c \in istatus \/ c \in irq_source

TransferPlaces == {"avail", "wait_vdma", "trigger"}
TransferInv ==
  /\ pc \in TransferPlaces =>
       /\ Complete /\ IrqsPlaced(TRUE) /\ Reported
       /\ desc_program_num[curr_channel_index] > 0
       /\ boot_used_channel_bitmap \subseteq 0 .. curr_channel_index
       /\ vdma_boot_completion <=> boot_used_channel_bitmap = {}
  /\ pc = "trigger" => vdma_boot_completion

ImageInv ==
  fw = "stage2" => Complete /\ \A c \in Channels : num_proc[c] = desc_program_num[c]

LoadInv == EndsWhole(batch) /\ FreshInv /\ ProgramInv /\ TransferInv /\ ImageInv

(* Which steps touch what.                                                 *)
LEMMA LayoutSteps ==
  ASSUME [Next]_vars
  PROVE  /\ batch' = batch
         /\ \/ UNCHANGED <<curr_channel_index, desc_program_num, descs, num_proc>>
            \/ Allocate \/ ProgramChunk \/ ChunkFails \/ \E c \in Channels : HwProcess(c)
         /\ fw' = "stage2" => fw = "stage2" \/ TriggerSecondStage
<1> DEFINE G == /\ batch' = batch
                /\ \/ UNCHANGED <<curr_channel_index, desc_program_num, descs, num_proc>>
                   \/ Allocate \/ ProgramChunk \/ ChunkFails \/ \E c \in Channels : HwProcess(c)
                /\ fw' = "stage2" => fw = "stage2" \/ TriggerSecondStage
<1> USE DEF threadVars, boardVars, flagVars, completionVars, programVars,
           memoryVars, hwVars, irqVars
<1>1. CASE Activate \/ ActivateFails \/ LoadFirmware \/ LeaveBoot \/ GetDriverInfo
           \/ Deactivate \/ Sleep
  BY <1>1 DEF Activate, ActivateFails, LoadFirmware, LeaveBoot, GetDriverInfo, Deactivate, Sleep
<1>2. CASE ResetWrite \/ ResetReinit \/ ResetWaited \/ ResetBooted \/ ResetTimeout
  BY <1>2 DEF ResetWrite, ResetReinit, ResetWaited, ResetBooted, ResetTimeout
<1>3. CASE InitCompletions \/ WriteFirstStage \/ WriteFails \/ FirstStageWaited \/ WaitTimeout
  BY <1>3 DEF InitCompletions, WriteFirstStage, WriteFails, FirstStageWaited, WaitTimeout
<1>4. CASE AllocateFails \/ ReinitVdma \/ ProgramFails \/ SetNumAvail \/ VdmaWaited
           \/ VdmaTimeout
  BY <1>4 DEF AllocateFails, ReinitVdma, ProgramFails, SetNumAvail, VdmaWaited, VdmaTimeout
<1>5. CASE ReleaseLists \/ ReleaseMemory \/ SecondStageWaited
  BY <1>5 DEF ReleaseLists, ReleaseMemory, SecondStageWaited
<1>6. CASE IrqRead \/ IrqHandle \/ FwUp \/ FwReset
  BY <1>6 DEF IrqRead, IrqHandle, FwUp, FwReset
<1>7. CASE TriggerSecondStage
  BY <1>7 DEF TriggerSecondStage
<1>8. CASE Allocate
  BY <1>8 DEF Allocate
<1>9. CASE ProgramChunk
  <2>1. batch' = batch /\ fw' = fw
    BY <1>9 DEF ProgramChunk
  <2> QED
    BY <1>9, <2>1
<1>10. ASSUME NEW c \in Channels, HwProcess(c) PROVE G
  <2>1. batch' = batch /\ fw' = fw
    BY <1>10 DEF HwProcess
  <2> QED
    BY <1>10, <2>1
<1>11. CASE UNCHANGED vars
  BY <1>11 DEF vars
<1>12. CASE ChunkFails
  BY <1>12 DEF ChunkFails
<1> QED
  BY <1>1, <1>2, <1>3, <1>4, <1>5, <1>6, <1>7, <1>8, <1>9, <1>10, <1>11, <1>12
  DEF Next, Thread, Hardware

LEMMA PlaceSteps ==
  ASSUME [Next]_vars
  PROVE  /\ pc' = "program" => pc = "program" \/ ReinitVdma
         /\ pc' \in TransferPlaces => pc \in TransferPlaces \/ ProgramChunk
         /\ board' = "new" => board = "new"
         /\ pc' \in FreshPlaces /\ board' = "new" => pc \in FreshPlaces
<1> USE DEF threadVars, boardVars, TransferPlaces, FreshPlaces, ResetPlaces, Goto, Step, Fail
<1>1. CASE Activate \/ ActivateFails \/ LoadFirmware \/ LeaveBoot \/ GetDriverInfo
           \/ Deactivate \/ Sleep
  BY <1>1 DEF Activate, ActivateFails, LoadFirmware, LeaveBoot, GetDriverInfo, Deactivate, Sleep
<1>2. CASE ResetWrite \/ ResetReinit \/ ResetWaited \/ ResetBooted \/ ResetTimeout
  BY <1>2 DEF ResetWrite, ResetReinit, ResetWaited, ResetBooted, ResetTimeout
<1>3. CASE InitCompletions \/ WriteFirstStage \/ WriteFails \/ FirstStageWaited \/ WaitTimeout
  BY <1>3 DEF InitCompletions, WriteFirstStage, WriteFails, FirstStageWaited, WaitTimeout
<1>4. CASE Allocate \/ AllocateFails \/ ReinitVdma \/ ProgramFails \/ ChunkFails
  BY <1>4 DEF Allocate, AllocateFails, ReinitVdma, ProgramFails, ChunkFails
<1>5. CASE SetNumAvail \/ VdmaWaited \/ VdmaTimeout \/ TriggerSecondStage
  BY <1>5 DEF SetNumAvail, VdmaWaited, VdmaTimeout, TriggerSecondStage
<1>6. CASE ReleaseLists \/ ReleaseMemory \/ SecondStageWaited
  BY <1>6 DEF ReleaseLists, ReleaseMemory, SecondStageWaited
<1>7. CASE IrqRead \/ IrqHandle \/ FwUp \/ FwReset \/ \E c \in Channels : HwProcess(c)
  BY <1>7 DEF IrqRead, IrqHandle, FwUp, FwReset, HwProcess
<1>8. CASE ProgramChunk
  <2>1. pc = "program" /\ board' = board /\ pc' \in {"avail", "program"}
    BY <1>8 DEF ProgramChunk
  <2> QED
    BY <1>8, <2>1
<1>9. CASE UNCHANGED vars
  BY <1>9 DEF vars
<1> QED
  BY <1>1, <1>2, <1>3, <1>4, <1>5, <1>6, <1>7, <1>8, <1>9 DEF Next, Thread, Hardware

LEMMA LayoutKept ==
  ASSUME UNCHANGED <<batch, curr_channel_index, desc_program_num, descs>>
  PROVE  /\ Layout' = Layout /\ Total' = Total /\ Complete' = Complete
         /\ IrqsPlaced(FALSE)' = IrqsPlaced(FALSE) /\ IrqsPlaced(TRUE)' = IrqsPlaced(TRUE)
<1>1. Layout' = Layout
  BY DEF Layout, Placed
<1>2. Total' = Total
  BY DEF Total
<1>3. Complete' = Complete
  BY <1>1, <1>2 DEF Complete
<1>4. IrqsPlaced(FALSE)' = IrqsPlaced(FALSE) /\ IrqsPlaced(TRUE)' = IrqsPlaced(TRUE)
  BY DEF IrqsPlaced
<1> QED
  BY <1>1, <1>2, <1>3, <1>4

LEMMA InitLoad == "whole" \in Contract /\ Init => LoadInv
<1> SUFFICES ASSUME "whole" \in Contract, Init PROVE LoadInv
  OBVIOUS
<1>1. EndsWhole(batch)
  BY DEF Init
<1>2. FreshInv
  BY Sizes DEF Init, FreshInv, Fresh, NoneRaised
<1>3. ProgramInv /\ TransferInv /\ ImageInv
  BY DEF Init, ProgramInv, TransferInv, TransferPlaces, ImageInv
<1> QED
  BY <1>1, <1>2, <1>3 DEF LoadInv

LEMMA NextFresh == PowerInv /\ FreshInv /\ [Next]_vars => FreshInv'
<1> SUFFICES ASSUME PowerInv, FreshInv, [Next]_vars, board' = "new", pc' \in FreshPlaces
             PROVE  Fresh'
  BY DEF FreshInv
<1>1. board = "new" /\ pc \in FreshPlaces /\ Fresh
  BY PlaceSteps DEF FreshInv
<1>2. BootIrq \notin Channels /\ SoftResetIrq \notin Channels
  BY Sizes DEF BootIrq, SoftResetIrq
<1>3. ASSUME NEW c \in Channels, HwProcess(c) PROVE FALSE
  <2>1. c \in started /\ num_proc[c] < num_avail[c]
    BY <1>3 DEF HwProcess
  <2>2. pc # "reinit" => started = {}
    BY <1>1 DEF PowerInv, MemoryInv, FreshPlaces, ResetPlaces, VdmaPlaces, Releasing
  <2>3. pc = "reinit" => num_avail[c] = 0
    BY DEF PowerInv, BootInv, ThreadInv
  <2>4. num_proc[c] \in 0 .. num_avail[c]
    BY DEF PowerInv, BootInv, TypeOK
  <2> QED
    BY <2>1, <2>2, <2>3, <2>4
<1>4. /\ UNCHANGED <<curr_channel_index, desc_program_num>>
  <2>1. CASE Allocate
    BY <2>1 DEF Allocate
  <2>2. CASE ~Allocate
    <3>1. ~ProgramChunk /\ ~ChunkFails
      BY <1>1 DEF ProgramChunk, ChunkFails, Fail, FreshPlaces, ResetPlaces
    <3> QED
      BY <1>3, <2>2, <3>1, LayoutSteps
  <2> QED
    BY <2>1, <2>2
<1>5. boot_used_channel_bitmap' = {0} /\ NoneRaised'
  <2> USE DEF threadVars, boardVars, flagVars, completionVars, programVars,
             memoryVars, hwVars, irqVars
  <2>0. boot_used_channel_bitmap = {0} /\ NoneRaised
    BY <1>1 DEF Fresh
  <2>1. CASE Activate \/ ActivateFails \/ LoadFirmware \/ LeaveBoot \/ GetDriverInfo
             \/ Deactivate \/ Sleep
    BY <2>0, <2>1 DEF NoneRaised, Activate, ActivateFails, LoadFirmware, LeaveBoot,
       GetDriverInfo, Deactivate, Sleep
  <2>2. CASE ResetWrite \/ ResetReinit \/ ResetWaited \/ ResetBooted \/ ResetTimeout
    BY <2>0, <2>2 DEF NoneRaised, ResetWrite, ResetReinit, ResetWaited, ResetBooted, ResetTimeout
  <2>3. CASE InitCompletions \/ WriteFirstStage \/ WriteFails \/ FirstStageWaited \/ WaitTimeout
    BY <2>0, <2>3 DEF NoneRaised, InitCompletions, WriteFirstStage, WriteFails,
       FirstStageWaited, WaitTimeout
  <2>4. CASE Allocate \/ AllocateFails \/ ReinitVdma \/ ProgramFails
    BY <2>0, <2>4 DEF NoneRaised, Allocate, AllocateFails, ReinitVdma, ProgramFails
  <2>5. CASE SetNumAvail \/ VdmaWaited \/ VdmaTimeout \/ TriggerSecondStage
    BY <2>0, <2>5 DEF NoneRaised, SetNumAvail, VdmaWaited, VdmaTimeout, TriggerSecondStage
  <2>6. CASE ReleaseLists \/ ReleaseMemory \/ SecondStageWaited
    BY <2>0, <2>6 DEF NoneRaised, ReleaseLists, ReleaseMemory, SecondStageWaited
  <2>7. CASE IrqRead
    BY <2>0, <2>7 DEF NoneRaised, IrqRead
  <2>8. CASE IrqHandle
    BY <2>0, <2>8, Sizes DEF NoneRaised, IrqHandle
  <2>9. CASE FwUp \/ FwReset
    BY <1>2, <2>0, <2>9 DEF NoneRaised, FwUp, FwReset
  <2>10. CASE ProgramChunk \/ ChunkFails
    BY <1>1, <2>10 DEF ProgramChunk, ChunkFails, Fail, FreshPlaces, ResetPlaces
  <2>11. CASE UNCHANGED vars
    BY <2>0, <2>11 DEF NoneRaised, vars
  <2> QED
    BY <1>3, <2>1, <2>2, <2>3, <2>4, <2>5, <2>6, <2>7, <2>8, <2>9, <2>10, <2>11
    DEF Next, Thread, Hardware
<1> QED
  BY <1>1, <1>4, <1>5 DEF Fresh

(* A step of the interrupt handler or of the device, while the lists are   *)
(* written or run.                                                         *)
LEMMA LoadSteps ==
  ASSUME PowerInv, [Next]_vars, pc \in {"program"} \union TransferPlaces, pc' = pc
  PROVE  \/ ProgramChunk \/ SetNumAvail \/ IrqRead \/ IrqHandle
         \/ \E c \in Channels : HwProcess(c)
         \/ UNCHANGED vars
<1>0. fw = "first_up"
  BY DEF PowerInv, BootInv, SignalInv, TransferPlaces, VdmaPlaces
<1> USE DEF TransferPlaces, Goto, Step, Fail
<1>1. ~(Activate \/ ActivateFails \/ LoadFirmware \/ LeaveBoot \/ GetDriverInfo
           \/ Deactivate \/ Sleep)
  BY DEF Activate, ActivateFails, LoadFirmware, LeaveBoot, GetDriverInfo, Deactivate, Sleep
<1>2. ~(ResetWrite \/ ResetReinit \/ ResetWaited \/ ResetBooted \/ ResetTimeout)
  BY DEF ResetWrite, ResetReinit, ResetWaited, ResetBooted, ResetTimeout
<1>3. ~(InitCompletions \/ WriteFirstStage \/ WriteFails \/ FirstStageWaited \/ WaitTimeout)
  BY DEF InitCompletions, WriteFirstStage, WriteFails, FirstStageWaited, WaitTimeout
<1>4. ~(Allocate \/ AllocateFails \/ ReinitVdma \/ ProgramFails \/ ChunkFails)
  BY DEF Allocate, AllocateFails, ReinitVdma, ProgramFails, ChunkFails
<1>5. ~(VdmaWaited \/ VdmaTimeout \/ TriggerSecondStage)
  BY DEF VdmaWaited, VdmaTimeout, TriggerSecondStage
<1>6. ~(ReleaseLists \/ ReleaseMemory \/ SecondStageWaited)
  BY DEF ReleaseLists, ReleaseMemory, SecondStageWaited
<1>7. ~(FwUp \/ FwReset)
  BY <1>0 DEF FwUp, FwReset
<1> QED
  BY <1>1, <1>2, <1>3, <1>4, <1>5, <1>6, <1>7 DEF Next, Thread, Hardware

(* Programming leaves the lists laid out.                                  *)
LEMMA ChunkLayout ==
  ASSUME TypeOK, Layout, IrqsPlaced(FALSE), batch' = batch,
         boot_used_channel_bitmap = 0 .. curr_channel_index,
         NEW c \in Channels, NEW n \in Nat \ {0}, PlacesChunk(c, n)
  PROVE  /\ Layout' /\ desc_program_num'[c] > 0
         /\ pc' = "program" => IrqsPlaced(FALSE)'
         /\ pc' = "avail" => IrqsPlaced(TRUE)'
         /\ boot_used_channel_bitmap' = 0 .. curr_channel_index'
         /\ \A k \in 0 .. c : desc_program_num'[k] > 0
<1> DEFINE first == desc_program_num[c]
<1>1. /\ desc_program_num \in [Channels -> 0 .. Usable] /\ curr_channel_index \in Channels
      /\ Channels \subseteq Nat /\ Usable \in Nat /\ Usable >= 1
      /\ desc_program_num[curr_channel_index] \in 0 .. Usable
  BY Sizes DEF TypeOK
<1>2. /\ curr_channel_index' = c
      /\ desc_program_num'[c] = first + n /\ first \in 0 .. Usable /\ first + n <= Usable
      /\ \A k \in Channels : k # c => desc_program_num'[k] = desc_program_num[k]
      /\ \A k \in Channels : k # c => descs'[k] = descs[k]
  BY <1>1 DEF PlacesChunk
<1>3. \/ c = curr_channel_index
      \/ c = curr_channel_index + 1 /\ desc_program_num[curr_channel_index] = Usable /\ first = 0
  BY DEF PlacesChunk
<1>4. /\ \A d \in 1 .. first : descs'[c][d] = descs[c][d]
      /\ \A d \in first + 1 .. first + n :
           /\ Placed(descs'[c][d], c * Usable + d)
           /\ descs'[c][d].irq <=> d = Usable \/ (pc' = "avail" /\ d = first + n)
  BY DEF PlacesChunk
<1>5. boot_used_channel_bitmap' = 0 .. curr_channel_index'
  <2>1. boot_used_channel_bitmap' = boot_used_channel_bitmap \union
                                     (IF c = curr_channel_index THEN {} ELSE {c})
    BY DEF PlacesChunk
  <2> QED
    BY <1>1, <1>2, <1>3, <2>1
<1>6. ASSUME NEW k \in Channels
      PROVE  /\ k < c => desc_program_num'[k] = Usable
             /\ k > c => desc_program_num'[k] = 0
  <2>1. /\ k < curr_channel_index => desc_program_num[k] = Usable
        /\ k > curr_channel_index => desc_program_num[k] = 0
    BY DEF Layout
  <2> QED
    BY <1>1, <1>2, <1>3, <2>1
<1>7. ASSUME NEW k \in Channels, NEW d \in 1 .. desc_program_num'[k]
      PROVE  /\ Placed(descs'[k][d], k * Usable + d)
             /\ descs'[k][d].irq <=>
                  d = Usable \/ (pc' = "avail" /\ k = c /\ d = first + n)
  <2>1. CASE k # c
    <3>1. d \in 1 .. desc_program_num[k] /\ descs'[k] = descs[k]
      BY <1>2, <2>1
    <3> QED
      BY <2>1, <3>1 DEF Layout, IrqsPlaced
  <2>2. CASE k = c /\ d <= first
    <3>1. d \in 1 .. first /\ descs'[c][d] = descs[c][d] /\ d # first + n
      BY <1>2, <1>4, <2>2
    <3> QED
      BY <2>2, <3>1 DEF Layout, IrqsPlaced
  <2>3. CASE k = c /\ d > first
    <3>1. d \in first + 1 .. first + n
      BY <1>2, <2>3
    <3> QED
      BY <1>4, <2>3, <3>1
  <2> QED
    BY <1>2, <2>1, <2>2, <2>3
<1>8. Layout'
  <2>1. ASSUME NEW k \in Channels, NEW d \in 1 .. desc_program_num'[k]
        PROVE  Placed(descs[k][d], k * Usable + d)'
    BY <1>7, <2>1 DEF Placed
  <2> QED
    BY <1>2, <1>6, <2>1 DEF Layout
<1>9. /\ pc' = "program" => IrqsPlaced(FALSE)'
      /\ pc' = "avail" => IrqsPlaced(TRUE)'
  BY <1>2, <1>7 DEF IrqsPlaced
<1>10. \A k \in 0 .. c : desc_program_num'[k] > 0
  <2> TAKE k \in 0 .. c
  <2>1. k \in Channels
    BY <1>1, SizesAssumption DEF Channels
  <2>2. CASE k = c
    BY <1>2, <2>2
  <2>3. CASE k < c
    BY <1>1, <1>6, <2>1, <2>3
  <2> QED
    BY <1>1, <2>2, <2>3
<1>11. desc_program_num'[c] > 0
  <2> HIDE DEF first
  <2> QED
    BY <1>2
<1> QED
  BY <1>5, <1>8, <1>9, <1>10, <1>11

LEMMA NextProgram ==
  PowerInv /\ EndsWhole(batch) /\ FreshInv /\ ProgramInv /\ [Next]_vars => ProgramInv'
<1> SUFFICES ASSUME PowerInv, EndsWhole(batch), FreshInv, ProgramInv, [Next]_vars,
                    pc' = "program"
             PROVE  ProgramInv'
  BY DEF ProgramInv
<1> USE DEF threadVars, boardVars, flagVars, completionVars, programVars,
           memoryVars, hwVars, irqVars
<1>1. CASE ReinitVdma
  <2>1. /\ pc = "reinit" /\ file_index' = 1 /\ data_offset' = 0 /\ vdma_boot_completion' = FALSE
        /\ UNCHANGED <<batch, curr_channel_index, desc_program_num, descs,
                       boot_used_channel_bitmap, istatus, irq_source>>
    BY <1>1 DEF ReinitVdma
  <2>2. accelerator_type = "SOC" /\ board \in {"new", "suspended"}
    BY <2>1 DEF PowerInv, BootInv, ThreadInv, SocPlaces, VdmaPlaces
  <2>3. board = "new"
    BY <2>1, <2>2 DEF PowerInv, OnceInv
  <2>4. Fresh
    BY <2>1, <2>3 DEF FreshInv, FreshPlaces
  <2>5. Layout /\ IrqsPlaced(FALSE) /\ Total = 0
    <3>1. \A c \in Channels : desc_program_num[c] = 0 /\ c >= 0
      BY <2>4, Sizes DEF Fresh
    <3>2. Layout
      BY <2>4, <3>1, Sizes DEF Layout, Fresh
    <3>3. IrqsPlaced(FALSE)
      BY <3>1 DEF IrqsPlaced
    <3>4. Total = 0
      BY <2>4, <3>1, Sizes DEF Total, Fresh
    <3> QED
      BY <3>2, <3>3, <3>4
  <2>6. Layout' /\ IrqsPlaced(FALSE)' /\ Total' = 0
    BY <2>1, <2>5, LayoutKept
  <2>7. Cursor'
    <3>1. data_offset' = 0 * PageSize
      BY <2>1, SizesAssumption
    <3>2. batch \in Batches
      BY DEF PowerInv, BootInv, TypeOK
    <3>3. Total' = DescsOf(batch')[file_index' - 1] + 0
      BY <2>1, <2>6, <3>2, DescsSum
    <3> QED
      BY <3>1, <3>3 DEF Cursor
  <2>8. NoneRaised' /\ boot_used_channel_bitmap' = 0 .. curr_channel_index'
    BY <2>1, <2>4 DEF Fresh, NoneRaised
  <2> QED
    BY <2>1, <2>6, <2>7, <2>8 DEF ProgramInv
<1>2. CASE ~ReinitVdma
  <2>1. pc = "program"
    BY <1>2, PlaceSteps
  <2>2. /\ Layout /\ Cursor /\ IrqsPlaced(FALSE) /\ NoneRaised
        /\ boot_used_channel_bitmap = 0 .. curr_channel_index /\ ~vdma_boot_completion
    BY <2>1 DEF ProgramInv
  <2>3. CASE ProgramChunk
    <3>1. TypeOK /\ ThreadInv
      BY DEF PowerInv, BootInv
    <3>2. PICK c \in Channels, n \in Nat \ {0} : PlacesChunk(c, n)
      BY <2>2, <2>3, <3>1, ProgramChunkPlaces
    <3>3. UNCHANGED <<batch, vdma_boot_completion, istatus, irq_source>>
      BY <2>3 DEF ProgramChunk
    <3>4. Layout' /\ IrqsPlaced(FALSE)' /\ boot_used_channel_bitmap' = 0 .. curr_channel_index'
      BY <2>2, <3>1, <3>2, <3>3, ChunkLayout
    <3>5. Cursor'
      BY <3>2 DEF PlacesChunk
    <3> QED
      BY <2>2, <3>3, <3>4, <3>5 DEF ProgramInv, NoneRaised
  <2>4. ASSUME NEW c \in Channels, HwProcess(c) PROVE FALSE
    <3>1. num_proc[c] < num_avail[c]
      BY <2>4 DEF HwProcess
    <3>2. num_avail[c] = 0 /\ num_proc[c] \in 0 .. num_avail[c]
      BY <2>1 DEF PowerInv, BootInv, ThreadInv, TypeOK
    <3> QED
      BY <3>1, <3>2
  <2>5. CASE ~ProgramChunk
    <3>1. IrqRead \/ IrqHandle \/ UNCHANGED vars
      BY <2>1, <2>4, <2>5, LoadSteps DEF SetNumAvail
    <3>2. /\ UNCHANGED <<batch, curr_channel_index, desc_program_num, descs, file_index,
                         data_offset>>
          /\ NoneRaised'
      BY <2>2, <3>1 DEF IrqRead, IrqHandle, vars, NoneRaised
    <3>3. Layout' /\ IrqsPlaced(FALSE)' /\ Total' = Total
      BY <2>2, <3>2, LayoutKept
    <3>4. Cursor'
      BY <2>2, <3>2, <3>3 DEF Cursor
    <3>5. UNCHANGED boot_used_channel_bitmap /\ ~vdma_boot_completion'
      <4>1. CASE IrqHandle
        <5>1. curr_channel_index \in Channels /\ boot_used_channel_bitmap \subseteq Channels
          BY DEF PowerInv, BootInv, TypeOK
        <5>2. boot_used_channel_bitmap \ irq_source = boot_used_channel_bitmap
          BY <2>2, <5>1 DEF NoneRaised
        <5>3. boot_used_channel_bitmap # {}
          BY <2>2, <5>1, Sizes
        <5> QED
          BY <2>2, <4>1, <5>2, <5>3, Zenon DEF IrqHandle
      <4>2. CASE IrqRead \/ UNCHANGED vars
        BY <2>2, <4>2 DEF IrqRead, vars
      <4> QED
        BY <3>1, <4>1, <4>2
    <3> QED
      BY <2>2, <3>2, <3>3, <3>4, <3>5 DEF ProgramInv
  <2> QED
    BY <2>3, <2>5
<1> QED
  BY <1>1, <1>2

(* The descriptor with which a channel's processing ends is the one that   *)
(* raises its interrupt.                                                   *)
LEMMA ProcessReports ==
  ASSUME PowerInv, Complete, IrqsPlaced(TRUE), NEW c \in Channels, HwProcess(c)
  PROVE  /\ c \in 0 .. curr_channel_index /\ num_proc[c] < desc_program_num[c]
         /\ num_proc' = [num_proc EXCEPT ![c] = num_proc[c] + 1]
         /\ istatus' = istatus \union
                         (IF num_proc[c] + 1 = desc_program_num[c] THEN {c} ELSE {})
<1> DEFINE d == num_proc[c] + 1
<1>1. /\ num_proc[c] < num_avail[c]
      /\ num_proc' = [num_proc EXCEPT ![c] = num_proc[c] + 1]
      /\ istatus' = istatus \union (IF descs[c][d] # NoDesc /\ descs[c][d].irq THEN {c} ELSE {})
  BY DEF HwProcess
<1>2. /\ num_proc[c] \in 0 .. num_avail[c] /\ num_avail[c] \in 0 .. Usable
      /\ desc_program_num[c] \in 0 .. Usable /\ curr_channel_index \in Channels
      /\ Channels \subseteq Nat /\ Usable \in Nat
  BY Sizes DEF PowerInv, BootInv, TypeOK
<1>3. num_avail[c] <= desc_program_num[c]
  BY DEF PowerInv, MemoryInv
<1>4. d \in 1 .. desc_program_num[c] /\ num_proc[c] < desc_program_num[c]
  BY <1>1, <1>2, <1>3
<1>5. descs[c][d] # NoDesc
  BY <1>4 DEF PowerInv, MemoryInv
<1>6. /\ c < curr_channel_index => desc_program_num[c] = Usable
      /\ c > curr_channel_index => desc_program_num[c] = 0
  BY DEF Complete, Layout
<1>7. c \in 0 .. curr_channel_index
  BY <1>2, <1>4, <1>6
<1>8. descs[c][d].irq <=>
        d = Usable \/ (TRUE /\ c = curr_channel_index /\ d = desc_program_num[c])
  BY <1>4 DEF IrqsPlaced
<1>9. d = Usable \/ (c = curr_channel_index /\ d = desc_program_num[c]) <=>
        d = desc_program_num[c]
  BY <1>2, <1>4, <1>6, <1>7
<1>10. descs[c][d].irq <=> d = desc_program_num[c]
  BY <1>8, <1>9
<1> QED
  BY <1>1, <1>4, <1>5, <1>7, <1>10

LEMMA NextTransfer ==
  PowerInv /\ EndsWhole(batch) /\ ProgramInv /\ TransferInv /\ [Next]_vars => TransferInv'
<1> SUFFICES ASSUME PowerInv, EndsWhole(batch), ProgramInv, TransferInv, [Next]_vars,
                    pc' \in TransferPlaces
             PROVE  TransferInv'
  BY DEF TransferInv, TransferPlaces
<1> USE DEF threadVars, boardVars, flagVars, completionVars, programVars,
           memoryVars, hwVars, irqVars
<1>0. /\ TypeOK /\ ThreadInv /\ curr_channel_index \in Channels /\ Channels \subseteq Nat
      /\ 0 .. curr_channel_index \subseteq Channels
      /\ \A c \in Channels : num_proc[c] \in Nat
  <2>1. TypeOK /\ ThreadInv /\ curr_channel_index \in Channels /\ Channels \subseteq Nat
    BY Sizes DEF PowerInv, BootInv, TypeOK
  <2>2. 0 .. curr_channel_index \subseteq Channels
    BY <2>1, SizesAssumption DEF Channels
  <2>3. \A c \in Channels : num_proc[c] \in Nat
    BY <2>1, Sizes, SMTT(40) DEF TypeOK
  <2> QED
    BY <2>1, <2>2, <2>3
<1>1. CASE pc \notin TransferPlaces
  <2>1. ProgramChunk /\ pc = "program"
    BY <1>1, PlaceSteps DEF ProgramChunk
  <2>2. /\ Layout /\ Cursor /\ IrqsPlaced(FALSE) /\ NoneRaised
        /\ boot_used_channel_bitmap = 0 .. curr_channel_index /\ ~vdma_boot_completion
    BY <2>1 DEF ProgramInv
  <2>3. PICK c \in Channels, n \in Nat \ {0} : PlacesChunk(c, n)
    BY <1>0, <2>1, <2>2, ProgramChunkPlaces
  <2>4. UNCHANGED <<batch, vdma_boot_completion, istatus, irq_source, num_proc>>
    BY <2>1 DEF ProgramChunk
  <2>5. pc' = "avail" /\ Total' = DescsOf(batch)[Len(batch)] /\ curr_channel_index' = c
    BY <2>3 DEF PlacesChunk, TransferPlaces
  <2>6. /\ Layout' /\ IrqsPlaced(TRUE)' /\ boot_used_channel_bitmap' = 0 .. curr_channel_index'
        /\ desc_program_num'[c] > 0 /\ \A k \in 0 .. c : desc_program_num'[k] > 0
    BY <1>0, <2>2, <2>3, <2>4, <2>5, ChunkLayout
  <2>7. Complete'
    BY <2>4, <2>5, <2>6 DEF Complete
  <2>8. Reported'
    <3>1. \A k \in Channels : num_proc[k] = 0
      BY <1>0, <2>1, SMTT(40) DEF TypeOK, ThreadInv
    <3>2. 0 .. c \subseteq Channels
      BY <1>0, SizesAssumption DEF Channels
    <3> QED
      BY <2>2, <2>4, <2>5, <2>6, <3>1, <3>2 DEF Reported, NoneRaised
  <2>9. boot_used_channel_bitmap' # {}
    <3>1. c \in Nat /\ c \in 0 .. c
      BY <1>0
    <3> QED
      BY <2>5, <2>6, <3>1
  <2> QED
    BY <2>2, <2>4, <2>5, <2>6, <2>7, <2>8, <2>9 DEF TransferInv
<1>2. CASE pc \in TransferPlaces
  <2>1. /\ Complete /\ IrqsPlaced(TRUE) /\ Reported
        /\ desc_program_num[curr_channel_index] > 0
        /\ boot_used_channel_bitmap \subseteq 0 .. curr_channel_index
        /\ vdma_boot_completion <=> boot_used_channel_bitmap = {}
        /\ pc = "trigger" => vdma_boot_completion
    BY <1>2 DEF TransferInv
  <2>2. /\ UNCHANGED <<batch, curr_channel_index, desc_program_num, descs>>
    <3>1. ~Allocate /\ ~ProgramChunk /\ ~ChunkFails
      BY <1>2 DEF Allocate, Step, ProgramChunk, ChunkFails, Fail, TransferPlaces
    <3>2. \A c \in Channels : HwProcess(c) =>
            UNCHANGED <<curr_channel_index, desc_program_num, descs>>
      BY DEF HwProcess
    <3> QED
      BY <3>1, <3>2, LayoutSteps
  <2>3. Complete' /\ IrqsPlaced(TRUE)' /\ desc_program_num'[curr_channel_index'] > 0
    BY <2>1, <2>2, LayoutKept
  <2>4. CASE VdmaWaited
    <3>1. /\ vdma_boot_completion
          /\ UNCHANGED <<vdma_boot_completion, boot_used_channel_bitmap, istatus, irq_source,
                         num_proc>>
      BY <2>4 DEF VdmaWaited
    <3> QED
      BY <2>1, <2>2, <2>3, <3>1 DEF TransferInv, Reported
  <2>5. CASE SetNumAvail
    <3>1. /\ pc' # "trigger"
          /\ UNCHANGED <<vdma_boot_completion, boot_used_channel_bitmap, istatus, irq_source,
                         num_proc>>
      BY <2>5 DEF SetNumAvail, Goto
    <3> QED
      BY <2>1, <2>2, <2>3, <3>1 DEF TransferInv, Reported
  <2>6. CASE IrqRead
    <3>1. /\ UNCHANGED <<pc, vdma_boot_completion, boot_used_channel_bitmap, num_proc>>
          /\ irq_source = {} /\ irq_source' = istatus /\ istatus' = {}
      BY <2>6 DEF IrqRead
    <3>2. Reported'
      BY <2>1, <2>2, <3>1 DEF Reported
    <3> QED
      BY <2>1, <2>2, <2>3, <3>1, <3>2 DEF TransferInv
  <2>7. CASE IrqHandle
    <3>1. BootIrq \notin irq_source /\ is_in_boot
      BY <1>2 DEF PowerInv, BootInv, SignalInv, ThreadInv, Quiet, Raised, VdmaPlaces,
         TransferPlaces, OutOfBoot
    <3>2. /\ UNCHANGED <<pc, num_proc, istatus>> /\ irq_source' = {}
          /\ boot_used_channel_bitmap' = boot_used_channel_bitmap \ irq_source
          /\ vdma_boot_completion' = (vdma_boot_completion \/ boot_used_channel_bitmap' = {})
      BY <2>7, <3>1 DEF IrqHandle
    <3>3. Reported'
      BY <2>1, <2>2, <3>2 DEF Reported
    <3>4. vdma_boot_completion' <=> boot_used_channel_bitmap' = {}
      <4>1. boot_used_channel_bitmap = {} => boot_used_channel_bitmap' = {}
        BY <3>2
      <4> QED
        BY <2>1, <3>2, <4>1, Zenon
    <3>5. pc' = "trigger" => vdma_boot_completion'
      BY <2>1, <3>2, <3>4, Zenon
    <3>6. boot_used_channel_bitmap' \subseteq 0 .. curr_channel_index'
      BY <2>1, <2>2, <3>2
    <3> QED
      BY <2>3, <3>3, <3>4, <3>5, <3>6 DEF TransferInv
  <2>8. ASSUME NEW c \in Channels, HwProcess(c) PROVE TransferInv'
    <3>1. UNCHANGED <<pc, vdma_boot_completion, boot_used_channel_bitmap, irq_source>>
      BY <2>8 DEF HwProcess
    <3>2. /\ c \in 0 .. curr_channel_index /\ num_proc[c] < desc_program_num[c]
          /\ num_proc' = [num_proc EXCEPT ![c] = num_proc[c] + 1]
          /\ istatus' = istatus \union
                          (IF num_proc[c] + 1 = desc_program_num[c] THEN {c} ELSE {})
      BY <2>1, <2>8, ProcessReports
    <3>3. DOMAIN num_proc = Channels
      BY DEF PowerInv, BootInv, TypeOK
    <3>4. Reported'
      <4> SUFFICES ASSUME NEW k \in 0 .. curr_channel_index
                   PROVE  num_proc'[k] = desc_program_num[k] <=>
                            \/ k \notin boot_used_channel_bitmap
                            \/ k \in istatus' \/ k \in irq_source
        BY <2>2, <3>1 DEF Reported
      <4>1. num_proc[k] = desc_program_num[k] <=>
              k \notin boot_used_channel_bitmap \/ k \in istatus \/ k \in irq_source
        BY <2>1 DEF Reported
      <4>2. CASE k # c
        <5>1. num_proc'[k] = num_proc[k] /\ (k \in istatus' <=> k \in istatus)
          BY <1>0, <3>2, <3>3, <4>2
        <5> QED
          BY <4>1, <5>1
      <4>3. CASE k = c
        <5>1. num_proc[c] \in Nat /\ num_proc'[c] = num_proc[c] + 1
          BY <1>0, <3>2, <3>3
        <5>2. ~(num_proc[c] = desc_program_num[c])
          BY <3>2, <5>1
        <5> QED
          BY <3>2, <4>1, <4>3, <5>1, <5>2
      <4> QED
        BY <4>2, <4>3
    <3> QED
      BY <2>1, <2>2, <2>3, <3>1, <3>4 DEF TransferInv
  <2>9. CASE UNCHANGED vars
    <3>1. UNCHANGED <<pc, vdma_boot_completion, boot_used_channel_bitmap, istatus, irq_source,
                      num_proc>>
      BY <2>9 DEF vars
    <3> QED
      BY <2>1, <2>2, <2>3, <3>1 DEF TransferInv, Reported
  <2>10. \/ VdmaWaited \/ SetNumAvail \/ IrqRead \/ IrqHandle
         \/ \E c \in Channels : HwProcess(c)
         \/ UNCHANGED vars
    <3>1. CASE pc' = pc
      BY <1>2, <3>1, LoadSteps DEF ProgramChunk, TransferPlaces
    <3>2. CASE pc' # pc
      <4> USE DEF TransferPlaces, Goto, Step, Fail
      <4>1. ~(Activate \/ ActivateFails \/ LoadFirmware \/ LeaveBoot \/ GetDriverInfo
                 \/ Deactivate \/ Sleep)
        BY <1>2 DEF Activate, ActivateFails, LoadFirmware, LeaveBoot, GetDriverInfo,
           Deactivate, Sleep
      <4>2. ~(ResetWrite \/ ResetReinit \/ ResetWaited \/ ResetBooted \/ ResetTimeout)
        BY <1>2 DEF ResetWrite, ResetReinit, ResetWaited, ResetBooted, ResetTimeout
      <4>3. ~(InitCompletions \/ WriteFirstStage \/ WriteFails \/ FirstStageWaited
                 \/ WaitTimeout)
        BY <1>2 DEF InitCompletions, WriteFirstStage, WriteFails, FirstStageWaited, WaitTimeout
      <4>4. ~(Allocate \/ AllocateFails \/ ReinitVdma \/ ProgramFails \/ ProgramChunk
                 \/ ChunkFails)
        BY <1>2 DEF Allocate, AllocateFails, ReinitVdma, ProgramFails, ProgramChunk, ChunkFails
      <4>5. ~(VdmaTimeout \/ TriggerSecondStage)
        BY <1>2 DEF VdmaTimeout, TriggerSecondStage, Releasing
      <4>6. ~(ReleaseLists \/ ReleaseMemory \/ SecondStageWaited)
        BY <1>2 DEF ReleaseLists, ReleaseMemory, SecondStageWaited
      <4>7. ~(FwUp \/ FwReset)
        BY <3>2 DEF FwUp, FwReset
      <4> QED
        BY <4>1, <4>2, <4>3, <4>4, <4>5, <4>6, <4>7 DEF Next, Thread, Hardware
    <3> QED
      BY <3>1, <3>2
  <2> QED
    BY <2>4, <2>5, <2>6, <2>7, <2>8, <2>9, <2>10
<1> QED
  BY <1>1, <1>2

LEMMA NextImage == PowerInv /\ TransferInv /\ ImageInv /\ [Next]_vars => ImageInv'
<1> SUFFICES ASSUME PowerInv, TransferInv, ImageInv, [Next]_vars, fw' = "stage2"
             PROVE  Complete' /\ \A c \in Channels : num_proc'[c] = desc_program_num'[c]
  BY DEF ImageInv
<1>0. fw \in {"first_up", "stage2"}
  BY LayoutSteps DEF TriggerSecondStage, Step, PowerInv, BootInv, SignalInv, VdmaPlaces
<1>1. Complete /\ \A c \in Channels : num_proc[c] = desc_program_num[c]
  <2>1. CASE fw = "stage2"
    BY <2>1 DEF ImageInv
  <2>2. CASE fw # "stage2"
    <3>1. pc = "trigger"
      BY <2>2, LayoutSteps DEF TriggerSecondStage, Step
    <3>2. /\ Complete /\ Reported /\ boot_used_channel_bitmap = {}
      BY <3>1 DEF TransferInv, TransferPlaces
    <3>3. ASSUME NEW c \in Channels PROVE num_proc[c] = desc_program_num[c]
      <4>1. curr_channel_index \in Nat /\ c \in Nat /\ num_avail[c] \in 0 .. Usable
            /\ num_proc[c] \in 0 .. num_avail[c] /\ desc_program_num[c] \in 0 .. Usable
        BY Sizes DEF PowerInv, BootInv, TypeOK
      <4>2. CASE c <= curr_channel_index
        BY <3>2, <4>1, <4>2 DEF Reported
      <4>3. CASE c > curr_channel_index
        <5>1. desc_program_num[c] = 0
          BY <3>2, <4>3 DEF Complete, Layout
        <5>2. num_avail[c] <= desc_program_num[c]
          BY DEF PowerInv, MemoryInv
        <5> QED
          BY <4>1, <5>1, <5>2, Sizes
      <4> QED
        BY <4>1, <4>2, <4>3
    <3> QED
      BY <3>2, <3>3
  <2> QED
    BY <2>1, <2>2
<1>2. UNCHANGED <<batch, curr_channel_index, desc_program_num, descs, num_proc>>
  <2>1. ~Allocate /\ ~ProgramChunk /\ ~ChunkFails
    <3>1. fw = "stage2" => pc \notin VdmaPlaces \union {"allocate"}
      BY DEF PowerInv, BootInv, SignalInv
    <3>2. fw # "stage2" => pc = "trigger"
      BY LayoutSteps DEF TriggerSecondStage, Step
    <3> QED
      BY <3>1, <3>2 DEF Allocate, Step, ProgramChunk, ChunkFails, Fail, VdmaPlaces
  <2>2. ASSUME NEW c \in Channels, HwProcess(c) PROVE FALSE
    <3>1. num_proc[c] < num_avail[c] /\ num_avail[c] <= desc_program_num[c]
      BY <2>2 DEF HwProcess, PowerInv, MemoryInv
    <3>2. num_proc[c] \in 0 .. num_avail[c] /\ num_avail[c] \in 0 .. Usable
          /\ desc_program_num[c] \in 0 .. Usable
      BY Sizes DEF PowerInv, BootInv, TypeOK
    <3> QED
      BY <1>1, <3>1, <3>2, Sizes
  <2> QED
    BY <2>1, <2>2, LayoutSteps
<1>3. Complete'
  BY <1>1, <1>2, LayoutKept
<1> QED
  BY <1>1, <1>2, <1>3

LEMMA LoadInvariant == {"power", "whole"} \subseteq Contract => (Spec => []LoadInv)
<1> SUFFICES ASSUME {"power", "whole"} \subseteq Contract PROVE Spec => []LoadInv
  OBVIOUS
<1>1. Init => LoadInv
  BY InitLoad
<1>2. PowerInv /\ LoadInv /\ [Next]_vars => LoadInv'
  <2> SUFFICES ASSUME PowerInv, LoadInv, [Next]_vars PROVE LoadInv'
    OBVIOUS
  <2>1. EndsWhole(batch)'
    BY LayoutSteps DEF LoadInv, EndsWhole
  <2> QED
    BY <2>1, NextFresh, NextProgram, NextTransfer, NextImage DEF LoadInv
<1>3. Spec => []PowerInv
  BY PowerInvariant
<1> QED
  BY <1>1, <1>2, <1>3, PTL DEF Spec

(* When the second stage of a SOC is triggered, each unit of each of its   *)
(* files has been transferred once, however the files are cut: for boards  *)
(* that keep their firmware while they sleep, and files that end with a    *)
(* channel only at the end of a page.                                      *)
THEOREM ImageCorrect ==
  {"power", "whole"} \subseteq Contract => (Spec => []StageTwoHasImage)
<1> SUFFICES ASSUME {"power", "whole"} \subseteq Contract PROVE Spec => []StageTwoHasImage
  OBVIOUS
<1>1. PowerInv /\ LoadInv => StageTwoHasImage
  BY CompleteCarries DEF PowerInv, BootInv, LoadInv, ImageInv, StageTwoHasImage
<1>2. Spec => []PowerInv
  BY PowerInvariant
<1> QED
  BY <1>1, <1>2, LoadInvariant, PTL

(* No interrupt of a boot is lost: those of the firmware, of the channels, *)
(* though they come one by one and boot_irq_handler may read several at    *)
(* once, and of a soft reset.                                              *)
THEOREM SignalsCorrect ==
  {"power", "whole", "reset"} \subseteq Contract => (Spec => []NoLostSignal)
<1> SUFFICES ASSUME {"power", "whole", "reset"} \subseteq Contract PROVE Spec => []NoLostSignal
  OBVIOUS
<1>1. LoadInv /\ PowerInv => VdmaSignalKept
  <2> SUFFICES ASSUME LoadInv, PowerInv, istatus = {}, irq_source = {}, pc = "wait_vdma",
                      num_proc = desc_program_num
               PROVE  vdma_boot_completion
    BY DEF VdmaSignalKept, Settled
  <2>1. /\ Reported /\ boot_used_channel_bitmap \subseteq 0 .. curr_channel_index
        /\ vdma_boot_completion <=> boot_used_channel_bitmap = {}
    BY DEF LoadInv, TransferInv, TransferPlaces
  <2>2. \A c \in 0 .. curr_channel_index : c \notin boot_used_channel_bitmap
    BY <2>1 DEF Reported
  <2> QED
    BY <2>1, <2>2
<1>2. Spec => []PowerInv
  BY PowerInvariant
<1>3. Spec => []LoadInv
  BY LoadInvariant
<1>4. Spec => []ResetSignalKept
  BY ResetSignalCorrect
<1> QED
  BY <1>1, <1>2, <1>3, <1>4, BootSignalCorrect, PTL DEF NoLostSignal

=============================================================================
