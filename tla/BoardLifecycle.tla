--------------------------- MODULE BoardLifecycle ---------------------------
(***************************************************************************)
(* The life of one board after its probe: files are opened, used and       *)
(* closed, the system suspends and resumes, and the device is removed      *)
(* while files may be open (linux/pcie/src/fops.c, linux/pcie/src/pcie.c). *)
(*                                                                         *)
(* board->mutex guards the board, but an open counts its reference before  *)
(* it takes the mutex, ioctls look at pDev before they take it, and the    *)
(* removal looks at the count after it gave the mutex up: those are steps  *)
(* of their own. What runs under the mutex to its end is one step.         *)
(*                                                                         *)
(* A file is used by one thread at a time here: the kernel releases a file *)
(* only when no call on it is left. The device sleeps in D3hot.            *)
(***************************************************************************)
EXTENDS Integers, FiniteSets

CONSTANTS
  Files,
  NoFile,
  PowerMode,  \* power_mode_enabled()
  Contract    \* which of Clauses the environment keeps

(* What the driver leaves to luck:                                         *)
(*   opens   no open is under way while the device is removed              *)
(*   closes  no file is closed between the removal's up and its look at    *)
(*           ref_count                                                     *)
(*   last    no file is closed while an open, which may fail, is under way *)
Clauses == {"opens", "closes", "last"}

ASSUME FilesAssumption == IsFiniteSet(Files) /\ NoFile \notin Files
ASSUME ModesAssumption == PowerMode \in BOOLEAN /\ Contract \subseteq Clauses

VARIABLES
  pc,                 \* where the thread that uses each file is
  context,            \* the file's context: none, valid or invalid
  channels,           \* files whose context has enabled channels
  used_by_filp,       \* vdma.used_by_filp
  mutex,              \* count of board->mutex
  ref_count,
  interrupts_enabled,
  power,              \* pDev->current_state
  present,            \* board->pDev is not NULL, registers are mapped
  listed,             \* the board is in g_hailo_board_list
  engines,            \* vdma_engines, which the device model frees
  freed,              \* times the board was freed
  remover,            \* where hailo_pcie_remove is
  suspended           \* the system sleeps, its threads are frozen

vars == <<pc, context, channels, used_by_filp, mutex, ref_count, interrupts_enabled,
          power, present, listed, engines, freed, remover, suspended>>
deviceVars == <<interrupts_enabled, power>>
fileVars == <<context, channels, used_by_filp>>
removalVars == <<present, listed, engines, remover>>

----------------------------------------------------------------------------
Opening == {"open_down", "open_dec"}
InIoctl == {"ioctl", "asleep", "redown"}
(* The thread will still touch the board.                                  *)
HasBoard == {"user", "release", "free"} \union Opening \union InIoctl

TypeOK ==
  /\ pc \in [Files -> HasBoard \union {"closed"}]
  /\ context \in [Files -> {"none", "valid", "invalid"}]
  /\ channels \subseteq Files
  /\ used_by_filp \in Files \union {NoFile}
  /\ mutex \in {0, 1} /\ ref_count \in Nat
  /\ interrupts_enabled \in BOOLEAN /\ power \in {"D0", "D3hot"}
  /\ present \in BOOLEAN /\ listed \in BOOLEAN /\ engines \in BOOLEAN
  /\ freed \in Nat
  /\ remover \in {"idle", "unlist", "drop", "count", "return", "done"}
  /\ suspended \in BOOLEAN

Goto(f, place) == pc' = [pc EXCEPT ![f] = place]

(* Setting the power state may fail, which is only logged.                 *)
PowerDown(p) == IF PowerMode THEN {p, "D3hot"} ELSE {p}

(* The state a successful hailo_pcie_probe ends in.                        *)
Init ==
  /\ pc = [f \in Files |-> "closed"]
  /\ context = [f \in Files |-> "none"]
  /\ channels = {} /\ used_by_filp = NoFile
  /\ mutex = 1 /\ ref_count = 0
  /\ interrupts_enabled = FALSE /\ power = IF PowerMode THEN "D3hot" ELSE "D0"
  /\ present = TRUE /\ listed = TRUE /\ engines = TRUE
  /\ freed = 0 /\ remover = "idle" /\ suspended = FALSE

----------------------------------------------------------------------------
(* hailo_pcie_get_board_index, under g_hailo_add_board_mutex.              *)
GetBoard(f) ==
  /\ pc[f] = "closed" /\ listed
  /\ "opens" \in Contract => remover = "idle"
  /\ ref_count' = ref_count + 1
  /\ Goto(f, "open_down")
  /\ UNCHANGED <<fileVars, mutex, deviceVars, removalVars, freed, suspended>>

(* The rest of hailo_pcie_fops_open. It reads pDev->current_state: without *)
(* pDev there is no next state.                                            *)
OpenSucceed(f) ==
  /\ pc[f] = "open_down" /\ mutex > 0 /\ present
  /\ context' = [context EXCEPT ![f] = "valid"]
  /\ power' = "D0"
  /\ interrupts_enabled' = TRUE
  /\ Goto(f, "user")
  /\ UNCHANGED <<channels, used_by_filp, mutex, ref_count, removalVars, freed, suspended>>

(* Waking the device, finding it, or enabling interrupts fails: what this  *)
(* open changed is changed back.                                           *)
OpenFail(f) ==
  /\ pc[f] = "open_down" /\ mutex > 0 /\ present
  /\ power' = power \/ (power = "D3hot" /\ power' = "D0")
  /\ Goto(f, "open_dec")
  /\ UNCHANGED <<fileVars, mutex, ref_count, interrupts_enabled, removalVars, freed,
                 suspended>>

(* A signal ends the wait for the mutex, or there is no memory for the     *)
(* context.                                                                *)
OpenInterrupted(f) ==
  /\ pc[f] = "open_down"
  /\ Goto(f, "open_dec")
  /\ UNCHANGED <<fileVars, mutex, ref_count, deviceVars, removalVars, freed, suspended>>

(* Mutant: the reference is kept.                                          *)
OpenForgetsDec(f) ==
  /\ pc[f] = "open_dec"
  /\ Goto(f, "closed")
  /\ UNCHANGED <<fileVars, mutex, ref_count, deviceVars, removalVars, freed, suspended>>

(* l_decrease_ref_count: never the last close.                             *)
OpenDec(f) ==
  /\ pc[f] = "open_dec"
  /\ ref_count' = ref_count - 1
  /\ Goto(f, "closed")
  /\ UNCHANGED <<fileVars, mutex, deviceVars, removalVars, freed, suspended>>

----------------------------------------------------------------------------
(* hailo_pcie_fops_unlockedioctl and hailo_pcie_fops_mmap look at pDev     *)
(* before they take the mutex.                                             *)
IoctlBegin(f) ==
  /\ pc[f] = "user" /\ present
  /\ Goto(f, "ioctl")
  /\ UNCHANGED <<fileVars, mutex, ref_count, deviceVars, removalVars, freed, suspended>>

(* Back to the client: interrupted, or with the mutex given back.          *)
IoctlEnd(f) ==
  /\ pc[f] \in InIoctl
  /\ Goto(f, "user")
  /\ UNCHANGED <<fileVars, mutex, ref_count, deviceVars, removalVars, freed, suspended>>

IoctlRun(f) == pc[f] = "ioctl" /\ mutex > 0 /\ context[f] = "valid"

(* hailo_mark_as_in_use: the first to ask gets the device.                 *)
MarkInUse(f) ==
  /\ IoctlRun(f)
  /\ used_by_filp' = IF used_by_filp = NoFile THEN f ELSE used_by_filp
  /\ Goto(f, "user")
  /\ UNCHANGED <<context, channels, mutex, ref_count, deviceVars, removalVars, freed,
                 suspended>>

(* hailo_vdma_enable_channels_ioctl                                        *)
EnableChannels(f) ==
  /\ IoctlRun(f)
  /\ channels' = channels \union {f}
  /\ Goto(f, "user")
  /\ UNCHANGED <<context, used_by_filp, mutex, ref_count, deviceVars, removalVars, freed,
                 suspended>>

(* Waits for interrupts and notifications give up the mutex, take it again *)
(* and use the board without another look at pDev or at the context.       *)
IoctlSleep(f) ==
  /\ IoctlRun(f)
  /\ Goto(f, "asleep")
  /\ UNCHANGED <<fileVars, mutex, ref_count, deviceVars, removalVars, freed, suspended>>

IoctlWoken(f) ==
  /\ pc[f] = "asleep"
  /\ Goto(f, "redown")
  /\ UNCHANGED <<fileVars, mutex, ref_count, deviceVars, removalVars, freed, suspended>>

----------------------------------------------------------------------------
(* hailo_pcie_fops_release                                                 *)
ReleaseBegin(f) ==
  /\ pc[f] = "user"
  /\ Goto(f, "release")
  /\ UNCHANGED <<fileVars, mutex, ref_count, deviceVars, removalVars, freed, suspended>>

(* hailo_vdma_file_context_finalize and release_file_context.              *)
FinalizeContext(f) ==
  /\ context' = [context EXCEPT ![f] = "none"]
  /\ channels' = channels \ {f}
  /\ used_by_filp' = IF used_by_filp = f THEN NoFile ELSE used_by_filp

(* The last close turns the device off, if there still is one.             *)
TurnOff(last) ==
  /\ interrupts_enabled' = (interrupts_enabled /\ ~(last /\ present))
  /\ power' \in IF last /\ present THEN PowerDown(power) ELSE {power}

(* The clauses about closes.                                               *)
MayRelease ==
  /\ "closes" \in Contract => remover # "count"
  /\ "last" \in Contract => \A g \in Files : pc[g] \notin Opening

(* Mutant: the board is left to the removal.                               *)
ReleaseNoFree(f) ==
  /\ FinalizeContext(f)
  /\ ref_count' = ref_count - 1
  /\ TurnOff(ref_count = 1)
  /\ Goto(f, "closed")

(* Under the mutex; the board is freed after it is given up.               *)
ReleaseFile(f) ==
  /\ FinalizeContext(f)
  /\ ref_count' = ref_count - 1
  /\ TurnOff(ref_count = 1)
  /\ Goto(f, IF ref_count = 1 /\ ~present THEN "free" ELSE "closed")

ReleaseRun(f) ==
  /\ pc[f] = "release" /\ mutex > 0 /\ MayRelease
  /\ ReleaseFile(f)
  /\ UNCHANGED <<mutex, removalVars, freed, suspended>>

ReleaseFree(f) ==
  /\ pc[f] = "free"
  /\ freed' = freed + 1
  /\ Goto(f, "closed")
  /\ UNCHANGED <<fileVars, mutex, ref_count, deviceVars, removalVars, suspended>>

----------------------------------------------------------------------------
(* hailo_pcie_remove, step by step.                                        *)
RemoveDown ==
  /\ remover = "idle" /\ ~suspended
  /\ "opens" \in Contract => \A f \in Files : pc[f] \notin Opening
  /\ mutex > 0 /\ mutex' = mutex - 1
  /\ remover' = "unlist"
  /\ UNCHANGED <<pc, fileVars, ref_count, deviceVars, present, listed, engines, freed,
                 suspended>>

(* hailo_pcie_remove_board, under g_hailo_add_board_mutex.                 *)
RemoveUnlist ==
  /\ remover = "unlist"
  /\ listed' = FALSE
  /\ remover' = "drop"
  /\ UNCHANGED <<pc, fileVars, mutex, ref_count, deviceVars, present, engines, freed,
                 suspended>>

RemoveDrop ==
  /\ remover = "drop"
  /\ interrupts_enabled' = FALSE
  /\ present' = FALSE
  /\ mutex' = mutex + 1
  /\ remover' = "count"
  /\ UNCHANGED <<pc, fileVars, ref_count, power, listed, engines, freed, suspended>>

RemoveCount ==
  /\ remover = "count"
  /\ freed' = IF ref_count = 0 THEN freed + 1 ELSE freed
  /\ remover' = "return"
  /\ UNCHANGED <<pc, fileVars, mutex, ref_count, deviceVars, present, listed, engines,
                 suspended>>

(* What was allocated for the device (devm_kmalloc_array) goes with it.    *)
RemoveReturn ==
  /\ remover = "return"
  /\ engines' = FALSE
  /\ remover' = "done"
  /\ UNCHANGED <<pc, fileVars, mutex, ref_count, deviceVars, present, listed, freed,
                 suspended>>

----------------------------------------------------------------------------
(* Mutant: the contexts stay valid.                                        *)
SuspendKeepsContexts ==
  /\ remover = "idle" /\ ~suspended
  /\ \A f \in Files : pc[f] \in {"closed", "user"}
  /\ interrupts_enabled' = FALSE
  /\ suspended' = TRUE
  /\ UNCHANGED <<pc, context, channels, used_by_filp, mutex, ref_count, power, removalVars,
                 freed>>

(* hailo_pcie_suspend: all threads are frozen, outside of the driver, as   *)
(* freezing interrupts their waits.                                        *)
Suspend ==
  /\ remover = "idle" /\ ~suspended
  /\ \A f \in Files : pc[f] \in {"closed", "user"}
  /\ interrupts_enabled' = FALSE
  /\ context' = [f \in Files |-> IF context[f] = "none" THEN "none" ELSE "invalid"]
  /\ suspended' = TRUE
  /\ UNCHANGED <<pc, channels, used_by_filp, mutex, ref_count, power, removalVars, freed>>

(* hailo_pcie_resume: the PCI core has woken the device; activating the    *)
(* board may fail half way but leaves the interrupts off in any case.      *)
Resume ==
  /\ suspended
  /\ interrupts_enabled' = FALSE
  /\ power' \in PowerDown("D0")
  /\ suspended' = FALSE
  /\ UNCHANGED <<pc, fileVars, mutex, ref_count, removalVars, freed>>

----------------------------------------------------------------------------
Client(f) ==
  \/ GetBoard(f) \/ OpenSucceed(f) \/ OpenFail(f) \/ OpenInterrupted(f) \/ OpenDec(f)
  \/ IoctlBegin(f) \/ MarkInUse(f) \/ EnableChannels(f)
  \/ IoctlSleep(f) \/ IoctlWoken(f) \/ IoctlEnd(f)
  \/ ReleaseBegin(f) \/ ReleaseRun(f) \/ ReleaseFree(f)

Remove ==
  RemoveDown \/ RemoveUnlist \/ RemoveDrop \/ RemoveCount \/ RemoveReturn

Next ==
  \/ ~suspended /\ \E f \in Files : Client(f)
  \/ Remove
  \/ Suspend
  \/ Resume

Spec == Init /\ [][Next]_vars

----------------------------------------------------------------------------
(* Properties.                                                             *)

(* Every open that found the board is counted once and every open file has *)
(* its context, so a release finds it ("Invalid driver state, file context *)
(* does not exist") and is the last one exactly when it takes itself so.   *)
(* vdma.used_by_filp never outlives the file, whose address another open   *)
(* may reuse: that one would own the device without having asked for it.   *)
OpenFilesCounted ==
  /\ TypeOK
  /\ ref_count = Cardinality({f \in Files : pc[f] \notin {"closed", "free"}})
  /\ \A f \in Files :
       context[f] # "none" <=> pc[f] \in {"user", "release"} \union InIoctl
  /\ used_by_filp # NoFile => context[used_by_filp] # "none"

(* "nobody has the board open - free", "board resources are freed on last  *)
(* close": once the device is removed the last one to leave frees the      *)
(* board, nobody frees it twice, and nobody still uses it then.            *)
FreedExactlyOnce ==
  freed = IF remover \in {"return", "done"} /\ \A f \in Files : pc[f] = "closed"
          THEN 1 ELSE 0

(* A file whose context is valid finds the device awake with its interrupts*)
(* on: neither the close of another file, nor a failed open, nor suspend   *)
(* and resume (which do not ask who has the device open) take them away.   *)
(* With nobody there, no interrupt is requested: a later open, resume or   *)
(* removal finds them off (hailo_enable_interrupts refuses to run twice).  *)
DeviceFollowsFiles ==
  /\ \A f \in Files :
       context[f] = "valid" /\ present => interrupts_enabled /\ power = "D0"
  /\ ref_count = 0 => ~interrupts_enabled

(* "Lock board to wait for any pending operations and for synchronization  *)
(* with open": whoever gets the mutex and goes on to use the device finds  *)
(* that it has not been removed.                                           *)
OperationsFindDevice ==
  mutex > 0 =>
    \A f \in Files :
      /\ pc[f] = "open_down" => present
      /\ pc[f] \in {"ioctl", "redown"} /\ context[f] = "valid" => present
      /\ pc[f] = "release" /\ used_by_filp = f => present
      /\ pc[f] = "release" /\ f \in channels => engines

=============================================================================
