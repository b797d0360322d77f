---------------------------- MODULE NncShutdown ----------------------------
(***************************************************************************)
(* The shutdown of a network on the device (hailo_nnc_driver_down in       *)
(* linux/pcie/src/nnc.c): when the file that uses the device is closed,    *)
(* and before the device is reset or the system sleeps, the firmware is    *)
(* asked to stop its side of the vDMA, and an interrupt says that it did.  *)
(* Callers hold the board mutex while they wait, for a bounded time.       *)
(***************************************************************************)
EXTENDS Integers

CONSTANTS
  Users,        \* files
  NoUser,
  DownContract  \* which of DownClauses hold

(* What hailo_nnc_driver_down leaves to luck:                              *)
(*   late   no shutdown is asked for before the answer to the last one,    *)
(*          which timed out, is in                                         *)
DownClauses == {"late"}

ASSUME UsersAssumption == NoUser \notin Users /\ DownContract \subseteq DownClauses

VARIABLES
  user,             \* vdma.used_by_filp
  running,          \* the firmware's vDMA runs
  shutdown,         \* the firmware is asked to stop it
  down_irq,         \* HAILO_PCIE_NNC_DRIVER_DOWN_IRQ is raised
  handling,         \* the handler has read it
  reset_completed,  \* count of driver_down.reset_completed
  down,             \* who waits for a shutdown
  outcome           \* of the last shutdown, until the vDMA is started again

downVars ==
  <<user, running, shutdown, down_irq, handling, reset_completed, down, outcome>>

DownInit ==
  /\ user = NoUser /\ running = FALSE
  /\ shutdown = FALSE /\ down_irq = FALSE /\ handling = FALSE
  /\ reset_completed = 0 /\ down = "nobody" /\ outcome = "none"

(* hailo_mark_as_in_use                                                    *)
MarkAsInUse(f) ==
  /\ down = "nobody" /\ user = NoUser
  /\ user' = f
  /\ UNCHANGED <<running, shutdown, down_irq, handling, reset_completed, down, outcome>>

(* The client has the firmware run a network.                              *)
FwStart ==
  /\ down = "nobody" /\ user # NoUser
  /\ running' = TRUE /\ outcome' = "none"
  /\ UNCHANGED <<user, shutdown, down_irq, handling, reset_completed, down>>

----------------------------------------------------------------------------
(* Mutant: an earlier completion is kept.                                  *)
DriverDownNoReinit(caller) ==
  /\ "late" \in DownContract => ~shutdown /\ ~down_irq /\ ~handling
  /\ down' = caller
  /\ shutdown' = TRUE
  /\ UNCHANGED <<user, running, down_irq, handling, reset_completed, outcome>>

(* hailo_nnc_driver_down up to its wait.                                   *)
DriverDown(caller) ==
  /\ "late" \in DownContract => ~shutdown /\ ~down_irq /\ ~handling
  /\ down' = caller
  /\ reset_completed' = 0
  /\ shutdown' = TRUE
  /\ UNCHANGED <<user, running, down_irq, handling, outcome>>

(* hailo_nnc_file_context_finalize of the file that uses the device.       *)
ReleaseUser == down = "nobody" /\ user # NoUser /\ DriverDown("release")

(* hailo_pci_reset_prepare, and what hailo_pcie_suspend does before it     *)
(* masks the interrupts (the rest of it is in BoardLifecycle).             *)
ResetPrepare == down = "nobody" /\ user # NoUser /\ DriverDown("reset")

(* The wait ends. A release goes on, whatever came of it, and frees what   *)
(* the file has mapped (hailo_vdma_file_context_finalize).                 *)
DriverDownReturns ==
  /\ down # "nobody" /\ down' = "nobody"
  /\ IF reset_completed > 0
     THEN reset_completed' = reset_completed - 1 /\ outcome' = "done"
     ELSE reset_completed' = 0 /\ outcome' = "timeout"
  /\ user' = IF down = "release" THEN NoUser ELSE user
  /\ UNCHANGED <<running, shutdown, down_irq, handling>>

----------------------------------------------------------------------------
(* The firmware stops its vDMA and says so.                                *)
FwShutdown ==
  /\ shutdown /\ shutdown' = FALSE
  /\ running' = FALSE /\ down_irq' = TRUE
  /\ UNCHANGED <<user, handling, reset_completed, down, outcome>>

(* hailo_irqhandler, then nnc_irq_handler                                  *)
DownIrqRead ==
  /\ down_irq /\ ~handling
  /\ down_irq' = FALSE /\ handling' = TRUE
  /\ UNCHANGED <<user, running, shutdown, reset_completed, down, outcome>>

DownIrqComplete ==
  /\ handling /\ handling' = FALSE
  /\ reset_completed' = reset_completed + 1
  /\ UNCHANGED <<user, running, shutdown, down_irq, down, outcome>>

DownNext ==
  \/ \E f \in Users : MarkAsInUse(f)
  \/ FwStart
  \/ ReleaseUser \/ ResetPrepare \/ DriverDownReturns
  \/ FwShutdown
  \/ DownIrqRead \/ DownIrqComplete

DownSpec == DownInit /\ [][DownNext]_downVars

----------------------------------------------------------------------------
(* Properties.                                                             *)

(* A shutdown that succeeds has stopped the firmware's vDMA, so that a     *)
(* release may free the memory it used: the answer to an earlier shutdown, *)
(* that timed out, is not taken for it. One that waits has its answer      *)
(* still to come, or here. (After a timeout nobody knows, and the release  *)
(* frees the memory all the same.)                                         *)
ShutdownStopsVdma ==
  /\ outcome = "done" => ~running
  /\ reset_completed \in {0, 1}
  /\ down # "nobody" => shutdown \/ down_irq \/ handling \/ reset_completed > 0
=============================================================================
