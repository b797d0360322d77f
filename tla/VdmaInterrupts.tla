--------------------------- MODULE VdmaInterrupts ---------------------------
(***************************************************************************)
(* How completions of vDMA transfers reach the threads that wait for them: *)
(* the interrupt handler, the enable, disable, launch and interrupts-wait  *)
(* ioctls and the release of a file, of any number of threads and files on *)
(* one board (linux/vdma/ioctl.c, linux/vdma/vdma.c,                       *)
(* linux/pcie/src/fops.c).                                                 *)
(*                                                                         *)
(* Every ioctl runs under the board mutex, but the interrupts-wait ioctl   *)
(* gives it up while it sleeps, and the interrupt handler never takes it:  *)
(* interrupted_channels is shared under a spinlock, enabled_channels is    *)
(* read by sleepers without any lock. Each access to either is a step.     *)
(* What a channel does with its transfers is the subject of VdmaChannel;   *)
(* here a transfer is ongoing, then done by the device, then reaped and    *)
(* reported.                                                               *)
(***************************************************************************)
EXTENDS Integers, FiniteSets

CONSTANTS
  Threads,       \* threads of the clients
  Files,         \* open files
  FileOf,        \* FileOf[t]: the file thread t makes its ioctls on
  Channels,      \* channels of the (only) engine
  WaitSets,      \* WaitSets[t]: bitmaps t passes to the interrupts-wait ioctl
  EnableSets,    \* EnableSets[t]: bitmaps t passes to enable and disable
  LaunchSets,    \* LaunchSets[t]: channels t launches transfers on
  MaxTransfers,  \* bound: transfers of a channel not yet reaped 
  MaxSignals     \* bound: signals delivered to sleeping threads

(* HAILO_PCIE_SOC_CLOSE_IRQ, besides the channels in the status registers. *)
CloseIrq == "close"

ASSUME ThreadsAssumption ==
  /\ FileOf \in [Threads -> Files]
  /\ CloseIrq \notin Channels
ASSUME RequestsAssumption ==
  /\ WaitSets \in [Threads -> SUBSET SUBSET Channels]
  /\ EnableSets \in [Threads -> SUBSET SUBSET Channels]
  /\ LaunchSets \in [Threads -> SUBSET Channels]
ASSUME BoundsAssumption == MaxTransfers \in Nat /\ MaxSignals \in Nat

VARIABLES
  mutex,                \* count of board->mutex, a semaphore
  pc,                   \* where each thread is
  bitmap,               \* the thread's channels_bitmap argument
  irq_bitmap,           \* the wait ioctl's local of that name
  sleeping,             \* the thread is on interrupts_wq, state not running
  enabled_channels,     \* engine->enabled_channels
  interrupted_channels, \* engine->interrupted_channels
  context_channels,     \* context->enabled_channels_bitmap, per file
  istatus,              \* the device's interrupt status registers
  isr,                  \* where the interrupt handler is
  irq_source,           \* its local of that name
  ongoing,              \* transfers launched and not done, per channel
  done,                 \* transfers done and not reaped, per channel
  signals

threadVars == <<mutex, pc, bitmap, irq_bitmap>>
isrVars == <<istatus, isr, irq_source>>
engineVars == <<enabled_channels, interrupted_channels, context_channels>>
vars == <<threadVars, sleeping, engineVars, isrVars, ongoing, done, signals>>

----------------------------------------------------------------------------
(* The thread holds the board mutex at these.                              *)
Holding == {"disable_clear", "disable_wake", "read", "fill"}
(* In wait_event_interruptible.                                            *)
Waiting == {"prepare", "check", "check_enabled", "schedule"}
Places == {"user", "redown"} \union Waiting \union Holding

TypeOK ==
  /\ mutex \in Nat
  /\ pc \in [Threads -> Places]
  /\ bitmap \in [Threads -> SUBSET Channels]
  /\ irq_bitmap \in [Threads -> SUBSET Channels]
  /\ sleeping \in [Threads -> BOOLEAN]
  /\ enabled_channels \subseteq Channels
  /\ interrupted_channels \subseteq Channels
  /\ context_channels \in [Files -> SUBSET Channels]
  /\ istatus \subseteq Channels \union {CloseIrq}
  /\ isr \in {"idle", "set", "wake"}
  /\ irq_source \subseteq Channels \union {CloseIrq}
  /\ ongoing \in [Channels -> Nat]
  /\ done \in [Channels -> Nat]
  /\ signals \in Nat

Init ==
  /\ mutex = 1
  /\ pc = [t \in Threads |-> "user"]
  /\ bitmap = [t \in Threads |-> {}]
  /\ irq_bitmap = [t \in Threads |-> {}]
  /\ sleeping = [t \in Threads |-> FALSE]
  /\ enabled_channels = {} /\ interrupted_channels = {}
  /\ context_channels = [f \in Files |-> {}]
  /\ istatus = {} /\ isr = "idle" /\ irq_source = {}
  /\ ongoing = [c \in Channels |-> 0]
  /\ done = [c \in Channels |-> 0]
  /\ signals = 0

(* wake_up_interruptible_all(&controller->interrupts_wq)                   *)
WakeUpAll == sleeping' = [t \in Threads |-> FALSE]

----------------------------------------------------------------------------
(* hailo_pcie_fops_unlockedioctl: every ioctl starts with                  *)
(* down_interruptible, and ends with up unless should_up_board_mutex was   *)
(* cleared. An ioctl that takes the mutex and keeps it to its end is one   *)
(* step. The mutex is not free while it is blocked, and a signal only      *)
(* sends it back to the client.                                            *)
Begin(t) == pc[t] = "user" /\ mutex > 0

Goto(t, place) == pc' = [pc EXCEPT ![t] = place]

Enter(t, place, channels) ==
  /\ Goto(t, place)
  /\ bitmap' = [bitmap EXCEPT ![t] = channels]

Leave(t) == Enter(t, "user", {})

(* Mutant: the file's context forgets the channels it had.                 *)
EnableChannelsOverwrites(t, channels) ==
  /\ Begin(t)
  /\ channels \intersect enabled_channels = {}
  /\ enabled_channels' = enabled_channels \union channels
  /\ context_channels' = [context_channels EXCEPT ![FileOf[t]] = channels]
  /\ UNCHANGED <<threadVars, sleeping, interrupted_channels, isrVars, ongoing, done, signals>>

(* hailo_vdma_enable_channels_ioctl; a channel enabled already is an error.*)
EnableChannels(t, channels) ==
  /\ Begin(t)
  /\ channels \intersect enabled_channels = {}
  /\ enabled_channels' = enabled_channels \union channels
  /\ context_channels' = [context_channels EXCEPT ![FileOf[t]] = @ \union channels]
  /\ UNCHANGED <<threadVars, sleeping, interrupted_channels, isrVars, ongoing, done, signals>>

(* hailo_vdma_engine_disable_channels drops the transfers.                 *)
DropTransfers(channels) ==
  /\ ongoing' = [c \in Channels |-> IF c \in channels THEN 0 ELSE ongoing[c]]
  /\ done' = [c \in Channels |-> IF c \in channels THEN 0 ELSE done[c]]

(* hailo_vdma_disable_channels_ioctl: sleepers may look between any two of *)
(* disabling, clearing and waking. A channel not enabled is just a warning.*)
DisableChannels(t, channels) ==
  /\ Begin(t)
  /\ mutex' = mutex - 1
  /\ enabled_channels' = enabled_channels \ channels
  /\ DropTransfers(channels)
  /\ Enter(t, "disable_clear", channels)
  /\ UNCHANGED <<irq_bitmap, sleeping, interrupted_channels, context_channels, isrVars,
                 signals>>

DisableClear(t) ==
  /\ pc[t] = "disable_clear"
  /\ interrupted_channels' = interrupted_channels \ bitmap[t]
  /\ context_channels' = [context_channels EXCEPT ![FileOf[t]] = @ \ bitmap[t]]
  /\ Goto(t, "disable_wake")
  /\ UNCHANGED <<mutex, bitmap, irq_bitmap, sleeping, enabled_channels, isrVars, ongoing,
                 done, signals>>

(* Mutant: nobody is woken.                                                *)
DisableNoWake(t) ==
  /\ pc[t] = "disable_wake"
  /\ Leave(t)
  /\ mutex' = mutex + 1
  /\ UNCHANGED <<irq_bitmap, sleeping, engineVars, isrVars, ongoing, done, signals>>

DisableWake(t) ==
  /\ pc[t] = "disable_wake"
  /\ WakeUpAll
  /\ Leave(t)
  /\ mutex' = mutex + 1
  /\ UNCHANGED <<irq_bitmap, engineVars, isrVars, ongoing, done, signals>>

(* hailo_vdma_launch_transfer_ioctl: of a channel that need not be enabled.*)
LaunchTransfer(t, c) ==
  /\ Begin(t)
  /\ ongoing[c] + done[c] < MaxTransfers
  /\ ongoing' = [ongoing EXCEPT ![c] = @ + 1]
  /\ UNCHANGED <<threadVars, sleeping, engineVars, isrVars, done, signals>>

----------------------------------------------------------------------------
(* hailo_vdma_interrupts_wait_ioctl: an empty bitmap is refused, otherwise *)
(* the mutex is given up.                                                  *)
WaitInterrupts(t, channels) ==
  /\ Begin(t)
  /\ channels # {}
  /\ Enter(t, "prepare", channels)
  /\ UNCHANGED <<mutex, irq_bitmap, sleeping, engineVars, isrVars, ongoing, done, signals>>

(* wait_event_interruptible: queue up, test the condition, sleep.          *)
Prepare(t) ==
  /\ pc[t] = "prepare"
  /\ sleeping' = [sleeping EXCEPT ![t] = TRUE]
  /\ Goto(t, "check")
  /\ UNCHANGED <<mutex, bitmap, irq_bitmap, engineVars, isrVars, ongoing, done, signals>>

(* hailo_vdma_engine_got_interrupt reads two words of the engine.          *)
CheckCondition(t, here, holds, next) ==
  /\ pc[t] = here
  /\ Goto(t, IF holds THEN "redown" ELSE next)
  /\ sleeping' = [sleeping EXCEPT ![t] = @ /\ ~holds]
  /\ UNCHANGED <<mutex, bitmap, irq_bitmap, engineVars, isrVars, ongoing, done, signals>>

AnyInterrupt(t) == bitmap[t] \intersect interrupted_channels # {}
AnyDisabled(t) == ~(bitmap[t] \subseteq enabled_channels)

CheckInterrupted(t) == CheckCondition(t, "check", AnyInterrupt(t), "check_enabled")
CheckEnabled(t) == CheckCondition(t, "check_enabled", AnyDisabled(t), "schedule")

(* Woken, or never asleep: test again.                                     *)
Schedule(t) ==
  /\ pc[t] = "schedule" /\ ~sleeping[t]
  /\ Goto(t, "prepare")
  /\ UNCHANGED <<mutex, bitmap, irq_bitmap, sleeping, engineVars, isrVars, ongoing, done,
                 signals>>

(* Mutant: the caller gives up a mutex it does not hold.                   *)
SignalUp(t) ==
  /\ pc[t] \in {"schedule", "redown"}
  /\ signals < MaxSignals
  /\ signals' = signals + 1
  /\ Leave(t)
  /\ sleeping' = [sleeping EXCEPT ![t] = FALSE]
  /\ mutex' = mutex + 1
  /\ UNCHANGED <<irq_bitmap, engineVars, isrVars, ongoing, done>>

(* A signal ends the sleep, or the second wait for the mutex: the ioctl    *)
(* returns -ERESTARTSYS without the mutex, having told the caller so.      *)
Signal(t) ==
  /\ pc[t] \in {"schedule", "redown"}
  /\ signals < MaxSignals
  /\ signals' = signals + 1
  /\ Leave(t)
  /\ sleeping' = [sleeping EXCEPT ![t] = FALSE]
  /\ UNCHANGED <<mutex, irq_bitmap, engineVars, isrVars, ongoing, done>>

Redown(t) ==
  /\ pc[t] = "redown"
  /\ mutex > 0
  /\ mutex' = mutex - 1
  /\ Goto(t, "read")
  /\ UNCHANGED <<bitmap, irq_bitmap, sleeping, engineVars, isrVars, ongoing, done, signals>>

(* Mutant: clears what was asked for, not what is returned.                *)
ReadInterruptsClearAll(t) ==
  LET irqs == bitmap[t] \intersect enabled_channels \intersect interrupted_channels IN
  /\ pc[t] = "read"
  /\ irq_bitmap' = [irq_bitmap EXCEPT ![t] = irqs]
  /\ interrupted_channels' = interrupted_channels \ bitmap[t]
  /\ Goto(t, "fill")
  /\ UNCHANGED <<mutex, bitmap, sleeping, enabled_channels, context_channels, isrVars,
                 ongoing, done, signals>>

(* hailo_vdma_engine_read_interrupts, under interrupts_lock.               *)
ReadInterrupts(t) ==
  LET irqs == bitmap[t] \intersect enabled_channels \intersect interrupted_channels IN
  /\ pc[t] = "read"
  /\ irq_bitmap' = [irq_bitmap EXCEPT ![t] = irqs]
  /\ interrupted_channels' = interrupted_channels \ irqs
  /\ Goto(t, "fill")
  /\ UNCHANGED <<mutex, bitmap, sleeping, enabled_channels, context_channels, isrVars,
                 ongoing, done, signals>>

(* hailo_vdma_engine_fill_irq_data reads num_proc now: it reaps all that   *)
(* is done, also what was done after the interrupt. Should the ioctl then  *)
(* fail to copy its report to the client, the driver does nothing else:    *)
(* what was reaped is never reported again.                                *)
FillIrqData(t) ==
  /\ pc[t] = "fill"
  /\ done' = [c \in Channels |-> IF c \in irq_bitmap[t] THEN 0 ELSE done[c]]
  /\ irq_bitmap' = [irq_bitmap EXCEPT ![t] = {}]
  /\ Leave(t)
  /\ mutex' = mutex + 1
  /\ UNCHANGED <<sleeping, engineVars, isrVars, ongoing, signals>>

----------------------------------------------------------------------------
(* hailo_vdma_file_context_finalize, when the file is closed: its last     *)
(* reference is gone, so no thread is in an ioctl on it. Nobody is woken.  *)
Release(f) ==
  /\ mutex > 0
  /\ \A t \in Threads : FileOf[t] = f => pc[t] = "user"
  /\ context_channels[f] # {}
  /\ enabled_channels' = enabled_channels \ context_channels[f]
  /\ interrupted_channels' = interrupted_channels \ context_channels[f]
  /\ DropTransfers(context_channels[f])
  /\ context_channels' = [context_channels EXCEPT ![f] = {}]
  /\ UNCHANGED <<threadVars, sleeping, isrVars, signals>>

----------------------------------------------------------------------------
(* The device: it interrupts for every transfer it is done with, enabled   *)
(* channel or not (hailo_pcie_update_channel_interrupts_mask is empty).    *)
HwComplete(c) ==
  /\ ongoing[c] > 0
  /\ ongoing' = [ongoing EXCEPT ![c] = @ - 1]
  /\ done' = [done EXCEPT ![c] = @ + 1]
  /\ istatus' = istatus \union {c}
  /\ UNCHANGED <<threadVars, sleeping, engineVars, isr, irq_source, signals>>

(* Interrupts that say nothing new: of dropped transfers, or a stream that *)
(* the SOC closed.                                                         *)
HwInterrupt(i) ==
  /\ i \notin istatus
  /\ istatus' = istatus \union {i}
  /\ UNCHANGED <<threadVars, sleeping, engineVars, isr, irq_source, ongoing, done, signals>>

(* hailo_irqhandler, one turn of its loop: read and clear the status.      *)
IrqRead ==
  /\ isr = "idle" /\ istatus # {}
  /\ irq_source' = istatus /\ istatus' = {}
  /\ isr' = "set"
  /\ UNCHANGED <<threadVars, sleeping, engineVars, ongoing, done, signals>>

(* hailo_vdma_wakeup_interrupts, first for the SOC's close, which means    *)
(* all channels, then for the channels that interrupted.                   *)
IrqSet ==
  LET close == CloseIrq \in irq_source IN
  /\ isr = "set"
  /\ interrupted_channels' =
       interrupted_channels \union (IF close THEN Channels ELSE irq_source)
  /\ irq_source' = IF close THEN irq_source \ {CloseIrq} ELSE {}
  /\ isr' = "wake"
  /\ UNCHANGED <<threadVars, sleeping, enabled_channels, context_channels, istatus,
                 ongoing, done, signals>>

(* Mutant: nobody is woken.                                                *)
IrqNoWake ==
  /\ isr = "wake"
  /\ isr' = IF irq_source = {} THEN "idle" ELSE "set"
  /\ UNCHANGED <<threadVars, sleeping, engineVars, istatus, irq_source, ongoing, done,
                 signals>>

IrqWake ==
  /\ isr = "wake"
  /\ WakeUpAll
  /\ isr' = IF irq_source = {} THEN "idle" ELSE "set"
  /\ UNCHANGED <<threadVars, engineVars, istatus, irq_source, ongoing, done, signals>>

----------------------------------------------------------------------------
CallWait(t) == \E channels \in WaitSets[t] : WaitInterrupts(t, channels)

Call(t) ==
  \/ CallWait(t)
  \/ \E channels \in EnableSets[t] :
       EnableChannels(t, channels) \/ DisableChannels(t, channels)
  \/ \E c \in LaunchSets[t] : LaunchTransfer(t, c)

Kernel(t) ==
  \/ DisableClear(t) \/ DisableWake(t)
  \/ Prepare(t) \/ CheckInterrupted(t) \/ CheckEnabled(t) \/ Schedule(t)
  \/ ReadInterrupts(t) \/ FillIrqData(t)

Isr == IrqRead \/ IrqSet \/ IrqWake

Next ==
  \/ \E t \in Threads : Call(t) \/ Redown(t) \/ Kernel(t) \/ Signal(t)
  \/ \E f \in Files : Release(f)
  \/ \E c \in Channels : HwComplete(c)
  \/ \E i \in Channels \union {CloseIrq} : HwInterrupt(i)
  \/ Isr

Spec == Init /\ [][Next]_vars

(* Runnable threads run, interrupts are served, semaphores are handed over *)
(* first come first served (so a waiter gets one that is free again and    *)
(* again), and a client that waits for interrupts goes on waiting.         *)
Fairness ==
  /\ WF_vars(Isr)
  /\ \A t \in Threads : WF_vars(Kernel(t)) /\ SF_vars(Redown(t)) /\ SF_vars(CallWait(t))

FairSpec == Spec /\ Fairness

----------------------------------------------------------------------------
(* Properties.                                                             *)

(* The board mutex is held once, or free: the wait ioctl gives it up and   *)
(* may return without it, and its caller must know                         *)
(* (BUG_ON(board->mutex.count != 0) of hailo_pcie_fops_unlockedioctl).     *)
MutexHeldOnce ==
  /\ TypeOK
  /\ mutex + Cardinality({t \in Threads : pc[t] \in Holding}) = 1

(* No lost wakeup: when a thread sleeps although its condition holds,      *)
(* someone is on the way to wake it.                                       *)
NoLostWakeup ==
  \A t \in Threads :
    pc[t] = "schedule" /\ sleeping[t] /\ (AnyInterrupt(t) \/ AnyDisabled(t)) =>
      isr = "wake" \/ \E u \in Threads : pc[u] \in {"disable_clear", "disable_wake"}

(* A transfer the device is done with is known to somebody until it is     *)
(* reaped: it is never left for the next transfer's interrupt to find.     *)
CompletionTracked ==
  \A c \in Channels : done[c] > 0 =>
    \/ c \in istatus \union irq_source \union interrupted_channels
    \/ \E t \in Threads : c \in irq_bitmap[t]

(* Whatever files enable and disable each other's channels, an enabled     *)
(* channel is in the context of some open file, whose disable or release   *)
(* will disable it: no channel stays enabled, its transfers ongoing, when  *)
(* all files are closed. (More cannot be said: the disable ioctl takes     *)
(* channels of other files, whose contexts keep them.)                     *)
EnabledInSomeContext ==
  \A c \in enabled_channels : \E f \in Files : c \in context_channels[f]

(* A transfer the device is done with, on an enabled channel that a client *)
(* waits for, is reaped by a wait, or dropped with the channel.            *)
CompletionReported ==
  \A c \in Channels : (done[c] > 0 /\ c \in enabled_channels) ~> done[c] = 0

(* "It us ok to wait on a disabled channel - the wait will just exit."     *)
DisabledWaitExits ==
  \A t \in Threads : (pc[t] = "schedule" /\ AnyDisabled(t)) ~> pc[t] # "schedule"

=============================================================================
