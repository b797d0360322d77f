-------------------------------- MODULE Nnc --------------------------------
(***************************************************************************)
(* The services of the neural-network firmware (linux/pcie/src/nnc.c):     *)
(* controls, which a client sends through a mailbox and whose answers it   *)
(* awaits for a bounded time, and notifications, which the firmware raises *)
(* by itself and which every open file gets to read.                       *)
(*                                                                         *)
(* Both end in the interrupt handler, which takes no lock a thread holds   *)
(* while it waits: each of its accesses is a step, and so is each access   *)
(* of a thread to what the handler shares. Requests and notifications are  *)
(* numbered; a completion counts, as Linux completions do.                 *)
(***************************************************************************)
EXTENDS Integers, FiniteSets

CONSTANTS
  Threads,
  Files,
  FileOf,            \* FileOf[t]: the file thread t makes its ioctls on
  Readers,           \* threads that read notifications, one per file
  Controllers,       \* threads that send controls
  MaxRequests,       \* bound: requests written to the mailbox
  MaxNotifications,  \* bound: notifications raised by the firmware
  MaxCompletions,    \* bound: completions of an entry that disabling adds to
  Contract           \* which of Clauses the clients keep

(* What hailo_fw_control leaves to its callers:                            *)
(*   late   after a timeout, no control before the late answer is in       *)
(* and hailo_read_notification_ioctl:                                      *)
(*   cancel a reader that was cancelled does not read again                *)
(*   signal no signal reaches a reader between its two waits: the first    *)
(*          has used up the completion by then                             *)
(*   copy   a reader's own buffer can be written                           *)
Clauses == {"late", "cancel", "signal", "copy"}

ASSUME ThreadsAssumption ==
  /\ FileOf \in [Threads -> Files]
  /\ Readers \subseteq Threads /\ Controllers \subseteq Threads
  /\ \A t, u \in Readers : FileOf[t] = FileOf[u] => t = u
ASSUME BoundsAssumption ==
  /\ MaxRequests \in Nat /\ MaxNotifications \in Nat /\ MaxCompletions \in Nat
  /\ Contract \subseteq Clauses

VARIABLES
  pc,
  fw_mutex,           \* count of fw_control.mutex
  completion,         \* count of fw_control.completion
  request,            \* the request each thread sent last
  issued,             \* number of requests written
  mailbox,            \* the control area of the device's memory
  doorbell,           \* the ready register was raised
  firmware,           \* the request the firmware works on
  istatus,            \* software interrupts raised
  isr,                \* where the interrupt handler is
  irq_source,
  d2h,                \* the notification area of the device's memory
  raised,             \* number of notifications raised
  notification_cache,
  open,               \* files with an entry in notification_wait_list
  wait,               \* those entries
  seen,               \* the notification each file read last
  removed             \* the device was removed

controlVars == <<fw_mutex, completion, request, issued, mailbox, doorbell, firmware>>
irqVars == <<istatus, isr, irq_source>>
deviceVars == <<d2h, raised>>
notificationVars == <<notification_cache, open, wait, seen, removed>>
vars == <<pc, controlVars, irqVars, deviceVars, notificationVars>>

----------------------------------------------------------------------------
None == 0
Requests == 1 .. MaxRequests
Notifications == 0 .. MaxNotifications
Irqs == {"control", "notification"}

(* The thread holds fw_control.mutex at these.                             *)
HoldingControl == {"reinit", "write", "await", "answer"}
Places == {"user", "control", "read", "redown", "copy", "cancelled"} \union HoldingControl

NewWait == [completion |-> 0, is_disabled |-> FALSE]

TypeOK ==
  /\ pc \in [Threads -> Places]
  /\ fw_mutex \in {0, 1} /\ completion \in Nat
  /\ request \in [Threads -> Requests \union {None}]
  /\ issued \in 0 .. MaxRequests
  /\ mailbox \in [answer : BOOLEAN, id : Requests \union {None}]
  /\ doorbell \in BOOLEAN /\ firmware \in Requests \union {None}
  /\ istatus \subseteq Irqs /\ irq_source \subseteq Irqs
  /\ isr \in {"idle", "control", "cache", "complete"}
  /\ d2h \in [in_use : BOOLEAN, id : Notifications, fits : BOOLEAN]
  /\ raised \in Notifications /\ notification_cache \in Notifications
  /\ open \subseteq Files
  /\ wait \in [Files -> [completion : Nat, is_disabled : BOOLEAN]]
  /\ seen \in [Files -> Notifications]
  /\ removed \in BOOLEAN

Init ==
  /\ pc = [t \in Threads |-> "user"]
  /\ fw_mutex = 1 /\ completion = 0
  /\ request = [t \in Threads |-> None] /\ issued = 0
  /\ mailbox = [answer |-> FALSE, id |-> None]
  /\ doorbell = FALSE /\ firmware = None
  /\ istatus = {} /\ isr = "idle" /\ irq_source = {}
  /\ d2h = [in_use |-> FALSE, id |-> 0, fits |-> TRUE] /\ raised = 0
  /\ notification_cache = 0
  /\ open = {} /\ wait = [f \in Files |-> NewWait]
  /\ seen = [f \in Files |-> 0]
  /\ removed = FALSE

Goto(t, place) == pc' = [pc EXCEPT ![t] = place]

(* Nobody is in the part of the notification ioctl that holds the board    *)
(* mutex again.                                                            *)
BoardFree == \A t \in Threads : pc[t] # "copy"

Begin(t, role) ==
  pc[t] = "user" /\ t \in role /\ FileOf[t] \in open /\ BoardFree /\ ~removed

----------------------------------------------------------------------------
(* hailo_fw_control: the board mutex is given up for good.                 *)
Control(t) ==
  /\ Begin(t, Controllers) /\ issued < MaxRequests
  /\ Goto(t, "control")
  /\ UNCHANGED <<controlVars, irqVars, deviceVars, notificationVars>>

(* An answer is on its way, maybe one nobody waits for.                    *)
AnswerDue ==
  doorbell \/ firmware # None \/ "control" \in istatus \union irq_source

ControlDown(t) ==
  /\ pc[t] = "control" /\ fw_mutex > 0
  /\ "late" \in Contract => ~AnswerDue
  /\ fw_mutex' = fw_mutex - 1
  /\ Goto(t, "reinit")
  /\ UNCHANGED <<completion, request, issued, mailbox, doorbell, firmware, irqVars,
                 deviceVars, notificationVars>>

(* The wait for the mutex is interrupted.                                  *)
ControlInterrupted(t) ==
  /\ pc[t] = "control"
  /\ Goto(t, "user")
  /\ UNCHANGED <<controlVars, irqVars, deviceVars, notificationVars>>

(* The command cannot be copied, preprocessed or written.                  *)
ControlReject(t) ==
  /\ pc[t] \in {"reinit", "write"}
  /\ fw_mutex' = fw_mutex + 1
  /\ Goto(t, "user")
  /\ UNCHANGED <<completion, request, issued, mailbox, doorbell, firmware, irqVars,
                 deviceVars, notificationVars>>

(* Mutant: a late completion is kept.                                      *)
ControlNoReinit(t) ==
  /\ pc[t] = "reinit"
  /\ Goto(t, "write")
  /\ UNCHANGED <<controlVars, irqVars, deviceVars, notificationVars>>

ControlReinit(t) ==
  /\ pc[t] = "reinit"
  /\ completion' = 0
  /\ Goto(t, "write")
  /\ UNCHANGED <<fw_mutex, request, issued, mailbox, doorbell, firmware, irqVars,
                 deviceVars, notificationVars>>

(* hailo_pcie_write_firmware_control                                       *)
ControlWrite(t) ==
  /\ pc[t] = "write" /\ issued < MaxRequests
  /\ issued' = issued + 1
  /\ request' = [request EXCEPT ![t] = issued + 1]
  /\ mailbox' = [answer |-> FALSE, id |-> issued + 1]
  /\ doorbell' = TRUE
  /\ Goto(t, "await")
  /\ UNCHANGED <<fw_mutex, completion, firmware, irqVars, deviceVars, notificationVars>>

(* wait_for_completion_interruptible_timeout ends: with a completion if    *)
(* there is one, even when the time is up.                                 *)
ControlWoken(t) ==
  /\ pc[t] = "await" /\ completion > 0
  /\ completion' = completion - 1
  /\ Goto(t, "answer")
  /\ UNCHANGED <<fw_mutex, request, issued, mailbox, doorbell, firmware, irqVars,
                 deviceVars, notificationVars>>

ControlTimeout(t) ==
  /\ pc[t] = "await" /\ completion = 0
  /\ fw_mutex' = fw_mutex + 1
  /\ Goto(t, "user")
  /\ UNCHANGED <<completion, request, issued, mailbox, doorbell, firmware, irqVars,
                 deviceVars, notificationVars>>

(* hailo_pcie_read_firmware_control                                        *)
ControlAnswer(t) ==
  /\ pc[t] = "answer"
  /\ fw_mutex' = fw_mutex + 1
  /\ Goto(t, "user")
  /\ UNCHANGED <<completion, request, issued, mailbox, doorbell, firmware, irqVars,
                 deviceVars, notificationVars>>

----------------------------------------------------------------------------
(* The firmware takes one request at a time, and answers in the same place.*)
FwTake ==
  /\ doorbell /\ firmware = None
  /\ doorbell' = FALSE
  /\ firmware' = mailbox.id
  /\ UNCHANGED <<pc, fw_mutex, completion, request, issued, mailbox, irqVars, deviceVars,
                 notificationVars>>

FwAnswer ==
  /\ firmware # None
  /\ mailbox' = [answer |-> TRUE, id |-> firmware]
  /\ firmware' = None
  /\ istatus' = istatus \union {"control"}
  /\ UNCHANGED <<pc, fw_mutex, completion, request, issued, doorbell, isr, irq_source,
                 deviceVars, notificationVars>>

(* It raises a notification when its area is free, of a length that the    *)
(* driver's buffer holds or not.                                           *)
FwNotify ==
  /\ raised < MaxNotifications /\ ~d2h.in_use
  /\ raised' = raised + 1
  /\ \E fits \in BOOLEAN : d2h' = [in_use |-> TRUE, id |-> raised + 1, fits |-> fits]
  /\ istatus' = istatus \union {"notification"}
  /\ UNCHANGED <<pc, controlVars, isr, irq_source, notificationVars>>

----------------------------------------------------------------------------
(* hailo_irqhandler reads and clears the status, nnc_irq_handler looks at  *)
(* every bit of it.                                                        *)
IrqRead ==
  /\ isr = "idle" /\ istatus # {} /\ ~removed
  /\ irq_source' = istatus /\ istatus' = {}
  /\ isr' = "control"
  /\ UNCHANGED <<pc, controlVars, deviceVars, notificationVars>>

(* Mutant: else if.                                                        *)
IrqControlElse ==
  /\ isr = "control"
  /\ completion' = IF irq_source = {"control"} THEN completion + 1 ELSE completion
  /\ irq_source' = irq_source \ {"control"}
  /\ isr' = IF "notification" \in irq_source THEN "cache" ELSE "idle"
  /\ UNCHANGED <<pc, fw_mutex, request, issued, mailbox, doorbell, firmware, istatus,
                 deviceVars, notificationVars>>

IrqControl ==
  /\ isr = "control"
  /\ completion' = IF "control" \in irq_source THEN completion + 1 ELSE completion
  /\ irq_source' = irq_source \ {"control"}
  /\ isr' = IF "notification" \in irq_source THEN "cache" ELSE "idle"
  /\ UNCHANGED <<pc, fw_mutex, request, issued, mailbox, doorbell, firmware, istatus,
                 deviceVars, notificationVars>>

(* firmware_notification_irq_handler: hailo_read_firmware_notification     *)
(* under the spinlock. An area not in use is an error, and so is a length  *)
(* beyond the buffer's, which leaves the area in use.                      *)
IrqCache ==
  /\ isr = "cache"
  /\ irq_source' = {}
  /\ IF d2h.in_use /\ d2h.fits
     THEN /\ notification_cache' = d2h.id
          /\ d2h' = [d2h EXCEPT !.in_use = FALSE]
          /\ isr' = "complete"
     ELSE isr' = "idle" /\ UNCHANGED <<notification_cache, d2h>>
  /\ UNCHANGED <<pc, controlVars, istatus, raised, open, wait, seen, removed>>

(* Mutant: one waiter only.                                                *)
CompleteFirst(files) ==
  LET first == {CHOOSE f \in files : TRUE} IN
  [f \in Files |-> IF files # {} /\ f \in first
                   THEN [wait[f] EXCEPT !.completion = @ + 1] ELSE wait[f]]

(* complete() for the entries of these files.                              *)
Complete(files) ==
  [f \in Files |-> IF f \in files THEN [wait[f] EXCEPT !.completion = @ + 1] ELSE wait[f]]

(* It wakes the entry of every open file.                                  *)
IrqComplete ==
  /\ isr = "complete"
  /\ wait' = Complete(open)
  /\ isr' = "idle"
  /\ UNCHANGED <<pc, controlVars, istatus, irq_source, deviceVars, notification_cache, open,
                 seen, removed>>

----------------------------------------------------------------------------
(* hailo_read_notification_ioctl gives up the board mutex and waits.       *)
ReadNotification(t) ==
  /\ Begin(t, Readers)
  /\ Goto(t, "read")
  /\ UNCHANGED <<controlVars, irqVars, deviceVars, notificationVars>>

ReadWoken(t) ==
  /\ pc[t] = "read" /\ wait[FileOf[t]].completion > 0
  /\ wait' = [wait EXCEPT ![FileOf[t]].completion = @ - 1]
  /\ Goto(t, "redown")
  /\ UNCHANGED <<controlVars, irqVars, deviceVars, notification_cache, open, seen, removed>>

(* A signal ends either wait.                                              *)
ReadInterrupted(t) ==
  /\ pc[t] \in IF "signal" \in Contract THEN {"read"} ELSE {"read", "redown"}
  /\ Goto(t, "user")
  /\ UNCHANGED <<controlVars, irqVars, deviceVars, notificationVars>>

ReadCancelled(t) ==
  /\ pc[t] = "redown" /\ BoardFree
  /\ wait[FileOf[t]].is_disabled
  /\ Goto(t, IF "cancel" \in Contract THEN "cancelled" ELSE "user")
  /\ UNCHANGED <<controlVars, irqVars, deviceVars, notificationVars>>

(* Older completions are dropped before the cache is read.                 *)
ReadReinit(t) ==
  /\ pc[t] = "redown" /\ BoardFree
  /\ ~wait[FileOf[t]].is_disabled
  /\ wait' = [wait EXCEPT ![FileOf[t]].completion = 0]
  /\ Goto(t, "copy")
  /\ UNCHANGED <<controlVars, irqVars, deviceVars, notification_cache, open, seen, removed>>

(* The completion is used up whether or not the copy to the user succeeds. *)
ReadCopy(t) ==
  /\ pc[t] = "copy"
  /\ \E copied \in {TRUE, "copy" \in Contract} :
       seen' = [seen EXCEPT ![FileOf[t]] = IF copied THEN notification_cache ELSE @]
  /\ Goto(t, "user")
  /\ UNCHANGED <<controlVars, irqVars, deviceVars, notification_cache, open, wait, removed>>

(* Mutant: nobody is woken.                                                *)
DisableOnly(files) ==
  wait' = [f \in Files |-> IF f \in files THEN [wait[f] EXCEPT !.is_disabled = TRUE]
                           ELSE wait[f]]

(* Disabling an entry wakes its reader.                                    *)
Disable(files) ==
  wait' = [f \in Files |-> IF f \in files
                           THEN [is_disabled |-> TRUE, completion |-> wait[f].completion + 1]
                           ELSE wait[f]]

(* hailo_disable_notification, by any thread of the file.                  *)
DisableNotification(t) ==
  /\ Begin(t, Threads)
  /\ wait[FileOf[t]].completion < MaxCompletions
  /\ Disable({FileOf[t]})
  /\ UNCHANGED <<pc, controlVars, irqVars, deviceVars, notification_cache, open, seen, removed>>

(* add_notification_wait, when a file is opened. What was raised before is *)
(* not for it.                                                             *)
Open(f) ==
  /\ f \notin open /\ BoardFree /\ ~removed
  /\ open' = open \union {f}
  /\ wait' = [wait EXCEPT ![f] = NewWait]
  /\ seen' = [seen EXCEPT ![f] = notification_cache]
  /\ UNCHANGED <<pc, controlVars, irqVars, deviceVars, notification_cache, removed>>

(* clear_notification_wait_list, when it is closed and no call is left. It *)
(* waits for an interrupt handler that walks the list.                     *)
Close(f) ==
  /\ f \in open /\ BoardFree /\ isr # "complete"
  /\ \A t \in Threads : FileOf[t] = f => pc[t] \in {"user", "cancelled"}
  /\ open' = open \ {f}
  /\ pc' = [t \in Threads |-> IF FileOf[t] = f THEN "user" ELSE pc[t]]
  /\ UNCHANGED <<controlVars, irqVars, deviceVars, notification_cache, wait, seen, removed>>

(* hailo_nnc_finalize, when the device is removed: the interrupt has been  *)
(* freed, so its handler is not running and will not run again.            *)
Finalize ==
  /\ ~removed /\ BoardFree /\ isr = "idle"
  /\ removed' = TRUE
  /\ Disable(open)
  /\ UNCHANGED <<pc, controlVars, irqVars, deviceVars, notification_cache, open, seen>>

----------------------------------------------------------------------------
ControlKernel(t) ==
  \/ ControlDown(t) \/ ControlReject(t) \/ ControlReinit(t) \/ ControlWrite(t)
  \/ ControlWoken(t) \/ ControlTimeout(t) \/ ControlAnswer(t)

ReadKernel(t) == ReadWoken(t) \/ ReadCancelled(t) \/ ReadReinit(t) \/ ReadCopy(t)

Isr == IrqRead \/ IrqControl \/ IrqCache \/ IrqComplete

Next ==
  \/ \E t \in Threads :
       \/ Control(t) \/ ControlKernel(t) \/ ControlInterrupted(t)
       \/ ReadNotification(t) \/ ReadKernel(t) \/ ReadInterrupted(t)
       \/ DisableNotification(t)
  \/ \E f \in Files : Open(f) \/ Close(f)
  \/ Finalize
  \/ FwTake \/ FwAnswer \/ FwNotify
  \/ Isr

Spec == Init /\ [][Next]_vars

(* Runnable threads run and interrupts are served.                         *)
Fairness ==
  /\ WF_vars(Isr)
  /\ \A t \in Threads : WF_vars(ReadKernel(t))

FairSpec == Spec /\ Fairness

----------------------------------------------------------------------------
(* Properties.                                                             *)

(* What a control takes for its answer is the answer to its request, also  *)
(* after a control that timed out and was answered late.                   *)
AnswerIsOwn ==
  /\ TypeOK
  /\ \A t \in Threads :
       pc[t] = "answer" => mailbox = [answer |-> TRUE, id |-> request[t]]

(* A control does not wait, until it times out, for an answer that has     *)
(* been given.                                                             *)
NoLostAnswer ==
  \A t \in Threads : pc[t] = "await" => AnswerDue \/ completion > 0

(* The latest notification reaches every file that was open when it was    *)
(* raised: until a reader has seen it there is a completion to wake one,   *)
(* or a reader about to look, or the handler about to complete. Earlier    *)
(* ones may be overwritten in the cache.                                   *)
NoLostNotification ==
  \A f \in open :
    notification_cache # seen[f] /\ ~wait[f].is_disabled =>
      \/ wait[f].completion > 0 \/ isr = "complete"
      \/ \E t \in Threads : FileOf[t] = f /\ pc[t] \in {"redown", "copy"}

(* A reader whose notifications are disabled, by another thread, comes     *)
(* back: it does not wait for a notification that may never be raised.     *)
CancelledReaderReturns ==
  \A t \in Readers : (pc[t] = "read" /\ wait[FileOf[t]].is_disabled) ~> pc[t] # "read"

=============================================================================
