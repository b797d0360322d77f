--------------------------- MODULE TransferQueue ---------------------------
(***************************************************************************)
(* What a vDMA channel promises its client, without descriptors, counters  *)
(* or rings: a FIFO of transfers. A launch either appends the transfer and *)
(* says how many descriptors it took, or answers with an error and leaves  *)
(* the queue alone. The device works through the queue in order. Reading   *)
(* interrupts takes off exactly the transfers the device has finished.     *)
(***************************************************************************)
EXTENDS Integers, Sequences

CONSTANT Capacity   \* transfers the queue can hold

VARIABLES
  queue,    \* per transfer: descriptors left, and whether it went wrong
  active,   \* the device runs
  ret,      \* answer to the last launch
  irq_data  \* answer to the last read of the interrupts

vars == <<queue, active, ret, irq_data>>

NOT_ACTIVE == 255
WITH_ERROR == 254

Init == queue = <<>> /\ active = FALSE /\ ret = 0 /\ irq_data = 0

(* An accepted launch.                                                     *)
Launch ==
  /\ active
  /\ Len(queue) < Capacity
  /\ ret' \in Nat \ {0}
  /\ queue' = Append(queue, [left |-> ret', bad |-> FALSE])
  /\ UNCHANGED <<active, irq_data>>

LaunchFails ==
  /\ ret' \in Int /\ ret' < 0
  /\ UNCHANGED <<queue, active, irq_data>>

(* The transfer the device works on.                                       *)
Current == {i \in 1 .. Len(queue) :
              queue[i].left > 0 /\ \A j \in 1 .. i - 1 : queue[j].left = 0}

(* One descriptor is processed; a transfer may turn out bad at its last.   *)
Process ==
  /\ active
  /\ \E i \in Current :
       \E wrong \in IF queue[i].left = 1 THEN BOOLEAN ELSE {FALSE} :
         queue' = [queue EXCEPT ![i] = [left |-> @.left - 1, bad |-> wrong]]
  /\ UNCHANGED <<active, ret, irq_data>>

Finished == {i \in 1 .. Len(queue) : \A j \in 1 .. i : queue[j].left = 0}

ReadInterrupts ==
  \E n \in 0 .. Len(queue) :
    /\ Finished = 1 .. n
    /\ queue' = SubSeq(queue, n + 1, Len(queue))
    /\ irq_data' = IF ~active THEN NOT_ACTIVE
                   ELSE IF \E i \in 1 .. n : queue[i].bad THEN WITH_ERROR
                   ELSE n
    /\ UNCHANGED <<active, ret>>

(* The client gives the channel up.                                        *)
Drop ==
  /\ queue' = <<>>
  /\ UNCHANGED <<active, ret, irq_data>>

Start ==
  /\ ~active /\ queue = <<>>
  /\ active' = TRUE
  /\ UNCHANGED <<queue, ret, irq_data>>

Stop ==
  /\ active
  /\ active' = FALSE
  /\ UNCHANGED <<queue, ret, irq_data>>

Next ==
  \/ Launch \/ LaunchFails \/ Process \/ ReadInterrupts \/ Drop \/ Start \/ Stop

Spec == Init /\ [][Next]_vars
=============================================================================
