--------------------------- MODULE TimestampQueue ---------------------------
(***************************************************************************)
(* What the interrupt timestamps of a channel promise to the client that   *)
(* measures: a FIFO that drops the newest when it is full. A read takes    *)
(* timestamps off one by one and hands them out together; each one is      *)
(* handed out at most once, in the order of the interrupts, with the       *)
(* descriptor index the client knows.                                      *)
(***************************************************************************)
EXTENDS Integers, Sequences

CONSTANTS
  Capacity,    \* timestamps that wait for a read
  DescCount    \* length of the channel's descriptor list

VARIABLES
  clock,  \* number of the last interrupt
  queue,  \* interrupts that wait for a read
  taken   \* what the read under way has taken

vars == <<clock, queue, taken>>

Init == clock = 0 /\ queue = <<>> /\ taken = <<>>

Push ==
  /\ Len(queue) < Capacity
  /\ clock' = clock + 1
  /\ queue' = Append(queue, clock')
  /\ UNCHANGED taken

(* The queue was full when the interrupt came.                             *)
Overflow ==
  /\ Len(queue) = Capacity
  /\ clock' = clock + 1
  /\ UNCHANGED <<queue, taken>>

Take ==
  /\ queue # <<>>
  /\ queue' = Tail(queue)
  /\ taken' = Append(taken, [id |-> Head(queue), desc |-> Head(queue) % DescCount])
  /\ UNCHANGED clock

HandOut == taken' = <<>> /\ UNCHANGED <<clock, queue>>

(* The channel is enabled.                                                 *)
Reset == queue' = <<>> /\ taken = <<>> /\ UNCHANGED <<clock, taken>>

Next == Push \/ Overflow \/ Take \/ HandOut \/ Reset

Spec == Init /\ [][Next]_vars
=============================================================================
