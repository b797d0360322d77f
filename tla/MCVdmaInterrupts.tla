-------------------------- MODULE MCVdmaInterrupts --------------------------
(* Instances of VdmaInterrupts for TLC.                                    *)
EXTENDS VdmaInterrupts

CONSTANTS w1, w2, ctl, f1, f2, c1, c2

(* A thread waits while another controls the channels, on one file.        *)
OneFile == [t \in Threads |-> f1]
WaitAll == [t \in Threads |-> IF t = ctl THEN {} ELSE {Channels}]
CtlEnables == [t \in Threads |-> IF t = ctl THEN {{c} : c \in Channels} ELSE {}]
CtlLaunches == [t \in Threads |-> IF t = ctl THEN Channels ELSE {}]

(* Two clients with a file each. In one, two threads wait on channel c1,   *)
(* and one of them controls it, and c2, which the other client uses too.   *)
TwoFiles == [t \in Threads |-> IF t = ctl THEN f2 ELSE f1]
WaitFirst == [t \in Threads |-> IF t = ctl THEN {} ELSE {{c1}}]
EnableShared ==
  [t \in Threads |-> IF t = ctl THEN {{c2}} ELSE IF t = w2 THEN {{c1}, {c2}} ELSE {}]
LaunchFirst == [t \in Threads |-> IF t = w1 THEN {} ELSE {c1}]
=============================================================================
