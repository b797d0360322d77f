---------------------------- MODULE MCStructures ----------------------------
(***************************************************************************)
(* The driver's smaller data structures, and the boot. They share no state,*)
(* so each one is explored on its own: the first state picks the part that *)
(* runs, and the others stay as they began.                                *)
(***************************************************************************)
EXTENDS VdmaTimestamps, FwLog, DescProgramming, BoardList, AtrAccess,
        FwImage, NncShutdown, FwBoot, TLC

CONSTANTS b1, b2, b3, u1, u2

VARIABLE part  \* the part that runs

MCInit ==
  /\ part \in {"timestamps", "log", "descriptors", "boards", "window", "image",
               "shutdown", "boot"}
  /\ IF part = "image" THEN TRUE ELSE size = 0 /\ headers = "none"
  /\ IF part = "descriptors" THEN TRUE ELSE kind = CHOOSE k \in ListKinds : TRUE
  /\ IF part = "boot" THEN TRUE
     ELSE /\ accelerator_type = "SOC" /\ fw = "rom"
          /\ batch = CHOOSE sizes \in Batches : EndsWhole(sizes)
  /\ TsInit /\ LogInit /\ ListInit /\ AtrInit /\ DownInit /\ ImageInit /\ DpInit /\ Init

Others(one) ==
  /\ one # "timestamps" => UNCHANGED tsVars
  /\ one # "log" => UNCHANGED logVars
  /\ one # "descriptors" => UNCHANGED dpVars
  /\ one # "boards" => UNCHANGED listVars
  /\ one # "window" => UNCHANGED atrVars
  /\ one # "image" => UNCHANGED imageVars
  /\ one # "shutdown" => UNCHANGED downVars
  /\ one # "boot" => UNCHANGED vars

MCNext ==
  /\ UNCHANGED part
  /\ \/ part = "timestamps" /\ TsNext /\ Others("timestamps")
     \/ part = "log" /\ LogNext /\ Others("log")
     \/ part = "descriptors" /\ DpNext /\ Others("descriptors")
     \/ part = "boards" /\ ListNext /\ Others("boards")
     \/ part = "window" /\ AtrNext /\ Others("window")
     \/ part = "image" /\ ImageNext /\ Others("image")
     \/ part = "shutdown" /\ DownNext /\ Others("shutdown")
     \/ part = "boot" /\ Next /\ Others("boot")

MCSpec ==
  MCInit /\ [][MCNext]_<<part, tsVars, logVars, dpVars, listVars, atrVars,
                        imageVars, downVars, vars>>

(* Scatter tables with entries shorter and longer than a page of two       *)
(* bytes, offsets behind the first entry, buffers that end anywhere in a   *)
(* page and fit the list, wrap it or do not fit; batches, whose entries    *)
(* are whole pages; and strides.                                           *)
MCCalls ==
  [sg : {<<3, 5>>, <<1, 2, 3>>}, offset : {0, 2}, size : {1, 2, 3, 5}, start : {0, 3},
   batch : {1}, irq : {TRUE}, stride : {0}]
  \union
  [sg : {<<4, 4>>}, offset : {0, 2}, size : {3, 8}, start : {3},
   batch : {1, 2}, irq : BOOLEAN, stride : {0}]
  \union
  [sg : {<<4, 2>>}, offset : {0}, size : {2, 3, 4}, start : {3},
   batch : {1}, irq : {TRUE}, stride : {1, 3}]

(* The calls are those of a client the theorem about the list is for.      *)
ASSUME CallsTidy == \A call \in Calls : Tidy(call)

MCListKinds == {[count |-> 4, is_circular |-> TRUE], [count |-> 3, is_circular |-> FALSE]}

(* Accesses within a window, across its end and over several.              *)
MCRanges == {r \in [addr : 0 .. 5, len : {1, 3, 4, 5, 9}] : r.addr + r.len <= MemSize}

MCImageSizes == 0 .. 16

(* Every batch of up to three files that the channels can take.            *)
MCBatches ==
  {sizes \in UNION {[1 .. n -> 1 .. 5] : n \in 1 .. 3} :
     DescsOf(sizes)[Len(sizes)] <= NumChannels * Usable}

Symmetry == Permutations(Boards)
=============================================================================
